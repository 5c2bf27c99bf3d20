------------------------------ MODULE MmcDisk ------------------------------
(***************************************************************************)
(* The five drivers for a memory card on port pins (src/mmc): taking and   *)
(* giving back the pins, finding the card, and the requests of the disk.   *)
(* Sizes are in units of 512 bytes, what a block transfer moves.           *)
(***************************************************************************)
EXTENDS Integers, Sequences, FiniteSets, SequencesExt

CONSTANTS
  Csds,       \* cards: [c_size, c_size_mult, read_bl_len], as the CSD register gives them
  Lates,      \* polls before a card answers a command
  Parts,      \* first sectors of the partition
  Sectors, Counts,  \* sectors and numbers of sectors that are asked for
  MaxWrites, MaxLoads   \* bounds

VARIABLES
  driver,            \* the driver that is loaded, or None
  ports, before,     \* the pins; history: the pins before the driver
  saved, actualhard, \* what cleanup gives back; the wiring that is set up, or None
  csd, cardAt,       \* the card and the wiring it is connected with
  nr_sects, hardsect, part, \* hd[0].nr_sects, hd_hardsectsizes[0], start_sect of the partition
  card,              \* what the card holds in each unit
  disk, spoilt, got, \* history: last write per sector; a rejected write; the last read
  loads              \* bound

\* mmc_card_config: blocks are of 512, 1024 or 2048 bytes; the length is kept in units.
BlockNr(c) == (c.c_size + 1) * 2^(c.c_size_mult + 2)
BlockLen(c) == 2^(c.read_bl_len - 9)

pins == <<driver, ports, before, saved, actualhard>>
medium == <<csd, cardAt, nr_sects, hardsect, part>>
vars == <<pins, medium, card, disk, spoilt, got, loads>>

None == <<>>
Capacity == BlockNr(csd) * BlockLen(csd)   \* in units
Unknown == 0 - 1

----------------------------------------------------------------------------
(* The drivers.  "in" is the line the card drives.                         *)

W1 == [clk |-> "B22", out |-> {"B19", "B22", "B23"}, in |-> "A07"]
W2 == [clk |-> "B17", out |-> {"A08", "B16", "B17"}, in |-> "A09"]
W3 == [clk |-> "A07", out |-> {"A08", "A07", "B22"}, in |-> "A09"]
W4 == [clk |-> "B17", out |-> {"B16", "B17", "B19"}, in |-> "B18"]
Wirings == {W1, W2, W3, W4}
Pins == UNION {w.out \cup {w.in} : w \in Wirings}

\* What they differ in: the polls for an answer, and the wirings tried.
Mmc      == [polls |-> 8, tries |-> <<W1>>, auto |-> FALSE, restores |-> FALSE]
Mmc2     == [polls |-> 8, tries |-> <<W2>>, auto |-> FALSE, restores |-> FALSE]
Mmc2Test == [polls |-> 9, tries |-> <<W2>>, auto |-> FALSE, restores |-> FALSE]
Mmc3Test == [polls |-> 8, tries |-> <<W3>>, auto |-> FALSE, restores |-> FALSE]
Combo(w) == [polls |-> 8, tries |-> <<w>>, auto |-> FALSE, restores |-> TRUE]
Auto     == [polls |-> 8, tries |-> <<W4, W1, W2>>, auto |-> TRUE, restores |-> TRUE]
Drivers  == {Mmc, Mmc2, Mmc2Test, Mmc3Test, Auto} \cup {Combo(w) : w \in {W1, W2, W4}}

TypeOK ==
  /\ driver \in Drivers \cup {None} /\ actualhard \in Wirings \cup {None}
  /\ ports \in [Pins -> [par : BOOLEAN, odr : BOOLEAN, dir : BOOLEAN, dat : BOOLEAN]]
  /\ nr_sects \in Nat /\ hardsect \in 0 .. 4 /\ part \in Parts

\* All pins assigned or none, all outputs that are high and may be open drains or all inputs.
Uniform(par, out) == [p \in Pins |-> [par |-> par, odr |-> out, dir |-> out, dat |-> out]]
NothingSaved == [par |-> {}, odr |-> {}, dir0 |-> {}, dir1 |-> {}, dat0 |-> {}, dat1 |-> {}]

Init ==
  /\ driver = None /\ saved = NothingSaved /\ actualhard = None
  /\ \E par, out \in BOOLEAN : ports = Uniform(par, out)
  /\ before = ports
  /\ csd \in Csds /\ cardAt \in Wirings
  /\ nr_sects = 0 /\ hardsect = 0 /\ part \in Parts
  /\ card = [u \in 0 .. Capacity - 1 |-> 0]
  /\ disk = [s \in 0 .. Capacity - 1 |-> 0] /\ spoilt = FALSE /\ got = None /\ loads = 0

----------------------------------------------------------------------------
(* Pins.                                                                   *)

\* mmc_hardware_init
Taken(p, w) ==
  [x \in Pins |->
    CASE x \in w.out -> [par |-> FALSE, odr |-> FALSE, dir |-> TRUE, dat |-> x # w.clk]
      [] x = w.in -> [p[x] EXCEPT !.par = FALSE, !.odr = FALSE, !.dir = FALSE]
      [] OTHER -> p[x]]

\* mmc3test gives its clock to a function of the processor instead of making it an output.
TakenBy(d, p, w) ==
  IF d # Mmc3Test THEN Taken(p, w)
  ELSE [Taken(p, w) EXCEPT ![w.clk].par = TRUE, ![w.clk].dir = p[w.clk].dir]

Drives(p, w) == p[w.clk].dir /\ ~p[w.clk].par

\* Wrong variant: only the lines that become outputs are remembered.
SavedOutputs(p, w) ==
  LET all == w.out \cup {w.in} IN
  [par |-> {x \in all : p[x].par}, odr |-> {x \in all : p[x].odr},
   dir0 |-> {x \in w.out : ~p[x].dir}, dir1 |-> {},
   dat0 |-> {x \in w.out : ~p[x].dat}, dat1 |-> {x \in w.out : p[x].dat}]

\* What is to be given back.  With wiring 4 it is forgotten that the card's line was an output.
Saved(p, w) ==
  LET all == w.out \cup {w.in} IN
  [par |-> {x \in all : p[x].par}, odr |-> {x \in all : p[x].odr},
   dir0 |-> {x \in w.out : ~p[x].dir}, dir1 |-> IF w = W4 THEN {} ELSE {x \in {w.in} : p[x].dir},
   dat0 |-> {x \in w.out : ~p[x].dat}, dat1 |-> {x \in w.out : p[x].dat}]

\* mmc_hardware_cleanup
Cleaned(p, s) ==
  [x \in Pins |-> [par |-> p[x].par \/ x \in s.par, odr |-> p[x].odr \/ x \in s.odr,
                   dir |-> (p[x].dir /\ x \notin s.dir0) \/ x \in s.dir1,
                   dat |-> (p[x].dat /\ x \notin s.dat0) \/ x \in s.dat1]]

GivenUp(t) == IF t.hard = None THEN t ELSE [t EXCEPT !.ports = Cleaned(@, t.saved), !.hard = None]

\* set_wiring_and_try: pins that are assigned are taken only by force; then the card gets a
\* number of attempts to start.
Retries(w) == IF w = W2 THEN 5 ELSE 2

TryWiring(t, w, d, force, fails) ==
  LET c == GivenUp(t)
      assigned == \E x \in w.out \cup {w.in} : c.ports[x].par IN
  IF t.found THEN t
  ELSE IF d.restores /\ assigned /\ ~force THEN c
  ELSE [ports |-> TakenBy(d, c.ports, w), hard |-> w, found |-> d.auto => fails < Retries(w) /\ w = cardAt,
        saved |-> IF d.restores THEN Saved(c.ports, w) ELSE c.saved]

Tried(d, force, fails) ==
  FoldLeft(LAMBDA t, w : TryWiring(t, w, d, force, fails),
           [ports |-> ports, hard |-> None, saved |-> NothingSaved, found |-> FALSE], d.tries)

----------------------------------------------------------------------------

\* mmc_card_init: the card answers the reset at one of eight polls, then it has Rounds
\* commands to get ready.
Rounds == 30000
Reset(a) == a.reset < 8
Ready(a) == a.ready < Rounds
CardInit(a) == IF ~Reset(a) THEN 1 ELSE IF ~Ready(a) THEN 2 ELSE 0
Attempts == {[reset |-> 8, ready |-> 0], [reset |-> 0, ready |-> Rounds], [reset |-> 7, ready |-> Rounds - 1]}

\* mmc_card_config: the command's answer, then the token, then the register and its checksum.
CardConfig(a) == IF a.answer >= 8 THEN 1 ELSE IF a.token >= 8 THEN 2 ELSE IF a.crc = 0 THEN 3 ELSE 0
Answers == [answer : Lates, token : Lates, crc : {0, 1}]

\* mmc_init: the card gets a second chance to start, none to tell its size.
Started(first, second) == CardInit(first) = 0 \/ CardInit(second) = 0
MmcInit(first, second, a) == Started(first, second) /\ CardConfig(a) = 0
Outcomes == {MmcInit(first, second, a) : first, second \in Attempts, a \in Answers}

\* Wrong variant: the number of blocks mmc_card_config leaves in hd[0].nr_sects counts.
SizeBlocks(c) == BlockNr(c) \div 2

\* The size is counted in KB, and in bytes of 32 bits before that.
SizeKB(c) == ((BlockNr(c) * BlockLen(c)) % 2^23) \div 2

Configured ==
  /\ hardsect' = BlockLen(csd)
  /\ nr_sects' = 2 * SizeKB(csd)

\* mmc_driver_init.  That mmc_init fails is not looked at: the disk then has no sectors.
\* fails: attempts to start the card that fail while the wiring is looked for.
Load(d, force, fails, inits) ==
  LET t == Tried(d, force, fails) IN
  /\ driver = None /\ loads < MaxLoads /\ loads' = loads + 1
  /\ before' = ports
  /\ IF t.found
       THEN /\ driver' = d /\ ports' = t.ports /\ actualhard' = t.hard /\ saved' = t.saved
            /\ IF inits /\ cardAt = t.hard /\ Drives(t.ports, t.hard) THEN Configured ELSE UNCHANGED <<nr_sects, hardsect>>
       ELSE /\ ports' = GivenUp(t).ports /\ saved' = t.saved
            /\ UNCHANGED <<driver, actualhard, nr_sects, hardsect>>
  /\ UNCHANGED <<csd, cardAt, part, card, disk, spoilt, got>>

\* mmc_driver_exit
Unload ==
  /\ driver # None /\ driver' = None
  /\ nr_sects' = 0 /\ hardsect' = 0 /\ actualhard' = None /\ got' = None
  /\ ports' = IF driver.restores THEN Cleaned(ports, saved) ELSE ports
  /\ UNCHANGED <<before, saved, csd, cardAt, part, card, disk, spoilt, loads>>

Revalidate(s) ==
  /\ driver # None /\ part' = s
  /\ UNCHANGED <<csd, cardAt, nr_sects, hardsect, pins, card, disk, spoilt, got, loads>>

----------------------------------------------------------------------------
(* mmc_request, one request at a time.                                     *)

InDisk(sector, n) == sector + n <= nr_sects

\* A block is answered in time and lies on the card.
Answered(u, late) == late < driver.polls /\ u \in DOMAIN card

\* Wrong variant: a sector is an address, whatever the block length.
UnitPlain(sector, i) == sector + i * hardsect

UnitOf(sector, i) == (sector + i) * hardsect

\* mmc_read_block per sector; the first one that fails ends the request.  The answer in the
\* place of the buffer where the block goes.
Read(sector, n, late) ==
  LET ok == InDisk(sector, n) /\ \A i \in 0 .. n - 1 : Answered(UnitOf(sector, i), late) IN
  /\ driver # None
  /\ got' = IF ok THEN [sector |-> sector, n |-> n,
                        buffer |-> [b \in {i * hardsect : i \in 0 .. n - 1} |->
                                      card[UnitOf(sector, b \div hardsect)]]]
            ELSE None
  /\ UNCHANGED pins /\ UNCHANGED medium /\ UNCHANGED <<card, disk, spoilt, loads>>

\* mmc_write_block per sector, from the buffer's places, which are the sector's own only for the
\* first when a block has two units; the token the card returns for the
\* data is read as a sign that it is busy, so a block it rejects counts as written.
\* A request that fails has written up to k blocks.
Write(sector, n, late, k, rejects) ==
  LET id == 1 + Cardinality({disk[s] : s \in DOMAIN disk} \ {0, Unknown})
      whole == k = n /\ \A i \in 0 .. n - 1 : Answered(UnitOf(sector, i), late)
      done == {i \in 0 .. k - 1 : \A j \in 0 .. i : Answered(UnitOf(sector, j), late)} IN
  /\ driver # None /\ InDisk(sector, n) /\ id <= MaxWrites
  /\ card' = [u \in DOMAIN card |->
                IF rejects \/ \A i \in done : u # UnitOf(sector, i) THEN card[u]
                ELSE IF hardsect = 1 \/ u = UnitOf(sector, 0) THEN id ELSE Unknown]
  /\ disk' = [s \in DOMAIN disk |->
                IF s \notin sector .. sector + n - 1 THEN disk[s]
                ELSE IF whole /\ (hardsect = 1 \/ s = sector) THEN id ELSE Unknown]
  /\ spoilt' = (spoilt \/ (rejects /\ done # {}))
  /\ got' = None
  /\ UNCHANGED pins /\ UNCHANGED medium /\ UNCHANGED loads

Request(sector, n, late) ==
  \/ Read(sector, n, late)
  \/ \E k \in 0 .. n, rejects \in BOOLEAN : Write(sector, n, late, k, rejects)

Next ==
  \/ \E d \in Drivers :
       \E force \in {FALSE, d.restores}, fails \in IF d.auto THEN {1, 4, 5} ELSE {0},
          inits \in Outcomes : Load(d, force, fails, inits)
  \/ Unload
  \/ \E s \in Parts : Revalidate(s)
  \/ \E s \in Sectors, n \in Counts, late \in Lates, start \in {0, part} : Request(s + start, n, late)

Spec == Init /\ [][Next]_vars

----------------------------------------------------------------------------

\* A sector that is read holds what was last written to it, through the disk or a partition,
\* whichever driver wrote it, as long as the card rejected nothing; of a card with blocks of
\* 1024 bytes only the first sector of a request is where it belongs in the buffer.
ReadsBack ==
  got # None /\ ~spoilt =>
    \A i \in 0 .. got.n - 1 :
      hardsect = 1 \/ i = 0 =>
        /\ i \in DOMAIN got.buffer
        /\ disk[got.sector + i] # Unknown => got.buffer[i] = disk[got.sector + i]

\* A disk that has sectors ends where its card ends: it offers no sector the card does not
\* have, and lacks none, whatever block length and number of blocks the card is made of.
SizeTrue == nr_sects \in {0, Capacity}

\* The combined driver leaves the pins as it found them, whether it finds the card or gives
\* up; the direction of the line the card drives is lost with wiring 4.
PortsBack ==
  driver = None /\ saved # NothingSaved =>
    \A x \in Pins : \A f \in {"par", "odr", "dir", "dat"} :
      ports[x][f] = before[x][f] \/ (x = "B18" /\ f = "dir")
=============================================================================
