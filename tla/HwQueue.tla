------------------------------ MODULE HwQueue ------------------------------
(***************************************************************************)
(* One queue of the AViA demux (avia_gt_dmx.c): the hardware writes bytes  *)
(* into a ring in DRAM, an interrupt samples its write position and judges *)
(* whether the reader was overrun, a bottom half hands what is there to    *)
(* the user of the queue, packet by packet.  A byte is its position in the *)
(* stream; packets begin at multiples of Packet.  With Packet = 1 this is  *)
(* a queue of PES data or sections, which needs no synchronisation.        *)
(*                                                                         *)
(* The hardware writes on while the processor is in the bottom half.       *)
(***************************************************************************)
EXTENDS Integers, SequencesExt, SequenceTheorems, TLAPS

CONSTANTS
  Size,     \* bytes of the ring
  Packet,   \* bytes of a packet (188)
  Slack,    \* the hardware interrupts again before it has written more than this
  Burst,    \* what it writes at most while a bottom half runs
  MaxPos    \* bound: bytes of the stream

VARIABLES
  mem, wr, wpos,   \* the hardware: the ring, bytes written, its write position
  q,               \* sAviaGtDmxQueue
  bh,              \* the bottom half: "idle", "queued" or "runs"
  sampled, began,  \* history: wr at the last interrupt and when the bottom half began
  next, tight,     \* history: the byte read_pos stands for; the ring was nearly full
  read             \* history: what the user of the queue was given before that

vars == <<mem, wr, wpos, q, bh, sampled, began, next, tight, read>>

Slots == 0 .. Size - 1
NoByte == 0 - 1

TypeOK ==
  /\ mem \in [Slots -> Int] /\ wpos \in Slots
  /\ q \in [busy : BOOLEAN, hw_write_pos : Slots, write_pos : Slots, read_pos : Slots,
            overflow : BOOLEAN]
  /\ bh \in {"idle", "queued", "runs"}

Init ==
  /\ mem = [i \in Slots |-> NoByte] /\ wr = 0 /\ wpos = 0
  /\ q = [busy |-> FALSE, hw_write_pos |-> 0, write_pos |-> 0, read_pos |-> 0,
          overflow |-> FALSE]
  /\ bh = "idle" /\ sampled = 0 /\ began = 0 /\ next = 0
  /\ tight = FALSE /\ read = <<>>

----------------------------------------------------------------------------
(* The processes that use the queue, and the hardware.                     *)

\* alloc_queue and queue_start: all positions are 0, the count of overflows is not reset.
Start ==
  /\ ~q.busy
  /\ q' = [q EXCEPT !.busy = TRUE, !.hw_write_pos = 0, !.write_pos = 0, !.read_pos = 0]
  /\ wpos' = 0 /\ sampled' = wr /\ next' = wr
  /\ UNCHANGED <<mem, wr, bh, began, tight, read>>

Stop ==
  /\ q.busy /\ bh # "runs"
  /\ q' = [q EXCEPT !.busy = FALSE]
  /\ UNCHANGED <<mem, wr, wpos, bh, sampled, began, next, tight, read>>

HardwareWrites ==
  /\ q.busy /\ wr < MaxPos
  /\ wr - sampled < Slack /\ (bh = "runs" => wr - began < Burst)
  /\ mem' = [mem EXCEPT ![wpos] = wr]
  /\ wr' = wr + 1 /\ wpos' = (wpos + 1) % Size
  /\ UNCHANGED <<q, bh, sampled, began, next, tight, read>>

----------------------------------------------------------------------------
(* The interrupt.                                                          *)

\* Wrong variant: a ring that is full to the last byte is taken for an empty one.
OverflowsLate(r, old, new) ==
  \/ r < old /\ r < new /\ new < old
  \/ old < r /\ (r < new \/ new < old)

\* From the read position and two samples of the write position.
Overflows(r, old, new) ==
  \/ r < old /\ r <= new /\ new < old
  \/ old < r /\ (r <= new \/ new < old)

Interrupt ==
  /\ q.busy /\ wr # sampled
  /\ q' = [q EXCEPT !.hw_write_pos = wpos,
                    !.overflow = @ \/ Overflows(q.read_pos, q.hw_write_pos, wpos)]
  /\ bh' = IF bh = "idle" THEN "queued" ELSE bh
  /\ sampled' = wr
  /\ UNCHANGED <<mem, wr, wpos, began, next, tight, read>>

----------------------------------------------------------------------------
(* The bottom half.                                                        *)

\* What is there, up to the end of the ring and from its beginning.
Buf1 == IF q.write_pos >= q.read_pos THEN q.write_pos - q.read_pos ELSE Size - q.read_pos
Buf2 == IF q.write_pos >= q.read_pos THEN 0 ELSE q.write_pos
Avail == Buf1 + Buf2

Peek(n) == [i \in 1 .. n |-> mem[(q.read_pos + i - 1) % Size]]

IsSync(b) == b # NoByte /\ b % Packet = 0

\* Wrong variant: the reader goes on where it was.
BhOverflowKeeps == q' = [q EXCEPT !.overflow = FALSE, !.write_pos = q.hw_write_pos]

\* After an overflow everything in the queue is dropped.
BhOverflow ==
  q' = [q EXCEPT !.overflow = FALSE, !.write_pos = q.hw_write_pos, !.read_pos = q.hw_write_pos]

BhStart ==
  /\ bh = "queued"
  /\ IF q.overflow
     THEN /\ BhOverflow
          /\ next' = sampled /\ bh' = "idle" /\ UNCHANGED tight
     ELSE /\ q' = [q EXCEPT !.write_pos = q.hw_write_pos]
          /\ bh' = "runs" /\ UNCHANGED next
          /\ tight' = (tight \/ (sampled - next < Size /\ wr - next > Size - Burst))
  /\ began' = wr
  /\ UNCHANGED <<mem, wr, wpos, sampled, read>>

\* Bytes are dropped, one at a time, until a packet begins, by the bottom half and by a callback.
Resync ==
  /\ bh = "runs" /\ Avail >= Packet /\ ~IsSync(mem[q.read_pos])
  /\ q' = [q EXCEPT !.read_pos = (@ + 1) % Size]
  /\ next' = next + 1
  /\ UNCHANGED <<mem, wr, wpos, bh, sampled, began, tight, read>>

\* The user of the queue takes a packet; with no user left nothing is taken.
TakePacket ==
  /\ bh = "runs" /\ q.busy /\ Avail >= Packet /\ IsSync(mem[q.read_pos])
  /\ read' = IF tight THEN read ELSE Append(read, Peek(Packet))
  /\ q' = [q EXCEPT !.read_pos = (@ + Packet) % Size]
  /\ next' = next + Packet
  /\ UNCHANGED <<mem, wr, wpos, bh, sampled, began, tight>>

\* avia_gt_napi_queue_callback_ts_pes hands over both parts at once, in place and without the
\* beginning of a packet at their end.  The user of the queue has one of the two callbacks.
TakeAll ==
  LET cut == Avail % Packet
      len1 == IF cut > Buf2 THEN Buf1 - (cut - Buf2) ELSE Buf1
      len2 == IF cut > Buf2 THEN 0 ELSE Buf2 - cut
      given == Peek(len1) \o [i \in 1 .. len2 |-> mem[i - 1]]
  IN  /\ bh = "runs" /\ q.busy /\ Avail >= Packet /\ IsSync(mem[q.read_pos])
      /\ read' = IF tight THEN read
                 ELSE read \o [k \in 1 .. Len(given) \div Packet |-> SubSeq(given, (k - 1) * Packet + 1, k * Packet)]
      /\ q' = [q EXCEPT !.read_pos = (@ + (Avail - cut)) % Size]
      /\ next' = next + Avail - cut
      /\ UNCHANGED <<mem, wr, wpos, bh, sampled, began, tight>>

BhEnd ==
  /\ bh = "runs" /\ (Avail < Packet \/ ~q.busy)
  /\ bh' = "idle"
  /\ UNCHANGED <<mem, wr, wpos, q, sampled, began, next, tight, read>>

Next ==
  \/ Start \/ Stop \/ HardwareWrites \/ Interrupt
  \/ BhStart \/ Resync \/ TakePacket \/ TakeAll \/ BhEnd

Spec == Init /\ [][Next]_vars

----------------------------------------------------------------------------
(* What the user of the queue relies on.                                   *)

IsWhole(p) == p[1] % Packet = 0 /\ \A i \in 1 .. Packet : p[i] = p[1] + i - 1

\* The interrupt sees every overrun in time: whatever the user is given is a packet as it
\* was sent, until the ring is so nearly full when a bottom half begins that the hardware
\* can reach what it reads before the next interrupt.
TakesWhole == \A i \in DOMAIN read : IsWhole(read[i])

\* To the user the queue is a stream of packets that may lose some, in order.
Numbers == [i \in DOMAIN read |-> read[i][1] \div Packet + 1]
Stream == INSTANCE LossyStream WITH sent <- (wr + Packet - 1) \div Packet, got <- Numbers
LossyAtWorst == Stream!Spec

----------------------------------------------------------------------------
(* Both, for a ring and packets of any size.  The hardware interrupts      *)
(* again before it has gone round the ring once.                           *)

Margins ==
  /\ Size \in Nat \ {0} /\ Packet \in Nat \ {0}
  /\ Slack \in 0 .. Size - 1 /\ Burst \in 0 .. Size

\* The reader stands where the byte next was written: it has not been overrun, or that is
\* still to be seen and what it takes is not reached yet.
InStep == ~tight /\ (~q.overflow \/ bh = "runs")

\* n bytes on from the position p is the position r, and how many bytes that is.
Ahead(p, n, r) == p + n = r \/ p + n = r + Size
Between(p, r) == IF r >= p THEN r - p ELSE Size - p + r

Queues == [busy : BOOLEAN, hw_write_pos : Slots, write_pos : Slots, read_pos : Slots,
           overflow : BOOLEAN]

QueueTypes ==
  /\ mem \in [Slots -> Int] /\ wpos \in Slots /\ q \in Queues
  /\ bh \in {"idle", "queued", "runs"} /\ tight \in BOOLEAN
  /\ wr \in Nat /\ sampled \in Nat /\ began \in Nat /\ next \in Nat

\* How far the hardware may be ahead of the interrupt, the bottom half and the reader.
Distances ==
  /\ sampled <= wr /\ wr - sampled <= Slack
  /\ bh = "runs" => began <= wr /\ wr - began <= Burst
  /\ InStep => next <= sampled
  /\ InStep /\ ~q.overflow => sampled - next < Size
  /\ InStep /\ bh = "runs" =>
       /\ next + Between(q.read_pos, q.write_pos) <= sampled
       /\ began + Burst - next <= Size

\* The positions are that far apart.
Positions ==
  /\ Ahead(q.hw_write_pos, wr - sampled, wpos)
  /\ InStep => Ahead(q.read_pos, sampled - next, q.hw_write_pos)

\* How many of the last bytes are known to be in the ring, and where.
Kept == IF InStep THEN wr - next ELSE wr - sampled
Back(p, k) == IF k <= p THEN p - k ELSE p + Size - k
Stored == \A k \in 1 .. Size : k <= Kept => mem[Back(wpos, k)] = wr - k

QueueInv == QueueTypes /\ Distances /\ Positions /\ Stored

\* Below two turns the remainder takes one subtraction.
LEMMA Turn ==
  ASSUME NEW a \in Nat, NEW b \in Nat \ {0}, a < 2 * b
  PROVE  a % b = IF a < b THEN a ELSE a - b
  BY SMT

\* A position moved on by less than a turn.
LEMMA Moves ==
  ASSUME Margins, NEW p \in Slots, NEW n \in 0 .. Size
  PROVE  (p + n) % Size \in Slots /\ Ahead(p, n, (p + n) % Size)
  <1> DEFINE a == p + n
             m == a % Size
  <1>1. a \in Nat /\ Size \in Nat \ {0} /\ a < 2 * Size
    BY DEF Margins, Slots
  <1>2. m = IF a < Size THEN a ELSE a - Size
    <2> HIDE DEF a
    <2> QED BY <1>1, Turn
  <1>3. m \in Slots /\ Ahead(p, n, m)
    <2> HIDE DEF m
    <2> QED BY <1>1, <1>2 DEF Slots, Ahead
  <1> QED BY <1>3

\* What is there is less than a turn, and what is taken of it is missing after.
LEMMA AvailMoves ==
  ASSUME Margins, NEW p \in Slots, NEW w \in Slots, NEW n \in 0 .. Between(p, w),
         NEW r \in Slots, Ahead(p, n, r)
  PROVE  Between(p, w) \in 0 .. Size - 1 /\ Between(r, w) = Between(p, w) - n
  BY DEF Margins, Slots, Ahead, Between

\* Avail, which the code computes as two parts, is the way from read_pos to write_pos.
LEMMA AvailIs ==
  ASSUME Margins, QueueTypes
  PROVE  Avail = Between(q.read_pos, q.write_pos)
  BY DEF Margins, QueueTypes, Queues, Slots, Avail, Buf1, Buf2, Between

\* The interrupt's judgement is right: if it sees no overflow, what was written since the last
\* one has not reached the reader.
LEMMA Judged ==
  ASSUME Margins, NEW p \in Slots, NEW old \in Slots, NEW new \in Slots,
         NEW d \in 0 .. Size - 1, NEW e \in 0 .. Size - 1,
         Ahead(p, d, old), Ahead(old, e, new), ~Overflows(p, old, new)
  PROVE  d + e < Size
  BY DEF Margins, Slots, Ahead, Overflows

\* Two ways in a row that make at most a turn.
LEMMA AheadAdds ==
  ASSUME Margins, NEW p \in Slots, NEW old \in Slots, NEW new \in Slots,
         NEW d \in Nat, NEW e \in Nat, d + e <= Size,
         Ahead(p, d, old), Ahead(old, e, new)
  PROVE  Ahead(p, d + e, new)
  BY DEF Margins, Slots, Ahead

\* What the reader has gone over is missing from the way that was before it.
LEMMA AheadTaken ==
  ASSUME Margins, NEW p \in Slots, NEW r \in Slots, NEW h \in Slots,
         NEW d \in 0 .. Size, NEW n \in 0 .. d, Ahead(p, d, h), Ahead(p, n, r)
  PROVE  Ahead(r, d - n, h)
  BY DEF Margins, Slots, Ahead

\* A position is no way ahead of itself.
LEMMA AheadNone ==
  ASSUME NEW p \in Slots, NEW d, d = 0, Margins
  PROVE  Ahead(p, d, p)
  BY DEF Margins, Slots, Ahead

\* One position on, the places behind it are one further back.
LEMMA BackMoves ==
  ASSUME Margins, NEW p \in Slots, NEW r \in Slots, Ahead(p, 1, r), NEW k \in 1 .. Size
  PROVE  /\ k = 1 => Back(r, k) = p
         /\ k # 1 => /\ Back(r, k) = Back(p, k - 1)
                    /\ Back(r, k) # p /\ Back(r, k) \in Slots
  BY DEF Margins, Slots, Ahead, Back

\* A byte at the reader is the one that was written there.
LEMMA ReadsByte ==
  ASSUME Margins, QueueInv, InStep, bh = "runs", NEW j \in 0 .. sampled - next - 1
  PROVE  mem[(q.read_pos + j) % Size] = next + j
  <1>1. /\ q.read_pos \in Slots /\ q.hw_write_pos \in Slots /\ wpos \in Slots
        /\ wr \in Nat /\ sampled \in Nat /\ next \in Nat /\ began \in Nat
        /\ next <= sampled /\ sampled <= wr /\ wr <= began + Burst /\ began + Burst - next <= Size
    BY DEF QueueInv, QueueTypes, Queues, Distances, Margins
  <1>2. wr - next \in 0 .. Size /\ j \in 0 .. Size /\ j < wr - next
    BY <1>1 DEF Margins
  <1>3. Ahead(q.read_pos, wr - next, wpos)
    <2>1. Ahead(q.read_pos, sampled - next, q.hw_write_pos) /\ Ahead(q.hw_write_pos, wr - sampled, wpos)
      BY DEF QueueInv, Positions
    <2>2. sampled - next \in Nat /\ wr - sampled \in Nat
          /\ (sampled - next) + (wr - sampled) = wr - next
      BY <1>1
    <2> QED BY <1>1, <1>2, <2>1, <2>2, AheadAdds
  <1> DEFINE p == (q.read_pos + j) % Size
             k == wr - next - j
  <1>4. p \in Slots /\ Ahead(q.read_pos, j, p)
    BY <1>1, <1>2, Moves
  <1>5. k \in 1 .. Size /\ k <= Kept /\ wr - k = next + j
    <2>1. Kept = wr - next
      BY DEF Kept
    <2> QED BY <1>1, <1>2, <2>1 DEF Margins
  <1>6. Back(wpos, k) = p
    <2> HIDE DEF p
    <2> QED BY <1>1, <1>2, <1>3, <1>4 DEF Back, Ahead, Slots, Margins
  <1>7. mem[Back(wpos, k)] = wr - k
    BY <1>5 DEF QueueInv, Stored
  <1> QED BY <1>5, <1>6, <1>7

\* The invariant holds of the ring nobody has used.
LEMMA QueueInit ==
  ASSUME Margins, Init
  PROVE  QueueInv
  <1>1. 0 \in Slots
    BY DEF Margins, Slots
  <1>2. q \in Queues /\ mem \in [Slots -> Int]
    BY <1>1 DEF Init, Queues, NoByte
  <1>3. /\ q.hw_write_pos = 0 /\ q.write_pos = 0 /\ q.read_pos = 0 /\ wpos = 0
        /\ wr = 0 /\ sampled = 0 /\ next = 0 /\ began = 0 /\ bh = "idle"
    BY DEF Init
  <1>4. QueueTypes
    BY <1>1, <1>2 DEF Init, QueueTypes
  <1>5. Distances
    BY <1>3 DEF Distances, Margins
  <1>6. Positions
    BY <1>3 DEF Positions, Ahead
  <1>7. Stored
    BY <1>3 DEF Stored, Kept
  <1> QED BY <1>4, <1>5, <1>6, <1>7 DEF QueueInv

\* queue_start sets all positions to the beginning of the ring, and what was stored is forgotten.
LEMMA StartKeeps ==
  ASSUME Margins, QueueInv, Start
  PROVE  QueueInv'
  <1>0. QueueTypes /\ Distances /\ 0 \in Slots
    BY DEF QueueInv, Margins, Slots
  <1>1. q' = [q EXCEPT !.busy = TRUE, !.hw_write_pos = 0, !.write_pos = 0, !.read_pos = 0]
    BY DEF Start
  <1>2. /\ q' \in Queues /\ q'.overflow = q.overflow
        /\ q'.hw_write_pos = 0 /\ q'.write_pos = 0 /\ q'.read_pos = 0
    BY <1>0, <1>1 DEF QueueTypes, Queues
  <1>3. /\ wpos' = 0 /\ sampled' = wr /\ next' = wr
        /\ mem' = mem /\ wr' = wr /\ bh' = bh /\ began' = began /\ tight' = tight
    BY DEF Start
  <1>4. QueueTypes'
    BY <1>0, <1>2, <1>3 DEF QueueTypes
  <1>5. Distances'
    <2>1. Between(q'.read_pos, q'.write_pos) = 0
      BY <1>2 DEF Between
    <2>2. Burst \in 0 .. Size /\ Slack \in Nat /\ Size \in Nat \ {0}
      BY DEF Margins
    <2>3. bh = "runs" => began <= wr /\ wr - began <= Burst
      BY <1>0 DEF Distances
    <2>4. wr \in Nat /\ began \in Nat
      BY <1>0 DEF QueueTypes
    <2>5. bh' = "runs" => began' + Burst - next' <= Size
      BY <1>3, <2>2, <2>3, <2>4
    <2> QED BY <1>3, <2>1, <2>2, <2>3, <2>4, <2>5 DEF Distances
  <1>6. wr' - sampled' = 0 /\ sampled' - next' = 0 /\ wr' - next' = 0
    BY <1>0, <1>3 DEF QueueTypes
  <1>7. Positions'
    BY <1>2, <1>3, <1>6 DEF Positions, Ahead
  <1>8. Kept' = 0
    BY <1>6 DEF Kept
  <1>9. Stored'
    BY <1>8 DEF Stored
  <1> QED BY <1>4, <1>5, <1>7, <1>9 DEF QueueInv

\* Nothing in the invariant depends on who uses the queue.
LEMMA StopKeeps ==
  ASSUME QueueInv, Stop
  PROVE  QueueInv'
  <1>1. q' = [q EXCEPT !.busy = FALSE] /\ q \in Queues
    BY DEF Stop, QueueInv, QueueTypes
  <1>2. /\ q' \in Queues /\ q'.overflow = q.overflow /\ q'.hw_write_pos = q.hw_write_pos
        /\ q'.write_pos = q.write_pos /\ q'.read_pos = q.read_pos
    BY <1>1 DEF Queues
  <1>3. UNCHANGED <<mem, wr, wpos, bh, sampled, began, next, tight>>
    BY DEF Stop
  <1>4. InStep' <=> InStep
    BY <1>2, <1>3 DEF InStep
  <1>5. QueueTypes' /\ Distances' /\ Positions'
    BY <1>2, <1>3, <1>4 DEF QueueInv, QueueTypes, Distances, Positions
  <1>6. Stored'
    BY <1>3, <1>4 DEF QueueInv, Stored, Kept, Back
  <1> QED BY <1>5, <1>6 DEF QueueInv

\* A byte the hardware writes does not reach one that is still to be read.
LEMMA HardwareKeeps ==
  ASSUME Margins, QueueInv, HardwareWrites
  PROVE  QueueInv'
  <1>0. /\ wr \in Nat /\ sampled \in Nat /\ began \in Nat /\ next \in Nat /\ wpos \in Slots
        /\ mem \in [Slots -> Int]
    BY DEF QueueInv, QueueTypes
  <1>1. /\ mem' = [mem EXCEPT ![wpos] = wr] /\ wr' = wr + 1 /\ wpos' = (wpos + 1) % Size
        /\ UNCHANGED <<q, bh, sampled, began, next, tight>>
        /\ wr - sampled < Slack /\ (bh = "runs" => wr - began < Burst)
    BY DEF HardwareWrites
  <1>2. wpos' \in Slots /\ Ahead(wpos, 1, wpos')
    <2>1. 1 \in 0 .. Size
      BY DEF Margins
    <2> QED BY <1>0, <1>1, <2>1, Moves
  <1>3. InStep' <=> InStep
    BY <1>1 DEF InStep
  <1>4. QueueTypes'
    BY <1>0, <1>1, <1>2 DEF QueueInv, QueueTypes
  <1>5. Distances'
    <2>1. Distances
      BY DEF QueueInv
    <2>2. sampled <= wr' /\ wr' - sampled <= Slack
      BY <1>0, <1>1, <2>1 DEF Distances, Margins
    <2>3. bh = "runs" => began <= wr' /\ wr' - began <= Burst
      BY <1>0, <1>1, <2>1 DEF Distances, Margins
    <2> QED BY <1>1, <1>3, <2>1, <2>2, <2>3 DEF Distances
  <1>6. Positions'
    <2>1. Positions /\ sampled <= wr /\ wr - sampled < Slack /\ q.hw_write_pos \in Slots
      BY <1>1 DEF QueueInv, QueueTypes, Queues, Distances
    <2>2. Ahead(q.hw_write_pos, (wr - sampled) + 1, wpos')
      <3>1. Ahead(q.hw_write_pos, wr - sampled, wpos)
        BY <2>1 DEF Positions
      <3>2. wr - sampled \in Nat /\ (wr - sampled) + 1 <= Size
        BY <1>0, <2>1 DEF Margins
      <3> QED BY <1>0, <1>2, <2>1, <3>1, <3>2, AheadAdds
    <2>3. (wr - sampled) + 1 = wr' - sampled'
      BY <1>0, <1>1
    <2> QED BY <1>1, <1>3, <2>1, <2>2, <2>3 DEF Positions
  <1>7. Stored'
    <2>1. Kept' = Kept + 1 /\ Kept \in Int
      BY <1>0, <1>1, <1>3 DEF Kept
    <2> SUFFICES ASSUME NEW k \in 1 .. Size, k <= Kept'
                 PROVE  mem'[Back(wpos', k)] = wr' - k
      BY DEF Stored, Back
    <2>2. /\ k = 1 => Back(wpos', k) = wpos
          /\ k # 1 => /\ Back(wpos', k) = Back(wpos, k - 1)
                     /\ Back(wpos', k) # wpos /\ Back(wpos', k) \in Slots
      BY <1>0, <1>2, BackMoves
    <2>3. CASE k = 1
      <3>1. mem'[wpos] = wr
        BY <1>0, <1>1
      <3>2. wr' - k = wr
        BY <1>0, <1>1, <2>3
      <3> QED BY <2>2, <2>3, <3>1, <3>2
    <2>4. CASE k # 1
      <3>1. k - 1 \in 1 .. Size /\ k - 1 <= Kept
        BY <2>1, <2>4 DEF Margins
      <3>2. mem[Back(wpos, k - 1)] = wr - (k - 1)
        BY <3>1 DEF QueueInv, Stored
      <3>3. wr - (k - 1) = wr' - k
        BY <1>0, <1>1
      <3>4. mem'[Back(wpos', k)] = mem[Back(wpos', k)]
        BY <1>0, <1>1, <2>2, <2>4
      <3> QED BY <2>2, <2>4, <3>2, <3>3, <3>4
    <2> QED BY <2>3, <2>4
  <1> QED BY <1>4, <1>5, <1>6, <1>7 DEF QueueInv

\* An interrupt that samples the write position judges the overflow right.
LEMMA InterruptKeeps ==
  ASSUME Margins, QueueInv, Interrupt
  PROVE  QueueInv'
  <1>0. /\ QueueTypes /\ Distances /\ Positions
        /\ wr \in Nat /\ sampled \in Nat /\ began \in Nat /\ next \in Nat /\ wpos \in Slots
        /\ q.read_pos \in Slots /\ q.hw_write_pos \in Slots /\ q.overflow \in BOOLEAN
        /\ Size \in Nat \ {0} /\ Slack \in 0 .. Size - 1 /\ Burst \in 0 .. Size
    BY DEF QueueInv, QueueTypes, Queues, Margins
  <1>1. /\ q' = [q EXCEPT !.hw_write_pos = wpos,
                          !.overflow = q.overflow \/ Overflows(q.read_pos, q.hw_write_pos, wpos)]
        /\ bh' = (IF bh = "idle" THEN "queued" ELSE bh) /\ sampled' = wr
        /\ UNCHANGED <<mem, wr, wpos, began, next, tight>>
    BY DEF Interrupt
  <1>2. /\ q' \in Queues /\ q'.hw_write_pos = wpos
        /\ q'.read_pos = q.read_pos /\ q'.write_pos = q.write_pos
        /\ ~q'.overflow => ~q.overflow /\ ~Overflows(q.read_pos, q.hw_write_pos, wpos)
    <2>1. Overflows(q.read_pos, q.hw_write_pos, wpos) \in BOOLEAN
      BY DEF Overflows
    <2> QED BY <1>0, <1>1, <2>1 DEF QueueTypes, Queues
  <1>3. /\ bh' = "runs" <=> bh = "runs"
        /\ bh' \in {"idle", "queued", "runs"}
    BY <1>0, <1>1 DEF QueueTypes
  <1>4. InStep' => InStep /\ (~q'.overflow \/ bh = "runs")
    BY <1>1, <1>2, <1>3 DEF InStep
  <1>5. QueueTypes'
    BY <1>0, <1>1, <1>2, <1>3 DEF QueueTypes
  <1>6. InStep' => next <= sampled /\ sampled <= wr
    BY <1>0, <1>4 DEF Distances
  <1>7. InStep' /\ ~q'.overflow => wr - next < Size
    <2> SUFFICES ASSUME InStep', ~q'.overflow PROVE wr - next < Size
      OBVIOUS
    <2>1. /\ sampled - next \in 0 .. Size - 1 /\ wr - sampled \in 0 .. Size - 1
      BY <1>0, <1>2, <1>4, <1>6 DEF Distances
    <2>2. /\ Ahead(q.read_pos, sampled - next, q.hw_write_pos)
          /\ Ahead(q.hw_write_pos, wr - sampled, wpos)
      BY <1>0, <1>4 DEF Positions
    <2>3. (sampled - next) + (wr - sampled) < Size
      BY <1>0, <1>2, <2>1, <2>2, Judged
    <2> QED BY <1>0, <2>3
  <1>8. InStep' => wr - next <= Size
    <2>1. InStep' /\ bh = "runs" => wr <= began + Burst /\ began + Burst - next <= Size
      BY <1>0, <1>4 DEF Distances
    <2> QED BY <1>0, <1>4, <1>7, <2>1
  <1>9. Distances'
    <2>1. sampled' <= wr' /\ wr' - sampled' <= Slack
      BY <1>0, <1>1
    <2>2. bh' = "runs" => began' <= wr' /\ wr' - began' <= Burst
      BY <1>0, <1>1, <1>3 DEF Distances
    <2>3. InStep' => next' <= sampled'
      BY <1>0, <1>1, <1>6
    <2>4. InStep' /\ ~q'.overflow => sampled' - next' < Size
      BY <1>1, <1>7
    <2>5. InStep' /\ bh' = "runs" =>
             /\ next' + Between(q'.read_pos, q'.write_pos) <= sampled'
             /\ began' + Burst - next' <= Size
      <3> SUFFICES ASSUME InStep', bh = "runs"
                   PROVE  /\ next + Between(q.read_pos, q.write_pos) <= wr
                          /\ began + Burst - next <= Size
        BY <1>1, <1>2, <1>3
      <3>1. /\ next + Between(q.read_pos, q.write_pos) <= sampled
            /\ began + Burst - next <= Size /\ sampled <= wr
        BY <1>0, <1>4 DEF Distances
      <3>2. Between(q.read_pos, q.write_pos) \in Int
        BY <1>0 DEF Between, QueueTypes, Queues, Slots
      <3> QED BY <1>0, <3>1, <3>2
    <2> QED BY <2>1, <2>2, <2>3, <2>4, <2>5 DEF Distances
  <1>10. Positions'
    <2>1. Ahead(wpos, wr - wr, wpos)
      BY <1>0, AheadNone
    <2>2. InStep' => Ahead(q.read_pos, wr - next, wpos)
      <3> SUFFICES ASSUME InStep' PROVE Ahead(q.read_pos, wr - next, wpos)
        OBVIOUS
      <3>1. /\ Ahead(q.read_pos, sampled - next, q.hw_write_pos)
            /\ Ahead(q.hw_write_pos, wr - sampled, wpos)
        BY <1>0, <1>4 DEF Positions
      <3>2. sampled - next \in Nat /\ wr - sampled \in Nat
            /\ (sampled - next) + (wr - sampled) = wr - next
        BY <1>0, <1>6
      <3>3. (sampled - next) + (wr - sampled) <= Size
        BY <1>8, <3>2
      <3> QED BY <1>0, <3>1, <3>2, <3>3, AheadAdds
    <2> QED BY <1>1, <1>2, <2>1, <2>2 DEF Positions
  <1>11. Stored'
    <2>1. Kept' <= Kept /\ Kept \in Int /\ Kept' \in Int
      BY <1>0, <1>1, <1>4, <1>6 DEF Kept, Distances
    <2>2. \A k \in 1 .. Size : k <= Kept' => k <= Kept
      BY <2>1
    <2> QED BY <1>1, <2>2 DEF QueueInv, Stored
  <1> QED BY <1>5, <1>9, <1>10, <1>11 DEF QueueInv

\* A bottom half that begins drops the queue after an overflow, or has all it reads before it.
LEMMA BhStartKeeps ==
  ASSUME Margins, QueueInv, BhStart
  PROVE  QueueInv'
  <1>0. /\ QueueTypes /\ Distances /\ Positions /\ bh = "queued"
        /\ wr \in Nat /\ sampled \in Nat /\ next \in Nat /\ wpos \in Slots
        /\ q.read_pos \in Slots /\ q.hw_write_pos \in Slots /\ tight \in BOOLEAN
        /\ Size \in Nat \ {0} /\ Burst \in 0 .. Size
        /\ sampled <= wr /\ wr - sampled <= Slack /\ Slack \in 0 .. Size - 1
    BY DEF BhStart, QueueInv, QueueTypes, Queues, Margins, Distances
  <1>1. began' = wr /\ UNCHANGED <<mem, wr, wpos, sampled>>
    BY DEF BhStart
  <1>2. CASE q.overflow
    <2>1. /\ q' = [q EXCEPT !.overflow = FALSE, !.write_pos = q.hw_write_pos,
                            !.read_pos = q.hw_write_pos]
          /\ next' = sampled /\ bh' = "idle" /\ tight' = tight
      BY <1>2 DEF BhStart, BhOverflow
    <2>2. /\ q' \in Queues /\ ~q'.overflow /\ q'.hw_write_pos = q.hw_write_pos
          /\ q'.read_pos = q.hw_write_pos
      BY <1>0, <2>1 DEF QueueTypes, Queues
    <2>3. QueueTypes'
      BY <1>0, <1>1, <2>1, <2>2 DEF QueueTypes
    <2>4. Distances'
      BY <1>0, <1>1, <2>1, <2>2 DEF Distances
    <2>5. Positions'
      <3>1. Ahead(q.hw_write_pos, sampled - sampled, q.hw_write_pos)
        BY <1>0, AheadNone
      <3> QED BY <1>0, <1>1, <2>1, <2>2, <3>1 DEF Positions
    <2>6. Kept' = Kept
      BY <1>0, <1>1, <1>2, <2>1 DEF Kept, InStep
    <2>7. Stored'
      BY <1>1, <2>6 DEF QueueInv, Stored
    <2> QED BY <2>3, <2>4, <2>5, <2>7 DEF QueueInv
  <1>3. CASE ~q.overflow
    <2>1. /\ q' = [q EXCEPT !.write_pos = q.hw_write_pos] /\ bh' = "runs" /\ next' = next
          /\ tight' = (tight \/ (sampled - next < Size /\ wr - next > Size - Burst))
      BY <1>3 DEF BhStart
    <2>2. /\ q' \in Queues /\ ~q'.overflow /\ q'.hw_write_pos = q.hw_write_pos
          /\ q'.read_pos = q.read_pos /\ q'.write_pos = q.hw_write_pos
      BY <1>0, <1>3, <2>1 DEF QueueTypes, Queues
    <2>3. tight' \in BOOLEAN /\ (~tight' => InStep /\ wr - next <= Size - Burst)
      <3>1. InStep => sampled - next < Size
        BY <1>0, <1>3 DEF Distances
      <3>2. ~tight => InStep
        BY <1>3 DEF InStep
      <3>3. (sampled - next < Size /\ wr - next > Size - Burst) \in BOOLEAN
        OBVIOUS
      <3>4. tight' \in BOOLEAN /\ (tight' <=> tight \/ (sampled - next < Size /\ wr - next > Size - Burst))
        BY <1>0, <2>1, <3>3
      <3>5. wr - next \in Int /\ Size - Burst \in Int
        BY <1>0
      <3> QED BY <3>1, <3>2, <3>4, <3>5
    <2>4. InStep' <=> ~tight'
      BY <2>1 DEF InStep
    <2>5. QueueTypes'
      BY <1>0, <1>1, <2>1, <2>2, <2>3 DEF QueueTypes
    <2>6. InStep' => /\ next <= sampled /\ sampled - next < Size
                     /\ Ahead(q.read_pos, sampled - next, q.hw_write_pos)
      BY <1>0, <1>3, <2>3, <2>4 DEF Distances, Positions
    <2>7. InStep' => Between(q.read_pos, q.hw_write_pos) = sampled - next
      BY <1>0, <2>6 DEF Between, Ahead, Slots
    <2>8. Distances'
      <3>1. InStep' => next + Between(q.read_pos, q.hw_write_pos) <= sampled
        BY <1>0, <2>7
      <3>2. InStep' => wr + Burst - next <= Size
        BY <1>0, <2>3, <2>4
      <3>3. wr <= wr /\ wr - wr <= Burst
        BY <1>0
      <3> QED BY <1>0, <1>1, <2>1, <2>2, <2>6, <3>1, <3>2, <3>3 DEF Distances
    <2>9. Positions'
      BY <1>0, <1>1, <2>1, <2>2, <2>6 DEF Positions
    <2>10. Stored'
      <3>1. Kept' <= Kept /\ Kept' \in Int /\ Kept \in Int
        <4>1. InStep => next <= sampled
          BY <1>0 DEF Distances
        <4>2. InStep' => InStep
          BY <2>3, <2>4
        <4> QED BY <1>0, <1>1, <2>1, <4>1, <4>2 DEF Kept
      <3>2. \A k \in 1 .. Size : k <= Kept' => k <= Kept
        BY <3>1
      <3> QED BY <1>1, <3>2 DEF QueueInv, Stored
    <2> QED BY <2>5, <2>8, <2>9, <2>10 DEF QueueInv
  <1> QED BY <1>2, <1>3

\* The reader moves on over n bytes of those that are there.
Moved(n) ==
  /\ q' = [q EXCEPT !.read_pos = (q.read_pos + n) % Size] /\ next' = next + n
  /\ UNCHANGED <<mem, wr, wpos, bh, sampled, began, tight>>

\* A reader that moves on over bytes that are there is still behind the write position.
LEMMA ReaderKeeps ==
  ASSUME Margins, QueueInv, bh = "runs",
         NEW n \in 0 .. Between(q.read_pos, q.write_pos), Moved(n)
  PROVE  QueueInv'
  <1>0. /\ QueueTypes /\ Distances /\ Positions
        /\ wr \in Nat /\ sampled \in Nat /\ next \in Nat /\ wpos \in Slots /\ began \in Nat
        /\ q.read_pos \in Slots /\ q.hw_write_pos \in Slots /\ q.write_pos \in Slots
        /\ Size \in Nat \ {0} /\ Burst \in 0 .. Size
    BY DEF QueueInv, QueueTypes, Queues, Margins
  <1> DEFINE r == (q.read_pos + n) % Size
  <1>1. q' = [q EXCEPT !.read_pos = r] /\ next' = next + n
        /\ UNCHANGED <<mem, wr, wpos, bh, sampled, began, tight>>
    BY DEF Moved
  <1>2. Between(q.read_pos, q.write_pos) \in 0 .. Size - 1
    BY <1>0 DEF Between, Slots
  <1>3. n \in 0 .. Size /\ n \in Nat
    BY <1>0, <1>2
  <1>4. r \in Slots /\ Ahead(q.read_pos, n, r)
    BY <1>0, <1>3, Moves
  <1> HIDE DEF r
  <1>5. Between(r, q.write_pos) = Between(q.read_pos, q.write_pos) - n
    BY <1>0, <1>4, AvailMoves
  <1>6. /\ q' \in Queues /\ q'.read_pos = r /\ q'.write_pos = q.write_pos
        /\ q'.hw_write_pos = q.hw_write_pos /\ q'.overflow = q.overflow
    BY <1>0, <1>1, <1>4 DEF QueueTypes, Queues
  <1>7. InStep' <=> InStep
    BY <1>1, <1>6 DEF InStep
  <1>8. QueueTypes'
    BY <1>0, <1>1, <1>3, <1>6 DEF QueueTypes
  <1>9. InStep => /\ next + Between(q.read_pos, q.write_pos) <= sampled
                  /\ began + Burst - next <= Size
                  /\ next + n <= sampled /\ next <= sampled
    BY <1>0, <1>2, <1>3 DEF Distances
  <1>10. Distances'
    <2>1. InStep => /\ next + n + Between(r, q.write_pos) <= sampled
                    /\ began + Burst - (next + n) <= Size
      BY <1>0, <1>2, <1>3, <1>5, <1>9
    <2>2. InStep /\ ~q.overflow => sampled - (next + n) < Size
      BY <1>0, <1>3 DEF Distances
    <2> QED BY <1>0, <1>1, <1>6, <1>7, <1>9, <2>1, <2>2 DEF Distances
  <1>11. Positions'
    <2>1. InStep => Ahead(r, sampled - (next + n), q.hw_write_pos)
      <3> SUFFICES ASSUME InStep PROVE Ahead(r, sampled - (next + n), q.hw_write_pos)
        OBVIOUS
      <3>1. Ahead(q.read_pos, sampled - next, q.hw_write_pos)
        BY <1>0 DEF Positions
      <3>2. wr <= began + Burst /\ sampled <= wr
        BY <1>0 DEF Distances
      <3>3. sampled - next \in 0 .. Size /\ n \in 0 .. sampled - next
        BY <1>0, <1>3, <1>9, <3>2
      <3>4. Ahead(r, (sampled - next) - n, q.hw_write_pos)
        BY <1>0, <1>4, <3>1, <3>3, AheadTaken
      <3>5. (sampled - next) - n = sampled - (next + n)
        BY <1>0, <1>3
      <3> QED BY <3>4, <3>5
    <2> QED BY <1>0, <1>1, <1>6, <1>7, <2>1 DEF Positions
  <1>12. Stored'
    <2>1. Kept' <= Kept /\ Kept' \in Int /\ Kept \in Int
      BY <1>0, <1>1, <1>3, <1>7 DEF Kept
    <2>2. \A k \in 1 .. Size : k <= Kept' => k <= Kept
      BY <2>1
    <2> QED BY <1>1, <2>2 DEF QueueInv, Stored
  <1> QED BY <1>8, <1>10, <1>11, <1>12 DEF QueueInv

\* A bottom half that ends leaves the positions.
LEMMA BhEndKeeps ==
  ASSUME QueueInv, BhEnd
  PROVE  QueueInv'
  <1>0. QueueTypes /\ Distances /\ Positions /\ wr \in Nat /\ sampled \in Nat /\ next \in Nat
    BY DEF QueueInv, QueueTypes
  <1>1. bh = "runs" /\ bh' = "idle" /\ UNCHANGED <<mem, wr, wpos, q, sampled, began, next, tight>>
    BY DEF BhEnd
  <1>2. InStep' => InStep
    BY <1>1 DEF InStep
  <1>3. QueueTypes' /\ Distances' /\ Positions'
    BY <1>0, <1>1, <1>2 DEF QueueTypes, Distances, Positions
  <1>4. Stored'
    <2>1. Kept' <= Kept /\ Kept' \in Int /\ Kept \in Int
      BY <1>0, <1>1, <1>2 DEF Kept, Distances
    <2>2. \A k \in 1 .. Size : k <= Kept' => k <= Kept
      BY <2>1
    <2> QED BY <1>1, <2>2 DEF QueueInv, Stored
  <1> QED BY <1>3, <1>4 DEF QueueInv

----------------------------------------------------------------------------
(* What the user of the queue is given.                                    *)

\* Quotients and remainders, as far as they are needed.
LEMMA Quotient ==
  ASSUME NEW a \in Nat, NEW b \in Nat \ {0}
  PROVE  /\ a \div b \in Nat /\ a % b \in 0 .. b - 1
         /\ a = (a \div b) * b + (a % b)
  BY SMT

\* Multiples less than one apart are in order.
LEMMA ProductOrder ==
  ASSUME NEW x \in Int, NEW y \in Int, NEW b \in Nat \ {0}, x * b < y * b + b
  PROVE  x <= y
  BY SMT

\* A quotient grows with its dividend.
LEMMA QuotientOrder ==
  ASSUME NEW a \in Nat, NEW c \in Nat, NEW b \in Nat \ {0}, a <= c
  PROVE  a \div b <= c \div b
  <1> DEFINE x == a \div b
             y == c \div b
             r == a % b
             t == c % b
  <1>1. /\ x \in Nat /\ y \in Nat /\ r \in 0 .. b - 1 /\ t \in 0 .. b - 1
        /\ a = x * b + r /\ c = y * b + t
    BY Quotient
  <1> HIDE DEF x, y, r, t
  <1>2. x * b \in Int /\ y * b \in Int
    BY <1>1
  <1>3. x * b < y * b + b
    BY <1>1, <1>2
  <1> QED BY <1>1, <1>3, ProductOrder DEF x, y

\* One divisor more, one quotient more.
LEMMA QuotientNext ==
  ASSUME NEW a \in Nat, NEW b \in Nat \ {0}
  PROVE  (a + b) \div b = a \div b + 1
  <1> DEFINE x == a \div b
             y == (a + b) \div b
             r == a % b
             t == (a + b) % b
  <1>1. /\ x \in Nat /\ r \in 0 .. b - 1 /\ a = x * b + r
    BY Quotient
  <1>2. y \in Nat /\ t \in 0 .. b - 1 /\ a + b = y * b + t
    <2> DEFINE c == a + b
    <2>1. c \in Nat
      OBVIOUS
    <2> HIDE DEF c
    <2>2. c \div b \in Nat /\ c % b \in 0 .. b - 1 /\ c = (c \div b) * b + (c % b)
      BY <2>1, Quotient
    <2> QED BY <2>2 DEF c
  <1> HIDE DEF x, y, r, t
  <1>3. x * b \in Int /\ y * b \in Int /\ (x + 1) * b = x * b + b /\ (y - 1) * b = y * b - b
    BY <1>1, <1>2
  <1>4. y <= x + 1
    <2>1. y * b < (x + 1) * b + b
      BY <1>1, <1>2, <1>3
    <2> QED BY <1>1, <1>2, <2>1, ProductOrder
  <1>5. x + 1 <= y
    <2>1. (x + 1) * b < y * b + b
      BY <1>1, <1>2, <1>3
    <2> QED BY <1>1, <1>2, <2>1, ProductOrder
  <1>6. y = x + 1
    BY <1>1, <1>2, <1>4, <1>5
  <1> QED BY <1>6 DEF x, y

\* Multiples of a packet on from the beginning of a packet begins another.
LEMMA MultipleAdds ==
  ASSUME NEW a \in Nat, NEW b \in Nat \ {0}, NEW m \in Nat, a % b = 0
  PROVE  m * b \in Nat /\ (a + m * b) % b = 0
  <1> DEFINE c == a + m * b
             x == a \div b
             y == c \div b
             t == c % b
  <1>1. m * b \in Nat
    BY SMT
  <1>2. c \in Nat
    BY <1>1
  <1>3. x \in Nat /\ a = x * b
    <2>1. x \in Nat /\ a = x * b + (a % b)
      BY Quotient
    <2>2. x * b \in Int
      BY <2>1
    <2> QED BY <2>1, <2>2
  <1>4. y \in Nat /\ t \in 0 .. b - 1 /\ c = y * b + t
    BY <1>2, Quotient
  <1>5. c = (x + m) * b
    BY <1>1, <1>3
  <1> HIDE DEF c, x, y, t
  <1>6. y * b \in Int /\ (x + m) * b \in Int /\ x + m \in Nat
    BY <1>3, <1>4
  <1>7. x + m <= y
    <2>1. (x + m) * b < y * b + b
      BY <1>4, <1>5, <1>6
    <2> QED BY <1>4, <1>6, <2>1, ProductOrder
  <1>8. y <= x + m
    <2>1. y * b < (x + m) * b + b
      BY <1>4, <1>5, <1>6
    <2> QED BY <1>4, <1>6, <2>1, ProductOrder
  <1>9. t = 0
    <2>1. y = x + m
      BY <1>4, <1>6, <1>7, <1>8
    <2> QED BY <1>4, <1>5, <1>6, <2>1
  <1> QED BY <1>1, <1>9 DEF c, t

\* Products are in the order of their factors.
LEMMA TimesOrder ==
  ASSUME NEW x \in Int, NEW y \in Int, NEW b \in Nat, x <= y
  PROVE  x * b <= y * b /\ x * b \in Int /\ y * b \in Int
  BY SMT

\* Different multiples are a divisor apart.
LEMMA TimesNext ==
  ASSUME NEW x \in Int, NEW y \in Int, NEW b \in Nat, x + 1 <= y
  PROVE  x * b + b <= y * b /\ x * b \in Int /\ y * b \in Int
  <1>1. (x + 1) * b <= y * b
    BY TimesOrder
  <1>2. (x + 1) * b = x * b + b /\ x * b \in Int /\ y * b \in Int
    BY SMT
  <1> QED BY <1>1, <1>2

\* A function on 1 .. n is a sequence.
LEMMA SeqOfValues ==
  ASSUME NEW n \in Nat, NEW S, NEW f, f = [k \in 1 .. n |-> f[k]], \A k \in 1 .. n : f[k] \in S
  PROVE  f \in Seq(S)
  <1>1. f \in [1 .. n -> S]
    OBVIOUS
  <1> QED BY <1>1

\* The i-th byte is i - 1 on from the first.
LEMMA IndexShift ==
  ASSUME NEW a \in Nat, NEW n \in Nat, NEW p \in Nat, NEW c \in Nat, NEW i \in 1 .. n, a >= n
  PROVE  /\ i - 1 \in 0 .. a - 1
         /\ (p + i) - 1 = p + (i - 1) /\ (c + i) - 1 = c + (i - 1)
  BY SMT

\* Such a sequence has n elements.
LEMMA LenIs ==
  ASSUME NEW n \in Nat, NEW f, f = [k \in 1 .. n |-> f[k]], NEW S, f \in Seq(S)
  PROVE  Len(f) = n
  <1>1. DOMAIN f = 1 .. n /\ DOMAIN f = 1 .. Len(f) /\ Len(f) \in Nat
    BY LenProperties
  <1> QED BY <1>1

\* A sequence with the elements of another begins with it.
LEMMA SamePrefix ==
  ASSUME NEW S, NEW f \in Seq(S), NEW g \in Seq(S), Len(f) <= Len(g),
         \A i \in 1 .. Len(f) : f[i] = g[i]
  PROVE  IsPrefix(f, g)
  <1> DEFINE n == Len(f)
             u == SubSeq(f, 1, n)
             v == SubSeq(g, 1, n)
  <1>1. n \in Nat /\ Len(g) \in Nat /\ DOMAIN f = 1 .. n /\ DOMAIN g = 1 .. Len(g)
    BY LenProperties
  <1>2. \A i \in 1 .. n : i \in 1 .. Len(g)
    BY <1>1
  <1>3. \A i \in 1 .. n : f[i] \in S /\ g[i] \in S
    BY <1>2, ElementOfSeq
  <1>4. u \in Seq(S) /\ Len(u) = n /\ \A i \in 1 .. n : u[i] = f[i]
    BY <1>1, <1>3
  <1>5. v \in Seq(S) /\ Len(v) = n /\ \A i \in 1 .. n : v[i] = g[i]
    BY <1>1, <1>2, <1>3
  <1>6. u = v
    <2> HIDE DEF u, v
    <2> QED BY <1>4, <1>5, SeqEqual
  <1> QED BY <1>1, <1>6 DEF IsPrefix

\* Whole packets of the stream between two places of it, each after the one before.
Packets(t, a, b) ==
  /\ t \in Seq(Seq(Int))
  /\ \A i \in DOMAIN t : IsWhole(t[i]) /\ t[i][1] \in a .. b - Packet
  /\ \A i, j \in DOMAIN t : i < j => t[i][1] + Packet <= t[j][1]

\* The stream g, cut into packets.
Cut(g) == [k \in 1 .. Len(g) \div Packet |-> SubSeq(g, (k - 1) * Packet + 1, k * Packet)]

\* What the user was given lies behind the reader, or behind what the interrupt has seen.
Bound == IF InStep THEN next ELSE sampled
ReadInv == Packets(read, 0, Bound)

\* A stretch of packets lies in every longer one.
LEMMA PacketsWiden ==
  ASSUME Margins, NEW a \in Int, NEW b \in Int, NEW c \in Int, b <= c, NEW t, Packets(t, a, b)
  PROVE  Packets(t, a, c)
  <1>1. Packet \in Nat
    BY DEF Margins
  <1>2. \A x \in a .. b - Packet : x \in a .. c - Packet
    BY <1>1
  <1> QED BY <1>2 DEF Packets

\* Two stretches of packets, one after the other, are one.
LEMMA PacketsJoin ==
  ASSUME Margins, NEW a \in Int, NEW b \in Int, NEW c \in Int, a <= b, b <= c,
         NEW s, Packets(s, a, b), NEW t, Packets(t, b, c)
  PROVE  Packets(s \o t, a, c)
  <1> DEFINE u == s \o t
  <1>1. Packet \in Nat /\ s \in Seq(Seq(Int)) /\ t \in Seq(Seq(Int))
    BY DEF Margins, Packets
  <1>2. /\ u \in Seq(Seq(Int)) /\ Len(u) = Len(s) + Len(t)
        /\ \A i \in 1 .. Len(u) : u[i] = IF i <= Len(s) THEN s[i] ELSE t[i - Len(s)]
    BY <1>1, ConcatProperties
  <1>3. DOMAIN u = 1 .. Len(u) /\ DOMAIN s = 1 .. Len(s) /\ DOMAIN t = 1 .. Len(t)
        /\ Len(s) \in Nat /\ Len(t) \in Nat
    BY <1>1, <1>2, LenProperties
  <1> HIDE DEF u
  <1>4. \A i \in DOMAIN s : IsWhole(s[i]) /\ s[i][1] \in a .. c - Packet /\ s[i][1] <= b - Packet
    <2>1. \A i \in DOMAIN s : IsWhole(s[i]) /\ s[i][1] \in a .. b - Packet
      BY DEF Packets
    <2>2. \A x \in a .. b - Packet : x \in a .. c - Packet /\ x <= b - Packet
      BY <1>1
    <2> QED BY <2>1, <2>2
  <1>5. \A i \in DOMAIN t : IsWhole(t[i]) /\ t[i][1] \in a .. c - Packet /\ t[i][1] >= b
    <2>1. \A i \in DOMAIN t : IsWhole(t[i]) /\ t[i][1] \in b .. c - Packet
      BY DEF Packets
    <2>2. \A x \in b .. c - Packet : x \in a .. c - Packet /\ x >= b
      BY <1>1
    <2> QED BY <2>1, <2>2
  <1>6. ASSUME NEW i \in DOMAIN u
        PROVE  IsWhole(u[i]) /\ u[i][1] \in a .. c - Packet
    <2>1. CASE i <= Len(s)
      <3>1. i \in DOMAIN s /\ u[i] = s[i]
        BY <1>2, <1>3, <2>1
      <3> QED BY <1>4, <3>1
    <2>2. CASE ~(i <= Len(s))
      <3>1. i - Len(s) \in DOMAIN t /\ u[i] = t[i - Len(s)]
        BY <1>2, <1>3, <2>2
      <3> QED BY <1>5, <3>1
    <2> QED BY <2>1, <2>2
  <1>7. ASSUME NEW i \in DOMAIN u, NEW j \in DOMAIN u, i < j
        PROVE  u[i][1] + Packet <= u[j][1]
    <2>1. CASE j <= Len(s)
      <3>1. /\ i \in DOMAIN s /\ u[i] = s[i]
            /\ j \in DOMAIN s /\ u[j] = s[j]
        BY <1>2, <1>3, <1>7, <2>1
      <3> QED BY <1>7, <3>1 DEF Packets
    <2>2. CASE i <= Len(s) /\ ~(j <= Len(s))
      <3>1. /\ i \in DOMAIN s /\ u[i] = s[i]
            /\ j - Len(s) \in DOMAIN t /\ u[j] = t[j - Len(s)]
        BY <1>2, <1>3, <2>2
      <3>2. s[i][1] \in a .. c - Packet /\ s[i][1] <= b - Packet
        BY <1>4, <3>1
      <3>3. t[j - Len(s)][1] \in a .. c - Packet /\ t[j - Len(s)][1] >= b
        BY <1>5, <3>1
      <3> DEFINE x == s[i][1]
                 y == t[j - Len(s)][1]
      <3>4. x \in Int /\ y \in Int /\ x <= b - Packet /\ y >= b
        BY <3>2, <3>3
      <3> HIDE DEF x, y
      <3>5. x + Packet <= y
        BY <1>1, <3>4
      <3> QED BY <3>1, <3>5 DEF x, y
    <2>3. CASE ~(i <= Len(s))
      <3>1. /\ i \in 1 .. Len(s) + Len(t) /\ j \in 1 .. Len(s) + Len(t) /\ ~(j <= Len(s))
        BY <1>2, <1>3, <1>7, <2>3
      <3>2. /\ i - Len(s) \in 1 .. Len(t) /\ j - Len(s) \in 1 .. Len(t)
            /\ i - Len(s) < j - Len(s)
        BY <1>3, <1>7, <2>3, <3>1
      <3>3. u[i] = t[i - Len(s)] /\ u[j] = t[j - Len(s)]
        BY <1>2, <2>3, <3>1
      <3> QED BY <1>3, <3>2, <3>3 DEF Packets
    <2> QED BY <2>1, <2>2, <2>3
  <1> QED BY <1>2, <1>6, <1>7 DEF Packets, u

\* A packet alone.
LEMMA OnePacket ==
  ASSUME Margins, NEW s \in Nat, s % Packet = 0, NEW p \in Seq(Int),
         \A i \in 1 .. Packet : p[i] = s + i - 1
  PROVE  Packets(<<p>>, s, s + Packet)
  <1>1. Packet \in Nat \ {0}
    BY DEF Margins
  <1>2. p[1] = s
    BY <1>1
  <1>3. IsWhole(p)
    BY <1>2 DEF IsWhole
  <1>4. <<p>> \in Seq(Seq(Int)) /\ DOMAIN <<p>> = {1} /\ <<p>>[1] = p
    OBVIOUS
  <1>5. s \in s .. (s + Packet) - Packet
    BY <1>1
  <1> QED BY <1>2, <1>3, <1>4, <1>5 DEF Packets

\* A piece that ends before l has its places in what is that long.
LEMMA InPiece ==
  ASSUME NEW len \in Nat, NEW o \in Nat, NEW l \in Int, NEW b \in Nat \ {0}, NEW e, e = o + b,
         e <= l, len >= l
  PROVE  /\ e \in Nat /\ e <= len
         /\ \A i \in 1 .. b : (o + 1) + i - 1 = o + i /\ o + i \in 1 .. len
         /\ \A i \in o + 1 .. e : i \in 1 .. len
  BY SMT

\* The n-th of the packets the stream is cut into.
LEMMA Piece ==
  ASSUME Margins, NEW s \in Nat, s % Packet = 0, NEW g \in Seq(Int),
         \A i \in 1 .. Len(g) : g[i] = s + i - 1, NEW k \in 1 .. Len(g) \div Packet
  PROVE  LET p == SubSeq(g, (k - 1) * Packet + 1, k * Packet)
         IN  /\ p \in Seq(Int) /\ IsWhole(p)
             /\ p[1] = s + (k - 1) * Packet /\ p[1] \in s .. (s + Len(g)) - Packet
  <1> DEFINE o == (k - 1) * Packet
             e == k * Packet
             p == SubSeq(g, o + 1, e)
             d == Len(g) \div Packet
             l == d * Packet
  <1>1. Packet \in Nat \ {0} /\ Len(g) \in Nat
    BY DEF Margins
  <1>2. d \in Nat /\ Len(g) = l + (Len(g) % Packet) /\ Len(g) % Packet \in 0 .. Packet - 1
    BY <1>1, Quotient
  <1>3. k \in Nat /\ k - 1 \in Nat /\ k <= d
    BY <1>2
  <1>4. o \in Nat /\ (s + o) % Packet = 0
    <2> DEFINE m == k - 1
    <2> HIDE DEF m
    <2>1. m \in Nat
      BY <1>3 DEF m
    <2>2. m * Packet \in Nat /\ (s + m * Packet) % Packet = 0
      BY <1>1, <2>1, MultipleAdds
    <2> QED BY <2>2 DEF m
  <1>5. e = o + Packet
    BY <1>1, <1>3
  <1> HIDE DEF d
  <1>6. e <= l /\ l \in Int
    BY <1>1, <1>2, <1>3, TimesOrder
  <1> HIDE DEF o, e, l
  <1>61. o \in Nat /\ Len(g) >= l
    <2> DEFINE r == Len(g) % Packet
    <2>1. Len(g) = l + r /\ r \in Nat
      BY <1>1, <1>2
    <2> HIDE DEF r
    <2> QED BY <1>1, <1>4, <1>6, <2>1
  <1>7. /\ e <= Len(g) /\ e \in Nat
        /\ \A i \in 1 .. Packet : (o + 1) + i - 1 = o + i /\ o + i \in 1 .. Len(g)
        /\ \A i \in o + 1 .. e : i \in 1 .. Len(g)
    BY <1>1, <1>5, <1>6, <1>61, InPiece
  <1>8. \A i \in o + 1 .. e : g[i] \in Int
    BY <1>7
  <1>9. /\ p \in Seq(Int) /\ \A i \in 1 .. e - (o + 1) + 1 : p[i] = g[(o + 1) + i - 1]
    BY <1>4, <1>7, <1>8, SubSeqProperties
  <1>10. ASSUME NEW i \in 1 .. Packet
         PROVE  p[i] = s + o + i - 1
    <2>1. i \in 1 .. e - (o + 1) + 1
      BY <1>1, <1>4, <1>5
    <2>2. p[i] = g[(o + 1) + i - 1]
      BY <1>9, <2>1
    <2>3. (o + 1) + i - 1 = o + i /\ o + i \in 1 .. Len(g)
      BY <1>7
    <2>4. g[o + i] = s + (o + i) - 1
      BY <2>3
    <2>5. s + (o + i) - 1 = s + o + i - 1
      BY <1>61
    <2> QED BY <2>2, <2>3, <2>4, <2>5
  <1>11. p[1] = s + o
    <2>1. 1 \in 1 .. Packet /\ s + o + 1 - 1 = s + o
      BY <1>1, <1>61
    <2> QED BY <1>10, <2>1
  <1>12. IsWhole(p)
    <2>1. \A i \in 1 .. Packet : p[i] = p[1] + i - 1
      BY <1>1, <1>10, <1>11
    <2> QED BY <1>4, <1>11, <2>1 DEF IsWhole
  <1>13. s + o \in s .. (s + Len(g)) - Packet
    BY <1>1, <1>4, <1>5, <1>7
  <1> QED BY <1>9, <1>11, <1>12, <1>13 DEF o, e, p

\* A stretch that begins with a packet is cut into packets (avia_gt_napi_queue_callback_ts_pes).
LEMMA PacketsCut ==
  ASSUME Margins, NEW s \in Nat, s % Packet = 0, NEW g \in Seq(Int),
         \A i \in 1 .. Len(g) : g[i] = s + i - 1
  PROVE  Packets(Cut(g), s, s + Len(g))
  <1> DEFINE t == Cut(g)
             d == Len(g) \div Packet
             First(k) == (k - 1) * Packet
  <1>1. Packet \in Nat \ {0} /\ Len(g) \in Nat
    BY DEF Margins
  <1>2. d \in Nat
    BY <1>1, Quotient
  <1>3. \A k \in 1 .. d : /\ t[k] \in Seq(Int) /\ IsWhole(t[k])
                          /\ t[k][1] = s + First(k) /\ t[k][1] \in s .. (s + Len(g)) - Packet
    <2> TAKE k \in 1 .. d
    <2>1. t[k] = SubSeq(g, (k - 1) * Packet + 1, k * Packet)
      BY DEF Cut
    <2> QED BY <2>1, Piece
  <1>4. t = [k \in 1 .. d |-> t[k]] /\ DOMAIN t = 1 .. d
    BY DEF Cut
  <1> HIDE DEF t, d
  <1>5. t \in Seq(Seq(Int))
    BY <1>2, <1>3, <1>4, SeqOfValues
  <1>6. ASSUME NEW i \in 1 .. d, NEW j \in 1 .. d, i < j
        PROVE  t[i][1] + Packet <= t[j][1]
    <2>1. i - 1 \in Int /\ j - 1 \in Int /\ (i - 1) + 1 <= j - 1
      BY <1>2, <1>6
    <2>2. First(i) + Packet <= First(j) /\ First(i) \in Int /\ First(j) \in Int
      BY <1>1, <2>1, TimesNext
    <2> HIDE DEF First
    <2>3. t[i][1] = s + First(i) /\ t[j][1] = s + First(j)
      BY <1>3
    <2> QED BY <1>1, <2>2, <2>3
  <1> QED BY <1>3, <1>4, <1>5, <1>6 DEF Packets, t

\* The bottom half that sees the beginning of a packet stands at one.
LEMMA AtPacket ==
  ASSUME Margins, QueueInv, bh = "runs", ~tight, Avail >= Packet
  PROVE  /\ InStep /\ Avail \in 0 .. Size - 1
         /\ \A j \in 0 .. Avail - 1 : mem[(q.read_pos + j) % Size] = next + j
         /\ IsSync(mem[q.read_pos]) => next % Packet = 0
  <1>1. InStep
    BY DEF InStep
  <1>2. /\ QueueTypes /\ Distances
        /\ q.read_pos \in Slots /\ q.write_pos \in Slots
        /\ next \in Nat /\ sampled \in Nat /\ Size \in Nat \ {0} /\ Packet \in Nat \ {0}
    BY DEF QueueInv, QueueTypes, Queues, Margins
  <1>3. Avail = Between(q.read_pos, q.write_pos) /\ Avail \in 0 .. Size - 1
    <2>1. Avail = Between(q.read_pos, q.write_pos)
      BY <1>2, AvailIs
    <2>2. Between(q.read_pos, q.write_pos) \in 0 .. Size - 1
      BY <1>2 DEF Between, Slots
    <2> QED BY <2>1, <2>2
  <1>4. next + Avail <= sampled
    BY <1>1, <1>2, <1>3 DEF Distances
  <1>5. \A j \in 0 .. Avail - 1 : mem[(q.read_pos + j) % Size] = next + j
    <2> TAKE j \in 0 .. Avail - 1
    <2>1. j \in 0 .. sampled - next - 1
      BY <1>2, <1>3, <1>4
    <2> QED BY <1>1, <2>1, ReadsByte
  <1>6. mem[q.read_pos] = next
    <2>1. 0 \in 0 .. Avail - 1 /\ q.read_pos + 0 = q.read_pos /\ next + 0 = next
      BY <1>2, <1>3 DEF Slots
    <2>2. mem[(q.read_pos + 0) % Size] = next + 0
      BY <1>5, <2>1
    <2>3. q.read_pos % Size = q.read_pos
      <3> DEFINE p == q.read_pos
      <3>1. p \in Nat /\ p < Size
        BY <1>2 DEF Slots
      <3> HIDE DEF p
      <3>2. p % Size = p
        BY <1>2, <3>1, Turn
      <3> QED BY <3>2 DEF p
    <2> QED BY <2>1, <2>2, <2>3
  <1> QED BY <1>1, <1>3, <1>5, <1>6 DEF IsSync

\* Lengths are naturals.
LEMMA AvailTypes ==
  ASSUME Margins, QueueTypes
  PROVE  Avail \in Nat /\ Buf1 \in Nat /\ Buf2 \in Nat
  BY DEF Margins, QueueTypes, Queues, Slots, Avail, Buf1, Buf2

\* The user is given what the reader moves over.
LEMMA GivenKeeps ==
  ASSUME Margins, QueueInv, ReadInv, bh = "runs",
         NEW n \in 0 .. Between(q.read_pos, q.write_pos), Moved(n),
         NEW t, ~tight => Packets(t, next, next + n),
         read' = IF tight THEN read ELSE read \o t
  PROVE  ReadInv' /\ (read' = read \/ (read' = read \o t /\ t \in Seq(Seq(Int))))
  <1>1. /\ next \in Nat /\ q \in Queues /\ tight \in BOOLEAN /\ n \in Int /\ n >= 0
    BY DEF QueueInv, QueueTypes, Margins, Between, Queues, Slots
  <1>2. /\ q' = [q EXCEPT !.read_pos = (q.read_pos + n) % Size] /\ next' = next + n
        /\ bh' = bh /\ tight' = tight /\ sampled' = sampled
    BY DEF Moved
  <1>3. q'.overflow = q.overflow
    BY <1>1, <1>2 DEF Queues
  <1>4. InStep <=> ~tight
    BY DEF InStep
  <1>5. InStep' <=> ~tight
    BY <1>2, <1>3 DEF InStep
  <1>6. CASE tight
    <2>1. read' = read /\ Bound' = Bound
      BY <1>2, <1>4, <1>5, <1>6 DEF Bound
    <2>2. Packets(read, 0, Bound)
      BY DEF ReadInv
    <2>3. Packets(read', 0, Bound')
      BY <2>1, <2>2
    <2> QED BY <2>1, <2>3 DEF ReadInv
  <1>7. CASE ~tight
    <2>1. read' = read \o t /\ Bound' = next + n /\ Bound = next
      BY <1>2, <1>4, <1>5, <1>7 DEF Bound
    <2>2. Packets(read, 0, next) /\ Packets(t, next, next + n)
      BY <1>7, <2>1 DEF ReadInv
    <2>3. Packets(read \o t, 0, next + n)
      <3>1. next + n \in Int /\ next <= next + n
        BY <1>1
      <3> QED BY <1>1, <2>2, <3>1, PacketsJoin
    <2> QED BY <2>1, <2>2, <2>3 DEF ReadInv, Packets
  <1> QED BY <1>6, <1>7

\* One packet taken is the packet that comes next.
LEMMA TakePacketGives ==
  ASSUME Margins, QueueInv, ReadInv, TakePacket
  PROVE  /\ QueueInv' /\ ReadInv' /\ UNCHANGED wr
         /\ read' = read \/ \E t \in Seq(Seq(Int)) : read' = read \o t
  <1>1. /\ bh = "runs" /\ Avail >= Packet /\ IsSync(mem[q.read_pos])
        /\ read' = (IF tight THEN read ELSE Append(read, Peek(Packet)))
        /\ q' = [q EXCEPT !.read_pos = (q.read_pos + Packet) % Size] /\ next' = next + Packet
        /\ UNCHANGED <<mem, wr, wpos, bh, sampled, began, tight>>
    BY DEF TakePacket
  <1>2. /\ QueueTypes /\ Packet \in Nat \ {0} /\ Size \in Nat \ {0} /\ next \in Nat
        /\ q.read_pos \in Slots /\ q.write_pos \in Slots
    BY DEF Margins, QueueInv, QueueTypes, Queues
  <1>3. Packet \in 0 .. Between(q.read_pos, q.write_pos) /\ Moved(Packet)
    <2>1. Avail = Between(q.read_pos, q.write_pos)
      BY <1>2, AvailIs
    <2>2. Between(q.read_pos, q.write_pos) \in Int
      BY <1>2 DEF Between, Slots
    <2>3. Packet \in 0 .. Between(q.read_pos, q.write_pos)
      BY <1>1, <1>2, <2>1, <2>2
    <2> QED BY <1>1, <2>3 DEF Moved
  <1> DEFINE p == Peek(Packet)
  <1>4. ASSUME ~tight
        PROVE  Packets(<<p>>, next, next + Packet)
    <2>1. next % Packet = 0 /\ \A j \in 0 .. Avail - 1 : mem[(q.read_pos + j) % Size] = next + j
          /\ Avail \in 0 .. Size - 1
      BY <1>1, <1>4, AtPacket
    <2>0. Avail \in Nat /\ Packet \in Nat /\ Avail >= Packet
      BY <1>1, <1>2, AvailTypes
    <2>2. ASSUME NEW i \in 1 .. Packet
          PROVE  p[i] = next + i - 1
      <3>1. p[i] = mem[(q.read_pos + i - 1) % Size]
        BY DEF Peek
      <3>2. i - 1 \in 0 .. Avail - 1 /\ (q.read_pos + i) - 1 = q.read_pos + (i - 1)
            /\ (next + i) - 1 = next + (i - 1)
        <4>1. q.read_pos \in Nat
          BY <1>2 DEF Slots
        <4> QED BY <2>0, <1>2, <4>1, IndexShift
      <3>3. mem[(q.read_pos + (i - 1)) % Size] = next + (i - 1)
        BY <2>1, <3>2
      <3> QED BY <3>1, <3>2, <3>3
    <2>3. p \in Seq(Int)
      <3>1. p = [i \in 1 .. Packet |-> p[i]]
        BY DEF Peek
      <3>2. \A i \in 1 .. Packet : p[i] \in Int
        BY <1>2, <2>2
      <3> HIDE DEF p
      <3> QED BY <1>2, <3>1, <3>2, SeqOfValues
    <2> HIDE DEF p
    <2> QED BY <1>2, <2>1, <2>2, <2>3, OnePacket
  <1> HIDE DEF p
  <1>5. read' = IF tight THEN read ELSE read \o <<p>>
    <2>1. ~tight => p \in Seq(Int)
      BY <1>4 DEF Packets
    <2>2. read \in Seq(Seq(Int))
      BY DEF ReadInv, Packets
    <2>3. ~tight => Append(read, p) = read \o <<p>>
      BY <2>1, <2>2, AppendIsConcat
    <2> QED BY <1>1, <2>3 DEF p
  <1>6. QueueInv'
    BY <1>1, <1>3, ReaderKeeps
  <1>7. ReadInv' /\ (read' = read \/ (read' = read \o <<p>> /\ <<p>> \in Seq(Seq(Int))))
    BY <1>1, <1>3, <1>4, <1>5, GivenKeeps
  <1> QED BY <1>1, <1>6, <1>7

\* Both halves at once, the end cut to whole packets, are the packets that come next.
LEMMA TakeAllGives ==
  ASSUME Margins, QueueInv, ReadInv, TakeAll
  PROVE  /\ QueueInv' /\ ReadInv' /\ UNCHANGED wr
         /\ read' = read \/ \E t \in Seq(Seq(Int)) : read' = read \o t
  <1> DEFINE cut == Avail % Packet
             l1 == IF cut > Buf2 THEN Buf1 - (cut - Buf2) ELSE Buf1
             l2 == IF cut > Buf2 THEN 0 ELSE Buf2 - cut
             one == Peek(l1)
             two == [i \in 1 .. l2 |-> mem[i - 1]]
             g == one \o two
             n == Avail - cut
  <1>1. /\ bh = "runs" /\ Avail >= Packet /\ IsSync(mem[q.read_pos])
        /\ read' = (IF tight THEN read ELSE read \o Cut(g))
        /\ q' = [q EXCEPT !.read_pos = (q.read_pos + n) % Size] /\ next' = next + Avail - cut
        /\ UNCHANGED <<mem, wr, wpos, bh, sampled, began, tight>>
    BY DEF TakeAll, Cut
  <1>2. /\ QueueTypes /\ Packet \in Nat \ {0} /\ Size \in Nat \ {0} /\ next \in Nat
        /\ q.read_pos \in Slots /\ q.write_pos \in Slots
        /\ mem \in [Slots -> Int]
    BY DEF Margins, QueueInv, QueueTypes, Queues
  <1>3. /\ Avail = Between(q.read_pos, q.write_pos) /\ Avail \in Nat /\ Avail < Size
        /\ Avail = Buf1 + Buf2 /\ Buf1 \in Nat /\ Buf2 \in Nat
        /\ Buf2 # 0 => Buf1 = Size - q.read_pos
    <2>1. Avail = Between(q.read_pos, q.write_pos)
      BY <1>2, AvailIs
    <2>2. Between(q.read_pos, q.write_pos) < Size
      BY <1>2 DEF Between, Slots
    <2>3. Avail \in Nat /\ Buf1 \in Nat /\ Buf2 \in Nat
      BY <1>2, AvailTypes
    <2>4. Buf2 # 0 => Buf1 = Size - q.read_pos
      BY DEF Buf1, Buf2
    <2> QED BY <2>1, <2>2, <2>3, <2>4 DEF Avail
  <1>4. cut \in 0 .. Packet - 1
    <2> DEFINE a == Avail
    <2> HIDE DEF a
    <2>1. a \in Nat
      BY <1>3 DEF a
    <2>2. a % Packet \in 0 .. Packet - 1
      BY <1>2, <2>1, Quotient
    <2> QED BY <2>2 DEF a
  <1> HIDE DEF cut
  <1>5. cut \in 0 .. Avail /\ cut \in 0 .. Buf1 + Buf2
    <2>1. Packet \in Nat /\ Avail >= Packet
      BY <1>1, <1>2
    <2> QED BY <1>3, <1>4, <2>1
  <1>6. n \in 0 .. Between(q.read_pos, q.write_pos) /\ n \in Nat /\ next' = next + n
    <2>1. n \in Nat /\ n \in 0 .. Avail
      BY <1>3, <1>5
    <2>4. next' = next + n
      BY <1>1
    <2> HIDE DEF n
    <2>2. n \in 0 .. Between(q.read_pos, q.write_pos)
      BY <1>3, <2>1
    <2> QED BY <2>1, <2>2, <2>4
  <1>7. Moved(n)
    BY <1>1, <1>6 DEF Moved
  <1>8. /\ l1 \in Nat /\ l2 \in Nat /\ l1 + l2 = n
        /\ \A i \in l1 + 1 .. l1 + l2 :
             LET x == q.read_pos + (i - 1)
             IN  /\ i - l1 \in 1 .. l2 /\ i - l1 - 1 = x - Size
                 /\ x \in Nat /\ x < 2 * Size /\ ~(x < Size)
    <2>1. /\ l1 = IF cut > Buf2 THEN Buf1 - (cut - Buf2) ELSE Buf1
          /\ l2 = IF cut > Buf2 THEN 0 ELSE Buf2 - cut
      OBVIOUS
    <2>2. Buf1 + Buf2 < Size /\ (Buf1 + Buf2) - cut = n
      BY <1>3
    <2> HIDE DEF l1, l2, n
    <2>3. /\ l1 \in Nat /\ l2 \in Nat /\ l1 + l2 = (Buf1 + Buf2) - cut
          /\ \A i \in l1 + 1 .. l1 + l2 :
               /\ i - l1 \in 1 .. l2 /\ i - l1 - 1 = (q.read_pos + (i - 1)) - Size
               /\ q.read_pos + (i - 1) \in Nat /\ q.read_pos + (i - 1) < 2 * Size
               /\ ~(q.read_pos + (i - 1) < Size)
      <3>1. /\ q.read_pos \in Slots /\ Buf1 \in Nat /\ Buf2 \in Nat
            /\ Buf2 # 0 => Buf1 = Size - q.read_pos
            /\ Buf1 + Buf2 < Size /\ cut \in 0 .. Buf1 + Buf2
        BY <1>2, <1>3, <1>5, <2>2
      <3> QED BY <2>1, <3>1 DEF Margins, Slots
    <2> QED BY <2>2, <2>3
  <1> HIDE DEF l1, l2, n
  <1>9. ASSUME ~tight
        PROVE  /\ g \in Seq(Int) /\ Len(g) = n /\ next % Packet = 0
               /\ \A i \in 1 .. n : g[i] = next + i - 1
    <2>1. next % Packet = 0 /\ \A j \in 0 .. Avail - 1 : mem[(q.read_pos + j) % Size] = next + j
      BY <1>1, <1>9, AtPacket
    <2>2. \A j \in 0 .. n - 1 : mem[(q.read_pos + j) % Size] = next + j
      <3>1. n <= Avail /\ Avail \in Nat
        BY <1>3, <1>6
      <3>2. \A j \in 0 .. n - 1 : j \in 0 .. Avail - 1
        BY <1>6, <3>1
      <3> QED BY <2>1, <3>2
    <2>3. ASSUME NEW i \in 1 .. n
          PROVE  mem[(q.read_pos + i - 1) % Size] = next + i - 1
      <3>1. /\ i - 1 \in 0 .. n - 1 /\ (q.read_pos + i) - 1 = q.read_pos + (i - 1)
            /\ (next + i) - 1 = next + (i - 1)
        <4>1. q.read_pos \in Nat
          BY <1>2 DEF Slots
        <4>2. n \in Nat /\ n >= n
          BY <1>6
        <4> QED BY <1>2, <4>1, <4>2, IndexShift
      <3>2. mem[(q.read_pos + (i - 1)) % Size] = next + (i - 1)
        BY <2>2, <3>1
      <3> QED BY <3>1, <3>2
    <2>4. \A i \in 1 .. l1 : i \in 1 .. n
      BY <1>8
    <2>5. \A i \in 1 .. l1 : one[i] = next + i - 1
      BY <2>3, <2>4 DEF Peek
    <2>6. \A i \in l1 + 1 .. l1 + l2 : i \in 1 .. n /\ i - l1 \in 1 .. l2
      <3>1. \A i \in l1 + 1 .. l1 + l2 : i - l1 \in 1 .. l2
        BY <1>8
      <3>2. \A i \in l1 + 1 .. l1 + l2 : i \in 1 .. n
        BY <1>8
      <3> QED BY <3>1, <3>2
    <2>7. ASSUME NEW i \in l1 + 1 .. l1 + l2
          PROVE  two[i - l1] = next + i - 1
      <3> DEFINE x == q.read_pos + (i - 1)
      <3>1. /\ i - l1 \in 1 .. l2 /\ i - l1 - 1 = x - Size
            /\ x \in Nat /\ x < 2 * Size /\ ~(x < Size)
        BY <1>8
      <3>2. two[i - l1] = mem[i - l1 - 1]
        BY <3>1
      <3>3. x % Size = x - Size
        <4> HIDE DEF x
        <4> QED BY <1>2, <3>1, Turn
      <3>5. mem[(q.read_pos + i - 1) % Size] = next + i - 1
        BY <2>3, <2>6
      <3> HIDE DEF x, two
      <3>6. mem[x % Size] = next + i - 1
        BY <3>5 DEF x
      <3>7. x % Size = i - l1 - 1
        BY <3>1, <3>3
      <3> QED BY <3>2, <3>6, <3>7
    <2>8. one \in Seq(Int) /\ Len(one) = l1
      <3>1. one = [i \in 1 .. l1 |-> one[i]]
        BY DEF Peek
      <3>2. \A i \in 1 .. l1 : one[i] \in Int
        BY <1>2, <1>8, <2>5
      <3> HIDE DEF one
      <3>3. one \in Seq(Int)
        BY <1>8, <3>1, <3>2, SeqOfValues
      <3> QED BY <1>8, <3>1, <3>3, LenIs
    <2>9. two \in Seq(Int) /\ Len(two) = l2
      <3>1. two = [i \in 1 .. l2 |-> two[i]]
        OBVIOUS
      <3>2. \A i \in 1 .. l2 : two[i] \in Int
        <4> TAKE i \in 1 .. l2
        <4>1. l1 + i \in l1 + 1 .. l1 + l2 /\ (l1 + i) - l1 = i
          BY <1>8
        <4>2. two[(l1 + i) - l1] = next + (l1 + i) - 1
          BY <2>7, <4>1
        <4> HIDE DEF two
        <4> QED BY <1>2, <1>8, <4>1, <4>2
      <3> HIDE DEF two
      <3>3. two \in Seq(Int)
        BY <1>8, <3>1, <3>2, SeqOfValues
      <3> QED BY <1>8, <3>1, <3>3, LenIs
    <2> HIDE DEF one, two
    <2>10. /\ g \in Seq(Int) /\ Len(g) = l1 + l2
           /\ \A i \in 1 .. l1 + l2 : g[i] = IF i <= l1 THEN one[i] ELSE two[i - l1]
      BY <2>8, <2>9, ConcatProperties
    <2> HIDE DEF g
    <2>11. ASSUME NEW i \in 1 .. n
           PROVE  g[i] = next + i - 1
      <3>1. i \in 1 .. l1 + l2 /\ (i <= l1 => i \in 1 .. l1)
            /\ (~(i <= l1) => i \in l1 + 1 .. l1 + l2)
        BY <1>8
      <3> QED BY <2>5, <2>7, <2>10, <3>1
    <2> QED BY <1>8, <2>1, <2>10, <2>11
  <1> HIDE DEF one, two, g
  <1>10. ~tight => Packets(Cut(g), next, next + n)
    <2> SUFFICES ASSUME ~tight PROVE Packets(Cut(g), next, next + n)
      OBVIOUS
    <2>1. /\ g \in Seq(Int) /\ Len(g) = n /\ next % Packet = 0
          /\ \A i \in 1 .. Len(g) : g[i] = next + i - 1
      BY <1>9
    <2>2. Packets(Cut(g), next, next + Len(g))
      BY <1>2, <2>1, PacketsCut
    <2> QED BY <2>1, <2>2
  <1>11. QueueInv'
    BY <1>1, <1>6, <1>7, ReaderKeeps
  <1>12. ReadInv' /\ (read' = read \/ (read' = read \o Cut(g) /\ Cut(g) \in Seq(Seq(Int))))
    BY <1>1, <1>6, <1>7, <1>10, GivenKeeps
  <1> QED BY <1>1, <1>11, <1>12

----------------------------------------------------------------------------
(* Every step.                                                             *)

\* Where the reader gives nothing to the user, what is behind it only grows.
LEMMA OthersGive ==
  ASSUME Margins, QueueInv,
         Start \/ Stop \/ HardwareWrites \/ Interrupt \/ BhStart \/ BhEnd \/ UNCHANGED vars
  PROVE  read' = read /\ Bound <= Bound' /\ wr <= wr'
  <1>1. /\ wr \in Nat /\ sampled \in Nat /\ next \in Nat /\ q \in Queues /\ bh \in {"idle", "queued", "runs"}
        /\ sampled <= wr /\ (InStep => next <= sampled)
    BY DEF QueueInv, QueueTypes, Distances
  <1>2. Bound \in Nat /\ Bound <= sampled
    BY <1>1 DEF Bound
  <1>3. CASE Start
    <2>1. /\ sampled' = wr /\ next' = wr /\ wr' = wr /\ read' = read
      BY <1>3 DEF Start
    <2>2. Bound' = wr
      BY <2>1 DEF Bound
    <2> QED BY <1>1, <1>2, <2>1, <2>2
  <1>4. CASE Stop \/ HardwareWrites \/ UNCHANGED vars
    <2>1. /\ sampled' = sampled /\ next' = next /\ read' = read /\ bh' = bh /\ tight' = tight
      BY <1>4 DEF Stop, HardwareWrites, vars
    <2>2. q'.overflow = q.overflow
      BY <1>1, <1>4 DEF Stop, HardwareWrites, vars, Queues
    <2>3. Bound' = Bound
      BY <2>1, <2>2 DEF Bound, InStep
    <2>4. wr <= wr'
      BY <1>1, <1>4 DEF Stop, HardwareWrites, vars
    <2> QED BY <1>2, <2>1, <2>3, <2>4
  <1>5. CASE Interrupt
    <2>1. /\ q' = [q EXCEPT !.hw_write_pos = wpos,
                            !.overflow = q.overflow \/ Overflows(q.read_pos, q.hw_write_pos, wpos)]
          /\ bh' = (IF bh = "idle" THEN "queued" ELSE bh)
          /\ sampled' = wr /\ next' = next /\ wr' = wr /\ read' = read /\ tight' = tight
      BY <1>5 DEF Interrupt
    <2>2. ~q'.overflow => ~q.overflow
      BY <1>1, <2>1 DEF Queues
    <2>3. InStep' => InStep
      BY <1>1, <2>1, <2>2 DEF InStep
    <2>4. Bound' = next \/ Bound' = wr
      BY <2>1 DEF Bound
    <2>5. Bound' = wr \/ (InStep' /\ Bound' = next)
      BY <2>1 DEF Bound
    <2>6. Bound' = wr \/ Bound' = Bound
      BY <2>3, <2>5 DEF Bound
    <2> QED BY <1>1, <1>2, <2>1, <2>6
  <1>6. CASE BhStart
    <2>1. bh = "queued" /\ sampled' = sampled /\ wr' = wr /\ read' = read
      BY <1>6 DEF BhStart
    <2>2. CASE q.overflow
      <3>1. next' = sampled
        BY <1>6, <2>2 DEF BhStart
      <3>2. Bound' = sampled
        BY <2>1, <3>1 DEF Bound
      <3> QED BY <1>1, <1>2, <2>1, <3>2
    <2>3. CASE ~q.overflow
      <3>1. next' = next /\ (tight => tight')
        BY <1>6, <2>3 DEF BhStart
      <3>2. InStep <=> ~tight
        BY <2>3 DEF InStep
      <3>3. InStep' => InStep
        BY <3>1, <3>2 DEF InStep
      <3>4. Bound' = sampled \/ (InStep' /\ Bound' = next)
        BY <2>1, <3>1 DEF Bound
      <3>5. Bound' = sampled \/ Bound' = Bound
        BY <3>3, <3>4 DEF Bound
      <3> QED BY <1>1, <1>2, <2>1, <3>5
    <2> QED BY <2>2, <2>3
  <1>7. CASE BhEnd
    <2>1. /\ bh = "runs" /\ bh' = "idle"
          /\ UNCHANGED <<wr, q, sampled, next, tight, read>>
      BY <1>7 DEF BhEnd
    <2>2. InStep' => InStep
      BY <2>1 DEF InStep
    <2>3. Bound' = sampled \/ Bound' = Bound
      BY <2>1, <2>2 DEF Bound
    <2> QED BY <1>1, <1>2, <2>1, <2>3
  <1> QED BY <1>3, <1>4, <1>5, <1>6, <1>7

\* Every step keeps the invariant and only adds to what was given.
LEMMA QueueStep ==
  ASSUME Margins, QueueInv, ReadInv, [Next]_vars
  PROVE  /\ QueueInv' /\ ReadInv' /\ wr <= wr'
         /\ read' = read \/ \E t \in Seq(Seq(Int)) : read' = read \o t
  <1>1. CASE Start \/ Stop \/ HardwareWrites \/ Interrupt \/ BhStart \/ BhEnd \/ UNCHANGED vars
    <2>1. read' = read /\ Bound <= Bound' /\ wr <= wr'
      BY <1>1, OthersGive
    <2>2. QueueInv'
      <3>1. UNCHANGED vars => QueueInv'
        BY DEF vars, QueueInv, QueueTypes, Distances, Positions, Stored, Kept, InStep
      <3> QED BY <1>1, <3>1, StartKeeps, StopKeeps, HardwareKeeps, InterruptKeeps, BhStartKeeps, BhEndKeeps
    <2>3. Bound \in Int /\ Bound' \in Int
      <3>1. Bound \in Int
        BY DEF QueueInv, QueueTypes, Bound
      <3>2. Bound' \in Int
        BY <2>2 DEF QueueInv, QueueTypes, Bound
      <3> QED BY <3>1, <3>2
    <2>4. ReadInv'
      <3>1. Packets(read, 0, Bound)
        BY DEF ReadInv
      <3>2. Packets(read, 0, Bound')
        BY <2>1, <2>3, <3>1, PacketsWiden
      <3> QED BY <2>1, <3>2 DEF ReadInv
    <2> QED BY <2>1, <2>2, <2>4
  <1>2. CASE Resync
    <2>1. /\ bh = "runs" /\ Avail >= Packet /\ read' = read /\ wr' = wr
          /\ Moved(1)
      BY <1>2 DEF Resync, Moved
    <2>2. /\ QueueTypes /\ Packet \in Nat \ {0} /\ wr \in Nat /\ next \in Nat /\ q \in Queues
          /\ q.read_pos \in Slots /\ q.write_pos \in Slots
      BY DEF Margins, QueueInv, QueueTypes, Queues
    <2>3. 1 \in 0 .. Between(q.read_pos, q.write_pos)
      <3>1. Avail = Between(q.read_pos, q.write_pos) /\ Avail \in Nat
        BY <2>2, AvailIs, AvailTypes
      <3> QED BY <2>1, <2>2, <3>1
    <2>4. QueueInv'
      BY <2>1, <2>3, ReaderKeeps
    <2>5. ReadInv'
      <3>1. Packets(read, 0, Bound)
        BY DEF ReadInv
      <3>2. next' = next + 1 /\ sampled' = sampled
        BY <2>1 DEF Moved
      <3>3. Bound \in Int /\ Bound' \in Int /\ Bound <= Bound'
        <4>1. q' = [q EXCEPT !.read_pos = (q.read_pos + 1) % Size] /\ bh' = bh /\ tight' = tight
          BY <2>1 DEF Moved
        <4>2. q'.overflow = q.overflow
          BY <2>2, <4>1 DEF Queues
        <4>3. InStep' <=> InStep
          BY <4>1, <4>2 DEF InStep
        <4>4. sampled \in Nat
          BY DEF QueueInv, QueueTypes
        <4>5. (InStep => Bound = next /\ Bound' = next + 1) /\ (~InStep => Bound = sampled /\ Bound' = sampled)
          BY <3>2, <4>3 DEF Bound
        <4> QED BY <2>2, <4>4, <4>5
      <3>4. Packets(read, 0, Bound')
        BY <3>1, <3>3, PacketsWiden
      <3> QED BY <2>1, <3>4 DEF ReadInv
    <2> QED BY <2>1, <2>2, <2>4, <2>5
  <1>3. CASE TakePacket \/ TakeAll
    <2>1. /\ QueueInv' /\ ReadInv' /\ wr' = wr
          /\ read' = read \/ \E t \in Seq(Seq(Int)) : read' = read \o t
      BY <1>3, TakePacketGives, TakeAllGives
    <2>2. wr \in Nat
      BY DEF QueueInv, QueueTypes
    <2>3. wr <= wr'
      BY <2>1, <2>2
    <2> QED BY <2>1, <2>3
  <1> QED BY <1>1, <1>2, <1>3 DEF Next

\* Nothing has been given at the beginning.
LEMMA NothingRead ==
  ASSUME Margins, Init
  PROVE  ReadInv
  <1>1. read = <<>> /\ next = 0 /\ sampled = 0
    BY DEF Init
  <1>2. <<>> \in Seq(Seq(Int)) /\ DOMAIN <<>> = {}
    OBVIOUS
  <1> QED BY <1>1, <1>2 DEF ReadInv, Packets

\* Whatever the user of the queue is given is a packet as the hardware sent it.
THEOREM QueueTakesWhole ==
  ASSUME Size \in Nat \ {0}, Packet \in Nat \ {0}, Slack \in 0 .. Size - 1, Burst \in 0 .. Size
  PROVE  Spec => [](TypeOK /\ TakesWhole)
  <1> Margins
    BY DEF Margins
  <1>1. Init => QueueInv /\ ReadInv
    BY QueueInit, NothingRead
  <1>2. QueueInv /\ ReadInv /\ [Next]_vars => (QueueInv /\ ReadInv)'
    BY QueueStep
  <1>3. QueueInv /\ ReadInv => TypeOK /\ TakesWhole
    BY DEF QueueInv, QueueTypes, Queues, ReadInv, Packets, TypeOK, TakesWhole
  <1> QED BY <1>1, <1>2, <1>3, PTL DEF Spec

----------------------------------------------------------------------------
(* To the user the queue is a lossy stream.                                *)

\* The numbers of the packets of t, and of the packet the byte before w is in.
NumbersOf(t) == [i \in DOMAIN t |-> t[i][1] \div Packet + 1]
Begun(w) == (w + Packet - 1) \div Packet

\* A packet that ends before w has a number that has been sent.
LEMMA NumberFits ==
  ASSUME Margins, NEW w \in Nat, NEW x \in 0 .. w - Packet
  PROVE  x \div Packet + 1 \in 1 .. Begun(w)
  <1>1. Packet \in Nat \ {0} /\ x \in Nat
    BY DEF Margins
  <1>2. x + Packet <= w + Packet - 1 /\ x + Packet \in Nat /\ w + Packet - 1 \in Nat
    BY <1>1
  <1>3. x \div Packet \in Nat /\ Begun(w) \in Nat
    <2> DEFINE e == w + Packet - 1
    <2>1. e \in Nat
      BY <1>2
    <2> HIDE DEF e
    <2>2. e \div Packet \in Nat
      BY <1>1, <2>1, Quotient
    <2> QED BY <1>1, <2>2, Quotient DEF Begun, e
  <1>4. (x + Packet) \div Packet = x \div Packet + 1
    BY <1>1, QuotientNext
  <1>5. (x + Packet) \div Packet <= Begun(w)
    <2> DEFINE d == x + Packet
               e == w + Packet - 1
    <2>1. d \in Nat /\ e \in Nat /\ d <= e
      BY <1>2
    <2> HIDE DEF d, e
    <2>2. d \div Packet <= e \div Packet
      BY <1>1, <2>1, QuotientOrder
    <2> QED BY <2>2 DEF d, e, Begun
  <1> DEFINE y == x \div Packet
             z == (x + Packet) \div Packet
  <1> HIDE DEF y, z
  <1>6. y \in Nat /\ Begun(w) \in Nat /\ z = y + 1 /\ z <= Begun(w)
    BY <1>3, <1>4, <1>5 DEF y, z
  <1>7. y + 1 \in 1 .. Begun(w)
    BY <1>6
  <1> QED BY <1>7 DEF y

\* A later packet has a larger number.
LEMMA NumberRises ==
  ASSUME Margins, NEW x \in Nat, NEW y \in Nat, x + Packet <= y
  PROVE  x \div Packet + 1 < y \div Packet + 1
  <1>1. Packet \in Nat \ {0}
    BY DEF Margins
  <1> DEFINE d == x + Packet
             u == x \div Packet
             v == y \div Packet
  <1>2. d \in Nat /\ d <= y
    BY <1>1
  <1>3. d \div Packet = u + 1
    BY <1>1, QuotientNext
  <1>4. d \div Packet <= v
    <2> HIDE DEF d
    <2> QED BY <1>1, <1>2, QuotientOrder
  <1>5. u \in Nat /\ v \in Nat
    BY <1>1, Quotient
  <1>6. u + 1 <= v
    BY <1>3, <1>4
  <1> HIDE DEF u, v
  <1>7. u + 1 < v + 1
    BY <1>5, <1>6
  <1> QED BY <1>7 DEF u, v

\* Numbers of packets in order are in order and have been sent.
LEMMA NumbersFit ==
  ASSUME Margins, NEW w \in Nat, NEW b \in Int, b <= w, NEW t, Packets(t, 0, b)
  PROVE  /\ NumbersOf(t) \in Seq(Nat) /\ Len(NumbersOf(t)) = Len(t)
         /\ DOMAIN NumbersOf(t) = DOMAIN t
         /\ \A i \in DOMAIN t : NumbersOf(t)[i] \in 1 .. Begun(w)
         /\ \A i, j \in DOMAIN t : i < j => NumbersOf(t)[i] < NumbersOf(t)[j]
  <1> DEFINE g == NumbersOf(t)
  <1>1. Packet \in Nat \ {0} /\ t \in Seq(Seq(Int)) /\ Len(t) \in Nat /\ DOMAIN t = 1 .. Len(t)
    BY LenProperties DEF Margins, Packets
  <1>2. g = [i \in 1 .. Len(t) |-> g[i]] /\ DOMAIN g = DOMAIN t
        /\ \A i \in DOMAIN t : g[i] = t[i][1] \div Packet + 1
    BY <1>1 DEF NumbersOf
  <1>3. \A i \in DOMAIN t : t[i][1] \in 0 .. w - Packet /\ t[i][1] \in Nat
    <2>1. \A i \in DOMAIN t : t[i][1] \in 0 .. b - Packet
      BY DEF Packets
    <2>2. \A x \in 0 .. b - Packet : x \in 0 .. w - Packet /\ x \in Nat
      BY <1>1
    <2> QED BY <2>1, <2>2
  <1> HIDE DEF g
  <1>4. ASSUME NEW i \in DOMAIN t
        PROVE  g[i] \in 1 .. Begun(w) /\ g[i] \in Nat
    <2> DEFINE x == t[i][1]
    <2>1. x \in 0 .. w - Packet
      BY <1>3
    <2>2. g[i] = x \div Packet + 1
      BY <1>2
    <2> HIDE DEF x
    <2>3. x \div Packet + 1 \in 1 .. Begun(w)
      BY <2>1, NumberFits
    <2>4. g[i] \in 1 .. Begun(w)
      BY <2>2, <2>3
    <2> QED BY <2>4
  <1>5. ASSUME NEW i \in DOMAIN t, NEW j \in DOMAIN t, i < j
        PROVE  g[i] < g[j]
    <2> DEFINE x == t[i][1]
               y == t[j][1]
    <2>1. x \in Nat /\ y \in Nat /\ x + Packet <= y
      BY <1>3, <1>5 DEF Packets
    <2>2. g[i] = x \div Packet + 1 /\ g[j] = y \div Packet + 1
      BY <1>2
    <2> HIDE DEF x, y
    <2>3. x \div Packet + 1 < y \div Packet + 1
      BY <2>1, NumberRises
    <2> QED BY <2>2, <2>3
  <1>6. g \in Seq(Nat)
    BY <1>1, <1>2, <1>4, SeqOfValues
  <1>7. Len(g) = Len(t)
    BY <1>1, <1>2, <1>6, LenIs
  <1> QED BY <1>2, <1>4, <1>5, <1>6, <1>7 DEF g

\* What was given stays given.
LEMMA NumbersPrefix ==
  ASSUME Margins, NEW b \in Nat, NEW s, Packets(s, 0, b), NEW c \in Nat, NEW t \in Seq(Seq(Int)),
         Packets(s \o t, 0, c)
  PROVE  IsPrefix(NumbersOf(s), NumbersOf(s \o t))
  <1> DEFINE u == s \o t
             f == NumbersOf(s)
             g == NumbersOf(u)
  <1>1. s \in Seq(Seq(Int))
    BY DEF Packets
  <1>2. /\ Len(u) = Len(s) + Len(t) /\ Len(s) \in Nat /\ Len(t) \in Nat
        /\ \A i \in 1 .. Len(s) : u[i] = s[i]
        /\ DOMAIN s = 1 .. Len(s) /\ DOMAIN u = 1 .. Len(u)
    <2>1. /\ u \in Seq(Seq(Int)) /\ Len(u) = Len(s) + Len(t) /\ Len(s) \in Nat /\ Len(t) \in Nat
          /\ \A i \in 1 .. Len(s) + Len(t) : u[i] = IF i <= Len(s) THEN s[i] ELSE t[i - Len(s)]
      BY <1>1, ConcatProperties
    <2> HIDE DEF u
    <2>2. \A i \in 1 .. Len(s) : i \in 1 .. Len(s) + Len(t) /\ i <= Len(s)
      BY <2>1
    <2>3. DOMAIN s = 1 .. Len(s) /\ DOMAIN u = 1 .. Len(u)
      BY <1>1, <2>1, LenProperties
    <2> QED BY <2>1, <2>2, <2>3
  <1> HIDE DEF u
  <1>3. f \in Seq(Nat) /\ Len(f) = Len(s) /\ g \in Seq(Nat) /\ Len(g) = Len(u)
    <2>1. f \in Seq(Nat) /\ Len(f) = Len(s)
      BY NumbersFit
    <2>2. g \in Seq(Nat) /\ Len(g) = Len(u)
      <3>1. Packets(u, 0, c)
        BY DEF u
      <3> QED BY <3>1, NumbersFit
    <2> QED BY <2>1, <2>2
  <1>4. \A i \in 1 .. Len(s) : f[i] = g[i]
    <2>1. \A i \in 1 .. Len(s) : i \in DOMAIN s /\ i \in DOMAIN u
      BY <1>2
    <2> QED BY <1>2, <2>1 DEF NumbersOf
  <1> HIDE DEF f, g
  <1>5. IsPrefix(f, g)
    <2>1. Len(f) <= Len(g) /\ Len(f) \in Nat /\ Len(g) \in Nat
      BY <1>2, <1>3
    <2>2. \A i \in 1 .. Len(f) : f[i] = g[i]
      BY <1>3, <1>4
    <2> QED BY <1>3, <2>1, <2>2, SamePrefix
  <1> QED BY <1>5 DEF f, g, u

\* A step of the queue is a step of the stream.
LEMMA StreamStep ==
  ASSUME Margins, QueueInv, ReadInv, [Next]_vars
  PROVE  Stream!Next
  <1>1. /\ QueueInv' /\ ReadInv' /\ wr <= wr'
        /\ read' = read \/ \E t \in Seq(Seq(Int)) : read' = read \o t
    BY QueueStep
  <1>2. wr \in Nat /\ Bound \in Nat /\ Bound <= wr
    <2>1. /\ wr \in Nat /\ sampled \in Nat /\ next \in Nat /\ sampled <= wr
          /\ (InStep => next <= sampled)
      BY DEF QueueInv, QueueTypes, Distances
    <2> QED BY <2>1 DEF Bound
  <1>3. wr' \in Nat /\ Bound' \in Nat /\ Bound' <= wr'
    <2>1. /\ wr' \in Nat /\ sampled' \in Nat /\ next' \in Nat /\ sampled' <= wr'
          /\ (InStep' => next' <= sampled')
      BY <1>1 DEF QueueInv, QueueTypes, Distances
    <2> QED BY <2>1 DEF Bound
  <1> DEFINE r == read'
             w == wr'
             b == Bound'
  <1>4. Packets(read, 0, Bound) /\ Packets(r, 0, b)
    BY <1>1 DEF ReadInv
  <1>5. w \in Nat /\ b \in Nat /\ b <= w /\ wr <= w
        /\ (r = read \/ \E t \in Seq(Seq(Int)) : r = read \o t)
    BY <1>1, <1>3
  <1> HIDE DEF r, w, b
  <1>6. /\ DOMAIN NumbersOf(r) = DOMAIN r
        /\ \A i \in DOMAIN r : NumbersOf(r)[i] \in 1 .. Begun(w)
        /\ \A i, j \in DOMAIN r : i < j => NumbersOf(r)[i] < NumbersOf(r)[j]
    BY <1>4, <1>5, NumbersFit
  <1>7. IsPrefix(NumbersOf(read), NumbersOf(r))
    <2>1. CASE r = read
      <3>1. NumbersOf(read) \in Seq(Nat)
        BY <1>2, <1>4, NumbersFit
      <3>2. IsPrefix(NumbersOf(read), NumbersOf(read))
        BY <3>1 DEF IsPrefix
      <3> QED BY <2>1, <3>2
    <2>2. CASE \E t \in Seq(Seq(Int)) : r = read \o t
      <3>1. PICK t \in Seq(Seq(Int)) : r = read \o t
        BY <2>2
      <3>2. Packets(read \o t, 0, b)
        BY <1>4, <3>1
      <3>3. IsPrefix(NumbersOf(read), NumbersOf(read \o t))
        BY <1>2, <1>4, <1>5, <3>2, NumbersPrefix
      <3> QED BY <3>1, <3>3
    <2> QED BY <1>5, <2>1, <2>2
  <1>8. Begun(w) >= Begun(wr)
    <2> DEFINE d == wr + Packet - 1
               e == w + Packet - 1
    <2>1. Packet \in Nat \ {0} /\ d \in Nat /\ e \in Nat /\ d <= e
      BY <1>2, <1>5 DEF Margins
    <2> HIDE DEF d, e
    <2>2. d \div Packet <= e \div Packet
      BY <2>1, QuotientOrder
    <2>3. d \div Packet \in Nat /\ e \div Packet \in Nat
      BY <2>1, Quotient
    <2>4. e \div Packet >= d \div Packet
      BY <2>2, <2>3
    <2> QED BY <2>4 DEF Begun, d, e
  <1>9. Numbers = NumbersOf(read) /\ Numbers' = NumbersOf(r)
    BY DEF Numbers, NumbersOf, r
  <1>10. Begun(w) = ((wr + Packet - 1) \div Packet)' /\ Begun(wr) = (wr + Packet - 1) \div Packet
    BY DEF Begun, w
  <1> QED BY <1>6, <1>7, <1>8, <1>9, <1>10 DEF Stream!Next, Stream!Increasing, Stream!IsPrefix, IsPrefix

\* The queue implements LossyStream for whoever uses it.
THEOREM QueueIsLossy ==
  ASSUME Size \in Nat \ {0}, Packet \in Nat \ {0}, Slack \in 0 .. Size - 1, Burst \in 0 .. Size
  PROVE  Spec => LossyAtWorst
  <1> Margins
    BY DEF Margins
  <1>1. Init => QueueInv /\ ReadInv /\ Stream!Init
    <2>1. Init => Stream!Init
      <3> SUFFICES ASSUME Init PROVE Stream!Init
        OBVIOUS
      <3>1. Packet \in Nat \ {0} /\ 0 + Packet - 1 \in Nat /\ 0 + Packet - 1 < Packet
        BY DEF Margins
      <3>2. (0 + Packet - 1) \div Packet = 0
        <4> DEFINE d == 0 + Packet - 1
                   z == d \div Packet
                   m == d % Packet
        <4>1. d \in Nat /\ d < Packet
          BY <3>1
        <4> HIDE DEF d
        <4>2. z \in Nat /\ m \in 0 .. Packet - 1 /\ d = z * Packet + m
          BY <3>1, <4>1, Quotient
        <4> HIDE DEF z, m
        <4>3. z * Packet \in Int /\ z * Packet < 0 * Packet + Packet
          BY <3>1, <4>1, <4>2
        <4>4. z <= 0
          BY <3>1, <4>2, <4>3, ProductOrder
        <4>5. z = 0
          BY <4>2, <4>4
        <4> QED BY <4>5 DEF z, d
      <3>3. wr = 0 /\ read = <<>>
        BY DEF Init
      <3>4. Numbers = <<>>
        BY <3>3 DEF Numbers
      <3> QED BY <3>2, <3>3, <3>4 DEF Stream!Init
    <2> QED BY <2>1, QueueInit, NothingRead
  <1>2. QueueInv /\ ReadInv /\ [Next]_vars => (QueueInv /\ ReadInv)' /\ Stream!Next
    BY QueueStep, StreamStep
  <1> QED BY <1>1, <1>2, PTL DEF Spec, LossyAtWorst, Stream!Spec
=============================================================================
