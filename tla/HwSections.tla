----------------------------- MODULE HwSections -----------------------------
(***************************************************************************)
(* Sections filtered by the AViA demux (avia_gt_napi.c, avia_gt_dmx.c):    *)
(* the hardware writes them one after the other into a queue, with stuffing *)
(* between them; an interrupt takes the position it writes at from two     *)
(* registers of which only one can be read at a time; the callback of the  *)
(* queue cuts the sections out, checks and compares them and gives them to *)
(* the filters.                                                            *)
(*                                                                         *)
(* A byte is <<n, i>>, byte i of section n, and <<0, 0>> is stuffing.  The *)
(* hardware goes on while the processor is in the interrupt; it does not   *)
(* overwrite what is unread, which is the business of HwQueue.             *)
(***************************************************************************)
EXTENDS Integers, Sequences

CONSTANTS
  Size,         \* bytes of the queue
  Word,         \* values of the low position register
  Mask,         \* bytes a filter compares (DVB_DEMUX_MASK_MAX)
  Lengths,      \* lengths of the sections sent
  MaxLength,    \* 4096
  Misread,      \* lengths that a header read in the middle of a section may give
  Filters,      \* the filters of the feed: "table" and "other", see Kinds
  MaxSections   \* bound on the sections sent

VARIABLES
  mem, hw,      \* the ring and the position of the hardware in it
  left,         \* bytes of the section that is being written
  sent,         \* history: the sections sent, with length, first byte and checksum
  reg,          \* the interrupt between its reads of the position registers
  q,            \* read_pos and write_pos
  bh,           \* the callback: "idle", "queued" or bytes_avail
  got           \* history: what each filter was given, 0 for what was never sent

vars == <<mem, hw, left, sent, reg, q, bh, got>>

Slots    == 0 .. Size - 1
Stuffing == <<0, 0>>
NoRead   == 0 - 1

TypeOK ==
  /\ hw \in Slots /\ q \in [read : Slots, write : Slots]
  /\ reg \in [pc : {"idle", "low", "high"}, low : 0 .. Word - 1, previous : Slots \cup {NoRead}]
  /\ bh.pc \in {"idle", "queued", "runs"} /\ bh.avail \in 0 .. Size
  /\ left \in 0 .. MaxLength /\ Len(sent) <= MaxSections
  /\ DOMAIN got = Filters

Quiet == [pc |-> "idle", avail |-> 0]
NotReading == [pc |-> "idle", low |-> 0, previous |-> NoRead]

Init ==
  /\ mem = [i \in Slots |-> Stuffing] /\ hw = 0 /\ left = 0 /\ sent = <<>>
  /\ reg = NotReading /\ q = [read |-> 0, write |-> 0] /\ bh = Quiet
  /\ got = [f \in Filters |-> <<>>]

----------------------------------------------------------------------------
(* The hardware.                                                           *)

Room == (q.read - hw - 1) % Size > 0

Writes(b) == mem' = [mem EXCEPT ![hw] = b] /\ hw' = (hw + 1) % Size

\* A section begins; the checksum of a broadcast section may be wrong.
Begin(len, id, ok) ==
  /\ left = 0 /\ Room /\ Len(sent) < MaxSections
  /\ sent' = Append(sent, [len |-> len, id |-> id, ok |-> ok])
  /\ Writes(<<Len(sent) + 1, 1>>)
  /\ left' = len - 1
  /\ UNCHANGED <<reg, q, bh, got>>

Goes ==
  /\ left > 0 /\ Room
  /\ Writes(<<Len(sent), sent[Len(sent)].len - left + 1>>)
  /\ left' = left - 1
  /\ UNCHANGED <<sent, reg, q, bh, got>>

Stuffs ==
  /\ left = 0 /\ Room /\ sent # <<>>
  /\ mem[(hw - 1) % Size] # Stuffing
  /\ Writes(Stuffing)
  /\ UNCHANGED <<left, sent, reg, q, bh, got>>

----------------------------------------------------------------------------
(* The interrupt: avia_gt_dmx_queue_get_write_pos.                         *)

ReadLow ==
  /\ \/ reg.pc = "idle" /\ hw # q.write /\ bh.pc # "runs"
     \/ reg.pc = "low"
  /\ reg' = [reg EXCEPT !.pc = "high", !.low = hw % Word]
  /\ UNCHANGED <<mem, hw, left, sent, q, bh, got>>

\* Wrong variant: one reading will do.
StableOnce(now) == TRUE

\* The position is read until two readings agree.
Stable(now) == reg.previous = now

ReadHigh ==
  LET now == (hw \div Word) * Word + reg.low
  IN /\ reg.pc = "high"
     /\ IF Stable(now)
        THEN /\ reg' = NotReading
             /\ q' = [q EXCEPT !.write = now]
             /\ bh' = [bh EXCEPT !.pc = "queued"]
        ELSE /\ reg' = [reg EXCEPT !.pc = "low", !.previous = now % Size]
             /\ UNCHANGED <<q, bh>>
     /\ UNCHANGED <<mem, hw, left, sent, got>>

----------------------------------------------------------------------------
(* The callback.                                                           *)

Runs == bh.pc = "runs"

\* avia_gt_dmx_bh_task; after an overflow nothing is left in the queue.
Enter(overflow) ==
  /\ bh.pc = "queued" /\ reg.pc = "idle"
  /\ IF overflow THEN /\ q' = [q EXCEPT !.read = q.write]
                      /\ bh' = Quiet
     ELSE /\ bh' = [pc |-> "runs", avail |-> (q.write - q.read) % Size]
          /\ UNCHANGED q
  /\ UNCHANGED <<mem, hw, left, sent, reg, got>>

Takes(n) ==
  /\ q' = [q EXCEPT !.read = (@ + n) % Size]
  /\ bh' = [bh EXCEPT !.avail = @ - n]

Done == bh' = Quiet /\ UNCHANGED q

NextByte == mem[q.read]

\* Fewer than three bytes, or an incomplete section: the rest is for the next time.
TooFew ==
  /\ Runs /\ bh.avail < 3
  /\ Done
  /\ UNCHANGED <<mem, hw, left, sent, reg, got>>

RemoveStuffing ==
  /\ Runs /\ bh.avail >= 1 /\ NextByte = Stuffing
  /\ Takes(1)
  /\ UNCHANGED <<mem, hw, left, sent, reg, got>>

\* The length in the header, if it is one.
Announced == IF NextByte[2] = 1 THEN {sent[NextByte[1]].len} ELSE Misread

\* Out of sync: the queue is emptied, the feeds begin again with a new section.
Restart(len) ==
  /\ len > MaxLength
  /\ q' = [read |-> 0, write |-> 0] /\ hw' = 0 /\ left' = 0
  /\ bh' = Quiet
  /\ UNCHANGED <<mem, sent, reg, got>>

Wait(len) ==
  /\ len <= MaxLength /\ len > bh.avail
  /\ Done
  /\ UNCHANGED <<mem, hw, left, sent, reg, got>>

\* What a filter is shown: up to the end of the ring and on from its start.
Chunked(n) == [i \in 1 .. n |-> mem[(q.read + i - 1) % Size]]

\* The number of the section that these bytes are, 0 if they are none.
NumberOf(s) ==
  IF s[1][2] = 1 /\ Len(s) = sent[s[1][1]].len /\ \A i \in 1 .. Len(s) : s[i] = <<s[1][1], i>>
  THEN s[1][1] ELSE 0

\* The checksum is right, for all that was sent well; nothing else passes it.  That is the eNX: a GTX
\* does not check a section with four bytes or fewer before the end of the queue.
CrcOk(n) == n # 0 /\ sent[n].ok

\* Bytes are bits here: the first is the table, all others are 1.
Content(n, i) == IF n # 0 /\ i = 1 THEN sent[n].id ELSE 1

\* What two users ask for: table 1, or any table but 1 with a second byte of 1.
Asked == [table |-> [value |-> <<1, 0, 0>>, mask |-> {1}, mode |-> {1}, crc |-> TRUE],
          other |-> [value |-> <<1, 1, 1>>, mask |-> {1, 2}, mode |-> {2}, crc |-> FALSE]]

\* prepare_secfilters: the bytes that must agree and those of which one must differ.
AndMode(f)    == Asked[f].mask \cap Asked[f].mode
AndNotMode(f) == Asked[f].mask \ Asked[f].mode

Differ(f, s, i) == Asked[f].value[i] # Content(s[i][1], s[i][2])

Minimum(a, b) == IF a < b THEN a ELSE b

\* Whether i is in the mask; the byte behind the masks is the first that must differ.
InMask(f, i) == IF i <= Mask THEN i \in AndMode(f) ELSE 1 \in AndNotMode(f)

\* Wrong variant: the bytes that must differ are forgotten.
MatchesMaskOnly(f, s, n) == \A i \in AndMode(f) : i <= n => ~Differ(f, s, i)

\* The comparison.  After the last byte its difference is tested once more,
\* with the mask one further on.
Matches(f, s, n) ==
  LET m == Minimum(n, Mask)
  IN /\ \A i \in AndMode(f) : i <= m => ~Differ(f, s, i)
     /\ ~(InMask(f, m + 1) /\ Differ(f, s, m))
     /\ AndNotMode(f) # {} => \E i \in AndNotMode(f) : i <= m /\ Differ(f, s, i)

Give(len) ==
  LET s == Chunked(len)
      n == NumberOf(s)
  IN /\ len <= bh.avail /\ len <= MaxLength
     /\ got' = [f \in Filters |->
                  IF (Asked[f].crc => CrcOk(n)) /\ Matches(f, s, len)
                  THEN Append(got[f], n) ELSE got[f]]
     /\ Takes(len)
     /\ UNCHANGED <<mem, hw, left, sent, reg>>

Section ==
  /\ Runs /\ bh.avail >= 3 /\ NextByte # Stuffing
  /\ \E len \in Announced : Restart(len) \/ Wait(len) \/ Give(len)

----------------------------------------------------------------------------
Next ==
  \/ \E len \in Lengths, id \in {0, 1}, ok \in BOOLEAN : Begin(len, id, ok)
  \/ Goes \/ Stuffs
  \/ ReadLow \/ ReadHigh
  \/ \E overflow \in BOOLEAN : Enter(overflow)
  \/ TooFew \/ RemoveStuffing \/ Section

Spec == Init /\ [][Next]_vars

----------------------------------------------------------------------------
\* dvb_dmx_swfilter_sectionfilter: the comparison when the software filters.
Wanted(f, n) ==
  LET differs(i) == Asked[f].value[i] # Content(n, i)
  IN /\ \A i \in AndMode(f) : ~differs(i)
     /\ AndNotMode(f) # {} => \E i \in AndNotMode(f) : differs(i)

\* A filter that wants the checksum tested is given whole sections with a
\* right one, as they were sent and in that order, wherever the ring wraps and
\* whatever the hardware writes while its position is read; and every section
\* a filter is given is one that it would be given by the software.
SectionsWhole ==
  \A f \in Filters : \A i \in DOMAIN got[f] :
    /\ Asked[f].crc =>
         /\ got[f][i] # 0 /\ sent[got[f][i]].ok
         /\ i > 1 => got[f][i - 1] < got[f][i]
    /\ got[f][i] # 0 => Wanted(f, got[f][i])
=============================================================================
