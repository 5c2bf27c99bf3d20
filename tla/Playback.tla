------------------------------ MODULE Playback ------------------------------
(***************************************************************************)
(* Playback from memory: avia_gt_dmx_queue_write fills the ring the        *)
(* decoder reads from (avia_gt_dmx.c).  The decoder moves its read         *)
(* position on by itself, also while the driver reads that position in two *)
(* words, low and high.  A byte is its number in what is written.          *)
(***************************************************************************)
EXTENDS Integers, Sequences

CONSTANTS
  RingSize,
  Word,      \* a position's low word counts to this
  Counts,    \* sizes of a write
  MaxBytes   \* bound: bytes of all writes

VARIABLES
  ring, rpos, wreg,   \* the ring, the decoder's read position and its write register
  wpos,               \* q->write_pos
  job,                \* the write that runs: where it is, what is left, blocking?
  pos,                \* the read of the decoder's position: the low word, the value before, the value
  sent, played        \* history: bytes taken from users; bytes the decoder has read

vars == <<ring, rpos, wreg, wpos, job, pos, sent, played>>

Slots == 0 .. RingSize - 1
Unread == RingSize   \* no position
NotReading == [low |-> 0, prev |-> Unread, value |-> Unread]
Idle == [at |-> "idle", todo |-> 0, count |-> 0, nonblock |-> FALSE]

TypeOK ==
  /\ rpos \in Slots /\ wreg \in Slots /\ wpos \in Slots
  /\ pos \in [low : 0 .. Word - 1, prev : Slots \cup {Unread}, value : Slots \cup {Unread}]
  /\ job \in [at : {"idle", "low", "high", "check", "put"}, todo : Nat, count : Nat, nonblock : BOOLEAN]

Init ==
  /\ ring = [i \in Slots |-> 0] /\ rpos = 0 /\ wreg = 0 /\ wpos = 0
  /\ job = Idle /\ pos = NotReading /\ sent = 0 /\ played = <<>>

\* Wrong variant: the byte that tells a full ring from an empty one is used.
FreeFull == IF wpos >= pos.value THEN (RingSize - wpos) + pos.value ELSE pos.value - wpos

Free == IF wpos >= pos.value THEN (RingSize - wpos) + pos.value - 1 ELSE pos.value - wpos - 1

Chunk == IF job.todo < RingSize - 1 THEN job.todo ELSE RingSize - 1

Write(n, nonblock) ==
  /\ job.at = "idle" /\ sent + n <= MaxBytes
  /\ job' = [at |-> "low", todo |-> n, count |-> n, nonblock |-> nonblock]
  /\ UNCHANGED <<ring, rpos, wreg, wpos, pos, sent, played>>

\* The low word, then the high one.
ReadLow ==
  /\ job.at = "low" /\ job' = [job EXCEPT !.at = "high"]
  /\ pos' = [pos EXCEPT !.low = rpos % Word]
  /\ UNCHANGED <<ring, rpos, wreg, wpos, sent, played>>

\* Wrong variant: the position is read once.
StableOnce(value) == TRUE

\* It is read until two values agree.
Stable(value) == value = pos.prev

ReadHigh ==
  LET value == (rpos \div Word) * Word + pos.low
  IN  /\ job.at = "high"
      /\ job' = [job EXCEPT !.at = IF Stable(value) THEN "check" ELSE "low"]
      /\ pos' = IF Stable(value) THEN [NotReading EXCEPT !.value = value] ELSE [pos EXCEPT !.prev = value]
      /\ UNCHANGED <<ring, rpos, wreg, wpos, sent, played>>

\* The free space is looked at every 10 ms, or once.
Check ==
  /\ job.at = "check"
  /\ job' = IF Free >= Chunk THEN [job EXCEPT !.at = "put"]
            ELSE IF job.nonblock THEN Idle ELSE [job EXCEPT !.at = "low"]
  /\ pos' = NotReading
  /\ UNCHANGED <<ring, rpos, wreg, wpos, sent, played>>

\* put_data copies in one part or two; then the decoder is told.
Put ==
  /\ job.at = "put"
  /\ ring' = [i \in Slots |-> LET k == (i - wpos + RingSize) % RingSize
                              IN  IF k < Chunk THEN sent + k + 1 ELSE ring[i]]
  /\ wpos' = (wpos + Chunk) % RingSize /\ wreg' = (wpos + Chunk) % RingSize
  /\ sent' = sent + Chunk
  /\ job' = IF job.todo = Chunk THEN Idle
            ELSE [job EXCEPT !.at = "low", !.todo = @ - Chunk]
  /\ UNCHANGED <<rpos, pos, played>>

DecoderReads ==
  /\ rpos # wreg
  /\ played' = Append(played, ring[rpos])
  /\ rpos' = (rpos + 1) % RingSize
  /\ UNCHANGED <<ring, wreg, wpos, job, pos, sent>>

Next ==
  \/ \E n \in Counts, b \in BOOLEAN : Write(n, b)
  \/ ReadLow \/ ReadHigh \/ Check \/ Put \/ DecoderReads

Fairness == WF_vars(DecoderReads) /\ WF_vars(ReadLow \/ ReadHigh \/ Check \/ Put)
Spec == Init /\ [][Next]_vars /\ Fairness

\* The decoder reads every byte once and in order, also those of writes longer than the ring.
PlaysAll == \A i \in DOMAIN played : played[i] = i

\* While the decoder reads, a write does not wait forever.
WriteEnds == job.at # "idle" ~> job.at = "idle"
=============================================================================
