------------------------------ MODULE IdeDrive ------------------------------
(***************************************************************************)
(* The IDE interface (ide/main.c): words pass between the drive and the    *)
(* processor through the fifo of a CPLD, which fills or drains it on its   *)
(* own as long as its control word says so.  CPLD and drive are external.  *)
(***************************************************************************)
EXTENDS Integers, Sequences

CONSTANTS
  Counts,    \* words of a transfer, by insw and by outsw
  MaxCalls   \* bound: transfers

VARIABLES
  loaded,    \* CPLD_CTRL_TIMING is set and the memory mapped: the access functions may run
  op,        \* what the processor does: [kind, count], count the words to go
  ctrl,      \* external: "off", "single", "repeat" or "writing"
  fifo,      \* external: words in the fifo
  drive,     \* external: words the drive has given out, or taken
  memory,    \* words of the transfer in memory
  asked,     \* history: words of the transfer
  start,     \* history: words the drive had given out before it
  gaveUp,    \* history: the fifo did not get empty in time
  calls

vars == <<loaded, op, ctrl, fifo, drive, memory, asked, start, gaveUp, calls>>

Full == 4
None == [kind |-> "none", count |-> 0]

TypeOK ==
  /\ loaded \in BOOLEAN /\ op \in [kind : {"none", "insw", "half", "inw", "last", "outsw"}, count : -3..20]
  /\ ctrl \in {"off", "single", "repeat", "writing"} /\ Len(fifo) <= Full
  /\ drive.given \in Nat /\ drive.taken \in Seq(Nat) /\ gaveUp \in BOOLEAN
  /\ ~loaded => op = None

Init ==
  /\ loaded = FALSE /\ op = None /\ ctrl = "off" /\ fifo = <<>>
  /\ drive = [given |-> 0, taken |-> <<>>] /\ memory = <<>> /\ asked = 0 /\ start = 0
  /\ gaveUp = FALSE /\ calls = 0

----------------------------------------------------------------------------

\* setup_cpld, whose detection leaves the fifo empty, or finds no CPLD; and dboxide_exit.
Setup ==
  /\ ~loaded /\ loaded' \in BOOLEAN /\ fifo' = <<>> /\ ctrl' = "off"
  /\ UNCHANGED <<op, drive, memory, asked, start, gaveUp, calls>>

Exit ==
  /\ loaded /\ op = None /\ loaded' = FALSE
  /\ UNCHANGED <<op, ctrl, fifo, drive, memory, asked, start, gaveUp, calls>>

Begin(kind, n) ==
  /\ loaded /\ op = None /\ calls < MaxCalls /\ calls' = calls + 1
  /\ op' = [kind |-> kind, count |-> n] /\ asked' = n
  /\ start' = drive.given /\ memory' = <<>>
  /\ drive' = [drive EXCEPT !.taken = <<>>]
  /\ UNCHANGED <<loaded, fifo, gaveUp>>

\* dboxide_insw: few words are read one by one (ATAPI).
Insw(n) ==
  \/ n >= 4 /\ Begin("insw", n) /\ ctrl' = "repeat"
  \/ n < 4 /\ Begin("inw", n) /\ ctrl' = "single"

Take(k) == memory' = memory \o SubSeq(fifo, 1, k) /\ fifo' = SubSeq(fifo, k + 1, Len(fifo))

Inw ==
  /\ op.kind = "inw" /\ fifo # <<>> /\ Take(1)
  /\ op' = IF op.count = 1 THEN None ELSE [op EXCEPT !.count = @ - 1]
  /\ ctrl' = IF op.count = 1 THEN "off" ELSE "single"
  /\ UNCHANGED <<loaded, drive, asked, start, gaveUp, calls>>

\* A word of 32 bits is two of the drive's.  The fifo was full; it fills again after the first of the two.
InswTake ==
  /\ op.kind = "insw" /\ op.count > 4 /\ Len(fifo) = Full /\ Take(2)
  /\ op' = [op EXCEPT !.kind = "half"]
  /\ UNCHANGED <<loaded, ctrl, drive, asked, start, gaveUp, calls>>

InswHalf ==
  /\ op.kind = "half" /\ Take(2)
  /\ op' = [kind |-> "insw", count |-> op.count - 4]
  /\ UNCHANGED <<loaded, ctrl, drive, asked, start, gaveUp, calls>>

\* Wrong variant: the reading goes on while the last words are taken.
StopLate ==
  /\ op.kind = "insw" /\ op.count <= 4 /\ Len(fifo) = Full
  /\ Take(2) /\ op' = [op EXCEPT !.kind = "last"]
  /\ UNCHANGED <<loaded, ctrl, drive, asked, start, gaveUp, calls>>

\* The reading is stopped when the fifo holds the last four words.
InswStop ==
  /\ op.kind = "insw" /\ op.count <= 4 /\ Len(fifo) = Full
  /\ ctrl' = "off" /\ Take(2) /\ op' = [op EXCEPT !.kind = "last"]
  /\ UNCHANGED <<loaded, drive, asked, start, gaveUp, calls>>

InswLast ==
  /\ op.kind = "last" /\ Take(2) /\ op' = None /\ ctrl' = "off"
  /\ UNCHANGED <<loaded, drive, asked, start, gaveUp, calls>>

\* dboxide_outsw: the words of a transfer are 1, 2, ...; the ones behind it are what lies there.
Outsw(n) == Begin("outsw", n) /\ ctrl' = "writing"

OutswPut ==
  /\ op.kind = "outsw" /\ op.count > 0 /\ fifo = <<>>
  /\ LET from == asked - op.count IN fifo' = [i \in 1..4 |-> from + i]
  /\ op' = [op EXCEPT !.count = @ - 4]
  /\ UNCHANGED <<loaded, ctrl, drive, memory, asked, start, gaveUp, calls>>

\* wait_for_fifo_empty, which gives up after a number of polls.
OutswEnd ==
  /\ op.kind = "outsw" /\ op.count <= 0 /\ op' = None /\ ctrl' = "off"
  /\ gaveUp' = (gaveUp \/ fifo # <<>>)
  /\ UNCHANGED <<loaded, fifo, drive, memory, asked, start, calls>>

----------------------------------------------------------------------------

\* The CPLD moves one word.
CpldReads ==
  /\ ctrl \in {"single", "repeat"} /\ Len(fifo) < Full
  /\ fifo' = Append(fifo, drive.given + 1) /\ drive' = [drive EXCEPT !.given = @ + 1]
  /\ ctrl' = IF ctrl = "single" THEN "off" ELSE ctrl
  /\ UNCHANGED <<loaded, op, memory, asked, start, gaveUp, calls>>

CpldWrites ==
  /\ ctrl = "writing" /\ fifo # <<>>
  /\ fifo' = Tail(fifo) /\ drive' = [drive EXCEPT !.taken = Append(@, Head(fifo))]
  /\ UNCHANGED <<loaded, op, ctrl, memory, asked, start, gaveUp, calls>>

Next ==
  \/ Setup \/ Exit \/ (\E n \in Counts : Insw(n) \/ Outsw(n)) \/ Inw \/ InswTake \/ InswHalf \/ InswStop \/ InswLast
  \/ OutswPut \/ OutswEnd \/ CpldReads \/ CpldWrites

Spec == Init /\ [][Next]_vars

----------------------------------------------------------------------------

\* Between transfers of full fifos no word is left in it: what the drive gave out is in memory, or
\* what memory held is in the drive, each once and in order, so that the next transfer begins right.
WordsInStep ==
  op = None /\ ~gaveUp /\ loaded /\ asked \in {n \in Counts : n % 4 = 0 \/ (n < 4 /\ drive.taken = <<>>)} =>
    /\ fifo = <<>>
    /\ drive.taken = <<>> => memory = [i \in 1..asked |-> start + i] /\ drive.given = start + asked
    /\ drive.taken # <<>> => drive.taken = [i \in 1..asked |-> i]
=============================================================================
