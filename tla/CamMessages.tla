----------------------------- MODULE CamMessages -----------------------------
(***************************************************************************)
(* The conditional access module (cam.c): its interrupt queues a task that *)
(* reads a message over I2C, in two or three transfers, and puts it in a   *)
(* ring that CA_GET_MSG reads; CA_SEND_MSG sends a message and empties the *)
(* ring.  The task and the senders share the semaphore cam_busy.  Bytes    *)
(* put in the ring are numbered in the order they were put there.          *)
(*                                                                         *)
(* A reader that stops at the very end of the ring leaves its position     *)
(* outside of it, and a ring that is emptied there makes the task write    *)
(* past its end.  What that overwrites, and what is read from then on, is  *)
(* not followed.                                                           *)
(***************************************************************************)
EXTENDS Integers, SequencesExt, SequenceTheorems, FiniteSetTheorems, TLAPS

CONSTANTS
  Senders,      \* processes that send messages
  Size,         \* CAM_QUEUE_SIZE
  Lengths,      \* lengths of the module's messages, with their header and checksum
  Counts,       \* room in the messages of CA_GET_MSG
  MaxMessages   \* bound: messages of the module

VARIABLES
  chip, line,    \* external: the message that the module has, and its interrupt line
  masked, task,  \* the interrupt is masked until the task ends; the task
  busy, sender,  \* the semaphore, and where each sender is
  queue, wptr, rptr,
  past,          \* history: the task wrote past the end of the ring
  answers,       \* history: requests for the CA identifier that the task answered itself
  stored,        \* history: the message stored last [bytes, own length, changes]
  sent, got      \* history: bytes put in the ring, and the bytes that were read

transfer == <<chip, line, masked, task>>
ring == <<queue, wptr, rptr, past, stored, sent, got>>
vars == <<transfer, busy, sender, ring, answers>>

NoMessage == [id |-> 0, len |-> 0, request |-> FALSE]
Idle == [pc |-> "idle", len |-> 0, msg |-> NoMessage, changes |-> 0]

TypeOK ==
  /\ chip \in [id : 0..MaxMessages, len : Lengths \cup {0}, request : BOOLEAN] /\ line \in BOOLEAN /\ masked \in BOOLEAN
  /\ task.pc \in {"idle", "queued", "length", "body", "again", "store", "answer", "sending", "up"}
  /\ busy \in 0..1 + answers /\ sender \in [Senders -> {"idle", "waits", "sends"}]
  /\ wptr \in 0..Size /\ rptr \in 0..Size

Init ==
  /\ chip = NoMessage /\ line = FALSE
  /\ masked = FALSE /\ task = Idle /\ busy = 1 /\ sender = [p \in Senders |-> "idle"]
  /\ queue = [i \in 0..Size - 1 |-> 0] /\ wptr = 0 /\ rptr = 0
  /\ past = FALSE /\ answers = 0 /\ stored = [bytes |-> 0, own |-> 0, changes |-> 0] /\ sent = 0 /\ got = <<>>

----------------------------------------------------------------------------

\* The module has another message; it may come between two transfers of the task.
ChipChanges(l, request) ==
  /\ chip.id < MaxMessages
  /\ chip' = [id |-> chip.id + 1, len |-> l, request |-> request] /\ line' = TRUE
  /\ task' = [task EXCEPT !.changes = @ + 1]
  /\ UNCHANGED <<masked, busy, sender, ring, answers>>

\* cam_interrupt, with SA_ONESHOT.
Interrupt ==
  /\ line /\ ~masked /\ masked' = TRUE /\ task' = [task EXCEPT !.pc = "queued"]
  /\ UNCHANGED <<chip, line, busy, sender, ring, answers>>

Goes(pc) == task' = [task EXCEPT !.pc = pc]

TaskDown ==
  /\ task.pc = "queued" /\ busy > 0 /\ busy' = busy - 1 /\ Goes("length")
  /\ UNCHANGED <<chip, line, masked, sender, ring, answers>>

\* A transfer that fails ends the task.
RecvFails ==
  /\ task.pc \in {"length", "body", "again"} /\ Goes("up")
  /\ UNCHANGED <<chip, line, masked, busy, sender, ring, answers>>

\* The length, then that many bytes of the message.
RecvLength ==
  /\ task.pc = "length" /\ task' = [task EXCEPT !.pc = "body", !.len = chip.len, !.changes = 0]
  /\ UNCHANGED <<chip, line, masked, busy, sender, ring, answers>>

\* Wrong variant: a message of another length is taken as it is.
MismatchTaken(len) == FALSE

\* "length mismatch - try again"
Mismatch(len) == len # chip.len

RecvBody ==
  /\ task.pc = "body" /\ line' = FALSE
  /\ task' = [task EXCEPT !.pc = IF Mismatch(task.len) THEN "again" ELSE "store", !.msg = chip,
                          !.len = IF Mismatch(task.len) THEN chip.len ELSE @]
  /\ UNCHANGED <<chip, masked, busy, sender, ring, answers>>

\* Of the length that was read last.
RecvAgain ==
  /\ task.pc = "again" /\ line' = FALSE /\ task' = [task EXCEPT !.pc = "store", !.msg = chip]
  /\ UNCHANGED <<chip, masked, busy, sender, ring, answers>>

\* The bytes between two positions of the ring.
Used(w, r) == IF w < r THEN w - r + Size ELSE w - r

\* A message goes behind the byte 0x6f; one without room empties the ring and is dropped.  The
\* byte 0x6f is not counted, so a full ring may look empty.
Put(n) ==
  IF Size - Used(wptr, rptr) < n
  THEN wptr' = rptr /\ UNCHANGED <<queue, stored, sent>>
  ELSE /\ queue' = [i \in DOMAIN queue |->
                      LET k == (i - wptr + Size) % Size IN IF k <= n THEN sent + k + 1 ELSE queue[i]]
       /\ wptr' = (wptr + n + 1) % Size /\ sent' = sent + n + 1
       /\ stored' = [bytes |-> n, own |-> task.msg.len, changes |-> task.changes]

Store ==
  /\ task.pc = "store" /\ ~task.msg.request /\ wptr < Size
  /\ Put(task.len) /\ Goes("up")
  /\ UNCHANGED <<chip, line, masked, busy, sender, rptr, past, got, answers>>

StorePast ==
  /\ task.pc = "store" /\ ~task.msg.request /\ wptr = Size
  /\ past' = TRUE /\ Goes("up")
  /\ UNCHANGED <<chip, line, masked, busy, sender, queue, wptr, rptr, stored, sent, got, answers>>

\* A request for the CA identifier: up, and cam_write_message.
Request ==
  /\ task.pc = "store" /\ task.msg.request
  /\ busy' = busy + 1 /\ answers' = answers + 1 /\ Goes("answer")
  /\ UNCHANGED <<chip, line, masked, sender, ring>>

AnswerDown ==
  /\ task.pc = "answer" /\ busy > 0 /\ busy' = busy - 1 /\ Goes("sending")
  /\ UNCHANGED <<chip, line, masked, sender, ring, answers>>

\* Its up, and behind it cam_task's own, of a semaphore it no longer holds.
AnswerSent ==
  /\ task.pc = "sending" /\ busy' = busy + 1 /\ wptr' = rptr /\ Goes("up")
  /\ UNCHANGED <<chip, line, masked, sender, queue, rptr, past, stored, sent, got, answers>>

\* Wrong variant: after a failed first transfer the interrupt stays masked.
UnmaskedIfRead == masked' = (task.len = 0)

Unmasked == masked' = FALSE

TaskEnds ==
  /\ task.pc = "up" /\ busy' = busy + 1 /\ Unmasked /\ task' = Idle
  /\ UNCHANGED <<chip, line, sender, ring, answers>>

----------------------------------------------------------------------------

\* CA_SEND_MSG: a signal may end the wait.
Send(p) ==
  /\ sender[p] = "idle" /\ sender' = [sender EXCEPT ![p] = "waits"]
  /\ UNCHANGED <<transfer, busy, ring, answers>>

SendDown(p) ==
  /\ sender[p] = "waits" /\ busy > 0 /\ busy' = busy - 1 /\ sender' = [sender EXCEPT ![p] = "sends"]
  /\ UNCHANGED <<transfer, ring, answers>>

SendInterrupted(p) ==
  /\ sender[p] = "waits" /\ sender' = [sender EXCEPT ![p] = "idle"]
  /\ UNCHANGED <<transfer, busy, ring, answers>>

SendEnds(p) ==
  /\ sender[p] = "sends" /\ busy' = busy + 1 /\ wptr' = rptr /\ sender' = [sender EXCEPT ![p] = "idle"]
  /\ UNCHANGED <<transfer, queue, rptr, past, stored, sent, got, answers>>

\* Wrong variant: the part before the end of the ring is not counted.
PastLong(r, n) == IF r + n > Size THEN n - 1 ELSE r + n

\* Wrong variant: the position runs on behind the end.
PastEnd(r, n) == r + n

\* A position that reaches the end is left there.
Past(r, n) == IF r + n > Size THEN n - (Size - r) ELSE r + n

\* CA_GET_MSG
Read(count) ==
  LET n == IF count < Used(wptr, rptr) THEN count ELSE Used(wptr, rptr)
  IN /\ n > 0 /\ ~past /\ rptr' = Past(rptr, n)
     /\ got' = got \o [i \in 1..n |-> queue[(rptr + i - 1) % Size]]
     /\ UNCHANGED <<transfer, busy, sender, queue, wptr, past, stored, sent, answers>>

Next ==
  \/ \E l \in Lengths, request \in BOOLEAN : ChipChanges(l, request)
  \/ Interrupt \/ TaskDown \/ RecvFails \/ RecvLength \/ RecvBody \/ RecvAgain \/ Store \/ StorePast \/ Request
  \/ AnswerDown \/ AnswerSent \/ TaskEnds
  \/ \E p \in Senders : Send(p) \/ SendDown(p) \/ SendInterrupted(p) \/ SendEnds(p)
  \/ \E count \in Counts : Read(count)

\* Transfers end; the semaphore's waiters are woken in turn.
Fairness ==
  /\ WF_vars(RecvLength \/ RecvBody \/ RecvAgain \/ Store \/ StorePast \/ Request \/ AnswerSent \/ TaskEnds)
  /\ SF_vars(TaskDown) /\ SF_vars(AnswerDown)
  /\ \A p \in Senders : WF_vars(SendEnds(p))

Spec == Init /\ [][Next]_vars /\ Fairness

----------------------------------------------------------------------------

\* A message in the ring has the length that its own header says, unless the module changed it twice
\* while the task read it.
StoresWhole == stored.changes <= 1 => stored.bytes = stored.own

\* The task and the senders exclude each other until the task has answered a request, whose second up
\* lets one more in each time.
Exclusive ==
  answers = 0 =>
    LET holds == {p \in Senders : sender[p] = "sends"}
    IN /\ task.pc \notin {"idle", "queued"} => holds = {}
       /\ \A p, q \in holds : p = q

\* To its reader the ring is a stream of bytes that may lose some, in order.
Stream == INSTANCE LossyStream
LossyAtWorst == Stream!Spec

\* The interrupt is unmasked again, however the transfers of the task end.
Unmasks == masked ~> ~masked

----------------------------------------------------------------------------
(* The semaphore: units of it that are held, and those that are still due  *)
(* from an answer, count one more than the requests answered.              *)

Sends == {p \in Senders : sender[p] = "sends"}
TaskHolds == task.pc \in {"length", "body", "again", "store", "sending", "up"}
Held == IF TaskHolds THEN 1 ELSE 0
Due == IF task.pc \in {"answer", "sending"} THEN 1 ELSE 0

UpsCounted == busy + Cardinality(Sends) + Held + Due = 1 + answers

Messages == [id : 0..MaxMessages, len : Lengths \cup {0}, request : BOOLEAN]

TaskOK == task \in [pc : {"idle", "queued", "length", "body", "again", "store", "answer", "sending", "up"},
                    len : Lengths \cup {0}, msg : Messages, changes : Nat]

\* The interrupt stays masked until the task that it queued has ended.
MaskedWhileRuns == masked = FALSE => task.pc = "idle"

\* How the length the task goes by is related to the message, by the changes since the first transfer.
LengthTrue ==
  /\ task.pc = "body" /\ task.changes = 0 => task.len = chip.len
  /\ task.pc = "again" => task.changes >= 1 /\ (task.changes = 1 => task.len = chip.len)
  /\ task.pc = "store" /\ task.changes <= 1 => task.len = task.msg.len

BusyInv ==
  /\ chip \in Messages /\ line \in BOOLEAN /\ masked \in BOOLEAN
  /\ TaskOK /\ MaskedWhileRuns /\ LengthTrue
  /\ busy \in Nat /\ answers \in Nat /\ sender \in [Senders -> {"idle", "waits", "sends"}]
  /\ UpsCounted /\ StoresWhole

LEMMA SendsFinite ==
  ASSUME IsFiniteSet(Senders)
  PROVE  IsFiniteSet(Sends) /\ Cardinality(Sends) \in Nat
  BY FS_Subset, FS_CardinalityType DEF Sends

LEMMA BusyInit ==
  ASSUME MaxMessages \in Nat, Init
  PROVE  BusyInv
  <1>1. Sends = {} /\ Cardinality(Sends) = 0
    BY FS_EmptySet DEF Init, Sends
  <1>2. chip \in Messages /\ TaskOK
    BY DEF Init, TaskOK, Idle, NoMessage, Messages
  <1>3. task.pc = "idle" /\ stored.changes = 0 /\ stored.bytes = stored.own
    BY DEF Init, Idle
  <1>4. UpsCounted
    BY <1>1, <1>3 DEF Init, UpsCounted, Held, Due, TaskHolds
  <1>5. MaskedWhileRuns /\ LengthTrue /\ StoresWhole
    BY <1>3 DEF MaskedWhileRuns, LengthTrue, StoresWhole
  <1> QED BY <1>2, <1>4, <1>5 DEF Init, BusyInv

\* A step of the module, the interrupt or the task.
TaskStep ==
  \/ \E l \in Lengths, request \in BOOLEAN : ChipChanges(l, request)
  \/ Interrupt \/ TaskDown \/ RecvFails \/ RecvLength \/ RecvBody \/ RecvAgain \/ Store \/ StorePast \/ Request
  \/ AnswerDown \/ AnswerSent \/ TaskEnds

SenderStep == \E p \in Senders : Send(p) \/ SendDown(p) \/ SendInterrupted(p) \/ SendEnds(p)

\* The transfers of the task: its type, its mask and the length it goes by.
LEMMA TransferStep ==
  ASSUME MaxMessages \in Nat, BusyInv, TaskStep
  PROVE  /\ chip' \in Messages /\ line' \in BOOLEAN /\ masked' \in BOOLEAN
         /\ TaskOK' /\ MaskedWhileRuns' /\ LengthTrue'
  <1>0. /\ chip \in Messages /\ line \in BOOLEAN /\ masked \in BOOLEAN /\ task.changes \in Nat
        /\ TaskOK /\ MaskedWhileRuns /\ LengthTrue
    BY DEF BusyInv, TaskOK
  <1>1. ASSUME NEW l \in Lengths, NEW request \in BOOLEAN, ChipChanges(l, request)
        PROVE  /\ chip' \in Messages /\ line' \in BOOLEAN /\ masked' \in BOOLEAN
               /\ TaskOK' /\ MaskedWhileRuns' /\ LengthTrue'
    <2>1. chip' = [id |-> chip.id + 1, len |-> l, request |-> request] /\ chip.id \in 0..MaxMessages
          /\ chip.id < MaxMessages
      BY <1>0, <1>1 DEF ChipChanges, Messages
    <2>2. chip' \in Messages
      <3>1. chip.id + 1 \in 0..MaxMessages
        BY <2>1
      <3> QED BY <2>1, <3>1 DEF Messages
    <2>3. task' = [task EXCEPT !.changes = task.changes + 1] /\ line' = TRUE /\ UNCHANGED masked
      BY <1>1 DEF ChipChanges
    <2>4. /\ task'.pc = task.pc /\ task'.len = task.len /\ task'.msg = task.msg
          /\ task'.changes = task.changes + 1 /\ TaskOK'
      BY <1>0, <2>3 DEF TaskOK
    <2> QED BY <1>0, <2>2, <2>3, <2>4 DEF MaskedWhileRuns, LengthTrue
  <1>2. CASE Interrupt
    <2>1. /\ task' = [task EXCEPT !.pc = "queued"] /\ masked' = TRUE /\ UNCHANGED <<chip, line>>
      BY <1>2 DEF Interrupt
    <2>2. task'.pc = "queued" /\ TaskOK'
      BY <1>0, <2>1 DEF TaskOK
    <2> QED BY <1>0, <2>1, <2>2 DEF MaskedWhileRuns, LengthTrue
  <1>3. ASSUME NEW pc \in {"length", "up", "answer", "sending"}, Goes(pc),
               UNCHANGED <<chip, line, masked>>, task.pc # "idle"
        PROVE  /\ chip' \in Messages /\ line' \in BOOLEAN /\ masked' \in BOOLEAN
               /\ TaskOK' /\ MaskedWhileRuns' /\ LengthTrue'
    <2>1. task' = [task EXCEPT !.pc = pc]
      BY <1>3 DEF Goes
    <2>2. task'.pc = pc /\ TaskOK'
      BY <1>0, <2>1 DEF TaskOK
    <2> QED BY <1>0, <1>3, <2>2 DEF MaskedWhileRuns, LengthTrue
  <1>4. CASE TaskDown \/ RecvFails \/ Store \/ StorePast \/ Request \/ AnswerDown \/ AnswerSent
    BY <1>3, <1>4 DEF TaskDown, RecvFails, Store, StorePast, Request, AnswerDown, AnswerSent
  <1>5. CASE RecvLength
    <2>1. /\ task' = [task EXCEPT !.pc = "body", !.len = chip.len, !.changes = 0]
          /\ UNCHANGED <<chip, line, masked>> /\ task.pc = "length"
      BY <1>5 DEF RecvLength
    <2>2. chip.len \in Lengths \cup {0}
      BY <1>0 DEF Messages
    <2>3. task'.pc = "body" /\ task'.len = chip.len /\ TaskOK'
      BY <1>0, <2>1, <2>2 DEF TaskOK
    <2> QED BY <1>0, <2>1, <2>3 DEF MaskedWhileRuns, LengthTrue
  <1>6. CASE RecvBody
    <2>1. /\ task.pc = "body" /\ line' = FALSE /\ UNCHANGED <<chip, masked>>
          /\ chip.len \in Lengths \cup {0}
      BY <1>0, <1>6 DEF RecvBody, Messages
    <2>2. CASE task.len = chip.len
      <3>1. task' = [task EXCEPT !.pc = "store", !.msg = chip, !.len = task.len]
        BY <1>6, <2>2 DEF RecvBody, Mismatch
      <3>2. task'.pc = "store" /\ task'.len = chip.len /\ task'.msg = chip /\ TaskOK'
        BY <1>0, <2>2, <3>1 DEF TaskOK
      <3> QED BY <1>0, <2>1, <3>2 DEF MaskedWhileRuns, LengthTrue
    <2>3. CASE task.len # chip.len
      <3>1. task' = [task EXCEPT !.pc = "again", !.msg = chip, !.len = chip.len]
        BY <1>6, <2>3 DEF RecvBody, Mismatch
      <3>2. /\ task'.pc = "again" /\ task'.len = chip.len /\ task'.changes = task.changes
            /\ TaskOK'
        BY <1>0, <2>1, <3>1 DEF TaskOK
      <3>3. task.changes >= 1
        BY <1>0, <2>1, <2>3 DEF LengthTrue
      <3> QED BY <1>0, <2>1, <3>2, <3>3 DEF MaskedWhileRuns, LengthTrue
    <2> QED BY <2>2, <2>3
  <1>7. CASE RecvAgain
    <2>1. /\ task' = [task EXCEPT !.pc = "store", !.msg = chip]
          /\ task.pc = "again" /\ line' = FALSE /\ UNCHANGED <<chip, masked>>
      BY <1>7 DEF RecvAgain
    <2>2. /\ task'.pc = "store" /\ task'.len = task.len /\ task'.msg = chip
          /\ task'.changes = task.changes /\ TaskOK'
      BY <1>0, <2>1 DEF TaskOK
    <2>3. task.changes <= 1 => task.len = chip.len
      BY <1>0, <2>1 DEF LengthTrue
    <2>4. LengthTrue'
      BY <2>1, <2>2, <2>3 DEF LengthTrue
    <2>5. MaskedWhileRuns'
      BY <1>0, <2>1 DEF MaskedWhileRuns
    <2> QED BY <1>0, <2>1, <2>2, <2>4, <2>5
  <1>8. CASE TaskEnds
    <2>1. task' = Idle /\ UNCHANGED <<chip, line>> /\ masked' = FALSE
      BY <1>8 DEF TaskEnds, Unmasked
    <2>2. task'.pc = "idle" /\ TaskOK'
      BY <2>1 DEF TaskOK, Idle, NoMessage, Messages
    <2> QED BY <1>0, <2>1, <2>2 DEF MaskedWhileRuns, LengthTrue
  <1> QED BY <1>1, <1>2, <1>4, <1>5, <1>6, <1>7, <1>8 DEF TaskStep

\* A step of the task moves units between the semaphore, the task and what is due.
LEMMA UpsTask ==
  ASSUME MaxMessages \in Nat, IsFiniteSet(Senders), BusyInv, TaskStep
  PROVE  /\ busy' \in Nat /\ answers' \in Nat /\ UNCHANGED sender /\ UpsCounted'
  <1>0. /\ TaskOK /\ TaskOK' /\ MaskedWhileRuns /\ busy \in Nat /\ answers \in Nat /\ UpsCounted
    BY TransferStep DEF BusyInv
  <1>1. UNCHANGED sender /\ Sends' = Sends /\ Cardinality(Sends) \in Nat /\ Cardinality(Sends') = Cardinality(Sends)
    <2>1. UNCHANGED sender
      BY DEF TaskStep, ChipChanges, Interrupt, TaskDown, RecvFails, RecvLength, RecvBody, RecvAgain, Store,
             StorePast, Request, AnswerDown, AnswerSent, TaskEnds
    <2>2. Sends' = Sends
      BY <2>1 DEF Sends
    <2> QED BY <2>1, <2>2, SendsFinite
  <1>2. \/ /\ task'.pc = task.pc \/ (task.pc \in {"idle", "queued"} /\ task'.pc \in {"idle", "queued"})
                 \/ (TaskHolds /\ Due = 0 /\ task'.pc \in {"body", "again", "store", "up"})
           /\ UNCHANGED <<busy, answers>>
        \/ /\ task.pc = "queued" /\ task'.pc = "length" /\ busy > 0 /\ busy' = busy - 1 /\ UNCHANGED answers
        \/ /\ task.pc = "store" /\ task'.pc = "answer" /\ busy' = busy + 1 /\ answers' = answers + 1
        \/ /\ task.pc = "answer" /\ task'.pc = "sending" /\ busy > 0 /\ busy' = busy - 1 /\ UNCHANGED answers
        \/ /\ task.pc = "sending" /\ task'.pc = "up" /\ busy' = busy + 1 /\ UNCHANGED answers
        \/ /\ task.pc = "up" /\ task'.pc = "idle" /\ busy' = busy + 1 /\ UNCHANGED answers
    <2>1. ASSUME NEW l \in Lengths, NEW request \in BOOLEAN, ChipChanges(l, request)
          PROVE  task'.pc = task.pc /\ UNCHANGED <<busy, answers>>
      BY <1>0, <2>1 DEF ChipChanges, TaskOK
    <2>2. CASE Interrupt
      BY <1>0, <2>2 DEF Interrupt, TaskOK, MaskedWhileRuns
    <2>3. CASE TaskDown
      BY <1>0, <2>3 DEF TaskDown, Goes, TaskOK
    <2>4. CASE RecvFails
      BY <1>0, <2>4 DEF RecvFails, Goes, TaskOK, TaskHolds, Due
    <2>5. CASE RecvLength
      <3>1. task'.pc = "body"
        BY <1>0, <2>5 DEF RecvLength, TaskOK
      <3> QED BY <2>5, <3>1 DEF RecvLength, TaskHolds, Due
    <2>6. CASE RecvBody
      <3>1. task'.pc \in {"again", "store"}
        <4>1. CASE Mismatch(task.len)
          <5>1. task' = [task EXCEPT !.pc = "again", !.msg = chip, !.len = chip.len]
            BY <2>6, <4>1 DEF RecvBody
          <5> QED BY <1>0, <5>1 DEF TaskOK
        <4>2. CASE ~Mismatch(task.len)
          <5>1. task' = [task EXCEPT !.pc = "store", !.msg = chip, !.len = task.len]
            BY <2>6, <4>2 DEF RecvBody
          <5> QED BY <1>0, <5>1 DEF TaskOK
        <4> QED BY <4>1, <4>2
      <3> QED BY <2>6, <3>1 DEF RecvBody, TaskHolds, Due
    <2>7. CASE RecvAgain
      BY <1>0, <2>7 DEF RecvAgain, TaskOK, TaskHolds, Due
    <2>8. CASE Store \/ StorePast
      BY <1>0, <2>8 DEF Store, StorePast, Goes, TaskOK, TaskHolds, Due
    <2>9. CASE Request
      BY <1>0, <2>9 DEF Request, Goes, TaskOK
    <2>10. CASE AnswerDown
      BY <1>0, <2>10 DEF AnswerDown, Goes, TaskOK
    <2>11. CASE AnswerSent
      BY <1>0, <2>11 DEF AnswerSent, Goes, TaskOK
    <2>12. CASE TaskEnds
      BY <1>0, <2>12 DEF TaskEnds, Idle
    <2> QED BY <2>1, <2>2, <2>3, <2>4, <2>5, <2>6, <2>7, <2>8, <2>9, <2>10, <2>11, <2>12 DEF TaskStep
  <1> QED BY <1>0, <1>1, <1>2 DEF UpsCounted, Held, Due, TaskHolds

\* The step of a sender, likewise; and what stores a message.
LEMMA UpsSender ==
  ASSUME IsFiniteSet(Senders), BusyInv, SenderStep
  PROVE  /\ busy' \in Nat /\ sender' \in [Senders -> {"idle", "waits", "sends"}]
         /\ UNCHANGED <<transfer, answers, stored>> /\ UpsCounted'
  <1>0. /\ busy \in Nat /\ answers \in Nat /\ sender \in [Senders -> {"idle", "waits", "sends"}]
        /\ UpsCounted /\ IsFiniteSet(Sends) /\ Cardinality(Sends) \in Nat
    BY SendsFinite DEF BusyInv
  <1>1. PICK p \in Senders : Send(p) \/ SendDown(p) \/ SendInterrupted(p) \/ SendEnds(p)
    BY DEF SenderStep
  <1>2. UNCHANGED <<transfer, answers, stored>> /\ Held' = Held /\ Due' = Due
    BY <1>1 DEF Send, SendDown, SendInterrupted, SendEnds, transfer, ring, Held, Due, TaskHolds
  <1>3. CASE Send(p) \/ SendInterrupted(p)
    <2>1. Sends' = Sends
      BY <1>0, <1>3 DEF Send, SendInterrupted, Sends
    <2>2. busy' = busy /\ sender' \in [Senders -> {"idle", "waits", "sends"}]
      BY <1>0, <1>3 DEF Send, SendInterrupted
    <2> QED BY <1>0, <1>2, <2>1, <2>2 DEF UpsCounted
  <1>4. CASE SendDown(p)
    <2>1. Sends' = Sends \cup {p} /\ p \notin Sends
      BY <1>0, <1>4 DEF SendDown, Sends
    <2>2. Cardinality(Sends') = Cardinality(Sends) + 1
      BY <1>0, <2>1, FS_AddElement
    <2>3. /\ busy' = busy - 1 /\ busy > 0
          /\ sender' \in [Senders -> {"idle", "waits", "sends"}]
      BY <1>0, <1>4 DEF SendDown
    <2> QED BY <1>0, <1>2, <2>2, <2>3 DEF UpsCounted, Held, Due
  <1>5. CASE SendEnds(p)
    <2>1. Sends' = Sends \ {p} /\ p \in Sends
      BY <1>0, <1>5 DEF SendEnds, Sends
    <2>2. Cardinality(Sends') = Cardinality(Sends) - 1
      BY <1>0, <2>1, FS_RemoveElement
    <2>3. busy' = busy + 1 /\ sender' \in [Senders -> {"idle", "waits", "sends"}]
      BY <1>0, <1>5 DEF SendEnds
    <2> QED BY <1>0, <1>2, <2>2, <2>3 DEF UpsCounted, Held, Due
  <1> QED BY <1>1, <1>3, <1>4, <1>5

LEMMA BusyNext ==
  ASSUME MaxMessages \in Nat, IsFiniteSet(Senders), BusyInv, [Next]_vars
  PROVE  BusyInv'
  <1>1. CASE TaskStep
    <2>1. /\ chip' \in Messages /\ line' \in BOOLEAN /\ masked' \in BOOLEAN
          /\ TaskOK' /\ MaskedWhileRuns' /\ LengthTrue'
      BY <1>1, TransferStep
    <2>2. busy' \in Nat /\ answers' \in Nat /\ UNCHANGED sender /\ UpsCounted'
      BY <1>1, UpsTask
    <2>3. StoresWhole'
      <3>1. CASE UNCHANGED stored
        BY <3>1 DEF BusyInv, StoresWhole
      <3>2. CASE Store
        <4>1. \/ UNCHANGED stored
              \/ stored' = [bytes |-> task.len, own |-> task.msg.len, changes |-> task.changes]
          BY <3>2 DEF Store, Put
        <4>2. task.changes <= 1 => task.len = task.msg.len
          BY <3>2 DEF BusyInv, LengthTrue, Store
        <4> QED BY <3>1, <4>1, <4>2 DEF StoresWhole
      <3>3. Store \/ UNCHANGED stored
        BY <1>1 DEF TaskStep, ChipChanges, Interrupt, TaskDown, RecvFails, RecvLength, RecvBody, RecvAgain,
                    StorePast, Request, AnswerDown, AnswerSent, TaskEnds, ring
      <3> QED BY <3>1, <3>2, <3>3
    <2> QED BY <2>1, <2>2, <2>3 DEF BusyInv
  <1>2. CASE SenderStep
    <2>1. /\ busy' \in Nat /\ sender' \in [Senders -> {"idle", "waits", "sends"}]
          /\ UNCHANGED <<transfer, answers, stored>> /\ UpsCounted'
      BY <1>2, UpsSender
    <2> QED BY <2>1 DEF BusyInv, TaskOK, MaskedWhileRuns, LengthTrue, StoresWhole, transfer
  <1>3. CASE UNCHANGED <<transfer, busy, sender, stored, answers>>
    BY <1>3 DEF BusyInv, TaskOK, MaskedWhileRuns, LengthTrue, StoresWhole, transfer,
                UpsCounted, Sends, Held, Due, TaskHolds
  <1>4. TaskStep \/ SenderStep \/ UNCHANGED <<transfer, busy, sender, stored, answers>>
    BY DEF Next, TaskStep, SenderStep, Read, vars, ring
  <1> QED BY <1>1, <1>2, <1>3, <1>4

\* Each answer to a request is one up too many (cam.c:231 and 254): as long as there was none, the
\* task and the senders exclude each other.
LEMMA UpsExclude ==
  ASSUME IsFiniteSet(Senders), BusyInv
  PROVE  Exclusive /\ busy \in 0..1 + answers
  <1>0. /\ busy \in Nat /\ answers \in Nat /\ UpsCounted /\ TaskOK
        /\ IsFiniteSet(Sends) /\ Cardinality(Sends) \in Nat
    BY SendsFinite DEF BusyInv
  <1>1. busy \in 0..1 + answers
    BY <1>0 DEF UpsCounted, Held, Due
  <1>2. ASSUME answers = 0
        PROVE  /\ task.pc \notin {"idle", "queued"} => Sends = {}
               /\ \A p, q \in Sends : p = q
    <2>1. task.pc \notin {"idle", "queued"} => Cardinality(Sends) = 0
      BY <1>0, <1>2 DEF UpsCounted, Held, Due, TaskHolds, TaskOK
    <2>2. Cardinality(Sends) = 0 \/ Cardinality(Sends) = 1
      BY <1>0, <1>2 DEF UpsCounted, Held, Due
    <2>3. Cardinality(Sends) = 0 => Sends = {}
      BY <1>0, FS_EmptySet
    <2>4. Cardinality(Sends) = 1 => \E x : Sends = {x}
      BY <1>0, FS_Singleton
    <2> QED BY <2>1, <2>2, <2>3, <2>4
  <1> QED BY <1>1, <1>2 DEF Exclusive, Sends

----------------------------------------------------------------------------
(* The ring: what is unread follows what was read, in the order of the     *)
(* stream, even where the byte 0x6f that is not counted runs into the      *)
(* oldest one and a full ring looks empty.                                 *)

Unread == Used(wptr, rptr)
Slot(i) == queue[(rptr + i) % Size]

UnreadInOrder ==
  \A i \in 0..Unread - 1 :
    /\ Slot(i) \in 1..sent
    /\ \A k \in DOMAIN got : got[k] < Slot(i)
    /\ \A j \in 0..i - 1 : Slot(j) < Slot(i)

GotInOrder == got \in Seq(Nat) /\ Stream!Increasing(got) /\ \A k \in DOMAIN got : got[k] \in 1..sent

RingInv ==
  /\ sent \in Nat /\ queue \in [0..Size - 1 -> Nat] /\ wptr \in 0..Size /\ rptr \in 0..Size
  /\ wptr = Size => rptr = Size
  /\ GotInOrder /\ UnreadInOrder

\* Below two turns the remainder takes one subtraction.
LEMMA Turn ==
  ASSUME NEW a \in Nat, NEW b \in Nat \ {0}, a < 2 * b
  PROVE  a % b = (IF a < b THEN a ELSE a - b)
  BY SMT

\* The slots that are unread after n + 1 bytes were put in: those that were before and then the new
\* ones, or only the last one, when it was put on the oldest.
LEMMA PutWhere ==
  ASSUME Size \in Nat \ {0}, NEW w \in 0..Size - 1, NEW r \in 0..Size, NEW n \in 0..Size - 1, NEW i \in Nat
  PROVE  Size - Used(w, r) >= n /\ i < Used((w + n + 1) % Size, r) =>
           /\ (r + i) % Size \in 0..Size - 1
           /\ \/ /\ Used((w + n + 1) % Size, r) = Used(w, r) + n + 1
                 /\ i < Used(w, r) => (((r + i) % Size) - w + Size) % Size > n
                 /\ i >= Used(w, r) => (((r + i) % Size) - w + Size) % Size = i - Used(w, r)
              \/ /\ Used((w + n + 1) % Size, r) = Used(w, r) + n + 1 - Size
                 /\ i = 0 /\ (((r + i) % Size) - w + Size) % Size = n
  <1> DEFINE w2 == (w + n + 1) % Size
             s == (r + i) % Size
             k == (s - w + Size) % Size
             u == Used(w, r)
  <1>0. SUFFICES ASSUME Size - u >= n, i < Used(w2, r)
                 PROVE  /\ s \in 0..Size - 1
                        /\ \/ /\ Used(w2, r) = u + n + 1
                              /\ i < u => k > n
                              /\ i >= u => k = i - u
                           \/ Used(w2, r) = u + n + 1 - Size /\ i = 0 /\ k = n
    OBVIOUS
  <1>1. w2 = IF w + n + 1 < Size THEN w + n + 1 ELSE w + n + 1 - Size
    <2> DEFINE a == w + n + 1
    <2>1. a \in Nat /\ a < 2 * Size
      OBVIOUS
    <2> HIDE DEF a
    <2>2. a % Size = (IF a < Size THEN a ELSE a - Size)
      BY <2>1, Turn
    <2> QED BY <2>2 DEF a
  <1>2. w2 \in 0..Size - 1
    BY <1>1
  <1>3. i \in 0..Size - 1 /\ r + i < 2 * Size
    <2> HIDE DEF w2
    <2> QED BY <1>0, <1>2 DEF Used
  <1>4. s = IF r + i < Size THEN r + i ELSE r + i - Size
    <2> DEFINE a == r + i
    <2>1. a \in Nat /\ a < 2 * Size
      BY <1>3
    <2> HIDE DEF a
    <2>2. a % Size = (IF a < Size THEN a ELSE a - Size)
      BY <2>1, Turn
    <2> QED BY <2>2 DEF a
  <1>5. s \in 0..Size - 1
    BY <1>3, <1>4
  <1>6. k = IF s < w THEN s - w + Size ELSE s - w
    <2> DEFINE a == s - w + Size
    <2>1. a \in Nat /\ a < 2 * Size
      <3> HIDE DEF s
      <3> QED BY <1>5
    <2> HIDE DEF a
    <2>2. a % Size = (IF a < Size THEN a ELSE a - Size)
      BY <2>1, Turn
    <2>3. a = s - w + Size
      BY DEF a
    <2> HIDE DEF s
    <2> QED BY <1>5, <2>2, <2>3
  <1> HIDE DEF w2, s, k
  <1>8. \/ /\ Used(w2, r) = u + n + 1
           /\ i < u => k > n
           /\ i >= u => k = i - u
        \/ Used(w2, r) = u + n + 1 - Size /\ i = 0 /\ k = n
    BY <1>0, <1>1, <1>3, <1>4, <1>6 DEF Used
  <1> QED BY <1>5, <1>8

\* The order of the slots, before and after, as functions of their distance from the oldest.
InOrder(slots, u, m, g) ==
  \A i \in 0..u - 1 :
    /\ slots[i] \in 1..m
    /\ \A k \in DOMAIN g : g[k] < slots[i]
    /\ \A j \in 0..i - 1 : slots[j] < slots[i]

LEMMA PutOrder ==
  ASSUME NEW m \in Nat, NEW u \in Nat, NEW n \in Nat, NEW size \in Nat \ {0}, NEW u2 \in Int,
         NEW old, NEW new, NEW g, \A k \in DOMAIN g : g[k] \in 1..m,
         InOrder(old, u, m, g),
         \A i \in 0..u2 - 1 :
            \/ /\ u2 = u + n + 1
               /\ i < u => new[i] = old[i]
               /\ i >= u => new[i] = m + (i - u) + 1
            \/ u2 = u + n + 1 - size /\ i = 0 /\ new[i] = m + n + 1
  PROVE  InOrder(new, u2, m + n + 1, g)
  <1> SUFFICES ASSUME NEW i \in 0..u2 - 1
               PROVE  /\ new[i] \in 1..m + n + 1
                      /\ \A k \in DOMAIN g : g[k] < new[i]
                      /\ \A j \in 0..i - 1 : new[j] < new[i]
    BY DEF InOrder
  <1>1. CASE u2 = u + n + 1 - size /\ i = 0 /\ new[i] = m + n + 1
    BY <1>1
  <1>2. CASE u2 = u + n + 1 /\ i < u /\ new[i] = old[i]
    <2>1. /\ old[i] \in 1..m /\ \A k \in DOMAIN g : g[k] < old[i]
          /\ \A j \in 0..i - 1 : old[j] < old[i]
      BY <1>2 DEF InOrder
    <2>2. \A j \in 0..i - 1 : new[j] = old[j]
      BY <1>2
    <2> QED BY <1>2, <2>1, <2>2
  <1>3. CASE u2 = u + n + 1 /\ i >= u /\ new[i] = m + (i - u) + 1
    <2>1. ASSUME NEW j \in 0..i - 1 PROVE new[j] < new[i]
      <3>1. CASE j < u
        <4>1. old[j] \in 1..m
          BY <3>1 DEF InOrder
        <4>2. new[j] = old[j]
          BY <1>3, <3>1
        <4> QED BY <1>3, <4>1, <4>2
      <3>2. CASE j >= u
        <4>1. new[j] = m + (j - u) + 1
          BY <1>3, <3>2
        <4> QED BY <1>3, <4>1
      <3> QED BY <3>1, <3>2
    <2> QED BY <1>3, <2>1
  <1> QED BY <1>1, <1>2, <1>3

\* A message is put behind what is unread.
LEMMA PutKeeps ==
  ASSUME Size \in Nat \ {0}, RingInv, wptr < Size, NEW n \in 0..Size - 1, Put(n), UNCHANGED <<rptr, got>>
  PROVE  RingInv' /\ sent' >= sent
  <1> DEFINE old == [i \in Nat |-> queue[(rptr + i) % Size]]
             new == [i \in Nat |-> queue'[(rptr + i) % Size]]
             u2  == Used(wptr', rptr)
  <1>0. /\ sent \in Nat /\ queue \in [0..Size - 1 -> Nat] /\ wptr \in 0..Size - 1 /\ rptr \in 0..Size
        /\ GotInOrder /\ UnreadInOrder
    BY DEF RingInv
  <1>1. CASE Size - Unread < n
    <2>1. wptr' = rptr /\ UNCHANGED <<queue, sent>>
      BY <1>1 DEF Put, Unread
    <2>2. Unread' = 0
      BY <1>0, <2>1 DEF Unread, Used
    <2>3. UnreadInOrder' /\ GotInOrder'
      BY <1>0, <2>1, <2>2 DEF UnreadInOrder, GotInOrder
    <2> QED BY <1>0, <2>1, <2>3 DEF RingInv
  <1>2. CASE Size - Unread >= n
    <2>0. ~(Size - Unread < n) /\ Unread \in Nat
      BY <1>0, <1>2 DEF Unread, Used
    <2>1. /\ queue' = [i \in DOMAIN queue |->
                         LET k == (i - wptr + Size) % Size IN IF k <= n THEN sent + k + 1 ELSE queue[i]]
          /\ wptr' = (wptr + n + 1) % Size /\ sent' = sent + n + 1
      BY <2>0 DEF Put, Unread
    <2>2. wptr' \in 0..Size - 1 /\ sent' \in Nat /\ sent' >= sent
      BY <1>0, <2>1
    <2>3. queue' \in [0..Size - 1 -> Nat]
      <3>1. ASSUME NEW i \in 0..Size - 1
            PROVE  (LET k == (i - wptr + Size) % Size IN IF k <= n THEN sent + k + 1 ELSE queue[i]) \in Nat
        BY <1>0
      <3> QED BY <1>0, <2>1, <3>1
    <2>4. GotInOrder'
      BY <1>0, <2>1 DEF GotInOrder
    <2>5. u2 \in Int
      BY <1>0, <2>2 DEF Used
    <2>6. ASSUME NEW i \in 0..u2 - 1
          PROVE  \/ /\ u2 = Unread + n + 1
                    /\ i < Unread => new[i] = old[i]
                    /\ i >= Unread => new[i] = sent + (i - Unread) + 1
                 \/ u2 = Unread + n + 1 - Size /\ i = 0 /\ new[i] = sent + n + 1
      <3> DEFINE s == (rptr + i) % Size
                 k == (s - wptr + Size) % Size
      <3>1. i \in Nat /\ i < u2
        <4> HIDE DEF u2
        <4> QED BY <2>5
      <3>2. u2 = Used((wptr + n + 1) % Size, rptr) /\ Size - Used(wptr, rptr) >= n
        BY <1>2, <2>1 DEF Unread
      <3>3. /\ s \in 0..Size - 1
            /\ \/ /\ u2 = Used(wptr, rptr) + n + 1
                  /\ i < Used(wptr, rptr) => k > n
                  /\ i >= Used(wptr, rptr) => k = i - Used(wptr, rptr)
               \/ u2 = Used(wptr, rptr) + n + 1 - Size /\ i = 0 /\ k = n
        <4>1. i < Used((wptr + n + 1) % Size, rptr)
          BY <3>1, <3>2
        <4>2. \A w \in 0..Size - 1, r \in 0..Size, j \in Nat :
                Size - Used(w, r) >= n /\ j < Used((w + n + 1) % Size, r) =>
                  /\ (r + j) % Size \in 0..Size - 1
                  /\ \/ /\ Used((w + n + 1) % Size, r) = Used(w, r) + n + 1
                        /\ j < Used(w, r) => (((r + j) % Size) - w + Size) % Size > n
                        /\ j >= Used(w, r) => (((r + j) % Size) - w + Size) % Size = j - Used(w, r)
                     \/ /\ Used((w + n + 1) % Size, r) = Used(w, r) + n + 1 - Size
                        /\ j = 0 /\ (((r + j) % Size) - w + Size) % Size = n
          BY PutWhere
        <4> HIDE DEF u2
        <4> QED BY <1>0, <3>1, <3>2, <4>1, <4>2, Zenon
      <3>4. new[i] = queue'[s] /\ old[i] = queue[s]
        BY <3>1
      <3> HIDE DEF s, u2, new, old
      <3>5. queue'[s] = IF k <= n THEN sent + k + 1 ELSE queue[s]
        BY <1>0, <2>1, <3>3
      <3>6. k \in Int
        <4>1. s - wptr + Size \in Int
          BY <1>0, <3>3
        <4> QED BY <4>1
      <3> HIDE DEF k
      <3>7. Unread = Used(wptr, rptr)
        BY DEF Unread
      <3>8. CASE u2 = Unread + n + 1 - Size /\ i = 0 /\ k = n
        BY <1>0, <3>4, <3>5, <3>8
      <3>9. CASE u2 = Unread + n + 1 /\ i < Unread /\ k > n
        BY <1>0, <2>0, <3>4, <3>5, <3>6, <3>9
      <3>10. CASE u2 = Unread + n + 1 /\ i >= Unread /\ k = i - Unread
        <4>1. k <= n
          BY <2>0, <3>1, <3>10
        <4> QED BY <1>0, <2>0, <3>4, <3>5, <3>6, <3>10, <4>1
      <3> QED BY <2>0, <3>1, <3>3, <3>7, <3>8, <3>9, <3>10
    <2>7. InOrder(old, Unread, sent, got)
      <3>1. \A i \in Nat : Slot(i) = old[i]
        BY DEF Slot
      <3>2. \A i \in 0..Unread - 1 : i \in Nat /\ \A j \in 0..i - 1 : j \in Nat
        BY <2>0
      <3> HIDE DEF old
      <3> QED BY <1>0, <3>1, <3>2 DEF UnreadInOrder, InOrder
    <2>8. \A k \in DOMAIN got : got[k] \in 1..sent
      BY <1>0 DEF GotInOrder
    <2>9. InOrder(new, u2, sent + n + 1, got)
      <3> HIDE DEF new, old, u2
      <3>1. n \in Nat
        OBVIOUS
      <3> QED BY <1>0, <2>0, <2>5, <2>6, <2>7, <2>8, <3>1, PutOrder, Zenon
    <2>10. UnreadInOrder'
      <3>1. Unread' = u2 /\ \A i \in Nat : Slot(i)' = new[i]
        BY DEF Unread, Slot
      <3> HIDE DEF new, u2
      <3> QED BY <2>1, <2>5, <2>9, <3>1 DEF UnreadInOrder, InOrder
    <2> QED BY <1>0, <2>2, <2>3, <2>4, <2>10 DEF RingInv
  <1> QED BY <1>0, <1>1, <1>2 DEF Unread, Used

\* Reading n unread bytes moves the oldest by n, also to the very end of the ring.
LEMMA PastMoves ==
  ASSUME Size \in Nat \ {0}, NEW w \in 0..Size - 1, NEW r \in 0..Size, NEW n \in Nat, n <= Used(w, r)
  PROVE  /\ Past(r, n) \in 0..Size /\ Used(w, Past(r, n)) = Used(w, r) - n
         /\ \A i \in Nat : i < Used(w, r) - n => (Past(r, n) + i) % Size = (r + (n + i)) % Size
  <1>1. Past(r, n) \in 0..Size /\ Used(w, Past(r, n)) = Used(w, r) - n
    BY DEF Past, Used
  <1>2. ASSUME NEW i \in Nat, i < Used(w, r) - n
        PROVE  (Past(r, n) + i) % Size = (r + (n + i)) % Size
    <2>1. CASE r + n <= Size
      BY <2>1 DEF Past
    <2>2. CASE r + n > Size
      <3> DEFINE a == r + (n + i)
                 b == Past(r, n) + i
      <3>1. a \in Nat /\ a >= Size /\ a < 2 * Size
        BY <1>2, <2>2 DEF Used
      <3>2. b = a - Size
        BY <2>2 DEF Past
      <3> HIDE DEF a, b
      <3>3. b \in Nat /\ b < 2 * Size /\ b < Size
        BY <3>1, <3>2
      <3>4. a % Size = (IF a < Size THEN a ELSE a - Size)
        BY <3>1, Turn
      <3>5. b % Size = (IF b < Size THEN b ELSE b - Size)
        BY <3>3, Turn
      <3> QED BY <3>1, <3>2, <3>3, <3>4, <3>5 DEF a, b
    <2> QED BY <2>1, <2>2
  <1> QED BY <1>1, <1>2

\* CA_GET_MSG hands out the oldest bytes.
LEMMA ReadKeeps ==
  ASSUME Size \in Nat \ {0}, RingInv, NEW count \in Nat, Read(count)
  PROVE  RingInv' /\ Stream!Next
  <1> DEFINE n == IF count < Used(wptr, rptr) THEN count ELSE Used(wptr, rptr)
             old == [i \in Nat |-> Slot(i)]
             new == [i \in Nat |-> Slot(i)']
             part == [i \in 1..n |-> queue[(rptr + i - 1) % Size]]
  <1>0. /\ sent \in Nat /\ queue \in [0..Size - 1 -> Nat] /\ wptr \in 0..Size /\ rptr \in 0..Size
        /\ wptr = Size => rptr = Size
        /\ GotInOrder /\ UnreadInOrder
    BY DEF RingInv
  <1>1. /\ n > 0 /\ rptr' = Past(rptr, n) /\ UNCHANGED <<queue, wptr, sent>>
        /\ got' = got \o part
    BY DEF Read
  <1>2. Used(wptr, rptr) \in Nat /\ wptr \in 0..Size - 1
    <2>1. n > 0 => Used(wptr, rptr) # 0
      BY <1>0 DEF Used
    <2>2. Used(wptr, rptr) # 0 => wptr # Size
      BY <1>0 DEF Used
    <2>3. Used(wptr, rptr) \in Nat
      BY <1>0 DEF Used
    <2> QED BY <1>0, <1>1, <2>1, <2>2, <2>3
  <1>3. n \in Nat /\ n <= Used(wptr, rptr)
    BY <1>2
  <1> HIDE DEF n
  <1>4. /\ rptr' \in 0..Size /\ Unread' = Unread - n /\ Unread \in Nat /\ n <= Unread
        /\ \A i \in Nat : i < Unread - n => (rptr' + i) % Size = (rptr + (n + i)) % Size
    BY <1>0, <1>1, <1>2, <1>3, PastMoves DEF Unread
  <1>5. \A i \in Nat : i < Unread - n => Slot(i)' = Slot(n + i)
    BY <1>1, <1>4 DEF Slot
  <1>6. /\ part \in Seq(Nat) /\ Len(part) = n
        /\ \A i \in 1..n : part[i] = Slot(i - 1) /\ part[i] \in 1..sent
    <2>1. \A i \in 1..n : part[i] = Slot(i - 1)
      <3> SUFFICES ASSUME NEW i \in 1..n PROVE queue[(rptr + i - 1) % Size] = queue[(rptr + (i - 1)) % Size]
        BY DEF Slot
      <3>1. rptr + i - 1 = rptr + (i - 1)
        BY <1>0, <1>3
      <3> QED BY <3>1
    <2>2. \A i \in 1..n : i - 1 \in 0..Unread - 1
      BY <1>3, <1>4
    <2>3. \A i \in 1..n : part[i] \in 1..sent
      <3> HIDE DEF part
      <3> QED BY <1>0, <2>1, <2>2 DEF UnreadInOrder
    <2>4. part = [i \in 1..n |-> part[i]] /\ \A i \in 1..n : part[i] \in Nat
      <3>1. \A i \in 1..n : part[i] \in Nat
        <4> HIDE DEF part
        <4> QED BY <1>0, <2>3
      <3> QED BY <3>1
    <2>5. part \in [1..n -> Nat]
      <3>1. \A i \in 1..n : queue[(rptr + i - 1) % Size] \in Nat
        BY <2>4
      <3> QED BY <3>1
    <2>6. part \in Seq(Nat) /\ Len(part) = n
      <3> HIDE DEF part
      <3> QED BY <1>3, <2>5
    <2> QED BY <2>1, <2>3, <2>6
  <1> HIDE DEF part
  <1>7. /\ got \in Seq(Nat) /\ got' \in Seq(Nat) /\ Len(got') = Len(got) + n
        /\ \A i \in 1..Len(got) : got'[i] = got[i]
        /\ \A i \in 1..n : got'[Len(got) + i] = Slot(i - 1)
    <2>1. got \in Seq(Nat)
      BY <1>0 DEF GotInOrder
    <2>2. /\ got \o part \in Seq(Nat) /\ Len(got \o part) = Len(got) + n
          /\ \A i \in 1..Len(got) + n : (got \o part)[i] = IF i <= Len(got) THEN got[i] ELSE part[i - Len(got)]
      BY <1>6, <2>1, ConcatProperties
    <2>3. \A i \in 1..Len(got) : got'[i] = got[i]
      BY <1>1, <1>3, <2>1, <2>2
    <2>4. ASSUME NEW i \in 1..n PROVE got'[Len(got) + i] = Slot(i - 1)
      <3>1. Len(got) + i \in 1..Len(got) + n /\ ~(Len(got) + i <= Len(got)) /\ (Len(got) + i) - Len(got) = i
        BY <1>3, <2>1
      <3>2. (got \o part)[Len(got) + i] = part[(Len(got) + i) - Len(got)]
        BY <2>2, <3>1
      <3> QED BY <1>1, <1>6, <3>1, <3>2
    <2> QED BY <1>1, <2>1, <2>2, <2>3, <2>4
  \* Each byte that is out now was out before or is one of the oldest that were unread.
  <1>8. \A k \in 1..Len(got') : \/ k \in 1..Len(got) /\ got'[k] = got[k]
                                \/ k - Len(got) - 1 \in 0..n - 1 /\ got'[k] = Slot(k - Len(got) - 1)
    <2> SUFFICES ASSUME NEW k \in 1..Len(got'), k > Len(got)
                 PROVE  k - Len(got) - 1 \in 0..n - 1 /\ got'[k] = Slot(k - Len(got) - 1)
      BY <1>7
    <2> DEFINE i == k - Len(got)
    <2>1. i \in 1..n /\ Len(got) + i = k /\ Len(got) \in Nat
      BY <1>3, <1>7
    <2>2. got'[Len(got) + i] = Slot(i - 1)
      BY <1>7, <2>1
    <2> QED BY <1>3, <2>1, <2>2
  <1>9. /\ \A k \in 1..Len(got) : got[k] \in 1..sent
        /\ \A k, l \in 1..Len(got) : k < l => got[k] < got[l]
    BY <1>0, <1>7 DEF GotInOrder, Stream!Increasing
  <1>10. /\ \A i \in 0..Unread - 1 : Slot(i) \in 1..sent
         /\ \A i \in 0..Unread - 1 : \A k \in 1..Len(got) : got[k] < Slot(i)
         /\ \A i \in 0..Unread - 1 : \A j \in 0..i - 1 : Slot(j) < Slot(i)
    BY <1>0, <1>7 DEF UnreadInOrder
  <1>11. DOMAIN got' = 1..Len(got') /\ DOMAIN got = 1..Len(got) /\ Len(got) \in Nat /\ Len(got') \in Nat
    BY <1>7
  <1>12. \A k \in 1..Len(got') : got'[k] \in 1..sent
    BY <1>3, <1>4, <1>8, <1>9, <1>10
  <1>13. ASSUME NEW k \in 1..Len(got'), NEW l \in 1..Len(got'), k < l PROVE got'[k] < got'[l]
    <2>1. CASE l \in 1..Len(got)
      <3>1. k \in 1..Len(got)
        BY <1>11, <1>13, <2>1
      <3> QED BY <1>7, <1>9, <1>13, <2>1, <3>1
    <2>2. CASE l \notin 1..Len(got)
      <3> DEFINE j == l - Len(got) - 1
      <3>1. j \in 0..n - 1 /\ got'[l] = Slot(j) /\ j \in 0..Unread - 1
        BY <1>3, <1>4, <1>8, <2>2
      <3>2. CASE k \in 1..Len(got) /\ got'[k] = got[k]
        BY <1>10, <3>1, <3>2
      <3>3. CASE k - Len(got) - 1 \in 0..n - 1 /\ got'[k] = Slot(k - Len(got) - 1)
        <4>1. k - Len(got) - 1 \in 0..j - 1
          BY <1>11, <1>13, <3>3
        <4> QED BY <1>10, <3>1, <3>3, <4>1
      <3> QED BY <1>8, <3>2, <3>3
    <2> QED BY <2>1, <2>2
  <1>14. GotInOrder'
    BY <1>1, <1>7, <1>11, <1>12, <1>13 DEF GotInOrder, Stream!Increasing
  <1>15. UnreadInOrder'
    <2> SUFFICES ASSUME NEW i \in 0..(Unread - n) - 1
                 PROVE  /\ Slot(i)' \in 1..sent
                        /\ \A k \in DOMAIN got' : got'[k] < Slot(i)'
                        /\ \A j \in 0..i - 1 : Slot(j)' < Slot(i)'
      BY <1>1, <1>4 DEF UnreadInOrder
    <2>1. i \in Nat /\ i < Unread - n /\ n + i \in 0..Unread - 1 /\ Slot(i)' = Slot(n + i)
      BY <1>3, <1>4, <1>5
    <2>2. ASSUME NEW k \in 1..Len(got') PROVE got'[k] < Slot(n + i)
      <3>1. CASE k \in 1..Len(got) /\ got'[k] = got[k]
        BY <1>10, <2>1, <3>1
      <3>2. CASE k - Len(got) - 1 \in 0..n - 1 /\ got'[k] = Slot(k - Len(got) - 1)
        <4>1. k - Len(got) - 1 \in 0..(n + i) - 1
          BY <1>3, <2>1, <3>2
        <4> QED BY <1>10, <2>1, <3>2, <4>1
      <3> QED BY <1>8, <3>1, <3>2
    <2>3. ASSUME NEW j \in 0..i - 1 PROVE Slot(j)' < Slot(i)'
      <3>1. j \in Nat /\ j < Unread - n /\ n + j \in 0..(n + i) - 1
        BY <1>3, <1>4, <2>1
      <3>2. Slot(j)' = Slot(n + j)
        BY <1>5, <3>1
      <3> QED BY <1>10, <2>1, <3>1, <3>2
    <2> QED BY <1>10, <1>11, <2>1, <2>2, <2>3
  <1>16. IsPrefix(got, got')
    <2>1. SubSeq(got, 1, Len(got)) = SubSeq(got', 1, Len(got))
      BY <1>3, <1>7
    <2> QED BY <1>3, <1>7, <2>1 DEF IsPrefix
  <1>17. RingInv'
    BY <1>0, <1>1, <1>2, <1>4, <1>14, <1>15 DEF RingInv
  <1>18. Stream!Next
    BY <1>0, <1>1, <1>11, <1>12, <1>14, <1>16 DEF Stream!Next, Stream!IsPrefix, IsPrefix, GotInOrder
  <1> QED BY <1>17, <1>18

\* The steps that touch the ring are Store, Read and those that empty it.
LEMMA RingNext ==
  ASSUME Size \in Nat \ {0}, Lengths \subseteq 0..Size - 1, Counts \subseteq Nat,
         TaskOK, RingInv, [Next]_vars
  PROVE  RingInv' /\ [Stream!Next]_<<sent, got>>
  <1>1. CASE Store
    <2>1. /\ task.len \in 0..Size - 1 /\ wptr < Size /\ Put(task.len) /\ UNCHANGED <<rptr, got>>
      <3>1. task.len \in Lengths \cup {0} /\ 0 \in 0..Size - 1
        BY DEF TaskOK
      <3> QED BY <1>1, <3>1 DEF Store
    <2>2. RingInv' /\ sent' >= sent
      BY <2>1, PutKeeps
    <2>3. got \in Seq(Nat) /\ IsPrefix(got, got')
      BY <2>1 DEF RingInv, GotInOrder, IsPrefix
    <2>4. Stream!Next
      BY <2>2, <2>3 DEF RingInv, GotInOrder, Stream!Next, Stream!IsPrefix, IsPrefix
    <2> QED BY <2>2, <2>4
  <1>2. CASE \E count \in Counts : Read(count)
    BY <1>2, ReadKeeps
  <1>3. CASE wptr' = rptr /\ UNCHANGED <<queue, rptr, sent, got>>
    <2>1. Unread' = 0
      BY <1>3 DEF Unread, Used, RingInv
    <2>2. UnreadInOrder' /\ GotInOrder'
      BY <1>3, <2>1 DEF UnreadInOrder, GotInOrder, RingInv
    <2> QED BY <1>3, <2>2 DEF RingInv
  <1>4. CASE UNCHANGED <<queue, wptr, rptr, sent, got>>
    <2>1. UnreadInOrder' /\ GotInOrder'
      BY <1>4 DEF UnreadInOrder, GotInOrder, Unread, Slot, RingInv
    <2> QED BY <1>4, <2>1 DEF RingInv
  <1>5. \/ Store \/ (\E count \in Counts : Read(count))
        \/ wptr' = rptr /\ UNCHANGED <<queue, rptr, sent, got>>
        \/ UNCHANGED <<queue, wptr, rptr, sent, got>>
    BY DEF Next, ChipChanges, Interrupt, TaskDown, RecvFails, RecvLength, RecvBody, RecvAgain, StorePast, Request,
           AnswerDown, AnswerSent, TaskEnds, Send, SendDown, SendInterrupted, SendEnds, vars, ring
  <1> QED BY <1>1, <1>2, <1>3, <1>4, <1>5

\* A message that the module has is stored whole, and the semaphore keeps the task and the senders
\* apart as long as it was not released too often, whatever transfers fail and however they interleave.
THEOREM CamSound ==
  ASSUME MaxMessages \in Nat, IsFiniteSet(Senders),
         Size \in Nat \ {0}, Lengths \subseteq 0..Size - 1, Counts \subseteq Nat
  PROVE  Spec => [](TypeOK /\ StoresWhole /\ Exclusive)
  <1>1. Init => BusyInv /\ RingInv
    <2>1. Init => RingInv
      BY DEF Init, RingInv, GotInOrder, UnreadInOrder, Unread, Used, Stream!Increasing
    <2> QED BY <2>1, BusyInit
  <1>2. BusyInv /\ RingInv /\ [Next]_vars => (BusyInv /\ RingInv)'
    BY BusyNext, RingNext DEF BusyInv
  <1>3. BusyInv /\ RingInv => TypeOK /\ StoresWhole /\ Exclusive
    <2> SUFFICES ASSUME BusyInv, RingInv PROVE TypeOK /\ StoresWhole /\ Exclusive
      OBVIOUS
    <2>1. Exclusive /\ busy \in 0..1 + answers
      BY UpsExclude
    <2>2. task.pc \in {"idle", "queued", "length", "body", "again", "store", "answer", "sending", "up"}
      BY DEF BusyInv, TaskOK
    <2> QED BY <2>1, <2>2 DEF BusyInv, RingInv, TypeOK, Messages
  <1> QED BY <1>1, <1>2, <1>3, PTL DEF Spec

\* CA_GET_MSG reads a stream that may lose bytes and neither repeats nor reorders one: the ring of cam.c
\* implements LossyStream, also where it is emptied under its reader and where a full one looks empty.
THEOREM CamIsLossy ==
  ASSUME MaxMessages \in Nat, IsFiniteSet(Senders),
         Size \in Nat \ {0}, Lengths \subseteq 0..Size - 1, Counts \subseteq Nat
  PROVE  Spec => LossyAtWorst
  <1>1. Init => BusyInv /\ RingInv /\ Stream!Init
    <2>1. Init => RingInv
      BY DEF Init, RingInv, GotInOrder, UnreadInOrder, Unread, Used, Stream!Increasing
    <2> QED BY <2>1, BusyInit DEF Init, Stream!Init
  <1>2. BusyInv /\ RingInv /\ [Next]_vars => (BusyInv /\ RingInv)' /\ [Stream!Next]_<<sent, got>>
    BY BusyNext, RingNext DEF BusyInv
  <1> QED BY <1>1, <1>2, PTL DEF Spec, LossyAtWorst, Stream!Spec
=============================================================================
