------------------------- MODULE DvbFrontendProofs --------------------------
(***************************************************************************)
(* Proofs, for any number of processes and an event ring of any size, that *)
(* fe->sem excludes, that a lock is reported for the frequency tuned last  *)
(* and that the event ring skips and repeats nothing.                      *)
(*                                                                         *)
(* Each theorem names the scenarios of DvbFrontend it leaves out.          *)
(***************************************************************************)
EXTENDS DvbFrontend, FiniteSetTheorems, TLAPS

Pcs == {"closed", "opening", "idle", "lock", "busy", "wait", "relock", "interrupted"}

Places == {"none", "init", "sleep", "lock", "status", "adding", "suspend"}

\* The thread works with the semaphore held.
Works == {"init", "status", "adding", "suspend"}

----------------------------------------------------------------------------
(* The semaphore.                                                          *)

SemTypes ==
  /\ sem \in Nat
  /\ thread \in Places
  /\ proc \in [Procs -> [pc : Pcs, cmd : Commands]]

\* Given away and held together: one, and more only when a semaphore was given
\* that was not taken.
Total == sem + Cardinality(Holders)

SemInv ==
  /\ SemTypes
  /\ 1 <= Total /\ Total <= 1 + Cardinality(Procs)
  /\ ~LateSignals => Total = 1

\* The holders are some of finitely many.
LEMMA HoldersFinite ==
  /\ IsFiniteSet(Holders)
  /\ Cardinality(Holders) \in Nat
  /\ Cardinality(Procs) \in Nat
  /\ Cardinality(Procs \cup {"thread"}) = Cardinality(Procs) + 1
<1>1. IsFiniteSet(Procs) /\ "thread" \notin Procs
  BY FrontendAssumption
<1>2. /\ IsFiniteSet(Procs \cup {"thread"})
      /\ Cardinality(Procs \cup {"thread"}) = Cardinality(Procs) + 1
  BY <1>1, FS_AddElement
<1>3. Holders \in SUBSET (Procs \cup {"thread"})
  BY DEF Holders
<1>4. IsFiniteSet(Holders)
  BY <1>2, <1>3, FS_Subset
<1> QED
  BY <1>1, <1>2, <1>4, FS_CardinalityType

\* Who takes the semaphore has it, and it is gone.
LEMMA Takes ==
  ASSUME SemInv, NEW x, x \notin Holders, Holders' = Holders \cup {x},
         sem > 0, sem' = sem - 1, SemTypes'
  PROVE  SemInv'
<1>1. Cardinality(Holders') = Cardinality(Holders) + 1
  BY HoldersFinite, FS_AddElement
<1>2. Total' = Total
  BY <1>1, HoldersFinite DEF Total, SemInv, SemTypes
<1> QED
  BY <1>2 DEF SemInv

\* Who gives it has had it.
LEMMA Gives ==
  ASSUME SemInv, NEW x \in Holders, Holders' = Holders \ {x}, sem' = sem + 1, SemTypes'
  PROVE  SemInv'
<1>1. Cardinality(Holders') = Cardinality(Holders) - 1
  BY HoldersFinite, FS_RemoveElement
<1>2. Total' = Total
  BY <1>1, HoldersFinite DEF Total, SemInv, SemTypes
<1> QED
  BY <1>2 DEF SemInv

\* Nothing is taken or given.
LEMMA Leaves ==
  ASSUME SemInv, Holders' = Holders, sem' = sem, SemTypes'
  PROVE  SemInv'
BY DEF SemInv, Total

\* A process goes on, holding nothing before and after.
LEMMA MovesOn ==
  ASSUME SemTypes, NEW p \in Procs, NEW pc \in Pcs, pc # "busy", proc[p].pc # "busy",
         Moves(p, pc), thread' = thread
  PROVE  /\ Holders' = Holders
         /\ proc' \in [Procs -> [pc : Pcs, cmd : Commands]]
<1>1. \A q \in Procs : q # p => proc'[q] = proc[q]
  BY DEF SemTypes, Moves
<1>2. proc'[p].pc = pc /\ proc'[p] \in [pc : Pcs, cmd : Commands]
  BY DEF SemTypes, Moves
<1>3. \A q \in Procs : At(q, "busy")' <=> At(q, "busy")
  BY <1>1, <1>2 DEF At
<1> QED
  BY <1>1, <1>2, <1>3 DEF Holders, Moves, SemTypes

\* Init holds nothing and has the semaphore free.
LEMMA SemInit == Init => SemInv
<1> SUFFICES ASSUME Init PROVE SemInv
  OBVIOUS
<1>1. SemTypes
  BY DEF Init, SemTypes, Places, Pcs, Commands
<1>2. Holders = {}
  BY DEF Init, Holders, At
<1>3. Cardinality(Holders) = 0
  BY <1>2, FS_EmptySet
<1> QED
  BY <1>1, <1>3, HoldersFinite DEF Init, SemInv, Total

\* Open, close and the ioctls keep the semaphore true.
LEMMA ProcessKeepsSem ==
  ASSUME SemInv, NEW p \in Procs,
         \/ OpenRead(p) \/ OpenJoins(p) \/ OpenWaits(p) \/ OpenFails(p)
         \/ Close(p) \/ EnterInterrupted(p)
         \/ EventOverflow(p) \/ EventTaken(p) \/ EventNone(p) \/ EventWakes(p)
         \/ EventAgain(p)
  PROVE  SemInv'
<1>1. PICK pc \in {"closed", "opening", "idle", "wait", "relock", "interrupted"} : Moves(p, pc)
  BY DEF OpenRead, OpenJoins, OpenWaits, OpenFails, Close, EnterInterrupted,
         EventOverflow, EventTaken, EventNone, EventWakes, EventAgain
<1>2. proc[p].pc # "busy" /\ thread' = thread /\ sem' = sem
  <2>1. CASE OpenRead(p) \/ OpenJoins(p) \/ OpenWaits(p) \/ OpenFails(p)
    BY <2>1 DEF At, OpenRead, OpenJoins, OpenWaits, OpenFails, NoWriter
  <2>2. CASE Close(p) \/ EnterInterrupted(p) \/ EventWakes(p) \/ EventAgain(p)
    BY <2>2 DEF At, Close, EnterInterrupted, EventWakes, EventAgain
  <2>3. CASE EventOverflow(p) \/ EventTaken(p) \/ EventNone(p)
    BY <2>3 DEF At, Asks, GetsEvent, EventOverflow, EventTaken, EventNone
  <2> QED
    BY <2>1, <2>2, <2>3
<1>3. Holders' = Holders /\ proc' \in [Procs -> [pc : Pcs, cmd : Commands]]
  <2>1. pc \in Pcs /\ pc # "busy"
    BY <1>1 DEF Pcs
  <2> QED
    BY <1>1, <1>2, <2>1, MovesOn DEF SemInv
<1> QED
  BY <1>2, <1>3, Leaves DEF SemInv, SemTypes

\* An ioctl is entered without the semaphore.
LEMMA EnterKeepsSem ==
  ASSUME SemInv, NEW p \in Procs, NEW cmd \in Commands, Enter(p, cmd)
  PROVE  SemInv'
<1>1. /\ \A q \in Procs : q # p => proc'[q] = proc[q]
      /\ proc'[p] = [pc |-> "lock", cmd |-> cmd]
      /\ proc' \in [Procs -> [pc : Pcs, cmd : Commands]]
  BY DEF Enter, SemInv, SemTypes, Pcs
<1>2. \A q \in Procs : At(q, "busy")' <=> At(q, "busy")
  BY <1>1 DEF Enter, At
<1>3. Holders' = Holders
  BY <1>2 DEF Enter, Holders
<1> QED
  BY <1>1, <1>3, Leaves DEF Enter, SemInv, SemTypes

\* Tuning and DiSEqC take it.
LEMMA BusyKeepsSem ==
  ASSUME SemInv, NEW p \in Procs, SetFrontend(p) \/ Diseqc(p)
  PROVE  SemInv'
<1>1. /\ Moves(p, "busy") /\ proc[p].pc = "lock" /\ thread' = thread
      /\ sem > 0 /\ sem' = sem - 1
  BY DEF SetFrontend, Diseqc, Asks, At, Down
<1>2. /\ \A q \in Procs : q # p => proc'[q] = proc[q]
      /\ proc'[p].pc = "busy" /\ proc'[p] \in [pc : Pcs, cmd : Commands]
  BY <1>1 DEF SemInv, SemTypes, Moves, Pcs
<1>3. \A q \in Procs : At(q, "busy")' <=> At(q, "busy") \/ q = p
  BY <1>2 DEF At
<1>4. p \notin Holders /\ Holders' = Holders \cup {p}
  BY <1>1, <1>3, FrontendAssumption DEF Holders, At
<1>5. SemTypes'
  <2>1. proc' \in [Procs -> [pc : Pcs, cmd : Commands]]
    BY <1>1, <1>2 DEF Moves, SemInv, SemTypes
  <2> QED
    BY <1>1, <2>1 DEF SemInv, SemTypes
<1> QED
  BY <1>1, <1>4, <1>5, Takes

\* The end of an ioctl gives it.
LEMMA FinishKeepsSem ==
  ASSUME SemInv, NEW p \in Procs, Finish(p)
  PROVE  SemInv'
<1>1. /\ Moves(p, "idle") /\ proc[p].pc = "busy" /\ thread' = thread
      /\ sem' = sem + 1
  BY DEF Finish, At, Up
<1>2. /\ \A q \in Procs : q # p => proc'[q] = proc[q]
      /\ proc'[p].pc = "idle" /\ proc'[p] \in [pc : Pcs, cmd : Commands]
  BY <1>1 DEF SemInv, SemTypes, Moves, Pcs
<1>3. \A q \in Procs : At(q, "busy")' <=> At(q, "busy") /\ q # p
  BY <1>2 DEF At
<1>4. p \in Holders /\ Holders' = Holders \ {p}
  BY <1>1, <1>3, FrontendAssumption DEF Holders, At
<1>5. SemTypes'
  <2>1. proc' \in [Procs -> [pc : Pcs, cmd : Commands]]
    BY <1>1, <1>2 DEF Moves, SemInv, SemTypes
  <2> QED
    BY <1>1, <2>1 DEF SemInv, SemTypes
<1> QED
  BY <1>1, <1>4, <1>5, Gives

\* A wait that a signal ended: the semaphore may be given without being held, once
\* it is taken by others, so that there are never more than one for each process.
LEMMA InterruptedKeepsSem ==
  ASSUME SemInv, NEW p \in Procs, EventInterrupted(p)
  PROVE  SemInv'
<1>1. /\ Moves(p, "idle") /\ proc[p].pc # "busy" /\ thread' = thread
  BY DEF EventInterrupted, At
<1>2. Holders' = Holders /\ proc' \in [Procs -> [pc : Pcs, cmd : Commands]]
  BY <1>1, MovesOn DEF SemInv, Pcs
<1>3. CASE sem' = sem
  BY <1>1, <1>2, <1>3, Leaves DEF SemInv, SemTypes
<1>4. CASE LateSignals /\ sem = 0 /\ sem' = sem + 1
  <2>1. p \notin Holders /\ p # "thread"
    BY <1>1, FrontendAssumption DEF Holders, At
  <2>2. Holders \in SUBSET ((Procs \cup {"thread"}) \ {p})
    BY <2>1 DEF Holders
  <2>3. IsFiniteSet(Procs \cup {"thread"})
    BY FrontendAssumption, FS_AddElement
  <2>4. /\ Cardinality((Procs \cup {"thread"}) \ {p}) = Cardinality(Procs)
        /\ IsFiniteSet((Procs \cup {"thread"}) \ {p})
    <3> DEFINE A == Procs \cup {"thread"}
    <3>1. p \in A /\ Cardinality(A) = Cardinality(Procs) + 1
      BY HoldersFinite
    <3>2. IsFiniteSet(A \ {p}) /\ Cardinality(A \ {p}) = Cardinality(A) - 1
      <4> HIDE DEF A
      <4> QED
        BY <2>3, <3>1, FS_RemoveElement DEF A
    <3> QED
      BY <3>1, <3>2, HoldersFinite
  <2>5. Cardinality(Holders) <= Cardinality(Procs)
    BY <2>2, <2>4, FS_Subset
  <2>6. Total' = Total + 1 /\ Total <= Cardinality(Procs)
    <3>1. Cardinality(Holders)' = Cardinality(Holders)
      BY <1>2
    <3> QED
      BY <1>4, <2>5, <3>1, HoldersFinite DEF Total
  <2>7. SemTypes'
    BY <1>1, <1>2, <1>4 DEF SemInv, SemTypes
  <2>8. 1 <= Total /\ Total \in Nat
    BY HoldersFinite DEF SemInv, SemTypes, Total
  <2>9. 1 <= Total' /\ Total' <= 1 + Cardinality(Procs)
    BY <2>6, <2>8, HoldersFinite
  <2> QED
    BY <1>4, <2>7, <2>9 DEF SemInv
<1> QED
  BY <1>3, <1>4 DEF EventInterrupted, Up

\* Whether the thread holds the semaphore follows from where it is.
LEMMA ThreadHolds ==
  ASSUME SemInv, proc' = proc
  PROVE  /\ "thread" \in Holders <=> thread \in Works
         /\ (thread \in Works <=> thread' \in Works) => Holders' = Holders
         /\ thread \notin Works /\ thread' \in Works => Holders' = Holders \cup {"thread"}
         /\ thread \in Works /\ thread' \notin Works => Holders' = Holders \ {"thread"}
<1>1. \A q \in Procs : At(q, "busy")' <=> At(q, "busy")
  BY DEF At
<1> QED
  BY <1>1, FrontendAssumption DEF Holders, Works

\* The thread takes and gives it in turn.
LEMMA ThreadKeepsSem ==
  ASSUME SemInv, ThreadStep
  PROVE  SemInv'
<1>1. proc' = proc /\ proc \in [Procs -> [pc : Pcs, cmd : Commands]] /\ sem \in Nat
  BY DEF SemInv, SemTypes, ThreadStep, ThreadInit, ThreadWakes, ThreadLocks,
         ThreadGainsLock, ThreadKeepsLock, ThreadIsPatient, ThreadMissesLock, ThreadAdds,
         ThreadSuspends
<1>2. CASE ThreadLocks /\ lost # -1
  <2>1. thread = "lock" /\ thread' \in {"suspend", "status"} /\ sem > 0 /\ sem' = sem - 1
    BY <1>2 DEF ThreadLocks
  <2> QED
    BY <1>1, <2>1, ThreadHolds, Takes DEF SemTypes, Works, Places
<1>3. CASE ThreadLocks /\ lost = -1
  <2>1. /\ thread = "lock" /\ sem > 0
        /\ \/ thread' = "suspend" /\ sem' = sem - 1
           \/ thread' = "sleep" /\ sem' = sem
    BY <1>1, <1>3 DEF ThreadLocks, LoopTop
  <2>2. CASE thread' = "suspend" /\ sem' = sem - 1
    BY <1>1, <2>1, <2>2, ThreadHolds, Takes DEF SemTypes, Works, Places
  <2>3. CASE thread' = "sleep" /\ sem' = sem
    BY <1>1, <2>1, <2>3, ThreadHolds, Leaves DEF SemTypes, Works, Places
  <2> QED
    BY <2>1, <2>2, <2>3
<1>4. CASE ThreadWakes \/ ThreadGainsLock
  <2>1. /\ sem' = sem /\ thread' \in Places
        /\ thread \in Works <=> thread' \in Works
    BY <1>4 DEF ThreadWakes, ThreadGainsLock, Works, Places
  <2> QED
    BY <1>1, <2>1, ThreadHolds, Leaves DEF SemTypes
<1>5. CASE ThreadSuspends
  <2>1. thread = "suspend" /\ thread' = "none" /\ sem' = sem + 1
    BY <1>5 DEF ThreadSuspends, Up
  <2> QED
    BY <1>1, <2>1, ThreadHolds, Gives DEF SemTypes, Works, Places
<1>6. CASE ThreadInit \/ ThreadKeepsLock \/ ThreadIsPatient \/ ThreadMissesLock \/ ThreadAdds
  <2>1. thread \in Works /\ LoopTop(sem)
    BY <1>6 DEF ThreadInit, ThreadKeepsLock, ThreadIsPatient, ThreadMissesLock, ThreadAdds,
       Works
  <2>2. CASE thread' = "suspend" /\ sem' = sem
    BY <1>1, <2>1, <2>2, ThreadHolds, Leaves DEF SemTypes, Works, Places
  <2>3. CASE thread' = "sleep" /\ sem' = sem + 1
    BY <1>1, <2>1, <2>3, ThreadHolds, Gives DEF SemTypes, Works, Places
  <2> QED
    BY <2>1, <2>2, <2>3 DEF LoopTop
<1> QED
  BY <1>2, <1>3, <1>4, <1>5, <1>6 DEF ThreadStep

\* The first open takes it for the thread it starts.
LEMMA OpenStartsKeepsSem ==
  ASSUME SemInv, NEW p \in Procs, OpenStarts(p), thread = "none"
  PROVE  SemInv'
<1>1. /\ proc[p].pc = "opening" /\ sem > 0 /\ sem' = sem - 1 /\ thread' = "init"
      /\ Moves(p, "idle")
  BY DEF OpenStarts, At, Down
<1>2. /\ \A q \in Procs : q # p => proc'[q] = proc[q]
      /\ proc'[p].pc = "idle" /\ proc'[p] \in [pc : Pcs, cmd : Commands]
  BY <1>1 DEF SemInv, SemTypes, Moves, Pcs
<1>3. \A q \in Procs : At(q, "busy")' <=> At(q, "busy")
  BY <1>1, <1>2 DEF At
<1>4. "thread" \notin Holders /\ Holders' = Holders \cup {"thread"}
  BY <1>1, <1>3, FrontendAssumption DEF Holders
<1>5. SemTypes'
  <2>1. proc' \in [Procs -> [pc : Pcs, cmd : Commands]]
    BY <1>1, <1>2 DEF Moves, SemInv, SemTypes
  <2> QED
    BY <1>1, <2>1 DEF SemInv, SemTypes, Places
<1> QED
  BY <1>1, <1>4, <1>5, Takes
----------------------------------------------------------------------------
(* Who has the device open.                                                *)

\* In an ioctl that asks for events, before or after the wait for one.
Asking(p) ==
  \/ proc[p].pc \in {"wait", "relock", "interrupted"}
  \/ At(p, "lock") /\ proc[p].cmd \in {"event", "event_nonblock"}

OneWriter ==
  \A p, q \in Writers : ~At(p, "closed") /\ ~At(q, "closed") => p = q

\* Who opens the device waits for a thread, of which there is none then.
OpeningAlone ==
  \A p \in Procs : At(p, "opening") => p \in Writers /\ thread = "none"

AskersRead == \A p \in Procs : Asking(p) => p \in EventReaders

Callers == OneWriter /\ OpeningAlone /\ AskersRead

\* What an action of one process does to where it is and to the thread.
LEMMA ProcessSteps ==
  ASSUME SemTypes, NEW p \in Procs,
         \/ OpenRead(p) \/ OpenJoins(p) \/ OpenWaits(p) \/ OpenStarts(p) \/ OpenFails(p)
         \/ Close(p) \/ \E cmd \in Commands : Enter(p, cmd)
         \/ EnterInterrupted(p) \/ SetFrontend(p) \/ Diseqc(p) \/ Finish(p)
         \/ EventOverflow(p) \/ EventTaken(p) \/ EventNone(p) \/ EventWakes(p)
         \/ EventAgain(p) \/ EventInterrupted(p)
  PROVE  /\ \A q \in Procs : q # p => proc'[q] = proc[q]
         /\ \/ thread' = thread
            \/ OpenStarts(p) /\ proc[p].pc = "opening" /\ proc'[p].pc = "idle"
         /\ proc[p].pc = "closed" /\ p \in Writers => NoWriter
         /\ proc'[p].pc = "opening" =>
              p \in Writers /\ thread = "none" /\ thread' = thread
         /\ Asking(p)' => Asking(p) \/ p \in EventReaders
<1>1. CASE OpenRead(p)
  BY <1>1 DEF OpenRead, SemTypes, Moves, At, Asking
<1>2. CASE OpenJoins(p)
  BY <1>2 DEF OpenJoins, SemTypes, Moves, At, Asking
<1>3. CASE OpenWaits(p)
  BY <1>3 DEF OpenWaits, SemTypes, Moves, At, Asking
<1>4. CASE OpenStarts(p)
  BY <1>4 DEF OpenStarts, SemTypes, Moves, At, Asking
<1>5. CASE OpenFails(p)
  BY <1>5 DEF OpenFails, SemTypes, Moves, At, Asking
<1>6. CASE Close(p)
  BY <1>6 DEF Close, SemTypes, Moves, At, Asking
<1>7. ASSUME NEW cmd \in Commands, Enter(p, cmd)
      PROVE  /\ \A q \in Procs : q # p => proc'[q] = proc[q]
             /\ thread' = thread
             /\ proc[p].pc # "closed" /\ proc'[p].pc # "opening"
             /\ Asking(p)' => p \in EventReaders
  BY <1>7 DEF Enter, SemTypes, At, Asking
<1>8. CASE EnterInterrupted(p)
  BY <1>8 DEF EnterInterrupted, SemTypes, Moves, At, Asking
<1>9. CASE SetFrontend(p) \/ Diseqc(p) \/ Finish(p)
  BY <1>9 DEF SetFrontend, Diseqc, Finish, Asks, SemTypes, Moves, At, Asking
<1>10. CASE EventOverflow(p) \/ EventTaken(p) \/ EventAgain(p) \/ EventInterrupted(p)
  BY <1>10 DEF EventOverflow, EventTaken, EventAgain, EventInterrupted, GetsEvent, Asks,
     SemTypes, Moves, At, Asking
<1>11. CASE EventNone(p)
  <2>1. /\ Asking(p) /\ thread' = thread /\ proc[p].pc = "lock"
        /\ Moves(p, "wait") \/ Moves(p, "idle")
    BY <1>11 DEF EventNone, GetsEvent, Asks, At, Asking
  <2> QED
    BY <2>1 DEF SemTypes, Moves, At
<1>12. CASE EventWakes(p)
  <2>1. /\ Asking(p) /\ thread' = thread /\ proc[p].pc = "wait"
        /\ Moves(p, "relock") \/ Moves(p, "interrupted")
    BY <1>12 DEF EventWakes, At, Asking
  <2> QED
    BY <2>1 DEF SemTypes, Moves, At
<1> QED
  BY <1>1, <1>2, <1>3, <1>4, <1>5, <1>6, <1>7, <1>8, <1>9, <1>10, <1>11, <1>12

\* The thread does not touch the processes, nor does time; a thread starts by
\* OpenStarts only.
LEMMA ThreadSteps ==
  ASSUME ThreadStep \/ TimeoutElapses
  PROVE  proc' = proc /\ (thread = "none" => thread' = "none")
BY DEF ThreadStep, ThreadInit, ThreadWakes, ThreadLocks, ThreadGainsLock, ThreadKeepsLock,
       ThreadIsPatient, ThreadMissesLock, ThreadAdds, ThreadSuspends, TimeoutElapses

\* Every step keeps it.
LEMMA CallersKept ==
  ASSUME SemTypes, Callers, [Next]_vars
  PROVE  Callers'
<1>1. CASE UNCHANGED vars
  BY <1>1 DEF vars, Callers, OneWriter, OpeningAlone, AskersRead, Asking, At
<1>2. CASE ThreadStep \/ TimeoutElapses
  BY <1>2, ThreadSteps DEF Callers, OneWriter, OpeningAlone, AskersRead, Asking, At
<1>3. ASSUME NEW p \in Procs,
             \/ OpenRead(p) \/ OpenJoins(p) \/ OpenWaits(p) \/ OpenStarts(p) \/ OpenFails(p)
             \/ Close(p) \/ \E cmd \in Commands : Enter(p, cmd)
             \/ EnterInterrupted(p) \/ SetFrontend(p) \/ Diseqc(p) \/ Finish(p)
             \/ EventOverflow(p) \/ EventTaken(p) \/ EventNone(p) \/ EventWakes(p)
             \/ EventAgain(p) \/ EventInterrupted(p)
      PROVE  Callers'
  <2>1. /\ \A q \in Procs : q # p => proc'[q] = proc[q]
        /\ \/ thread' = thread
           \/ OpenStarts(p) /\ proc[p].pc = "opening" /\ proc'[p].pc = "idle"
        /\ proc[p].pc = "closed" /\ p \in Writers => NoWriter
        /\ proc'[p].pc = "opening" => p \in Writers /\ thread = "none" /\ thread' = thread
        /\ Asking(p)' => Asking(p) \/ p \in EventReaders
    BY <1>3, ProcessSteps
  <2>2. OneWriter'
    BY <2>1, FrontendAssumption DEF Callers, OneWriter, NoWriter, At
  <2>3. OpeningAlone'
    <3>1. ASSUME NEW q \in Procs, q # p, proc[q].pc = "opening"
          PROVE  proc[p].pc # "opening"
      BY <3>1 DEF Callers, OneWriter, OpeningAlone, At
    <3> QED
      BY <2>1, <3>1 DEF Callers, OpeningAlone, At
  <2>4. AskersRead'
    BY <2>1 DEF Callers, AskersRead, Asking, At
  <2> QED
    BY <2>2, <2>3, <2>4 DEF Callers
<1> QED
  BY <1>1, <1>2, <1>3 DEF Next

\* Nobody has the device open at first.
LEMMA CallersInit == Init => Callers
BY FrontendAssumption DEF Init, Callers, OneWriter, OpeningAlone, AskersRead, Asking, At

\* Every step gives the semaphore as often as it takes it.
LEMMA SemKept ==
  ASSUME SemInv, Callers, [Next]_vars
  PROVE  SemInv'
<1>1. CASE UNCHANGED vars
  <2>1. Holders' = Holders /\ sem' = sem /\ SemTypes'
    BY <1>1 DEF vars, Holders, At, SemInv, SemTypes
  <2> QED
    BY <2>1, Leaves
<1>2. CASE ThreadStep
  BY <1>2, ThreadKeepsSem
<1>3. CASE TimeoutElapses
  <2>1. Holders' = Holders /\ sem' = sem /\ SemTypes'
    BY <1>3 DEF TimeoutElapses, Holders, At, SemInv, SemTypes
  <2> QED
    BY <2>1, Leaves
<1>4. ASSUME NEW p \in Procs, OpenStarts(p)
      PROVE  SemInv'
  BY <1>4, OpenStartsKeepsSem DEF OpenStarts, Callers, OpeningAlone
<1> QED
  BY <1>1, <1>2, <1>3, <1>4, ProcessKeepsSem, EnterKeepsSem, BusyKeepsSem, FinishKeepsSem,
     InterruptedKeepsSem DEF Next

\* The semaphore is counted truly in every state.
THEOREM Counted == Spec => [](SemInv /\ Callers)
<1>1. SemInv /\ Callers /\ [Next]_vars => SemInv' /\ Callers'
  BY SemKept, CallersKept DEF SemInv
<1> QED
  BY <1>1, SemInit, CallersInit, PTL DEF Spec

\* The thread and the ioctls never work on the tuner at the same time, and the
\* semaphore is free when none does, as long as a process that waits for an event is
\* not interrupted twice.
THEOREM LockExclusiveAlways ==
  ASSUME ~LateSignals
  PROVE  Spec => []LockExclusive
<1>1. SemInv => LockExclusive
  BY DEF SemInv, Total, LockExclusive
<1> QED
  BY <1>1, Counted, PTL

----------------------------------------------------------------------------
(* A lock is that of the frequency tuned last.                             *)

\* While the event of a new lock is made, nobody else has tuned.
AddingFresh ==
  thread = "adding" =>
    /\ status # "lock" /\ added < MaxAdded
    /\ ~LateSignals => fresh

FreshInv == AddingFresh /\ (~LateSignals => LockIsFresh)

\* Somebody who takes the semaphore finds the thread elsewhere.
LEMMA TakenAlone ==
  ASSUME SemInv, ~LateSignals, sem > 0
  PROVE  thread \notin Works
<1>1. Cardinality(Holders) = 0 /\ IsFiniteSet(Holders)
  BY HoldersFinite DEF SemInv, SemTypes, Total
<1>2. Holders = {}
  BY <1>1, FS_EmptySet
<1> QED
  BY <1>2 DEF Holders, Works

\* Every step keeps it.
LEMMA FreshKept ==
  ASSUME SemInv, Callers, FreshInv, [Next]_vars
  PROVE  FreshInv'
<1>1. CASE UNCHANGED vars
  BY <1>1 DEF vars, FreshInv, AddingFresh, LockIsFresh
<1>2. CASE ThreadInit \/ ThreadWakes \/ ThreadLocks \/ ThreadGainsLock \/ ThreadKeepsLock
           \/ ThreadIsPatient
  BY <1>2 DEF FreshInv, AddingFresh, LockIsFresh, LoopTop, ThreadInit, ThreadWakes,
     ThreadLocks, ThreadGainsLock, ThreadKeepsLock, ThreadIsPatient, tuner, history
<1>3. CASE ThreadMissesLock \/ ThreadAdds \/ ThreadSuspends \/ TimeoutElapses
  BY <1>3 DEF FreshInv, AddingFresh, LockIsFresh, LoopTop, ThreadMissesLock, ThreadAdds,
     ThreadSuspends, TimeoutElapses, tuner, history
<1>4. ASSUME NEW p \in Procs, SetFrontend(p)
      PROVE  FreshInv'
  <2>1. /\ thread' = thread /\ fresh' = FALSE /\ sem > 0
        /\ status' # "lock"
        /\ status # "lock" => status' = status /\ added' = added
    BY <1>4 DEF SetFrontend, Down
  <2>2. ~LateSignals => thread # "adding"
    BY <2>1, TakenAlone DEF Works
  <2> QED
    BY <2>1, <2>2 DEF FreshInv, AddingFresh, LockIsFresh
<1>5. ASSUME NEW p \in Procs, Diseqc(p)
      PROVE  FreshInv'
  BY <1>5 DEF Diseqc, history, FreshInv, AddingFresh, LockIsFresh
<1>6. ASSUME NEW p \in Procs,
             \/ OpenRead(p) \/ OpenJoins(p) \/ OpenWaits(p) \/ OpenStarts(p) \/ OpenFails(p)
             \/ Close(p) \/ \E cmd \in Commands : Enter(p, cmd)
             \/ EnterInterrupted(p) \/ Finish(p)
      PROVE  FreshInv'
  <2>1. /\ thread' = thread \/ thread' = "init"
        /\ status' = status /\ fresh' = fresh /\ added' = added
    BY <1>6 DEF OpenRead, OpenJoins, OpenWaits, OpenStarts, OpenFails, Close, Enter,
       EnterInterrupted, Finish, tuner, history
  <2> QED
    BY <2>1 DEF FreshInv, AddingFresh, LockIsFresh
<1>7. ASSUME NEW p \in Procs,
             \/ EventOverflow(p) \/ EventTaken(p) \/ EventNone(p) \/ EventWakes(p)
             \/ EventAgain(p) \/ EventInterrupted(p)
      PROVE  FreshInv'
  <2>1. thread' = thread /\ status' = status /\ fresh' = fresh /\ added' = added
    BY <1>7 DEF EventOverflow, EventTaken, EventNone, EventWakes, EventAgain,
       EventInterrupted, tuner, history
  <2> QED
    BY <2>1 DEF FreshInv, AddingFresh, LockIsFresh
<1> QED
  BY <1>1, <1>2, <1>3, <1>4, <1>5, <1>6, <1>7 DEF Next, ThreadStep

\* What the thread is about to report was read after the last tuning.
THEOREM Freshness == Spec => []FreshInv
<1>1. Init => FreshInv
  BY DEF Init, FreshInv, AddingFresh, LockIsFresh
<1>2. SemInv /\ Callers /\ FreshInv /\ [Next]_vars => FreshInv'
  BY FreshKept
<1> QED
  BY <1>1, <1>2, Counted, PTL DEF Spec

\* The status is never lock for a frequency tuned before the status was read.
THEOREM LockIsFreshAlways ==
  ASSUME ~LateSignals
  PROVE  Spec => []LockIsFresh
<1>1. FreshInv => LockIsFresh
  BY DEF FreshInv
<1> QED
  BY <1>1, Freshness, PTL

----------------------------------------------------------------------------
(* The event ring.                                                         *)

\* The events a reader has not had, and how far a slot is behind eventw.
Unread(e)   == IF e.r <= e.w THEN e.w - e.r ELSE e.w - e.r + MaxEvent
Ahead(e, i) == IF i < e.w THEN e.w - i ELSE e.w - i + MaxEvent

Rings == [ring : [Slots -> 0 .. MaxAdded], r : Slots, w : Slots, overflow : BOOLEAN]

RingTypes ==
  /\ events \in Rings
  /\ slot \in Slots
  /\ added \in 0 .. MaxAdded /\ next \in 1 .. MaxAdded + 1

\* The unread events are the ones added last, in order.
Contents ==
  \A i \in Slots : Ahead(events, i) <= Unread(events) =>
    events.ring[i] = added + 1 - Ahead(events, i)

\* What the reader expects next is the oldest unread event, or -EOVERFLOW.
Told ==
  /\ next + Unread(events) <= added + 1
  /\ ~events.overflow => next + Unread(events) = added + 1

RingInv == RingTypes /\ Contents /\ Told

\* Who was woken for an event finds one when it has the semaphore again.
Woken == \A p \in Procs : At(p, "relock") => Unread(events) > 0 \/ thread = "adding"

\* The slot the thread has read is still the one to write, and it is free.
SlotHolds ==
  thread = "adding" => slot = events.w /\ Unread(events) < MaxEvent - 1

EventInv == RingInv /\ Woken /\ SlotHolds

\* Below two turns the remainder takes one subtraction.
LEMMA Wrap ==
  ASSUME NEW a \in Nat, NEW b \in Nat \ {0}, a < 2 * b
  PROVE  a % b = IF a < b THEN a ELSE a - b
  BY SMT

\* The next slot, without the remainder.
LEMMA SuccIs ==
  ASSUME NEW i \in Slots
  PROVE  /\ Succ(i) \in Slots
         /\ Succ(i) = IF i = MaxEvent - 1 THEN 0 ELSE i + 1
<1>1. MaxEvent \in Nat /\ MaxEvent > 1
  BY FrontendAssumption
<1> DEFINE a == i + 1
<1>2. a \in Nat /\ a < 2 * MaxEvent /\ i \in 0 .. MaxEvent - 1 /\ MaxEvent \in Nat \ {0}
  BY <1>1 DEF Slots
<1>3. a % MaxEvent = IF a < MaxEvent THEN a ELSE a - MaxEvent
  <2> HIDE DEF a
  <2> QED
    BY <1>1, <1>2, Wrap
<1> QED
  BY <1>1, <1>2, <1>3 DEF Succ, Slots

\* The measures of a ring stay inside it.
LEMMA Measures ==
  ASSUME NEW e \in Rings, NEW i \in Slots
  PROVE  /\ Unread(e) \in 0 .. MaxEvent - 1
         /\ Ahead(e, i) \in 1 .. MaxEvent
         /\ Ahead(e, e.r) = Unread(e) \/ Unread(e) = 0
         /\ Unread(e) = 0 <=> e.r = e.w
         /\ Ahead(e, i) = MaxEvent <=> i = e.w
<1>1. MaxEvent \in Nat /\ MaxEvent > 1
  BY FrontendAssumption
<1>2. e.r \in 0 .. MaxEvent - 1 /\ e.w \in 0 .. MaxEvent - 1 /\ i \in 0 .. MaxEvent - 1
  BY DEF Rings, Slots
<1> QED
  BY <1>1, <1>2 DEF Unread, Ahead

\* After making room there is some, and less is unread only with overflow set.
LEMMA RoomMade ==
  ASSUME RingTypes
  PROVE  /\ MadeRoom \in Rings
         /\ MadeRoom.ring = events.ring /\ MadeRoom.w = events.w
         /\ Unread(MadeRoom) < MaxEvent - 1
         /\ Unread(MadeRoom) <= Unread(events)
         /\ ~MadeRoom.overflow => MadeRoom = events
<1>1. MaxEvent \in Nat /\ MaxEvent > 1
  BY FrontendAssumption
<1>2. events.r \in 0 .. MaxEvent - 1 /\ events.w \in 0 .. MaxEvent - 1 /\ events \in Rings
  BY DEF RingTypes, Rings, Slots
<1>3. CASE Succ(events.w) = events.r
  <2> DEFINE m == [events EXCEPT !.overflow = TRUE, !.r = Succ(events.r)]
  <2>1. MadeRoom = m
    BY <1>3 DEF MadeRoom
  <2>2. /\ m \in Rings /\ m.ring = events.ring /\ m.w = events.w /\ m.overflow
        /\ m.r = Succ(events.r)
    BY <1>2, SuccIs DEF Rings, Slots
  <2> HIDE DEF m
  <2>3. /\ events.r = IF events.w = MaxEvent - 1 THEN 0 ELSE events.w + 1
        /\ m.r = IF events.r = MaxEvent - 1 THEN 0 ELSE events.r + 1
    BY <1>2, <1>3, <2>2, SuccIs DEF Slots
  <2>4. Unread(m) = MaxEvent - 2 /\ Unread(events) = MaxEvent - 1
    BY <1>1, <1>2, <2>2, <2>3 DEF Unread
  <2> QED
    BY <1>1, <2>1, <2>2, <2>4
<1>4. CASE Succ(events.w) # events.r
  <2>1. MadeRoom = events
    BY <1>4 DEF MadeRoom
  <2>2. Unread(events) # MaxEvent - 1
    BY <1>1, <1>2, <1>4, SuccIs DEF Unread, Slots
  <2>3. Unread(events) \in 0 .. MaxEvent - 1
    BY <1>2, Measures DEF Rings
  <2> QED
    BY <1>1, <1>2, <2>1, <2>2, <2>3
<1> QED
  BY <1>3, <1>4

\* A written event is the last of the unread.
LEMMA Written ==
  ASSUME NEW e \in Rings, Unread(e) < MaxEvent - 1, NEW n \in 0 .. MaxAdded,
         NEW d, d = WithEvent(e, e.w, n)
  PROVE  /\ d \in Rings /\ d.overflow = e.overflow /\ d.r = e.r
         /\ Unread(d) = Unread(e) + 1
         /\ d.ring[e.w] = n /\ Ahead(d, e.w) = 1
         /\ \A i \in Slots : i # e.w =>
              d.ring[i] = e.ring[i] /\ Ahead(d, i) = Ahead(e, i) + 1
<1>1. MaxEvent \in Nat /\ MaxEvent > 1
  BY FrontendAssumption
<1>2. /\ e.r \in 0 .. MaxEvent - 1 /\ e.w \in 0 .. MaxEvent - 1
      /\ e.ring \in [Slots -> 0 .. MaxAdded]
  BY DEF Rings, Slots
<1>3. Succ(e.w) \in Slots /\ Succ(e.w) = IF e.w = MaxEvent - 1 THEN 0 ELSE e.w + 1
  BY <1>2, SuccIs DEF Slots
<1>4. /\ d \in Rings /\ d.overflow = e.overflow /\ d.r = e.r /\ d.w = Succ(e.w)
      /\ d.ring = [e.ring EXCEPT ![e.w] = n]
  BY <1>2, <1>3 DEF Rings, WithEvent
<1>5. d.ring[e.w] = n /\ \A i \in Slots : i # e.w => d.ring[i] = e.ring[i]
  BY <1>2, <1>4 DEF Slots
<1>6. Unread(d) = Unread(e) + 1
  BY <1>1, <1>2, <1>3, <1>4 DEF Unread
<1>7. Ahead(d, e.w) = 1
  BY <1>1, <1>2, <1>3, <1>4 DEF Ahead
<1>8. ASSUME NEW i \in Slots, i # e.w
      PROVE  Ahead(d, i) = Ahead(e, i) + 1
  <2>1. i \in 0 .. MaxEvent - 1 /\ i # e.w
    BY <1>8 DEF Slots
  <2>2. CASE e.w = MaxEvent - 1
    BY <1>1, <1>2, <1>3, <1>4, <2>1, <2>2 DEF Ahead
  <2>3. CASE e.w # MaxEvent - 1
    BY <1>1, <1>2, <1>3, <1>4, <2>1, <2>3 DEF Ahead
  <2> QED
    BY <2>2, <2>3
<1> QED
  BY <1>4, <1>5, <1>6, <1>7, <1>8

\* The numbers of the ring as integers, for the steps that compute with them.
LEMMA Numbers ==
  ASSUME RingTypes
  PROVE  /\ events \in Rings /\ MaxAdded \in Nat /\ MaxEvent \in Nat /\ MaxEvent > 1
         /\ added \in Int /\ next \in Int /\ next >= 1
         /\ Unread(events) \in 0 .. MaxEvent - 1
         /\ \A i \in Slots : Ahead(events, i) \in 1 .. MaxEvent
BY FrontendAssumption, Measures DEF RingTypes

\* A written event leaves the rest of the ring what it was.
LEMMA WriteKeeps ==
  ASSUME RingInv, NEW e \in Rings, e.ring = events.ring, e.w = events.w,
         Unread(e) < MaxEvent - 1, Unread(e) <= Unread(events),
         ~e.overflow => e = events,
         added < MaxAdded, added' = added + 1, next' = next, slot' \in Slots,
         events' = WithEvent(e, e.w, added + 1)
  PROVE  RingInv' /\ Unread(events)' > 0
<1>1. /\ events \in Rings /\ MaxAdded \in Nat /\ MaxEvent \in Nat /\ added \in 0 .. MaxAdded
      /\ next \in 1 .. MaxAdded + 1 /\ Unread(events) \in 0 .. MaxEvent - 1
  BY Numbers DEF RingInv, RingTypes
<1>2. added + 1 \in 0 .. MaxAdded
  BY <1>1
<1>3. /\ events' \in Rings /\ events'.overflow = e.overflow
      /\ Unread(events') = Unread(e) + 1
      /\ events'.ring[e.w] = added + 1 /\ Ahead(events', e.w) = 1
      /\ \A i \in Slots : i # e.w =>
           events'.ring[i] = e.ring[i] /\ Ahead(events', i) = Ahead(e, i) + 1
  BY <1>2, Written
<1>4. \A i \in Slots : Ahead(e, i) = Ahead(events, i) /\ Ahead(events, i) \in 1 .. MaxEvent
  BY <1>1, Measures DEF Ahead
<1>5. Unread(e) \in Nat
  <2>1. e.w \in Slots
    BY DEF Rings
  <2> QED
    BY <1>1, <2>1, Measures
<1>6. RingTypes'
  BY <1>1, <1>2, <1>3 DEF RingTypes
<1>7. Contents'
  <2> SUFFICES ASSUME NEW i \in Slots, Ahead(events', i) <= Unread(events')
               PROVE  events'.ring[i] = added' + 1 - Ahead(events', i)
    BY DEF Contents
  <2>1. CASE i = e.w
    BY <1>1, <1>3, <2>1
  <2>2. CASE i # e.w
    <3>1. Ahead(events, i) <= Unread(events)
      BY <1>1, <1>3, <1>4, <1>5, <2>2
    <3>2. events.ring[i] = added + 1 - Ahead(events, i)
      BY <3>1 DEF RingInv, Contents
    <3> QED
      BY <1>1, <1>3, <1>4, <2>2, <3>2
  <2> QED
    BY <2>1, <2>2
<1>8. Told'
  <2>1. next + Unread(events) <= added + 1
    BY DEF RingInv, Told
  <2>2. ~e.overflow => Unread(e) = Unread(events) /\ next + Unread(events) = added + 1
    BY DEF RingInv, Told
  <2> QED
    BY <1>1, <1>3, <1>5, <2>1, <2>2 DEF Told
<1>9. Unread(events)' > 0
  BY <1>3, <1>5
<1> QED
  BY <1>6, <1>7, <1>8, <1>9 DEF RingInv

\* An event the tuner is not asked about.
LEMMA AddKeeps ==
  ASSUME RingInv, AddEvent, next' = next, slot' = slot
  PROVE  RingInv' /\ Unread(events)' > 0
<1>1. /\ MadeRoom \in Rings
      /\ MadeRoom.ring = events.ring /\ MadeRoom.w = events.w
      /\ Unread(MadeRoom) < MaxEvent - 1
      /\ Unread(MadeRoom) <= Unread(events)
      /\ ~MadeRoom.overflow => MadeRoom = events
  BY RoomMade DEF RingInv
<1>2. /\ added < MaxAdded /\ added' = added + 1 /\ slot' \in Slots
      /\ events' = WithEvent(MadeRoom, MadeRoom.w, added + 1)
  BY <1>1 DEF AddEvent, RingInv, RingTypes
<1> QED
  BY <1>1, <1>2, WriteKeeps

\* Room for the event the thread is about to add.
LEMMA RoomKeeps ==
  ASSUME RingInv, events' = MadeRoom, slot' = events.w, UNCHANGED history
  PROVE  RingInv' /\ slot' = events'.w /\ Unread(events') < MaxEvent - 1
<1>1. /\ MadeRoom \in Rings
      /\ MadeRoom.ring = events.ring /\ MadeRoom.w = events.w
      /\ Unread(MadeRoom) < MaxEvent - 1
      /\ Unread(MadeRoom) <= Unread(events)
      /\ ~MadeRoom.overflow => MadeRoom = events
  BY RoomMade DEF RingInv
<1>2. /\ events \in Rings /\ MaxAdded \in Nat /\ MaxEvent \in Nat /\ added \in 0 .. MaxAdded
      /\ next \in 1 .. MaxAdded + 1 /\ Unread(events) \in 0 .. MaxEvent - 1
  BY Numbers DEF RingInv, RingTypes
<1>3. events.w \in Slots
  BY <1>2 DEF Rings
<1>4. Unread(MadeRoom) \in Nat
  BY <1>1, <1>2, <1>3, Measures
<1>5. RingTypes'
  BY <1>1, <1>3 DEF RingInv, RingTypes, history
<1>6. Contents'
  <2> SUFFICES ASSUME NEW i \in Slots, Ahead(MadeRoom, i) <= Unread(MadeRoom)
               PROVE  MadeRoom.ring[i] = added + 1 - Ahead(MadeRoom, i)
    BY DEF Contents, history
  <2>1. Ahead(MadeRoom, i) = Ahead(events, i) /\ Ahead(events, i) \in 1 .. MaxEvent
    BY <1>1, <1>2, Measures DEF Ahead
  <2>2. Ahead(events, i) <= Unread(events)
    BY <1>1, <1>2, <1>4, <2>1
  <2> QED
    BY <1>1, <2>1, <2>2 DEF RingInv, Contents
<1>7. Told'
  <2>1. next + Unread(events) <= added + 1
    BY DEF RingInv, Told
  <2>2. ~MadeRoom.overflow => next + Unread(MadeRoom) = added + 1
    BY <1>1 DEF RingInv, Told
  <2>3. next + Unread(MadeRoom) <= added + 1
    BY <1>1, <1>2, <1>4, <2>1
  <2> QED
    BY <2>2, <2>3 DEF Told, history
<1> QED
  BY <1>1, <1>5, <1>6, <1>7 DEF RingInv

\* The queue is emptied.
LEMMA EmptyKeeps ==
  ASSUME RingInv, EmptyQueue, added' = added, slot' = slot
  PROVE  RingInv' /\ Unread(events)' = 0
<1>1. /\ events \in Rings /\ MaxAdded \in Nat /\ MaxEvent \in Nat /\ MaxEvent > 1
      /\ added \in 0 .. MaxAdded
  BY Numbers DEF RingInv, RingTypes
<1>2. /\ events' \in Rings /\ events'.r = 0 /\ events'.w = 0 /\ next' = added + 1
  <2>1. 0 \in Slots
    BY <1>1 DEF Slots
  <2> QED
    BY <1>1, <2>1 DEF EmptyQueue, Rings
<1>3. Unread(events') = 0
  BY <1>2 DEF Unread
<1>4. \A i \in Slots : Ahead(events', i) \in 1 .. MaxEvent
  BY <1>2, Measures
<1>5. Contents'
  BY <1>1, <1>3, <1>4 DEF Contents
<1> QED
  BY <1>1, <1>2, <1>3, <1>5 DEF RingInv, RingTypes, Told

\* What the oldest event is.
LEMMA OldestIs ==
  ASSUME RingInv, Unread(events) > 0
  PROVE  Oldest = added + 1 - Unread(events)
<1>1. events \in Rings /\ events.r \in Slots
  BY DEF RingInv, RingTypes, Rings
<1>2. Unread(events) \in Nat /\ Ahead(events, events.r) = Unread(events)
  BY <1>1, Numbers, Measures DEF RingInv
<1> QED
  BY <1>1, <1>2 DEF RingInv, Contents, Oldest

\* The oldest event is taken.
LEMMA TakeKeeps ==
  ASSUME RingInv, Unread(events) > 0, TakeOldest, added' = added, slot' = slot
  PROVE  RingInv'
<1>1. /\ events \in Rings /\ MaxAdded \in Nat /\ MaxEvent \in Nat /\ MaxEvent > 1
      /\ added \in 0 .. MaxAdded /\ next \in 1 .. MaxAdded + 1
      /\ Unread(events) \in 0 .. MaxEvent - 1
  BY Numbers DEF RingInv, RingTypes
<1>2. events.r \in Slots /\ events.w \in Slots
  BY <1>1 DEF Rings
<1>3. /\ events' \in Rings /\ events'.r = Succ(events.r) /\ events'.w = events.w
      /\ events'.ring = events.ring /\ events'.overflow = events.overflow
      /\ next' = Oldest + 1
  BY <1>1, <1>2, SuccIs DEF TakeOldest, Rings
<1>4. Unread(events') = Unread(events) - 1
  <2>1. events.r \in 0 .. MaxEvent - 1 /\ events.w \in 0 .. MaxEvent - 1
    BY <1>2 DEF Slots
  <2>2. events'.r = IF events.r = MaxEvent - 1 THEN 0 ELSE events.r + 1
    BY <1>2, <1>3, SuccIs
  <2> QED
    BY <1>1, <1>3, <2>1, <2>2 DEF Unread
<1>5. next' = added + 1 - Unread(events) + 1
  BY <1>3, OldestIs
<1>6. next + Unread(events) <= added + 1
  BY DEF RingInv, Told
<1>7. RingTypes'
  <2>1. next' \in 1 .. MaxAdded + 1
    BY <1>1, <1>5, <1>6
  <2> QED
    BY <1>3, <2>1 DEF RingInv, RingTypes
<1>8. Contents'
  <2> SUFFICES ASSUME NEW i \in Slots, Ahead(events', i) <= Unread(events')
               PROVE  events'.ring[i] = added' + 1 - Ahead(events', i)
    BY DEF Contents
  <2>1. Ahead(events', i) = Ahead(events, i) /\ Ahead(events, i) \in 1 .. MaxEvent
    BY <1>1, <1>3, Measures DEF Ahead
  <2>2. Ahead(events, i) <= Unread(events)
    BY <1>1, <1>4, <2>1
  <2> QED
    BY <1>3, <2>1, <2>2 DEF RingInv, Contents
<1>9. Told'
  BY <1>1, <1>4, <1>5 DEF Told
<1> QED
  BY <1>7, <1>8, <1>9 DEF RingInv

\* -EOVERFLOW tells the reader where the ring goes on.
LEMMA OverflowKeeps ==
  ASSUME RingInv, events' = [events EXCEPT !.overflow = FALSE],
         next' = IF Empty THEN added + 1 ELSE Oldest, added' = added, slot' = slot
  PROVE  RingInv' /\ Unread(events') = Unread(events)
<1>1. /\ events \in Rings /\ MaxAdded \in Nat /\ MaxEvent \in Nat /\ MaxEvent > 1
      /\ added \in 0 .. MaxAdded /\ next \in 1 .. MaxAdded + 1
      /\ Unread(events) \in 0 .. MaxEvent - 1
  BY Numbers DEF RingInv, RingTypes
<1>2. /\ events' \in Rings /\ events'.r = events.r /\ events'.w = events.w
      /\ events'.ring = events.ring
  BY <1>1 DEF Rings
<1>3. /\ Unread(events') = Unread(events)
      /\ \A i \in Slots : Ahead(events', i) = Ahead(events, i)
  BY <1>2 DEF Unread, Ahead
<1>4. next' = added + 1 - Unread(events)
  <2>1. Empty <=> Unread(events) = 0
    BY <1>1, Measures DEF Empty, Rings
  <2> QED
    BY <1>1, <2>1, OldestIs
<1>5. next + Unread(events) <= added + 1
  BY DEF RingInv, Told
<1>6. RingTypes'
  <2>1. next' \in 1 .. MaxAdded + 1
    BY <1>1, <1>4, <1>5
  <2> QED
    BY <1>2, <2>1 DEF RingInv, RingTypes
<1>7. Contents'
  BY <1>2, <1>3 DEF RingInv, Contents
<1>8. Told'
  BY <1>1, <1>3, <1>4 DEF Told
<1> QED
  BY <1>3, <1>6, <1>7, <1>8 DEF RingInv

\* A step that leaves the ring alone, with the thread not about to add an event
\* before or after.
LEMMA RingLeft ==
  ASSUME EventInv, UNCHANGED <<events, slot, added, next>>,
         thread' = "adding" => thread = "adding",
         thread = "adding" => thread' = "adding",
         \A p \in Procs : At(p, "relock")' => At(p, "relock") \/ Unread(events) > 0
  PROVE  EventInv'
BY DEF EventInv, RingInv, RingTypes, Contents, Told, Woken, SlotHolds

\* The scenarios the ring is right in: nobody opens the device while the thread is in
\* the middle of adding an event, and who reads events writes, so that there is one.
Orderly == ~OpenRace /\ ~LateSignals /\ EventReaders \subseteq Writers

\* The others sleep on the same ring only when there is something in it.
LEMMA OneReader ==
  ASSUME Orderly, Callers, NEW p \in Procs, NEW q \in Procs,
         At(q, "relock"), p \in Writers, ~At(p, "closed")
  PROVE  q = p
BY DEF Orderly, Callers, OneWriter, AskersRead, Asking, At

\* The thread keeps the ring right.
LEMMA ThreadKeepsEvents ==
  ASSUME SemInv, FreshInv, EventInv, ThreadStep
  PROVE  EventInv'
<1>1. proc' = proc
  BY ThreadSteps
<1>2. \A p \in Procs : At(p, "relock")' <=> At(p, "relock")
  BY <1>1 DEF At
<1>3. CASE ThreadInit \/ ThreadWakes \/ ThreadLocks \/ ThreadKeepsLock \/ ThreadIsPatient
           \/ ThreadSuspends
  <2>1. UNCHANGED <<events, slot, added, next>> /\ thread # "adding" /\ thread' # "adding"
    BY <1>3 DEF ThreadInit, ThreadWakes, ThreadLocks, ThreadKeepsLock, ThreadIsPatient,
       ThreadSuspends, LoopTop, history
  <2> QED
    BY <1>2, <2>1, RingLeft
<1>4. CASE ThreadGainsLock
  <2>1. RingInv' /\ slot' = events'.w /\ Unread(events') < MaxEvent - 1 /\ thread' = "adding"
    BY <1>4, RoomKeeps DEF ThreadGainsLock, EventInv
  <2> QED
    BY <2>1 DEF EventInv, Woken, SlotHolds
<1>5. CASE ThreadMissesLock /\ status' # status
  <2>1. AddEvent /\ next' = next /\ slot' = slot /\ thread' # "adding"
    BY <1>5 DEF ThreadMissesLock, LoopTop
  <2>2. RingInv' /\ Unread(events)' > 0
    BY <2>1, AddKeeps DEF EventInv
  <2> QED
    BY <2>1, <2>2 DEF EventInv, Woken, SlotHolds
<1>6. CASE ThreadMissesLock /\ status' = status
  <2>1. UNCHANGED <<events, slot, added, next>> /\ thread # "adding" /\ thread' # "adding"
    BY <1>6 DEF ThreadMissesLock, LoopTop
  <2> QED
    BY <1>2, <2>1, RingLeft
<1>7. CASE ThreadAdds
  <2>1. /\ slot = events.w /\ Unread(events) < MaxEvent - 1 /\ added < MaxAdded
        /\ events' = WithEvent(events, events.w, added + 1) /\ added' = added + 1
        /\ next' = next /\ slot' = slot /\ thread' # "adding"
    BY <1>7 DEF ThreadAdds, LoopTop, EventInv, SlotHolds, FreshInv, AddingFresh
  <2>2. events \in Rings /\ slot' \in Slots /\ Unread(events) <= Unread(events)
    BY <2>1, Numbers DEF EventInv, RingInv, RingTypes
  <2>3. RingInv' /\ Unread(events)' > 0
    BY <2>1, <2>2, WriteKeeps DEF EventInv
  <2> QED
    BY <2>1, <2>3 DEF EventInv, Woken, SlotHolds
<1> QED
  BY <1>3, <1>4, <1>5, <1>6, <1>7 DEF ThreadStep

\* An open empties the queue while the thread is somewhere else and no reader waits.
LEMMA OpenKeepsEvents ==
  ASSUME Orderly, SemInv, Callers, EventInv, NEW p \in Procs,
         OpenJoins(p) \/ OpenStarts(p) \/ OpenFails(p)
  PROVE  EventInv'
<1>1. /\ EmptyQueue /\ added' = added /\ slot' = slot
      /\ thread # "adding" /\ thread' # "adding"
  BY DEF OpenJoins, OpenStarts, OpenFails, Orderly, Callers, OpeningAlone
<1>2. Moves(p, "idle") \/ Moves(p, "closed")
  BY DEF OpenJoins, OpenStarts, OpenFails
<1>3. RingInv'
  BY <1>1, EmptyKeeps DEF EventInv
<1>4. \A q \in Procs : ~At(q, "relock")'
  <2> SUFFICES ASSUME NEW q \in Procs, At(q, "relock")'
               PROVE  FALSE
    OBVIOUS
  <2>1. q # p /\ At(q, "relock")
    BY <1>2 DEF Moves, At, SemInv, SemTypes
  <2>2. q \in Writers
    BY <2>1 DEF Orderly, Callers, AskersRead, Asking, At
  <2>3. CASE OpenJoins(p)
    BY <2>1, <2>2, <2>3 DEF OpenJoins, NoWriter, At
  <2>4. CASE At(p, "opening")
    BY <2>1, <2>4, OneReader DEF Callers, OpeningAlone, At
  <2> QED
    BY <2>3, <2>4 DEF OpenStarts, OpenFails
<1> QED
  BY <1>1, <1>3, <1>4 DEF EventInv, Woken, SlotHolds

\* A reader that has the semaphore takes what is there.
LEMMA TakesKeepEvents ==
  ASSUME Orderly, SemInv, Callers, EventInv, NEW p \in Procs,
         EventTaken(p) \/ EventAgain(p)
  PROVE  EventInv'
<1>1. /\ TakeOldest /\ Moves(p, "idle") /\ added' = added /\ slot' = slot
      /\ thread' = thread /\ sem > 0 /\ Asking(p)
  BY DEF EventTaken, EventAgain, GetsEvent, Asks, At, Asking
<1>2. thread # "adding"
  BY <1>1, TakenAlone DEF Orderly, Works
<1>3. Unread(events) > 0
  <2>1. CASE EventTaken(p)
    BY <2>1, Numbers, Measures DEF EventTaken, Empty, EventInv, RingInv, Rings
  <2>2. CASE EventAgain(p)
    BY <1>2, <2>2 DEF EventAgain, EventInv, Woken
  <2> QED
    BY <2>1, <2>2
<1>4. RingInv'
  BY <1>1, <1>3, TakeKeeps DEF EventInv
<1>5. \A q \in Procs : ~At(q, "relock")'
  <2> SUFFICES ASSUME NEW q \in Procs, At(q, "relock")'
               PROVE  FALSE
    OBVIOUS
  <2>1. q # p /\ At(q, "relock")
    BY <1>1 DEF Moves, At, SemInv, SemTypes
  <2>2. p \in Writers /\ ~At(p, "closed")
    BY <1>1 DEF Orderly, Callers, AskersRead, Asking, At
  <2> QED
    BY <2>1, <2>2, OneReader
<1> QED
  BY <1>1, <1>2, <1>4, <1>5 DEF EventInv, Woken, SlotHolds

\* -EOVERFLOW and a lock taken back.
LEMMA OthersKeepEvents ==
  ASSUME Orderly, SemInv, EventInv, NEW p \in Procs,
         EventOverflow(p) \/ SetFrontend(p)
  PROVE  EventInv'
<1>1. /\ Moves(p, "idle") \/ Moves(p, "busy")
      /\ slot' = slot /\ thread' = thread /\ sem > 0
  BY DEF EventOverflow, SetFrontend, GetsEvent, Down
<1>2. thread # "adding" /\ thread' # "adding"
  BY <1>1, TakenAlone DEF Orderly, Works
<1>3. \A q \in Procs : At(q, "relock")' => At(q, "relock")
  BY <1>1 DEF Moves, At, SemInv, SemTypes
<1>4. CASE EventOverflow(p)
  <2>1. RingInv' /\ Unread(events') = Unread(events)
    BY <1>4, OverflowKeeps DEF EventOverflow, EventInv
  <2> QED
    BY <1>2, <1>3, <2>1 DEF EventInv, Woken, SlotHolds
<1>5. CASE SetFrontend(p) /\ status = "lock"
  <2>1. AddEvent /\ next' = next
    BY <1>5 DEF SetFrontend
  <2>2. RingInv' /\ Unread(events)' > 0
    BY <1>1, <2>1, AddKeeps DEF EventInv
  <2> QED
    BY <1>2, <2>2 DEF EventInv, Woken, SlotHolds
<1>6. CASE SetFrontend(p) /\ status # "lock"
  BY <1>1, <1>2, <1>3, <1>6, RingLeft DEF SetFrontend
<1> QED
  BY <1>4, <1>5, <1>6

\* What is left does not touch the ring; who is woken finds something in it.
LEMMA RestKeepsEvents ==
  ASSUME SemInv, EventInv, NEW p \in Procs,
         \/ OpenRead(p) \/ OpenWaits(p) \/ Close(p) \/ EnterInterrupted(p)
         \/ \E cmd \in Commands : Enter(p, cmd)
         \/ Diseqc(p) \/ Finish(p) \/ EventNone(p) \/ EventWakes(p) \/ EventInterrupted(p)
  PROVE  EventInv'
<1>1. UNCHANGED <<events, slot, added, next, thread>>
  BY DEF OpenRead, OpenWaits, Close, EnterInterrupted, Enter, Diseqc, Finish, EventNone,
         EventWakes, EventInterrupted, history
<1>2. CASE EventWakes(p)
  <2>1. /\ Moves(p, "interrupted") \/ Moves(p, "relock")
        /\ Moves(p, "interrupted") \/ ~Empty
    BY <1>2 DEF EventWakes
  <2>2. ~Empty => Unread(events) > 0
    BY Numbers, Measures DEF Empty, EventInv, RingInv, Rings
  <2>3. \A q \in Procs : At(q, "relock")' => At(q, "relock") \/ Unread(events) > 0
    BY <2>1, <2>2 DEF Moves, At, SemInv, SemTypes
  <2> QED
    BY <1>1, <2>3, RingLeft
<1>3. CASE ~EventWakes(p)
  <2>1. \/ \E pc \in {"idle", "opening", "closed", "busy", "wait"} : Moves(p, pc)
        \/ \E cmd \in Commands : Enter(p, cmd)
    BY <1>3 DEF OpenRead, OpenWaits, Close, EnterInterrupted, Diseqc, Finish, EventNone,
       EventInterrupted
  <2>2. \A q \in Procs : At(q, "relock")' => At(q, "relock")
    BY <2>1 DEF Moves, Enter, At, SemInv, SemTypes
  <2> QED
    BY <1>1, <2>2, RingLeft
<1> QED
  BY <1>2, <1>3

\* Every step keeps the ring right.
LEMMA EventsKept ==
  ASSUME Orderly, SemInv, Callers, FreshInv, EventInv, [Next]_vars
  PROVE  EventInv'
<1>1. CASE UNCHANGED vars
  BY <1>1 DEF vars, EventInv, RingInv, RingTypes, Contents, Told, Woken, SlotHolds, At
<1>2. CASE TimeoutElapses
  BY <1>2 DEF TimeoutElapses, history, EventInv, RingInv, RingTypes, Contents, Told, Woken,
     SlotHolds, At
<1> QED
  BY <1>1, <1>2, ThreadKeepsEvents, OpenKeepsEvents, TakesKeepEvents, OthersKeepEvents,
     RestKeepsEvents DEF Next

\* The ring is empty at first, and one is the first event.
LEMMA EventsInit == Init => EventInv
<1> SUFFICES ASSUME Init PROVE EventInv
  OBVIOUS
<1>1. MaxEvent \in Nat /\ MaxEvent > 1 /\ MaxAdded \in Nat
  BY FrontendAssumption
<1>2. 0 \in Slots /\ 0 \in 0 .. MaxAdded
  BY <1>1 DEF Slots
<1>3. events \in Rings /\ events.r = 0 /\ events.w = 0
  BY <1>2 DEF Init, Rings
<1>4. Unread(events) = 0 /\ \A i \in Slots : Ahead(events, i) \in 1 .. MaxEvent
  BY <1>3, Measures DEF Unread
<1>5. RingTypes
  BY <1>1, <1>2, <1>3 DEF Init, RingTypes
<1>6. Contents
  BY <1>4 DEF Contents
<1>7. Told
  <2>1. added = 0 /\ next = 1
    BY DEF Init
  <2> QED
    BY <1>4, <2>1 DEF Told
<1> QED
  BY <1>5, <1>6, <1>7 DEF Init, RingInv, EventInv, Woken, SlotHolds, At

\* The ring holds the last events in every state.
THEOREM Ordered ==
  ASSUME Orderly
  PROVE  Spec => []EventInv
<1>1. SemInv /\ Callers /\ FreshInv /\ EventInv /\ [Next]_vars => EventInv'
  BY EventsKept
<1> QED
  BY <1>1, EventsInit, Counted, Freshness, PTL DEF Spec

\* A reader misses no event without -EOVERFLOW and is shown none twice.
THEOREM NoEventSkippedAlways ==
  ASSUME Orderly
  PROVE  Spec => []NoEventSkipped
<1>1. EventInv => NoEventSkipped
  <2> SUFFICES ASSUME EventInv, ~Empty PROVE Oldest >= next /\ (Oldest > next => events.overflow)
    BY DEF NoEventSkipped
  <2>1. Unread(events) > 0
    BY Numbers, Measures DEF Empty, EventInv, RingInv, Rings
  <2>2. Oldest = added + 1 - Unread(events)
    BY <2>1, OldestIs DEF EventInv
  <2> QED
    BY <2>2, Numbers DEF EventInv, RingInv, Told
<1> QED
  BY <1>1, Ordered, PTL

\* Who has opened the device finds no event from before in the queue.
THEOREM QueueEmptiedAlways ==
  ASSUME Orderly
  PROVE  Spec => []QueueEmptied
<1>1. NoEventSkipped => QueueEmptied
  BY DEF NoEventSkipped, QueueEmptied
<1> QED
  BY <1>1, NoEventSkippedAlways, PTL

----------------------------------------------------------------------------
(* Types.                                                                  *)

\* The variables no other invariant is about.
TunerTypes ==
  /\ late \in BOOLEAN /\ asleep \in BOOLEAN /\ fresh \in BOOLEAN
  /\ status \in Statuses
  /\ lost \in -1 .. Patience

\* Every step keeps them.
LEMMA TunerTypesKept ==
  ASSUME TunerTypes, [Next]_vars
  PROVE  TunerTypes'
<1>0. Patience \in Nat /\ Patience > 0
  BY FrontendAssumption
<1>1. CASE UNCHANGED vars
  BY <1>1 DEF vars, TunerTypes
<1>2. CASE TimeoutElapses
  BY <1>2 DEF TimeoutElapses, tuner, TunerTypes
<1>3. CASE ThreadWakes \/ ThreadLocks \/ ThreadSuspends
  BY <1>3 DEF ThreadWakes, ThreadLocks, ThreadSuspends, tuner, TunerTypes
<1>4. CASE ThreadInit \/ ThreadGainsLock \/ ThreadKeepsLock \/ ThreadAdds
  <2>1. /\ late' = late
        /\ asleep' = asleep \/ asleep' = FALSE
        /\ fresh' = fresh \/ fresh' = TRUE \/ fresh' = FALSE
    BY <1>4, Zenon DEF ThreadInit, ThreadGainsLock, ThreadKeepsLock, ThreadAdds
  <2>2. late' \in BOOLEAN /\ asleep' \in BOOLEAN /\ fresh' \in BOOLEAN
    BY <2>1, Zenon DEF TunerTypes
  <2>3. status' \in {status, "none", "lock"} /\ lost' \in {lost, -1, 0}
    BY <1>4 DEF ThreadInit, ThreadGainsLock, ThreadKeepsLock, ThreadAdds
  <2>4. -1 \in -1 .. Patience /\ 0 \in -1 .. Patience
    BY <1>0
  <2>5. status' \in Statuses /\ lost' \in -1 .. Patience
    BY <2>3, <2>4 DEF TunerTypes, Statuses
  <2> QED
    BY <2>2, <2>5 DEF TunerTypes
<1>5. CASE ThreadIsPatient \/ ThreadMissesLock
  <2>1. /\ lost' = LostOnce /\ fresh' = TRUE /\ late' = late /\ asleep' = asleep
        /\ status' \in {status, "none", "timedout"}
    BY <1>5 DEF ThreadIsPatient, ThreadMissesLock
  <2>2. LostOnce \in -1 .. Patience
    BY <1>0 DEF LostOnce, TunerTypes
  <2> QED
    BY <2>1, <2>2 DEF TunerTypes, Statuses
<1>6. ASSUME NEW p \in Procs, SetFrontend(p) \/ Diseqc(p)
      PROVE  TunerTypes'
  <2>1. late' = late /\ asleep' = asleep /\ (fresh' = fresh \/ fresh' = FALSE)
    BY <1>6, Zenon DEF SetFrontend, Diseqc
  <2>2. late' \in BOOLEAN /\ asleep' \in BOOLEAN /\ fresh' \in BOOLEAN
    BY <2>1, Zenon DEF TunerTypes
  <2>3. status' \in {status, "none"} /\ lost' \in {lost, 0}
    BY <1>6 DEF SetFrontend, Diseqc
  <2>4. 0 \in -1 .. Patience
    BY <1>0
  <2>5. status' \in Statuses /\ lost' \in -1 .. Patience
    BY <2>3, <2>4 DEF TunerTypes, Statuses
  <2> QED
    BY <2>2, <2>5 DEF TunerTypes
<1>7. ASSUME NEW p \in Procs, Close(p)
      PROVE  TunerTypes'
  BY <1>7 DEF Close, tuner, TunerTypes
<1>8. ASSUME NEW p \in Procs,
             \/ OpenRead(p) \/ OpenJoins(p) \/ OpenWaits(p) \/ OpenStarts(p) \/ OpenFails(p)
             \/ \E cmd \in Commands : Enter(p, cmd)
             \/ EnterInterrupted(p) \/ Finish(p)
             \/ EventOverflow(p) \/ EventTaken(p) \/ EventNone(p) \/ EventWakes(p)
             \/ EventAgain(p) \/ EventInterrupted(p)
      PROVE  TunerTypes'
  <2>1. UNCHANGED <<late, tuner>>
    BY <1>8 DEF OpenRead, OpenJoins, OpenWaits, OpenStarts, OpenFails, Enter,
       EnterInterrupted, Finish, EventOverflow, EventTaken, EventNone, EventWakes,
       EventAgain, EventInterrupted
  <2> QED
    BY <2>1 DEF tuner, TunerTypes
<1> QED
  BY <1>1, <1>2, <1>3, <1>4, <1>5, <1>6, <1>7, <1>8 DEF Next, ThreadStep

\* The variables keep their types: the indices stay inside the ring, and the
\* semaphore is not given more often than there are processes to give it.
THEOREM TypeCorrect ==
  ASSUME Orderly
  PROVE  Spec => []TypeOK
<1>1. Init => TunerTypes
  <2>1. Patience \in Nat /\ Patience > 0
    BY FrontendAssumption
  <2>2. 0 \in -1 .. Patience
    BY <2>1
  <2> SUFFICES ASSUME Init PROVE TunerTypes
    OBVIOUS
  <2>3. late \in BOOLEAN /\ asleep \in BOOLEAN /\ fresh \in BOOLEAN
    BY Zenon DEF Init
  <2>4. status \in Statuses /\ lost \in -1 .. Patience
    BY <2>2 DEF Init, Statuses
  <2> QED
    BY <2>3, <2>4 DEF TunerTypes
<1>2. TunerTypes /\ [Next]_vars => TunerTypes'
  BY TunerTypesKept
<1>3. SemInv /\ EventInv /\ TunerTypes => TypeOK
  <2> SUFFICES ASSUME SemInv, EventInv, TunerTypes PROVE TypeOK
    OBVIOUS
  <2>1. sem \in 0 .. 1 + Cardinality(Procs)
    BY HoldersFinite DEF SemInv, SemTypes, Total
  <2>2. /\ thread \in {"none", "init", "sleep", "lock", "status", "adding", "suspend"}
        /\ proc \in [Procs -> [pc : {"closed", "opening", "idle", "lock", "busy", "wait",
                                     "relock", "interrupted"},
                               cmd : Commands]]
    BY DEF SemInv, SemTypes, Places, Pcs
  <2> QED
    BY <2>1, <2>2 DEF EventInv, RingInv, RingTypes, Rings, TunerTypes, TypeOK
<1> QED
  BY <1>1, <1>2, <1>3, Counted, Ordered, PTL DEF Spec
=============================================================================
