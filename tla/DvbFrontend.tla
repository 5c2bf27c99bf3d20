---------------------------- MODULE DvbFrontend ----------------------------
(***************************************************************************)
(* A frontend device (dvb_frontend.c): the kernel thread that watches the  *)
(* tuner while a writer has the device open, the processes that tune it,   *)
(* send commands and read its events, and fe->sem, which the thread and an *)
(* ioctl hold while they work.                                             *)
(*                                                                         *)
(* The kernel is not preemptive and runs on one processor: a step ends     *)
(* where the code sleeps (the semaphore, a wait queue, a call of the tuner *)
(* driver, which is on the i2c bus).  events.sem is held across a call of  *)
(* the tuner only by who holds fe->sem too, so it is never waited for.     *)
(***************************************************************************)
EXTENDS Integers, FiniteSets

CONSTANTS
  Procs,         \* the processes that open the device
  Writers,       \* those that open it for writing
  EventReaders,  \* those that ask for events
  MaxEvent,      \* slots of the event ring
  Patience,      \* failed reads before a tuner without clean setup is recovered
  CleanSetup,    \* FE_CAN_RECOVER or FE_CAN_CLEAN_SETUP: no patience needed
  OpenRace,      \* the device may be opened while the thread adds an event
  LateSignals,   \* a signalled GET_EVENT may fail to take fe->sem again
  MaxAdded       \* bound on the events added

ASSUME FrontendAssumption ==
  /\ IsFiniteSet(Procs) /\ "thread" \notin Procs
  /\ Writers \subseteq Procs /\ EventReaders \subseteq Procs
  /\ MaxEvent \in Nat \ {0, 1} /\ Patience \in Nat \ {0} /\ MaxAdded \in Nat
  /\ {CleanSetup, OpenRace, LateSignals} \subseteq BOOLEAN

VARIABLES
  sem,       \* the count of fe->sem
  thread,    \* where the kernel thread is; "none": thread_pid is 0
  late,      \* more than dvb_shutdown_timeout seconds since release_jiffies
  status,    \* fe->status
  lost,      \* fe->lost_sync_count, -1 before the first tuning
  asleep,    \* the tuner was told FE_SLEEP, and not FE_INIT since
  events,    \* fe->events: the ring, as numbers of events
  slot,      \* eventw as the thread read it before it called the tuner
  proc,      \* where each process is, and with which ioctl
  added,     \* history: the events added
  next,      \* history: the event a reader expects next
  fresh      \* history: the status was read since the device was tuned

vars == <<sem, thread, late, status, lost, asleep, events, slot, proc, added, next, fresh>>

Commands == {"set", "diseqc", "event", "event_nonblock"}
Statuses == {"none", "lock", "timedout"}
Slots    == 0 .. MaxEvent - 1

TypeOK ==
  /\ sem \in 0 .. 1 + Cardinality(Procs)
  /\ thread \in {"none", "init", "sleep", "lock", "status", "adding", "suspend"}
  /\ late \in BOOLEAN /\ asleep \in BOOLEAN /\ fresh \in BOOLEAN
  /\ status \in Statuses
  /\ lost \in -1 .. Patience
  /\ events \in [ring : [Slots -> 0 .. MaxAdded], r : Slots, w : Slots, overflow : BOOLEAN]
  /\ slot \in Slots
  /\ proc \in [Procs -> [pc : {"closed", "opening", "idle", "lock", "busy", "wait",
                               "relock", "interrupted"},
                         cmd : Commands]]
  /\ added \in 0 .. MaxAdded /\ next \in 1 .. MaxAdded + 1

Init ==
  /\ sem = 1 /\ thread = "none" /\ late = TRUE
  /\ status = "none" /\ lost = 0 /\ asleep = FALSE
  /\ events = [ring |-> [i \in Slots |-> 0], r |-> 0, w |-> 0, overflow |-> FALSE]
  /\ slot = 0
  /\ proc = [p \in Procs |-> [pc |-> "closed", cmd |-> "set"]]
  /\ added = 0 /\ next = 1 /\ fresh = FALSE

At(p, pc) == proc[p].pc = pc
Moves(p, pc) == proc' = [proc EXCEPT ![p].pc = pc]

Up   == sem' = sem + 1
Down == sem > 0 /\ sem' = sem - 1

tuner   == <<status, lost, asleep, fresh>>
history == <<added, next>>

----------------------------------------------------------------------------
(* The event ring.                                                         *)

\* Wrong variant: the index does not wrap.
SuccOnly(i) == i + 1

Succ(i) == (i + 1) % MaxEvent

Empty == events.r = events.w

Oldest == events.ring[events.r]

\* Wrong variant: the reader is not told.
MadeRoomSilently ==
  IF Succ(events.w) = events.r THEN [events EXCEPT !.r = Succ(events.r)] ELSE events

\* The oldest event makes room for a new one.
MadeRoom == IF Succ(events.w) = events.r
            THEN [events EXCEPT !.overflow = TRUE, !.r = Succ(events.r)]
            ELSE events

\* Event number n in a slot; the thread may have read eventw some time ago.
WithEvent(e, i, n) == [e EXCEPT !.ring[i] = n, !.w = Succ(i)]

\* dvb_frontend_add_event, for a status without lock: the tuner is not asked.
AddEvent ==
  /\ added < MaxAdded
  /\ added' = added + 1
  /\ events' = WithEvent(MadeRoom, events.w, added + 1)

\* Wrong variant: only the read index is reset.
EmptyQueueRead == events' = [events EXCEPT !.r = 0] /\ next' = added + 1

\* "empty event queue": eventr = eventw = 0.
EmptyQueue ==
  /\ events' = [events EXCEPT !.r = 0, !.w = 0]
  /\ next' = added + 1

----------------------------------------------------------------------------
(* Open and close.                                                         *)

Open(p) == proc[p].pc \notin {"closed", "opening"}

\* dvbdev->writers == 1: there is no writer, nor one that is being let in.
NoWriter == \A p \in Writers : At(p, "closed")

OpenRead(p) ==
  /\ p \notin Writers /\ At(p, "closed")
  /\ Moves(p, "idle")
  /\ UNCHANGED <<sem, thread, late, tuner, events, slot, history>>

\* The thread is there: it is taken to stay.
OpenJoins(p) ==
  /\ p \in Writers /\ NoWriter /\ thread # "none"
  /\ OpenRace \/ thread # "adding"
  /\ EmptyQueue
  /\ Moves(p, "idle")
  /\ UNCHANGED <<sem, thread, late, tuner, slot, added>>

OpenWaits(p) ==
  /\ p \in Writers /\ NoWriter /\ thread = "none"
  /\ Moves(p, "opening")
  /\ UNCHANGED <<sem, thread, late, tuner, events, slot, history>>

\* The semaphore is taken here and given by the thread.
OpenStarts(p) ==
  /\ At(p, "opening") /\ Down
  /\ thread' = "init"
  /\ EmptyQueue
  /\ Moves(p, "idle")
  /\ UNCHANGED <<late, tuner, slot, added>>

\* A signal, or no thread could be made.
OpenFails(p) ==
  /\ At(p, "opening")
  /\ EmptyQueue
  /\ Moves(p, "closed")
  /\ UNCHANGED <<sem, thread, late, tuner, slot, added>>

Close(p) ==
  /\ At(p, "idle")
  /\ late' = IF p \in Writers THEN FALSE ELSE late
  /\ Moves(p, "closed")
  /\ UNCHANGED <<sem, thread, tuner, events, slot, history>>

----------------------------------------------------------------------------
(* The ioctls.                                                             *)

Enter(p, cmd) ==
  /\ At(p, "idle")
  /\ cmd \in {"event", "event_nonblock"} => p \in EventReaders
  /\ proc' = [proc EXCEPT ![p] = [pc |-> "lock", cmd |-> cmd]]
  /\ UNCHANGED <<sem, thread, late, tuner, events, slot, history>>

\* -ERESTARTSYS.
EnterInterrupted(p) ==
  /\ At(p, "lock")
  /\ Moves(p, "idle")
  /\ UNCHANGED <<sem, thread, late, tuner, events, slot, history>>

Asks(p, cmd) == At(p, "lock") /\ proc[p].cmd = cmd

\* Wrong variant: what was locked before stays the status.
SetKeepsStatus(p) ==
  /\ Asks(p, "set") /\ Down
  /\ lost' = 0 /\ fresh' = FALSE
  /\ Moves(p, "busy")
  /\ UNCHANGED <<thread, late, asleep, slot, next, status, events, added>>

\* FE_SET_FRONTEND: the lock on what was tuned before is taken back; then the
\* tuner is told.
SetFrontend(p) ==
  /\ Asks(p, "set") /\ Down
  /\ lost' = 0 /\ fresh' = FALSE
  /\ \/ status = "lock" /\ AddEvent /\ status' = "none"
     \/ status # "lock" /\ UNCHANGED <<status, events, added>>
  /\ Moves(p, "busy")
  /\ UNCHANGED <<thread, late, asleep, slot, next>>

\* A DiSEqC command: the demux is told that there is no lock.
Diseqc(p) ==
  /\ Asks(p, "diseqc") /\ Down
  /\ status' = "none"
  /\ Moves(p, "busy")
  /\ UNCHANGED <<thread, late, lost, asleep, fresh, events, slot, history>>

\* The tuner has done what it was asked.
Finish(p) ==
  /\ At(p, "busy") /\ Up
  /\ Moves(p, "idle")
  /\ UNCHANGED <<thread, late, tuner, events, slot, history>>

GetsEvent(p) == (Asks(p, "event") \/ Asks(p, "event_nonblock")) /\ sem > 0

TakeOldest ==
  /\ next' = Oldest + 1
  /\ events' = [events EXCEPT !.r = Succ(events.r)]

\* -EOVERFLOW.
EventOverflow(p) ==
  /\ GetsEvent(p) /\ events.overflow
  /\ events' = [events EXCEPT !.overflow = FALSE]
  /\ next' = IF Empty THEN added + 1 ELSE Oldest
  /\ Moves(p, "idle")
  /\ UNCHANGED <<sem, thread, late, tuner, slot, added>>

EventTaken(p) ==
  /\ GetsEvent(p) /\ ~events.overflow /\ ~Empty
  /\ TakeOldest
  /\ Moves(p, "idle")
  /\ UNCHANGED <<sem, thread, late, tuner, slot, added>>

\* Nothing there: -EWOULDBLOCK, or wait without the semaphore.
EventNone(p) ==
  /\ GetsEvent(p) /\ ~events.overflow /\ Empty
  /\ Moves(p, IF proc[p].cmd = "event" THEN "wait" ELSE "idle")
  /\ UNCHANGED <<sem, thread, late, tuner, events, slot, history>>

EventWakes(p) ==
  /\ At(p, "wait")
  /\ \/ ~Empty /\ Moves(p, "relock")
     \/ Moves(p, "interrupted")
  /\ UNCHANGED <<sem, thread, late, tuner, events, slot, history>>

\* Wrong variant: the semaphore is not taken again, the ioctl gives it all the same.
EventAgainUnlocked(p) ==
  /\ At(p, "relock") /\ Up
  /\ TakeOldest
  /\ Moves(p, "idle")
  /\ UNCHANGED <<thread, late, tuner, slot, added>>

\* With the semaphore again: whether there is an event is not asked again.
EventAgain(p) ==
  /\ At(p, "relock") /\ sem > 0
  /\ TakeOldest
  /\ Moves(p, "idle")
  /\ UNCHANGED <<sem, thread, late, tuner, slot, added>>

\* A signal ended the wait.  The semaphore is taken again and given; when it could
\* not be taken for a signal, the ioctl gives it all the same.
EventInterrupted(p) ==
  /\ \/ At(p, "interrupted") /\ sem > 0 /\ UNCHANGED sem
     \/ LateSignals /\ (At(p, "interrupted") \/ At(p, "relock")) /\ sem = 0 /\ Up
  /\ Moves(p, "idle")
  /\ UNCHANGED <<thread, late, tuner, events, slot, history>>

----------------------------------------------------------------------------
(* The thread.                                                             *)

Exiting == NoWriter /\ late

\* The test of the loop, with the semaphore held: leave, or give it and sleep.
LoopTop(held) ==
  IF Exiting THEN thread' = "suspend" /\ sem' = held
             ELSE thread' = "sleep" /\ sem' = held + 1

ThreadInit ==
  /\ thread = "init"
  /\ lost' = -1 /\ status' = "none" /\ asleep' = FALSE /\ fresh' = FALSE
  /\ LoopTop(sem)
  /\ UNCHANGED <<late, events, slot, proc, history>>

\* A timeout, or a process that has tuned.
ThreadWakes ==
  /\ thread = "sleep" /\ thread' = "lock"
  /\ UNCHANGED <<sem, late, tuner, events, slot, proc, history>>

\* Wrong variant: an untuned device never ends its thread.
ThreadLocksStays ==
  /\ thread = "lock" /\ sem > 0
  /\ IF lost = -1 THEN thread' = "sleep" /\ UNCHANGED sem
     ELSE IF Exiting THEN thread' = "suspend" /\ sem' = sem - 1
     ELSE thread' = "status" /\ sem' = sem - 1
  /\ UNCHANGED <<late, tuner, events, slot, proc, history>>

ThreadLocks ==
  /\ thread = "lock" /\ sem > 0
  /\ IF lost = -1 THEN LoopTop(sem - 1)
     ELSE /\ thread' = IF Exiting THEN "suspend" ELSE "status"
          /\ sem' = sem - 1
  /\ UNCHANGED <<late, tuner, events, slot, proc, history>>

\* The status is lock, and was not: the tuner is asked for its parameters while
\* the event is made.
ThreadGainsLock ==
  /\ thread = "status" /\ status # "lock" /\ added < MaxAdded
  /\ lost' = 0 /\ fresh' = TRUE
  /\ events' = MadeRoom /\ slot' = events.w
  /\ thread' = "adding"
  /\ UNCHANGED <<sem, late, status, asleep, proc, history>>

ThreadKeepsLock ==
  /\ thread = "status" /\ status = "lock"
  /\ lost' = 0 /\ fresh' = TRUE
  /\ LoopTop(sem)
  /\ UNCHANGED <<late, status, asleep, events, slot, proc, history>>

LostOnce == IF lost < Patience THEN lost + 1 ELSE lost

\* No lock, and too early to do anything about it.
ThreadIsPatient ==
  /\ thread = "status" /\ ~CleanSetup /\ LostOnce < Patience
  /\ lost' = LostOnce /\ fresh' = TRUE
  /\ LoopTop(sem)
  /\ UNCHANGED <<late, status, asleep, events, slot, proc, history>>

\* No lock: recover, and report it when it is new; after two seconds without lock
\* the status says so.
ThreadMissesLock ==
  /\ thread = "status"
  /\ CleanSetup \/ LostOnce >= Patience
  /\ lost' = LostOnce /\ fresh' = TRUE
  /\ status' \in {"none", "timedout"}
  /\ IF status' = status THEN UNCHANGED <<events, added>> ELSE AddEvent
  /\ LoopTop(sem)
  /\ UNCHANGED <<late, asleep, slot, proc, next>>

\* The event is in the ring, and its status the status of the frontend.
ThreadAdds ==
  /\ thread = "adding"
  /\ events' = WithEvent(events, slot, added + 1)
  /\ added' = added + 1
  /\ status' = "lock"
  /\ LoopTop(sem)
  /\ UNCHANGED <<late, lost, asleep, fresh, slot, proc, next>>

ThreadSuspends ==
  /\ thread = "suspend"
  /\ asleep' = TRUE /\ thread' = "none" /\ Up
  /\ UNCHANGED <<late, status, lost, fresh, events, slot, proc, history>>

TimeoutElapses ==
  /\ ~late /\ late' = TRUE
  /\ UNCHANGED <<sem, thread, tuner, events, slot, proc, history>>

ThreadStep ==
  \/ ThreadInit \/ ThreadWakes \/ ThreadLocks \/ ThreadGainsLock \/ ThreadKeepsLock
  \/ ThreadIsPatient \/ ThreadMissesLock \/ ThreadAdds \/ ThreadSuspends

Next ==
  \/ ThreadStep \/ TimeoutElapses
  \/ \E p \in Procs :
       \/ OpenRead(p) \/ OpenJoins(p) \/ OpenWaits(p) \/ OpenStarts(p) \/ OpenFails(p)
       \/ Close(p) \/ \E cmd \in Commands : Enter(p, cmd)
       \/ EnterInterrupted(p) \/ SetFrontend(p) \/ Diseqc(p) \/ Finish(p)
       \/ EventOverflow(p) \/ EventTaken(p) \/ EventNone(p) \/ EventWakes(p)
       \/ EventAgain(p) \/ EventInterrupted(p)

Spec == Init /\ [][Next]_vars

\* The thread is scheduled, and time passes.
FairSpec == Spec /\ WF_vars(ThreadStep) /\ WF_vars(TimeoutElapses)

----------------------------------------------------------------------------

\* Who works with fe->sem held.
Holders == {p \in Procs : At(p, "busy")}
           \cup {t \in {"thread"} : thread \in {"init", "status", "adding", "suspend"}}

\* The semaphore is given as often as it is taken: the thread and the ioctls
\* never work on the tuner at the same time, and it is free when none does.
LockExclusive == sem + Cardinality(Holders) = 1

\* A reader is not shown an event from before the queue was emptied or one it has
\* had, and misses none without -EOVERFLOW.
NoEventSkipped ==
  ~Empty => /\ Oldest >= next
            /\ Oldest > next => events.overflow

\* A lock is never that of a frequency tuned before.
LockIsFresh == status = "lock" => fresh

\* "Wait <shutdown_timeout> seconds after close() before suspending hardware":
\* when all have closed the device for good, the thread ends and has suspended it.
EndsSuspended ==
  <>[](\A p \in Procs : At(p, "closed")) => <>[](thread = "none")

\* The same sentence: the tuner is not left suspended with a writer that has the
\* device open (while the thread starts it is about to be woken).
SuspendedWhenClosed ==
  thread = "none" /\ asleep => \A p \in Writers : ~Open(p)

\* "Empty event queue": a writer that has opened the device does not find an event
\* from before in it.  Without OpenRace: when the device is opened while the thread adds
\* an event, asleep in the tuner's driver with the next eventw in a local, old events come
\* back.
QueueEmptied == ~Empty => Oldest >= next
=============================================================================
