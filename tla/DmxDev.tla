------------------------------- MODULE DmxDev -------------------------------
(***************************************************************************)
(* The demux device (dmxdev.c): open files, each a dmxdev_filter, that are *)
(* set, started and stopped by ioctls, and the feeds and filters of the    *)
(* demux (DvbDemux) they hold.  Section filters on the same pid share one  *)
(* feed.                                                                   *)
(*                                                                         *)
(* An ioctl runs under dmxdev->mutex, so one call is under way at a time;  *)
(* a call is several steps, one per call it makes into the demux, because  *)
(* the filter's timer and the section callback (bottom halves) may run     *)
(* between any two of them.  The tables of the demux (feed, filter, ...)   *)
(* and their bounds are those of DvbDemux, which this module extends: a    *)
(* step that calls the demux is a conjunction with the demux's operation.  *)
(***************************************************************************)
EXTENDS DvbDemux, TLC

CONSTANTS
  DevNum,       \* dmxdev->filternum
  Timeouts,     \* the timeouts (none or some) of the section filters asked for
  Oneshots,     \* with and without DMX_ONESHOT
  TimerRace,    \* a timer may fire between state_set and del_timer of feed_stop
  DriverFails   \* start_feed of the driver may fail

ASSUME DevAssumption ==
  /\ DevNum \in Nat \ {0} /\ Pes # {}
  /\ None \notin (1 .. FilterNum) \cup (1 .. DevNum)
  /\ Timeouts \subseteq BOOLEAN /\ Oneshots \subseteq BOOLEAN
  /\ TimerRace \in BOOLEAN /\ DriverFails \in BOOLEAN

VARIABLES
  dev,    \* dmxdev->filter[]
  priv,   \* filter[].filter.priv: the device a filter of the demux serves
  call,   \* the ioctl that holds dmxdev->mutex and where it is
  failed  \* history: start_feed of the driver has failed

\* The packet ids play the same role: the runs look at them up to exchange.
SameRole == Permutations(Pids)

Devs == 1 .. DevNum

vars == <<demux, dev, priv, call, failed>>

DevStates == {"FREE", "ALLOCATED", "SET", "GO", "DONE", "TIMEDOUT"}
Running   == {"GO", "DONE", "TIMEDOUT"}    \* state >= DMXDEV_STATE_GO

Params == [type : {"NONE", "SEC", "PES"}, pid : Pids \cup {BadPid, NoPid},
           decoder : BOOLEAN, pes : Pes, timeout : BOOLEAN, oneshot : BOOLEAN]

Dev == [state : DevStates, params : Params, feed : Feeds \cup {None},
        sec : Filters \cup {None}, timer : BOOLEAN]

Points == {"idle", "stop", "quiet", "release", "restart", "then", "find",
           "set", "refused", "filter", "full", "again", "go", "timer", "ready"}

DevTypeOK ==
  /\ dev \in [Devs -> Dev]
  /\ \A i \in Devs : dev[i].params.type = "NONE" <=> dev[i].state \in {"FREE", "ALLOCATED"}
  /\ priv \in [Filters -> Devs \cup {None}]
  /\ failed \in BOOLEAN
  /\ call \in [pc : Points, dev : Devs, then : {"start", "stop", "set", "free"}]

NoParams == [type |-> "NONE", pid |-> NoPid, decoder |-> FALSE,
             pes |-> CHOOSE p \in Pes : TRUE, timeout |-> FALSE, oneshot |-> FALSE]

NoCall == [pc |-> "idle", dev |-> 1, then |-> "stop"]

Closed == [state |-> "FREE", params |-> NoParams, feed |-> None, sec |-> None,
           timer |-> FALSE]

DevInit ==
  /\ Init
  /\ dev = [i \in Devs |-> Closed]
  /\ priv = [s \in Filters |-> None]
  /\ call = NoCall
  /\ failed = FALSE

----------------------------------------------------------------------------
(* Open, and the ioctls that enter with the mutex free.                    *)

Open(i) ==
  /\ call.pc = "idle" /\ FirstFree(dev, i)
  /\ dev' = [dev EXCEPT ![i].state = "ALLOCATED", ![i].params.type = "NONE",
                        ![i].feed = None, ![i].timer = FALSE]
  /\ UNCHANGED <<demux, priv, call>>

Enter(i, then) ==
  /\ call.pc = "idle" /\ dev[i].state # "FREE"
  /\ call' = [pc |-> "stop", dev |-> i, then |-> then]
  /\ UNCHANGED <<demux, dev, priv>>

\* DMX_START, DMX_STOP, close, and DMX_SET_FILTER or DMX_SET_PES_FILTER.
EnterStart(i) == dev[i].state # "ALLOCATED" /\ Enter(i, "start")
EnterStop(i)  == Enter(i, "stop")
EnterFree(i)  == Enter(i, "free")
EnterSet(i)   == Enter(i, "set")

----------------------------------------------------------------------------
(* Steps of the call that holds the mutex.                                 *)

me  == call.dev
own == dev[me].feed
section == dev[me].params.type = "SEC"

At(pc) == call.pc = pc
GoTo(pc) == call' = [call EXCEPT !.pc = pc]
Return   == call' = NoCall

\* The first device with the pid that runs, if there is one.
Sharer(j) ==
  LET runs(k) == /\ dev[k].state \in Running
                 /\ dev[k].params.type = "SEC"
                 /\ dev[k].params.pid = dev[me].params.pid
  IN  runs(j) /\ \A k \in Devs : k < j => ~runs(k)

NoSharer == \A j \in Devs : ~Sharer(j)

\* start_filtering of a section feed where nobody looks at what it returns: it is
\* refused when the feed runs or has no filter.
StartFiltering(f) ==
  \/ SectionStart(f) /\ UNCHANGED failed
  \/ (feed[f].filtering \/ feed[f].filters = <<>>) /\ UNCHANGED <<demux, failed>>
  \/ DriverFails /\ failed' = TRUE /\ UNCHANGED demux

\* Wrong variant: the other device is marked, its feed stays stopped.
FeedRestartMarks(devs) ==
  \/ \E j \in Devs :
       /\ Sharer(j) /\ dev' = [devs EXCEPT ![j].state = "GO"] /\ UNCHANGED demux
       /\ UNCHANGED failed
  \/ NoSharer /\ dev' = devs /\ SectionRelease(own) /\ UNCHANGED failed

\* feed_restart: start the feed for another device, else release it.  Starting
\* the feed of a device that has none is a call through a null pointer: no step.
\* devs is dev[] as the caller leaves it, but for the state of the other device.
FeedRestart(devs) ==
  \/ \E j \in Devs :
       /\ Sharer(j) /\ dev[j].feed # None
       /\ dev' = [devs EXCEPT ![j].state = "GO"]
       /\ StartFiltering(dev[j].feed)
  \/ /\ NoSharer
     /\ dev' = devs /\ UNCHANGED failed
     /\ \/ SectionRelease(own)
        \/ feed[own].state = "FREE" /\ UNCHANGED demux

\* filter_stop does nothing to a device that does not run or holds no feed.
StopNothing ==
  /\ At("stop") /\ (dev[me].state \notin Running \/ own = None)
  /\ GoTo("then")
  /\ UNCHANGED <<demux, dev, priv>>

\* feed_stop: the state first, the timer and the feed in a second step.
StopMark ==
  /\ At("stop") /\ dev[me].state \in Running /\ own # None
  /\ dev' = [dev EXCEPT ![me].state = "SET"]
  /\ GoTo("quiet")
  /\ UNCHANGED <<demux, priv>>

\* Wrong variant: the timer is left pending.
StopQuietNoTimer ==
  /\ At("quiet") /\ section
  /\ SectionStop(own)
  /\ GoTo("release")
  /\ UNCHANGED <<dev, priv>>

StopQuietSection ==
  /\ At("quiet") /\ section
  /\ dev' = [dev EXCEPT ![me].timer = FALSE]
  /\ SectionStop(own)
  /\ GoTo("release")
  /\ UNCHANGED priv

StopQuietPes ==
  /\ At("quiet") /\ ~section
  /\ \/ TsStop(own)
     \/ feed[own].state # "GO" /\ UNCHANGED demux
  /\ GoTo("release")
  /\ UNCHANGED <<dev, priv>>

\* Wrong variant: the filter stays in the chain of the feed.
StopKeepsFilter ==
  /\ At("release") /\ section
  /\ GoTo("restart")
  /\ UNCHANGED <<demux, dev, priv>>

\* The code leaves priv to the next allocate_filter, which clears it.
StopReleaseFilter ==
  /\ At("release") /\ section
  /\ LET s == dev[me].sec IN
       \/ /\ s # None /\ FilterRelease(own, s)
          /\ priv' = [priv EXCEPT ![s] = None]
       \/ (s = None \/ filter[s].feed # own) /\ UNCHANGED <<demux, priv>>
  /\ GoTo("restart")
  /\ UNCHANGED dev

\* Wrong variant: a feed nobody shares is forgotten, not released.
StopForgetsFeed ==
  /\ At("restart")
  /\ IF NoSharer THEN /\ dev' = [dev EXCEPT ![me].feed = None, ![me].sec = None]
                      /\ UNCHANGED <<demux, failed>>
                 ELSE FeedRestart([dev EXCEPT ![me].feed = None, ![me].sec = None])
  /\ GoTo("then")
  /\ UNCHANGED priv

\* The pointer to the filter stays in the code; it is not read again.
StopRestart ==
  /\ At("restart")
  /\ FeedRestart([dev EXCEPT ![me].feed = None, ![me].sec = None])
  /\ GoTo("then")
  /\ UNCHANGED priv

StopReleasePes ==
  /\ At("release") /\ ~section
  /\ \/ TsRelease(own)
     \/ feed[own].state = "FREE" /\ UNCHANGED demux
  /\ dev' = [dev EXCEPT ![me].feed = None]
  /\ GoTo("then")
  /\ UNCHANGED priv

\* What the ioctl does after filter_stop.
ThenStop ==
  /\ At("then") /\ call.then = "stop" /\ Return
  /\ UNCHANGED <<demux, dev, priv>>

\* Wrong variant: without filter_reset.
ThenFreeUnreset ==
  /\ At("then") /\ call.then = "free"
  /\ dev' = [dev EXCEPT ![me].state = "FREE"]
  /\ Return
  /\ UNCHANGED <<demux, priv>>

\* filter_free: filter_reset, then the slot is free; open and set write what else
\* the slot holds before it is read again.
ThenFree ==
  /\ At("then") /\ call.then = "free"
  /\ dev' = [dev EXCEPT ![me] = [Closed EXCEPT !.timer = dev[me].timer]]
  /\ Return
  /\ UNCHANGED <<demux, priv>>

\* What an ioctl may ask for.
SectionParams(pid, t, o) ==
  [NoParams EXCEPT !.type = "SEC", !.pid = pid, !.timeout = t, !.oneshot = o]

PesParams(pid, d, p) ==
  [NoParams EXCEPT !.type = "PES", !.pid = pid, !.decoder = d, !.pes = p]

\* With DMX_IMMEDIATE_START the device is started at once.
SetTo(params) ==
  /\ dev' = [dev EXCEPT ![me].params = params, ![me].state = "SET"]
  /\ GoTo("find") \/ Return
  /\ UNCHANGED <<demux, priv>>

ThenSetSection ==
  /\ At("then") /\ call.then = "set"
  /\ \E pid \in Pids \cup {BadPid}, t \in Timeouts, o \in Oneshots :
       SetTo(SectionParams(pid, t, o))

\* (A pes_type out of range is refused here: the same as ThenStop.)
ThenSetPes ==
  /\ At("then") /\ call.then = "set"
  /\ \E pid \in Pids \cup {BadPid}, d \in BOOLEAN, p \in Pes :
       SetTo(PesParams(pid, d, p))

ThenStart ==
  /\ At("then") /\ call.then = "start"
  /\ GoTo("find")
  /\ UNCHANGED <<demux, dev, priv>>

----------------------------------------------------------------------------
(* filter_start, once the device is stopped.                               *)

\* vmalloc of the buffer fails.
StartFails ==
  /\ At("find") /\ Return
  /\ UNCHANGED <<demux, dev, priv>>

\* Wrong variant: the feed runs on while it gets another filter.
StartShareRunning ==
  /\ At("find") /\ section
  /\ \E j \in Devs \ {me} :
       /\ Sharer(j) /\ dev[j].feed # None
       /\ dev' = [dev EXCEPT ![me].feed = dev[j].feed, ![me].sec = None,
                             ![me].state = "SET", ![me].timer = FALSE]
  /\ GoTo("filter")
  /\ UNCHANGED <<demux, priv>>

\* Join the feed of a device that runs on the same pid, which is stopped for it.
StartShare ==
  /\ At("find") /\ section
  /\ \E j \in Devs \ {me} :
       /\ Sharer(j) /\ dev[j].feed # None
       /\ dev' = [dev EXCEPT ![me].feed = dev[j].feed, ![me].sec = None,
                             ![me].state = "SET", ![me].timer = FALSE]
       /\ SectionStop(dev[j].feed)
  /\ GoTo("filter")
  /\ UNCHANGED priv

\* Wrong variant: no search for a device on the same pid.
StartAllocateAlways ==
  /\ At("find") /\ section
  /\ \E f \in Feeds :
       /\ SectionAllocate(f)
       /\ dev' = [dev EXCEPT ![me].feed = f, ![me].sec = None]
  /\ GoTo("set")
  /\ UNCHANGED priv

StartAllocate ==
  /\ At("find") /\ section
  /\ \A j \in Devs \ {me} : Sharer(j) => dev[j].feed = None
  /\ \/ /\ Full(feed) /\ UNCHANGED demux
        /\ dev' = [dev EXCEPT ![me].feed = None, ![me].sec = None]
        /\ Return
     \/ \E f \in Feeds :
          /\ SectionAllocate(f)
          /\ dev' = [dev EXCEPT ![me].feed = f, ![me].sec = None]
          /\ GoTo("set")
  /\ UNCHANGED priv

StartSet ==
  /\ At("set") /\ section
  /\ \/ SectionSet(own, dev[me].params.pid) /\ GoTo("filter")
     \/ dev[me].params.pid \notin Pids /\ UNCHANGED demux /\ GoTo("refused")
  /\ UNCHANGED <<dev, priv>>

StartRefused ==
  /\ At("refused") /\ section /\ FeedRestart(dev)
  /\ Return
  /\ UNCHANGED priv

StartFilter ==
  /\ At("filter")
  /\ \/ \E s \in Filters :
          /\ FilterAllocate(own, s)
          /\ dev' = [dev EXCEPT ![me].sec = s]
          /\ priv' = [priv EXCEPT ![s] = me]
          /\ GoTo("go")
     \/ Full(filter) /\ GoTo("full") /\ UNCHANGED <<demux, dev, priv>>

\* Wrong variant: returns at once.
StartFullReturns ==
  /\ At("full") /\ Return
  /\ UNCHANGED <<demux, dev, priv, failed>>

\* No filter left: restart or release the feed, and start it once more.
StartFull ==
  /\ At("full") /\ FeedRestart(dev)
  /\ GoTo("again")
  /\ UNCHANGED priv

StartAgain ==
  /\ At("again") /\ StartFiltering(own)
  /\ Return
  /\ UNCHANGED <<dev, priv>>

StartGo ==
  /\ At("go") /\ section /\ SectionStart(own)
  /\ GoTo("timer")
  /\ UNCHANGED <<dev, priv>>

\* The feed and the filter stay with a device that does not run.
StartGoFails ==
  /\ DriverFails /\ At("go") /\ Return /\ failed' = TRUE
  /\ UNCHANGED <<demux, dev, priv>>

StartTimer ==
  /\ At("timer")
  /\ dev' = [dev EXCEPT ![me].timer = dev[me].params.timeout]
  /\ GoTo("ready")
  /\ UNCHANGED <<demux, priv>>

StartReady ==
  /\ At("ready")
  /\ dev' = [dev EXCEPT ![me].state = "GO"]
  /\ Return
  /\ UNCHANGED <<demux, priv>>

\* A transport stream filter has a feed of its own.
StartPes ==
  /\ At("find") /\ ~section
  /\ \/ Full(feed) /\ UNCHANGED <<demux, priv>> /\ Return
        /\ dev' = [dev EXCEPT ![me].feed = None]
     \/ \E f \in Feeds :
          /\ dev' = [dev EXCEPT ![me].feed = f]
          /\ UNCHANGED priv
          /\ \/ TsAllocateFails(f) /\ Return
             \/ \E s \in Filters : TsAllocate(f, s) /\ GoTo("set")

StartPesSet ==
  /\ At("set") /\ ~section
  /\ LET p == dev[me].params IN
       \/ TsSet(own, p.pid, p.decoder, p.pes) /\ GoTo("go")
       \/ /\ p.pid \notin Pids \/ PesBusy(own, p.decoder, p.pes)
          /\ UNCHANGED demux /\ GoTo("refused")
  /\ UNCHANGED <<dev, priv>>

StartPesRefused ==
  /\ At("refused") /\ ~section /\ TsRelease(own)
  /\ Return
  /\ UNCHANGED <<dev, priv>>

StartPesGo ==
  /\ At("go") /\ ~section /\ TsStart(own)
  /\ GoTo("ready")
  /\ UNCHANGED <<dev, priv>>

----------------------------------------------------------------------------
(* Bottom halves.                                                          *)

TimerFires(i) ==
  /\ dev[i].timer
  /\ TimerRace \/ ~(At("quiet") /\ i = me)
  /\ dev' = [dev EXCEPT ![i].timer = FALSE, ![i].state = "TIMEDOUT"]
  /\ UNCHANGED <<demux, priv, call>>

\* The packet path can call the callback of filter s.
Delivers(s) ==
  \E f \in feedList : /\ feed[f].type = "SEC" /\ feed[f].filtering
                      /\ \E i \in 1 .. Len(feed[f].filters) : feed[f].filters[i] = s

\* A section of filter s: one that runs once is done, and its timer is gone.
SectionArrives(s) ==
  /\ Delivers(s) /\ priv[s] # None
  /\ LET i == priv[s] IN
       /\ dev[i].state = "GO"
       /\ dev' = [dev EXCEPT ![i].timer = FALSE,
                             ![i].state = IF dev[i].params.oneshot THEN "DONE" ELSE @]
  /\ UNCHANGED <<demux, priv, call>>

\* The steps that may call start_feed where it can fail say so themselves.
Step ==
  \/ /\ \/ StopNothing \/ StopMark \/ StopQuietSection \/ StopQuietPes
        \/ StopReleaseFilter \/ StopReleasePes
        \/ ThenStop \/ ThenFree \/ ThenSetSection \/ ThenSetPes \/ ThenStart
        \/ StartFails \/ StartShare \/ StartAllocate \/ StartSet \/ StartFilter
        \/ StartGo \/ StartTimer \/ StartReady
        \/ StartPes \/ StartPesSet \/ StartPesRefused \/ StartPesGo
     /\ UNCHANGED failed
  \/ StopRestart \/ StartRefused \/ StartFull \/ StartAgain \/ StartGoFails

DevNext ==
  \/ Step
  \/ /\ \/ \E i \in Devs : \/ Open(i) \/ EnterStart(i) \/ EnterStop(i)
                           \/ EnterFree(i) \/ EnterSet(i) \/ TimerFires(i)
        \/ \E s \in Filters : SectionArrives(s)
     /\ UNCHANGED failed

DevSpec == DevInit /\ [][DevNext]_vars

----------------------------------------------------------------------------

\* The device keeps the protocol of the demux: whatever the ioctls, timers and
\* sections do is a behaviour of DvbDemux.
KeepsProtocol == Spec

Idle == call.pc = "idle"

\* Between calls, a device that runs is served, unless the driver has failed to
\* start a feed: its feed runs, on its pid and of its kind, and the filter of a
\* section device is in the chain of that feed.
RunningServed ==
  Idle /\ ~failed => \A i \in Devs : dev[i].state \in Running =>
    /\ dev[i].feed # None
    /\ feed[dev[i].feed].filtering
    /\ feed[dev[i].feed].pid = dev[i].params.pid
    /\ feed[dev[i].feed].type = IF dev[i].params.type = "SEC" THEN "SEC" ELSE "TS"
    /\ dev[i].params.type = "SEC" =>
         /\ dev[i].sec # None
         /\ filter[dev[i].sec] = [state |-> "READY", feed |-> dev[i].feed]
         /\ priv[dev[i].sec] = i

\* "Restart section feed if it has filters left associated with it, otherwise
\* release the feed": between calls every feed taken serves a device that runs
\* (a driver that failed to start a feed leaves it with a device that does not).
NoFeedLost ==
  Idle /\ ~failed => \A f \in Feeds : feed[f].state # "FREE" =>
            \E i \in Devs : dev[i].state \in Running /\ dev[i].feed = f

\* A section is only ever delivered to the open section device that asked for
\* it, never to a slot that was closed or set to something else since.
CallbackSafe ==
  \A s \in Filters : Delivers(s) =>
    /\ priv[s] # None
    /\ dev[priv[s]].sec = s
    /\ dev[priv[s]].params.type = "SEC"
    /\ dev[priv[s]].state \notin {"FREE", "ALLOCATED"}

\* A timer never outlives the run it was set for.
TimerSafe ==
  \A i \in Devs : dev[i].timer =>
    /\ dev[i].params.type = "SEC" /\ dev[i].params.timeout
    /\ dev[i].state = "GO" \/ (call.dev = i /\ call.pc \in {"quiet", "ready"})

\* Section devices that run on one pid share one feed.
OneFeedPerPid ==
  \A i, j \in Devs :
    /\ dev[i].state \in Running /\ dev[i].params.type = "SEC"
    /\ dev[j].state \in Running /\ dev[j].params.type = "SEC"
    /\ dev[i].params.pid = dev[j].params.pid
    => dev[i].feed = dev[j].feed
=============================================================================
