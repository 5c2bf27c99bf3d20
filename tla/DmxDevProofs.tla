---------------------------- MODULE DmxDevProofs ----------------------------
(***************************************************************************)
(* Proofs, for tables of any size, that the devices keep the protocol of   *)
(* the demux, that a device that runs is served and that no feed is lost.  *)
(***************************************************************************)
EXTENDS DmxDev, DvbDemuxProofs, WellFoundedInduction

Sec(i) == dev[i].params.type = "SEC"

----------------------------------------------------------------------------
(* What the state of a device and the place of the call agree on, whatever *)
(* the driver does.                                                        *)

\* Where the caller's device holds a feed that it does not show to run.
Holding == {"quiet", "release", "restart", "set", "refused", "filter", "full", "go",
            "timer", "ready"}

\* A device that runs has a feed.
RunnersHaveFeeds ==
  \A i \in Devs : dev[i].state \in Running => dev[i].feed # None

\* The state of the caller's device.
CallerSet ==
  /\ At("stop") => /\ dev[me].state # "FREE"
                   /\ call.then = "start" => dev[me].state # "ALLOCATED"
  /\ At("then") => /\ dev[me].state \in {"ALLOCATED", "SET"}
                   /\ call.then = "start" => dev[me].state = "SET"
  /\ call.pc \in {"find", "again"} \cup (Holding \ {"ready"}) => dev[me].state = "SET"
  /\ At("ready") => dev[me].state \in {"SET", "TIMEDOUT"}
  /\ call.pc \in {"again"} \cup Holding => own # None
  /\ call.pc \in {"restart", "filter", "full", "again", "timer"} => Sec(me)

CallInv == DevTypeOK /\ RunnersHaveFeeds /\ CallerSet /\ TimerSafe

----------------------------------------------------------------------------
(* What the devices and the demux agree on while the driver does not fail. *)

\* Who has a feed.
Holder(i) == dev[i].state \in Running \/ (i = me /\ call.pc \in Holding)

\* The caller's device has a feed no packet id was set for.
New == call.pc \in {"set", "refused"}

\* The caller's device has a feed and no filter in it.
Bare == call.pc \in {"restart", "set", "refused", "filter", "full"}

\* The caller's feed does not run.
Paused == call.pc \in {"release", "restart", "set", "refused", "filter", "full", "go"}

HeldFeeds ==
  \A i \in Devs : Holder(i) =>
    /\ Live(dev[i].feed)
    /\ feed[dev[i].feed].type = IF Sec(i) THEN "SEC" ELSE "TS"
    /\ feed[dev[i].feed].pid = dev[i].params.pid \/ (i = me /\ New)

\* Only section devices share a feed, and not one that is being set up.
Sharing ==
  \A i, j \in Devs : Holder(i) /\ Holder(j) /\ i # j /\ dev[i].feed = dev[j].feed =>
    Sec(i) /\ Sec(j) /\ ~(i = me /\ New)

\* Section devices on one pid share their feed.
OnePid ==
  \A i, j \in Devs :
    Holder(i) /\ Holder(j) /\ Sec(i) /\ Sec(j) /\ dev[i].params.pid = dev[j].params.pid
    => dev[i].feed = dev[j].feed

\* Every feed taken is some device's.
FeedsHeld ==
  \A f \in Feeds : Live(f) => \E i \in Devs : Holder(i) /\ dev[i].feed = f

\* A filter that serves a device is the one this device has.
PrivsTrue ==
  \A s \in Filters : priv[s] # None =>
    /\ Holder(priv[s]) /\ Sec(priv[s]) /\ dev[priv[s]].sec = s
    /\ filter[s] = [state |-> "READY", feed |-> dev[priv[s]].feed]
    /\ ~(priv[s] = me /\ Bare)

\* Every filter in a section feed serves a device.
PrivsSet ==
  \A s \in Filters : filter[s].state # "FREE" /\ feed[filter[s].feed].type = "SEC" =>
    priv[s] # None

\* Every section device has its filter.
HaveFilters ==
  \A i \in Devs : Holder(i) /\ Sec(i) /\ ~(i = me /\ Bare) =>
    dev[i].sec \in Filters /\ priv[dev[i].sec] = i

\* The feeds run, but for the one the caller works on.
FeedsRun ==
  \A i \in Devs : Holder(i) =>
    (feed[dev[i].feed].filtering <=> ~(Paused /\ dev[i].feed = own))

\* The caller's feed.
OwnState ==
  /\ New => feed[own].state = "ALLOCATED" /\ own \notin feedList
  /\ Paused /\ ~New /\ (Sec(me) \/ At("go")) => feed[own].state = "READY"
  /\ At("again") => feed[own].filtering \/ feed[own].filters = <<>>

Served ==
  /\ IInv
  /\ HeldFeeds /\ Sharing /\ OnePid /\ FeedsHeld
  /\ PrivsTrue /\ PrivsSet /\ HaveFilters
  /\ FeedsRun /\ OwnState

ServedInv == ~failed => Served

----------------------------------------------------------------------------
(* The state of the devices and the place of the call.                     *)

Calls == [pc : Points, dev : Devs, then : {"start", "stop", "set", "free"}]

\* NULL is no device, filter or feed.
LEMMA NoneIsNoDev == None \notin Devs /\ None \notin Filters /\ None \notin Feeds
  BY DevAssumption, NamesAssumption DEF Devs, Filters, Feeds

\* A set of numbers with a member has a least one.
LEMMA SmallestExists ==
  ASSUME NEW S \in SUBSET Nat, NEW n \in S
  PROVE  \E k \in S : \A l \in S : ~(l < k)
<1>1. IsWellFoundedOn(OpToRel(<, Nat), Nat)
  BY NatLessThanWellFounded, Zenon
<1>2. PICK k \in S : \A l \in S : <<l, k>> \notin OpToRel(<, Nat)
  BY <1>1, WFMin, Zenon
<1> QED
  BY <1>2 DEF OpToRel

\* A step that changes one device, the caller's or, in a bottom half, another.
LEMMA OneChanges ==
  ASSUME CallInv, NEW i \in Devs, NEW r \in Dev, dev' = [dev EXCEPT ![i] = r],
         i = me \/ UNCHANGED call,
         r.params.type = "NONE" <=> r.state \in {"FREE", "ALLOCATED"},
         r.state \in Running => r.feed # None,
         r.timer => /\ r.params.type = "SEC" /\ r.params.timeout
                    /\ r.state = "GO" \/ (call'.dev = i /\ call'.pc \in {"quiet", "ready"}),
         priv' \in [Filters -> Devs \cup {None}], failed' \in BOOLEAN, call' \in Calls,
         CallerSet'
  PROVE  CallInv'
<1>1. /\ dev' \in [Devs -> Dev] /\ dev'[i] = r
      /\ \A j \in Devs : j # i => dev'[j] = dev[j]
  BY DEF CallInv, DevTypeOK
<1>2. DevTypeOK'
  BY <1>1 DEF CallInv, DevTypeOK, Calls
<1>3. RunnersHaveFeeds'
  BY <1>1 DEF CallInv, RunnersHaveFeeds
<1>4. TimerSafe'
  BY <1>1 DEF CallInv, TimerSafe, me
<1> QED
  BY <1>2, <1>3, <1>4 DEF CallInv

\* The record of a device with other values in it.
LEMMA DevFields ==
  ASSUME NEW r \in Dev
  PROVE  /\ r.state \in DevStates /\ r.params \in Params
         /\ r.feed \in Feeds \cup {None} /\ r.sec \in Filters \cup {None}
         /\ r.timer \in BOOLEAN
  BY DEF Dev

\* Open.
LEMMA OpenKeepsCall ==
  ASSUME CallInv, NEW i \in Devs, Open(i), UNCHANGED failed
  PROVE  CallInv'
<1> DEFINE p == [dev[i].params EXCEPT !.type = "NONE"]
           r == [dev[i] EXCEPT !.state = "ALLOCATED", !.params = p, !.feed = None,
                               !.timer = FALSE]
<1>1. dev[i] \in Dev /\ dev[i].params \in Params
  BY DevFields DEF CallInv, DevTypeOK
<1>2. p \in Params /\ p.type = "NONE"
  BY <1>1 DEF Params
<1>3. dev' = [dev EXCEPT ![i] = r]
  BY <1>1 DEF Open, Dev
<1> HIDE DEF p
<1>4. /\ r \in Dev /\ r.state = "ALLOCATED" /\ r.params = p /\ r.feed = None
      /\ r.timer = FALSE
  BY <1>1, <1>2 DEF Dev, DevStates
<1> HIDE DEF r
<1>5. /\ call' = call /\ call.pc = "idle" /\ call \in Calls
      /\ priv' \in [Filters -> Devs \cup {None}] /\ failed' \in BOOLEAN
  BY DEF Open, CallInv, DevTypeOK, Calls
<1>6. CallerSet'
  BY <1>5 DEF CallerSet, At, Holding
<1> QED
  BY <1>2, <1>3, <1>4, <1>5, <1>6, OneChanges DEF Running

\* A step that changes no device.
LEMMA NoneChanges ==
  ASSUME CallInv, UNCHANGED dev, At("quiet") => ~section, ~At("ready"),
         priv' \in [Filters -> Devs \cup {None}], failed' \in BOOLEAN, call' \in Calls,
         CallerSet'
  PROVE  CallInv'
<1>1. DevTypeOK' /\ RunnersHaveFeeds'
  BY DEF CallInv, DevTypeOK, RunnersHaveFeeds, Calls
<1>2. TimerSafe'
  BY DEF CallInv, TimerSafe, At, me, section
<1> QED
  BY <1>1, <1>2 DEF CallInv

\* The place of a call that goes on, and of none.
LEMMA CallMoves ==
  ASSUME call \in Calls
  PROVE  /\ me \in Devs
         /\ \A pc \in Points : GoTo(pc) => call'.pc = pc /\ call'.dev = me
                                          /\ call'.then = call.then /\ call' \in Calls
         /\ Return => call'.pc = "idle" /\ call' \in Calls
<1>1. 1 \in Devs
  BY DevAssumption DEF Devs
<1> QED
  BY <1>1 DEF me, Calls, GoTo, Return, NoCall, Points

\* The ioctls that enter.
LEMMA EnterKeepsCall ==
  ASSUME CallInv, NEW i \in Devs,
         EnterStart(i) \/ EnterStop(i) \/ EnterFree(i) \/ EnterSet(i), UNCHANGED failed
  PROVE  CallInv'
<1>1. PICK then \in {"start", "stop", "set", "free"} :
        Enter(i, then) /\ (then = "start" => dev[i].state # "ALLOCATED")
  BY DEF EnterStart, EnterStop, EnterFree, EnterSet
<1>2. /\ call' = [pc |-> "stop", dev |-> i, then |-> then]
      /\ dev' = dev /\ priv' = priv /\ call.pc = "idle" /\ dev[i].state # "FREE"
  BY <1>1 DEF Enter
<1>3. call' \in Calls /\ call'.pc = "stop" /\ call'.dev = i /\ call'.then = then
  BY <1>2 DEF Calls, Points
<1>4. CallerSet'
  BY <1>1, <1>2, <1>3 DEF CallerSet, At, Holding, me
<1> QED
  BY <1>2, <1>3, <1>4, NoneChanges DEF CallInv, DevTypeOK, At

\* The steps of a call that change no device.
LEMMA MovesKeepCall ==
  ASSUME CallInv, UNCHANGED failed,
         \/ StopNothing \/ StopQuietPes \/ StopReleaseFilter \/ ThenStop \/ ThenStart
         \/ StartFails \/ StartSet \/ StartGo \/ StartPesSet \/ StartPesRefused \/ StartPesGo
  PROVE  CallInv'
<1>1. call \in Calls /\ priv \in [Filters -> Devs \cup {None}] /\ failed' \in BOOLEAN
  BY DEF CallInv, DevTypeOK, Calls
<1>2. dev' = dev
  BY DEF StopNothing, StopQuietPes, StopReleaseFilter, ThenStop, ThenStart, StartFails,
     StartSet, StartGo, StartPesSet, StartPesRefused, StartPesGo
<1>3. priv' \in [Filters -> Devs \cup {None}]
  BY <1>1 DEF StopNothing, StopQuietPes, StopReleaseFilter, ThenStop, ThenStart, StartFails,
     StartSet, StartGo, StartPesSet, StartPesRefused, StartPesGo
<1>4. /\ At("quiet") => ~section
      /\ ~At("ready")
  BY DEF StopNothing, StopQuietPes, StopReleaseFilter, ThenStop, ThenStart, StartFails,
     StartSet, StartGo, StartPesSet, StartPesRefused, StartPesGo, At
<1>5. call' \in Calls /\ CallerSet'
  <2> USE CallMoves, <1>1, <1>2 DEF CallInv, CallerSet, RunnersHaveFeeds, At, Holding, own,
        me, section, Sec, Points
  <2>1. CASE StopNothing
    <3>1. dev[me].state \in {"ALLOCATED", "SET"} /\ (call.then = "start" => dev[me].state = "SET")
      BY <2>1, DevFields DEF StopNothing, Running, DevTypeOK, DevStates
    <3> QED
      BY <2>1, <3>1 DEF StopNothing
  <2>2. CASE StopQuietPes \/ StopReleaseFilter
    BY <2>2 DEF StopQuietPes, StopReleaseFilter
  <2>3. CASE ThenStop \/ ThenStart \/ StartFails \/ StartPesRefused
    BY <2>3 DEF ThenStop, ThenStart, StartFails, StartPesRefused
  <2>4. CASE StartSet \/ StartPesSet
    BY <2>4 DEF StartSet, StartPesSet
  <2>5. CASE StartGo \/ StartPesGo
    BY <2>5 DEF StartGo, StartPesGo
  <2> QED
    BY <2>1, <2>2, <2>3, <2>4, <2>5
<1> QED
  BY <1>1, <1>2, <1>3, <1>4, <1>5, NoneChanges

\* The steps in which the driver may fail and that change no device.
LEMMA FailuresKeepCall ==
  ASSUME CallInv, StartAgain \/ StartGoFails
  PROVE  CallInv'
<1>1. call \in Calls /\ priv' \in [Filters -> Devs \cup {None}] /\ failed' \in BOOLEAN
  BY DEF CallInv, DevTypeOK, Calls, StartAgain, StartGoFails, StartFiltering
<1>2. Return /\ dev' = dev /\ ~At("quiet") /\ ~At("ready")
  BY DEF StartAgain, StartGoFails, At
<1>3. call' \in Calls /\ CallerSet'
  BY <1>1, <1>2, CallMoves DEF CallerSet, At, Holding
<1> QED
  BY <1>1, <1>2, <1>3, NoneChanges

\* The steps of filter_stop that change the caller's device alone.
LEMMA StopsKeepCall ==
  ASSUME CallInv, UNCHANGED failed, StopMark \/ StopQuietSection \/ StopReleasePes
  PROVE  CallInv'
<1>1. /\ call \in Calls /\ failed' \in BOOLEAN /\ me \in Devs
      /\ dev[me] \in Dev /\ dev \in [Devs -> Dev]
      /\ priv' \in [Filters -> Devs \cup {None}]
  BY CallMoves DEF CallInv, DevTypeOK, Calls, StopMark, StopQuietSection, StopReleasePes
<1>2. CASE StopMark
  <2> DEFINE r == [dev[me] EXCEPT !.state = "SET"]
  <2>1. /\ r \in Dev /\ r.state = "SET" /\ r.params = dev[me].params /\ r.feed = own
        /\ r.timer = dev[me].timer
    BY <1>1 DEF Dev, DevStates, own
  <2>2. dev' = [dev EXCEPT ![me] = r]
    BY <1>2 DEF StopMark
  <2> HIDE DEF r
  <2>3. At("stop") /\ GoTo("quiet") /\ dev[me].state \in Running /\ own # None
    BY <1>2 DEF StopMark
  <2>4. call' \in Calls /\ call'.dev = me /\ call'.pc = "quiet" /\ dev'[me] = r
    BY <1>1, <2>2, <2>3, CallMoves DEF Points
  <2>5. CallerSet'
    BY <2>1, <2>3, <2>4 DEF CallerSet, At, Holding, own, me
  <2>6. r.params.type # "NONE"
    BY <1>1, <2>1, <2>3 DEF CallInv, DevTypeOK, Running
  <2>7. r.timer => r.params.type = "SEC" /\ r.params.timeout
    BY <1>1, <2>1 DEF CallInv, TimerSafe
  <2> QED
    BY <1>1, <2>1, <2>2, <2>4, <2>5, <2>6, <2>7, OneChanges DEF Running
<1>3. CASE StopQuietSection
  <2> DEFINE r == [dev[me] EXCEPT !.timer = FALSE]
  <2>1. /\ r \in Dev /\ r.state = dev[me].state /\ r.params = dev[me].params /\ r.feed = own
        /\ r.timer = FALSE
    BY <1>1 DEF Dev, own
  <2>2. dev' = [dev EXCEPT ![me] = r]
    BY <1>3 DEF StopQuietSection
  <2> HIDE DEF r
  <2>3. At("quiet") /\ GoTo("release") /\ dev[me].state = "SET" /\ own # None
    BY <1>3 DEF StopQuietSection, CallInv, CallerSet, At, Holding
  <2>4. call' \in Calls /\ call'.dev = me /\ call'.pc = "release" /\ dev'[me] = r
    BY <1>1, <1>3, <2>2, <2>3, CallMoves DEF Points
  <2>5. CallerSet'
    BY <2>1, <2>3, <2>4 DEF CallerSet, At, Holding, own, me
  <2>6. r.params.type # "NONE"
    BY <1>1, <2>1, <2>3 DEF CallInv, DevTypeOK
  <2> QED
    BY <1>1, <2>1, <2>2, <2>3, <2>4, <2>5, <2>6, OneChanges DEF Running
<1>4. CASE StopReleasePes
  <2> DEFINE r == [dev[me] EXCEPT !.feed = None]
  <2>1. /\ r \in Dev /\ r.state = dev[me].state /\ r.params = dev[me].params /\ r.feed = None
        /\ r.timer = dev[me].timer
    BY <1>1 DEF Dev, own
  <2>2. dev' = [dev EXCEPT ![me] = r]
    BY <1>4 DEF StopReleasePes
  <2> HIDE DEF r
  <2>3. At("release") /\ GoTo("then") /\ dev[me].state = "SET"
    BY <1>4 DEF StopReleasePes, CallInv, CallerSet, At, Holding
  <2>4. call' \in Calls /\ call'.dev = me /\ call'.pc = "then" /\ dev'[me] = r
    BY <1>1, <1>4, <2>2, <2>3, CallMoves DEF Points
  <2>5. CallerSet'
    BY <2>1, <2>3, <2>4 DEF CallerSet, At, Holding, own, me
  <2>6. r.params.type # "NONE"
    BY <1>1, <2>1, <2>3 DEF CallInv, DevTypeOK
  <2>7. ~r.timer
    BY <1>1, <2>1, <2>3 DEF CallInv, TimerSafe, At, me
  <2> QED
    BY <1>1, <2>1, <2>2, <2>3, <2>4, <2>5, <2>6, <2>7, OneChanges DEF Running
<1> QED
  BY <1>2, <1>3, <1>4

\* close, and the ioctls that set a filter.
LEMMA SetsKeepCall ==
  ASSUME CallInv, UNCHANGED failed, ThenFree \/ ThenSetSection \/ ThenSetPes
  PROVE  CallInv'
<1>1. /\ call \in Calls /\ failed' \in BOOLEAN /\ me \in Devs
      /\ dev[me] \in Dev /\ dev \in [Devs -> Dev]
      /\ priv' \in [Filters -> Devs \cup {None}]
  BY CallMoves DEF CallInv, DevTypeOK, Calls, ThenFree, ThenSetSection, ThenSetPes, SetTo
<1>2. At("then") /\ dev[me].state \in {"ALLOCATED", "SET"} /\ ~dev[me].timer
  <2>1. At("then") /\ dev[me].state \in {"ALLOCATED", "SET"}
    BY DEF ThenFree, ThenSetSection, ThenSetPes, CallInv, CallerSet
  <2> QED
    BY <1>1, <2>1 DEF CallInv, TimerSafe, At
<1>3. NoParams \in Params /\ NoParams.type = "NONE"
  BY DevAssumption DEF NoParams, Params
<1>4. CASE ThenFree
  <2> DEFINE r == [Closed EXCEPT !.timer = dev[me].timer]
  <2>1. /\ r \in Dev /\ r.state = "FREE" /\ r.params = NoParams /\ r.timer = dev[me].timer
    BY <1>1, <1>3 DEF Closed, Dev, DevStates
  <2>2. dev' = [dev EXCEPT ![me] = r]
    BY <1>4 DEF ThenFree
  <2> HIDE DEF r
  <2>3. call' \in Calls /\ call'.pc = "idle"
    BY <1>1, <1>4, CallMoves DEF ThenFree
  <2>4. CallerSet'
    BY <2>3 DEF CallerSet, At, Holding
  <2> QED
    BY <1>1, <1>2, <1>3, <2>1, <2>2, <2>3, <2>4, OneChanges DEF Running
<1>5. CASE ThenSetSection \/ ThenSetPes
  <2>1. PICK p \in Params : SetTo(p) /\ p.type \in {"SEC", "PES"}
    <3>1. CASE ThenSetSection
      <4>1. PICK pid \in Pids \cup {BadPid}, t \in Timeouts, o \in Oneshots :
              SetTo(SectionParams(pid, t, o))
        BY <3>1 DEF ThenSetSection
      <4>2. SectionParams(pid, t, o) \in Params /\ SectionParams(pid, t, o).type = "SEC"
        BY <1>3, DevAssumption DEF SectionParams, Params
      <4> QED
        BY <4>1, <4>2
    <3>2. CASE ThenSetPes
      <4>1. PICK pid \in Pids \cup {BadPid}, d \in BOOLEAN, q \in Pes :
              SetTo(PesParams(pid, d, q))
        BY <3>2 DEF ThenSetPes
      <4>2. PesParams(pid, d, q) \in Params /\ PesParams(pid, d, q).type = "PES"
        BY <1>3 DEF PesParams, Params
      <4> QED
        BY <4>1, <4>2
    <3> QED
      BY <1>5, <3>1, <3>2
  <2> DEFINE r == [dev[me] EXCEPT !.params = p, !.state = "SET"]
  <2>2. r \in Dev /\ r.state = "SET" /\ r.params = p /\ r.timer = dev[me].timer
    BY <1>1, <2>1 DEF Dev, DevStates
  <2>3. dev' = [dev EXCEPT ![me] = r]
    BY <2>1 DEF SetTo
  <2> HIDE DEF r
  <2>4. call' \in Calls /\ (call'.pc = "idle" \/ (call'.pc = "find" /\ call'.dev = me))
    BY <1>1, <2>1, CallMoves DEF SetTo, Points
  <2>5. CallerSet'
    <3>1. dev'[me].state = "SET"
      BY <1>1, <2>2, <2>3
    <3> QED
      BY <2>4, <3>1 DEF CallerSet, At, Holding, me
  <2> QED
    BY <1>1, <1>2, <2>1, <2>2, <2>3, <2>4, <2>5, OneChanges DEF Running
<1> QED
  BY <1>4, <1>5

\* A step of filter_start that changes what the caller's device has, not whether
\* it runs.
LEMMA HoldsNow ==
  ASSUME CallInv, NEW d \in Dev, dev' = [dev EXCEPT ![me] = d], failed' \in BOOLEAN,
         d.state = "SET", d.params = dev[me].params, dev[me].state = "SET",
         d.timer => call'.pc = "ready" /\ Sec(me) /\ d.params.timeout,
         priv' \in [Filters -> Devs \cup {None}], call' \in Calls,
         call'.pc = "idle" \/ (call'.dev = me /\ call'.pc \in Holding /\ d.feed # None),
         call'.pc \in {"restart", "filter", "full", "timer"} => Sec(me)
  PROVE  CallInv'
<1>1. me \in Devs /\ dev \in [Devs -> Dev]
  BY DEF CallInv, DevTypeOK, Calls, me
<1>2. dev'[me] = d
  BY <1>1
<1>3. CallerSet'
  BY <1>2 DEF CallerSet, At, Holding, own, me, Sec
<1>4. d.params.type # "NONE"
  BY <1>1 DEF CallInv, DevTypeOK
<1> QED
  BY <1>1, <1>3, <1>4, OneChanges DEF Running, me, Sec

\* The steps of filter_start that change the caller's device alone.
LEMMA StartsKeepCall ==
  ASSUME CallInv, UNCHANGED failed,
         StartShare \/ StartAllocate \/ StartFilter \/ StartTimer \/ StartPes
  PROVE  CallInv'
<1>1. /\ call \in Calls /\ failed' \in BOOLEAN /\ me \in Devs
      /\ dev[me] \in Dev /\ dev \in [Devs -> Dev]
      /\ priv \in [Filters -> Devs \cup {None}]
  BY CallMoves DEF CallInv, DevTypeOK, Calls
<1>2. dev[me].state = "SET"
  BY DEF StartShare, StartAllocate, StartFilter, StartTimer, StartPes, CallInv, CallerSet,
     Holding, At
<1>3. ~dev[me].timer
  BY <1>1, <1>2 DEF StartShare, StartAllocate, StartFilter, StartTimer, StartPes, CallInv,
     TimerSafe, At
<1> USE DEF Points
<1>4. CASE StartShare
  <2>1. PICK j \in Devs :
          /\ dev[j].feed # None
          /\ dev' = [dev EXCEPT ![me].feed = dev[j].feed, ![me].sec = None,
                                ![me].state = "SET", ![me].timer = FALSE]
    BY <1>4 DEF StartShare
  <2> DEFINE r == [dev[me] EXCEPT !.feed = dev[j].feed, !.sec = None, !.state = "SET",
                                  !.timer = FALSE]
  <2>2. /\ r \in Dev /\ r.state = "SET" /\ r.params = dev[me].params /\ r.timer = FALSE
        /\ r.feed # None
    BY <1>1, <2>1, DevFields DEF Dev, DevStates
  <2>3. dev' = [dev EXCEPT ![me] = r]
    BY <1>1, <2>1
  <2> HIDE DEF r
  <2>4. call' \in Calls /\ call'.pc = "filter" /\ call'.dev = me /\ Sec(me) /\ priv' = priv
    BY <1>1, <1>4, CallMoves DEF StartShare, section, Sec
  <2> QED
    BY <1>1, <1>2, <2>2, <2>3, <2>4, HoldsNow DEF Holding
<1>5. CASE StartAllocate
  <2>1. PICK g \in Feeds \cup {None} :
          /\ dev' = [dev EXCEPT ![me].feed = g, ![me].sec = None]
          /\ Return \/ (g # None /\ GoTo("set"))
    BY <1>5, NamesAssumption DEF StartAllocate, Feeds
  <2> DEFINE r == [dev[me] EXCEPT !.feed = g, !.sec = None]
  <2>2. /\ r \in Dev /\ r.state = "SET" /\ r.params = dev[me].params /\ r.timer = dev[me].timer
        /\ r.feed = g
    BY <1>1, <1>2 DEF Dev
  <2>3. dev' = [dev EXCEPT ![me] = r]
    BY <1>1, <2>1
  <2> HIDE DEF r
  <2>4. /\ call' \in Calls /\ priv' = priv
        /\ call'.pc = "idle" \/ (call'.pc = "set" /\ call'.dev = me /\ g # None)
    BY <1>1, <1>5, <2>1, CallMoves DEF StartAllocate
  <2> QED
    BY <1>1, <1>2, <1>3, <2>2, <2>3, <2>4, HoldsNow DEF Holding
<1>6. CASE StartFilter /\ ~UNCHANGED dev
  <2>1. PICK s \in Filters :
          /\ dev' = [dev EXCEPT ![me].sec = s] /\ priv' = [priv EXCEPT ![s] = me]
          /\ GoTo("go")
    BY <1>6 DEF StartFilter
  <2> DEFINE r == [dev[me] EXCEPT !.sec = s]
  <2>2. /\ r \in Dev /\ r.state = "SET" /\ r.params = dev[me].params /\ r.timer = dev[me].timer
        /\ r.feed = own
    BY <1>1, <1>2 DEF Dev, own
  <2>3. dev' = [dev EXCEPT ![me] = r]
    BY <1>1, <2>1
  <2> HIDE DEF r
  <2>4. /\ call' \in Calls /\ priv' \in [Filters -> Devs \cup {None}]
        /\ call'.pc = "go" /\ call'.dev = me
    BY <1>1, <2>1, CallMoves
  <2>5. own # None
    BY <1>6 DEF StartFilter, CallInv, CallerSet, At, Holding
  <2> QED
    BY <1>1, <1>2, <1>3, <2>2, <2>3, <2>4, <2>5, HoldsNow DEF Holding
<1>7. CASE StartFilter /\ UNCHANGED dev
  <2>1. call'.pc \in {"go", "full"} /\ call'.dev = me /\ call' \in Calls
    BY <1>1, <1>7, CallMoves DEF StartFilter
  <2>2. priv' \in [Filters -> Devs \cup {None}]
    BY <1>1, <1>7 DEF StartFilter
  <2>3. CallerSet'
    BY <1>7, <2>1 DEF StartFilter, CallInv, CallerSet, At, Holding, own, me, Sec
  <2> QED
    BY <1>1, <1>7, <2>1, <2>2, <2>3, NoneChanges DEF StartFilter, At
<1>8. CASE StartTimer
  <2> DEFINE r == [dev[me] EXCEPT !.timer = dev[me].params.timeout]
  <2>1. dev[me].params.timeout \in BOOLEAN
    BY <1>1, DevFields DEF Params
  <2>2. /\ r \in Dev /\ r.state = "SET" /\ r.params = dev[me].params
        /\ r.timer = dev[me].params.timeout /\ r.feed = own
    BY <1>1, <1>2, <2>1 DEF Dev, own
  <2>3. dev' = [dev EXCEPT ![me] = r]
    BY <1>8 DEF StartTimer
  <2> HIDE DEF r
  <2>4. call' \in Calls /\ call'.pc = "ready" /\ call'.dev = me /\ priv' = priv
    BY <1>1, <1>8, CallMoves DEF StartTimer
  <2>5. own # None /\ Sec(me)
    BY <1>8 DEF StartTimer, CallInv, CallerSet, At, Holding
  <2> QED
    BY <1>1, <1>2, <2>2, <2>3, <2>4, <2>5, HoldsNow DEF Holding
<1>9. CASE StartPes
  <2>1. PICK g \in Feeds \cup {None} :
          /\ dev' = [dev EXCEPT ![me].feed = g]
          /\ Return \/ (g # None /\ GoTo("set"))
    BY <1>9, NamesAssumption DEF StartPes, Feeds
  <2> DEFINE r == [dev[me] EXCEPT !.feed = g]
  <2>2. /\ r \in Dev /\ r.state = "SET" /\ r.params = dev[me].params /\ r.timer = dev[me].timer
        /\ r.feed = g
    BY <1>1, <1>2 DEF Dev
  <2>3. dev' = [dev EXCEPT ![me] = r]
    BY <1>1, <2>1
  <2> HIDE DEF r
  <2>4. /\ call' \in Calls /\ priv' = priv
        /\ call'.pc = "idle" \/ (call'.pc = "set" /\ call'.dev = me /\ g # None)
    BY <1>1, <1>9, <2>1, CallMoves DEF StartPes
  <2> QED
    BY <1>1, <1>2, <1>3, <2>2, <2>3, <2>4, HoldsNow DEF Holding
<1> QED
  BY <1>4, <1>5, <1>6, <1>7, <1>8, <1>9

\* filter_start is done.
LEMMA ReadyKeepsCall ==
  ASSUME CallInv, UNCHANGED failed, StartReady
  PROVE  CallInv'
<1>1. /\ call \in Calls /\ failed' \in BOOLEAN /\ me \in Devs
      /\ dev[me] \in Dev /\ dev \in [Devs -> Dev]
      /\ priv' \in [Filters -> Devs \cup {None}]
  BY CallMoves DEF CallInv, DevTypeOK, Calls, StartReady
<1> DEFINE r == [dev[me] EXCEPT !.state = "GO"]
<1>2. /\ r \in Dev /\ r.state = "GO" /\ r.params = dev[me].params /\ r.feed = own
      /\ r.timer = dev[me].timer
  BY <1>1 DEF Dev, DevStates, own
<1>3. dev' = [dev EXCEPT ![me] = r]
  BY DEF StartReady
<1> HIDE DEF r
<1>4. dev[me].state \in {"SET", "TIMEDOUT"} /\ own # None
  BY DEF StartReady, CallInv, CallerSet, At, Holding
<1>5. call' \in Calls /\ call'.pc = "idle"
  BY <1>1, CallMoves DEF StartReady
<1>6. CallerSet'
  BY <1>5 DEF CallerSet, At, Holding
<1>7. r.params.type # "NONE"
  BY <1>1, <1>2, <1>4 DEF CallInv, DevTypeOK
<1>8. r.timer => r.params.type = "SEC" /\ r.params.timeout
  BY <1>1, <1>2 DEF CallInv, TimerSafe
<1> QED
  BY <1>1, <1>2, <1>3, <1>4, <1>5, <1>6, <1>7, <1>8, OneChanges

\* A timer fires, but for the one that is about to be deleted.
LEMMA TimerKeepsCall ==
  ASSUME CallInv, ~TimerRace, UNCHANGED failed, NEW i \in Devs, TimerFires(i)
  PROVE  CallInv'
<1>1. /\ call \in Calls /\ call' = call /\ failed' \in BOOLEAN /\ me \in Devs
      /\ dev[i] \in Dev /\ dev \in [Devs -> Dev]
      /\ priv' \in [Filters -> Devs \cup {None}]
  BY CallMoves DEF CallInv, DevTypeOK, Calls, TimerFires
<1>2. /\ dev[i].timer /\ dev[i].params.type = "SEC"
      /\ dev[i].state = "GO" \/ (i = me /\ At("ready"))
  BY DEF TimerFires, CallInv, TimerSafe, At, me
<1> DEFINE r == [dev[i] EXCEPT !.timer = FALSE, !.state = "TIMEDOUT"]
<1>3. /\ r \in Dev /\ r.state = "TIMEDOUT" /\ r.params = dev[i].params
      /\ r.feed = dev[i].feed /\ r.timer = FALSE
  BY <1>1 DEF Dev, DevStates
<1>4. dev' = [dev EXCEPT ![i] = r]
  BY <1>1 DEF TimerFires
<1> HIDE DEF r
<1>5. r.feed # None
  BY <1>2, <1>3 DEF CallInv, RunnersHaveFeeds, CallerSet, Running, At, Holding, own
<1>6. CallerSet'
  <2>1. CASE i = me
    <3>1. dev'[me] = r
      BY <1>1, <1>4, <2>1
    <3>2. At("ready") \/ (dev[me].state = "GO" /\ ~At("ready"))
      BY <1>2, <2>1
    <3>3. CASE At("ready")
      BY <1>1, <1>3, <1>5, <2>1, <3>1, <3>3 DEF CallInv, CallerSet, At, Holding, own, me, Sec
    <3>4. CASE dev[me].state = "GO" /\ ~At("ready")
      BY <1>1, <1>3, <2>1, <3>1, <3>4 DEF CallInv, CallerSet, At, Holding, own, me, Sec
    <3> QED
      BY <3>2, <3>3, <3>4
  <2>2. CASE i # me
    <3>1. dev'[me] = dev[me]
      BY <1>1, <1>4, <2>2
    <3> QED
      BY <1>1, <3>1 DEF CallInv, CallerSet, At, Holding, own, me, Sec
  <2> QED
    BY <2>1, <2>2
<1>7. r.params.type # "NONE"
  BY <1>2, <1>3
<1> QED
  BY <1>1, <1>3, <1>4, <1>5, <1>6, <1>7, OneChanges

\* A section arrives.
LEMMA SectionKeepsCall ==
  ASSUME CallInv, UNCHANGED failed, NEW s \in Filters, SectionArrives(s)
  PROVE  CallInv'
<1> DEFINE i == priv[s]
<1>1. /\ call \in Calls /\ call' = call /\ failed' \in BOOLEAN /\ me \in Devs
      /\ i \in Devs /\ dev[i] \in Dev /\ dev \in [Devs -> Dev]
      /\ priv' \in [Filters -> Devs \cup {None}]
  BY CallMoves DEF CallInv, DevTypeOK, Calls, SectionArrives
<1> DEFINE r == [dev[i] EXCEPT !.timer = FALSE,
                               !.state = IF dev[i].params.oneshot THEN "DONE" ELSE @]
<1>2. dev[i].state = "GO"
  BY DEF SectionArrives
<1>3. /\ r \in Dev /\ r.state \in {"GO", "DONE"} /\ r.params = dev[i].params
      /\ r.feed = dev[i].feed /\ r.timer = FALSE
  BY <1>1, <1>2 DEF Dev, DevStates
<1>4. dev' = [dev EXCEPT ![i] = r]
  BY <1>1 DEF SectionArrives
<1> HIDE DEF r, i
<1>5. r.feed # None /\ r.params.type # "NONE"
  BY <1>1, <1>2, <1>3 DEF CallInv, DevTypeOK, RunnersHaveFeeds, Running
<1>6. CallerSet'
  <2>1. CASE i = me
    <3>1. dev'[me] = r
      BY <1>1, <1>4, <2>1
    <3> QED
      BY <1>1, <1>2, <1>3, <2>1, <3>1 DEF CallInv, CallerSet, At, Holding, own, me, Sec
  <2>2. CASE i # me
    <3>1. dev'[me] = dev[me]
      BY <1>1, <1>4, <2>2
    <3> QED
      BY <1>1, <3>1 DEF CallInv, CallerSet, At, Holding, own, me, Sec
  <2> QED
    BY <2>1, <2>2
<1> QED
  BY <1>1, <1>3, <1>4, <1>5, <1>6, OneChanges

\* What feed_restart leaves: the caller's device as the caller made it, another
\* one marked as running that ran.
LEMMA RestartDevs ==
  ASSUME CallInv, dev[me].state = "SET", NEW d \in Dev,
         FeedRestart([dev EXCEPT ![me] = d])
  PROVE  /\ dev' \in [Devs -> Dev] /\ dev'[me] = d /\ me \in Devs
         /\ \A k \in Devs \ {me} :
              /\ dev'[k].params = dev[k].params /\ dev'[k].feed = dev[k].feed
              /\ dev'[k].sec = dev[k].sec /\ dev'[k].timer = dev[k].timer
              /\ dev'[k].state = dev[k].state
                 \/ (dev[k].state \in Running /\ dev'[k].state = "GO")
<1>1. me \in Devs /\ dev \in [Devs -> Dev] /\ [dev EXCEPT ![me] = d] \in [Devs -> Dev]
  BY DEF CallInv, DevTypeOK, me
<1> DEFINE devs == [dev EXCEPT ![me] = d]
<1>2. devs[me] = d /\ \A k \in Devs \ {me} : devs[k] = dev[k]
  BY <1>1
<1> HIDE DEF devs
<1>3. CASE dev' = devs
  BY <1>1, <1>2, <1>3 DEF devs
<1>4. CASE \E j \in Devs : Sharer(j) /\ dev' = [devs EXCEPT ![j].state = "GO"]
  <2>1. PICK j \in Devs : Sharer(j) /\ dev' = [devs EXCEPT ![j].state = "GO"]
    BY <1>4
  <2>2. dev[j].state \in Running /\ j # me
    BY <2>1 DEF Sharer, Running
  <2>3. devs[j] = dev[j] /\ dev[j] \in Dev
    BY <1>1, <1>2, <2>2
  <2> DEFINE r == [dev[j] EXCEPT !.state = "GO"]
  <2>4. /\ r \in Dev /\ r.state = "GO" /\ r.params = dev[j].params /\ r.feed = dev[j].feed
        /\ r.sec = dev[j].sec /\ r.timer = dev[j].timer
    BY <2>3 DEF Dev, DevStates
  <2>5. dev' = [devs EXCEPT ![j] = r] /\ devs \in [Devs -> Dev]
    BY <1>1, <2>1, <2>3 DEF devs
  <2> HIDE DEF r
  <2>6. /\ dev' \in [Devs -> Dev] /\ dev'[j] = r
        /\ \A k \in Devs \ {j} : dev'[k] = devs[k]
    BY <2>4, <2>5
  <2> QED
    BY <1>1, <1>2, <2>2, <2>4, <2>6
<1> QED
  BY <1>3, <1>4 DEF FeedRestart, devs

\* The steps that restart the feed for another device.
LEMMA RestartsKeepCall ==
  ASSUME CallInv, StopRestart \/ StartRefused \/ StartFull
  PROVE  CallInv'
<1>1. /\ call \in Calls /\ me \in Devs /\ dev[me] \in Dev /\ dev \in [Devs -> Dev]
      /\ priv' \in [Filters -> Devs \cup {None}]
  BY CallMoves DEF CallInv, DevTypeOK, Calls, StopRestart, StartRefused, StartFull
<1>2. dev[me].state = "SET" /\ ~dev[me].timer
  <2>1. dev[me].state = "SET" /\ ~At("quiet") /\ ~At("ready")
    BY DEF StopRestart, StartRefused, StartFull, CallInv, CallerSet, Holding, At
  <2> QED
    BY <1>1, <2>1 DEF CallInv, TimerSafe, At
<1>3. failed' \in BOOLEAN
  BY DEF StopRestart, StartRefused, StartFull, FeedRestart, StartFiltering, CallInv, DevTypeOK
<1>4. PICK d \in Dev :
        /\ d.state = "SET" /\ d.params = dev[me].params /\ ~d.timer
        /\ FeedRestart([dev EXCEPT ![me] = d])
  <2>1. CASE StopRestart
    <3> DEFINE r == [dev[me] EXCEPT !.feed = None, !.sec = None]
    <3>1. /\ r \in Dev /\ r.state = "SET" /\ r.params = dev[me].params
          /\ r.timer = dev[me].timer
      BY <1>1, <1>2 DEF Dev
    <3>2. [dev EXCEPT ![me].feed = None, ![me].sec = None] = [dev EXCEPT ![me] = r]
      BY <1>1
    <3> QED
      BY <1>2, <2>1, <3>1, <3>2 DEF StopRestart
  <2>2. CASE StartRefused \/ StartFull
    <3>1. dev = [dev EXCEPT ![me] = dev[me]]
      BY <1>1
    <3> QED
      BY <1>1, <1>2, <2>2, <3>1 DEF StartRefused, StartFull
  <2> QED
    BY <2>1, <2>2
<1>5. /\ dev' \in [Devs -> Dev] /\ dev'[me] = d
      /\ \A k \in Devs \ {me} :
           /\ dev'[k].params = dev[k].params /\ dev'[k].feed = dev[k].feed
           /\ dev'[k].timer = dev[k].timer
           /\ dev'[k].state = dev[k].state
              \/ (dev[k].state \in Running /\ dev'[k].state = "GO")
  BY <1>2, <1>4, RestartDevs
<1>6. /\ call' \in Calls
      /\ \/ call'.pc = "idle"
         \/ call'.pc = "then" /\ call'.dev = me /\ call'.then = call.then
         \/ call'.pc = "again" /\ call'.dev = me /\ StartFull
  BY <1>1, CallMoves DEF StopRestart, StartRefused, StartFull, Points
<1>7. StartFull => dev'[me].feed # None /\ Sec(me)
  <2>1. ASSUME StartFull PROVE dev'[me] = dev[me]
    <3>1. FeedRestart([dev EXCEPT ![me] = dev[me]])
      BY <1>1, <2>1 DEF StartFull
    <3> QED
      BY <1>1, <1>2, <3>1, RestartDevs
  <2> QED
    BY <2>1 DEF StartFull, CallInv, CallerSet, At, Holding, own
<1>8. DevTypeOK'
  <2>1. \A k \in Devs : dev'[k].params.type = "NONE" <=> dev'[k].state \in {"FREE", "ALLOCATED"}
    BY <1>1, <1>2, <1>4, <1>5 DEF CallInv, DevTypeOK, Running
  <2> QED
    BY <1>1, <1>3, <1>5, <1>6, <2>1 DEF DevTypeOK, Calls
<1>9. RunnersHaveFeeds'
  BY <1>4, <1>5 DEF CallInv, RunnersHaveFeeds, Running
<1>10. CallerSet'
  BY <1>4, <1>5, <1>6, <1>7 DEF CallerSet, At, Holding, own, me, Sec
<1>11. TimerSafe'
  BY <1>4, <1>5, <1>1 DEF CallInv, TimerSafe, me, Running
<1> QED
  BY <1>8, <1>9, <1>10, <1>11 DEF CallInv

\* Every step keeps it when the timer does not race with its deletion.
LEMMA StepKeepsCall ==
  ASSUME CallInv, ~TimerRace, [DevNext]_vars
  PROVE  CallInv'
<1>1. CASE UNCHANGED vars
  BY <1>1 DEF vars, CallInv, DevTypeOK, RunnersHaveFeeds, CallerSet, TimerSafe, At, own, me, Sec
<1>2. CASE Step
  BY <1>2, MovesKeepCall, FailuresKeepCall, StopsKeepCall, SetsKeepCall, StartsKeepCall,
     ReadyKeepsCall, RestartsKeepCall DEF Step
<1>3. ASSUME NEW i \in Devs, UNCHANGED failed,
             Open(i) \/ EnterStart(i) \/ EnterStop(i) \/ EnterFree(i) \/ EnterSet(i)
             \/ TimerFires(i)
      PROVE  CallInv'
  BY <1>3, OpenKeepsCall, EnterKeepsCall, TimerKeepsCall
<1>4. ASSUME NEW s \in Filters, UNCHANGED failed, SectionArrives(s)
      PROVE  CallInv'
  BY <1>4, SectionKeepsCall
<1> QED
  BY <1>1, <1>2, <1>3, <1>4 DEF DevNext

\* It holds when the device is made.
LEMMA InitCall == DevInit => CallInv
<1> SUFFICES ASSUME DevInit PROVE CallInv
  OBVIOUS
<1>1. 1 \in Devs
  BY DevAssumption DEF Devs
<1>2. NoParams \in Params /\ NoParams.type = "NONE"
  BY DevAssumption DEF NoParams, Params
<1>3. /\ Closed \in Dev /\ Closed.state = "FREE" /\ Closed.params = NoParams
      /\ Closed.timer = FALSE
  BY <1>2 DEF Closed, Dev, DevStates
<1>4. call \in Calls /\ call.pc = "idle" /\ failed = FALSE
  BY <1>1 DEF DevInit, NoCall, Calls, Points
<1>5. dev \in [Devs -> Dev] /\ \A i \in Devs : dev[i] = Closed
  BY <1>3 DEF DevInit
<1>6. DevTypeOK
  <2>1. priv \in [Filters -> Devs \cup {None}]
    BY DEF DevInit
  <2> QED
    BY <1>2, <1>3, <1>4, <1>5, <2>1 DEF DevTypeOK, Calls
<1> QED
  BY <1>3, <1>4, <1>5, <1>6 DEF CallInv, RunnersHaveFeeds, CallerSet, TimerSafe, Running, At, Holding

\* While a call works on a device, the device is in the state the call has put it
\* in, whatever timers and sections come in between and whatever the driver does.
THEOREM CallsOrderly ==
  ASSUME ~TimerRace
  PROVE  DevSpec => []CallInv
<1>1. CallInv /\ [DevNext]_vars => CallInv'
  BY StepKeepsCall
<1> QED
  BY <1>1, InitCall, PTL DEF DevSpec

----------------------------------------------------------------------------
(* The protocol of the demux, while the driver does not fail.              *)

\* The feed of a device that holds one.
LEMMA HeldFeed ==
  ASSUME CallInv, Served, NEW i \in Devs, Holder(i)
  PROVE  /\ dev[i].feed \in Feeds /\ Live(dev[i].feed)
         /\ Held(dev[i].feed, IF Sec(i) THEN "SEC" ELSE "TS")
         /\ feed[dev[i].feed] \in Feed
<1>1. dev[i].feed # None
  BY DEF CallInv, RunnersHaveFeeds, CallerSet, Holder, own
<1>2. dev[i].feed \in Feeds
  BY <1>1, DevFields DEF CallInv, DevTypeOK
<1> QED
  BY <1>2 DEF Served, HeldFeeds, Held, Live, IInv, TypeOK

\* The caller's.
LEMMA OwnFeed ==
  ASSUME CallInv, Served, call.pc \in Holding
  PROVE  /\ me \in Devs /\ Holder(me) /\ own \in Feeds /\ Live(own)
         /\ Held(own, IF section THEN "SEC" ELSE "TS")
         /\ feed[own] \in Feed
<1>1. me \in Devs
  BY DEF CallInv, DevTypeOK, me
<1>2. Holder(me)
  BY DEF Holder
<1> QED
  BY <1>1, <1>2, HeldFeed DEF own, section, Sec

\* A feed the caller's device has alone and without a filter in it has none.
LEMMA AloneEmpty ==
  ASSUME CallInv, Served, Bare, section,
         \A i \in Devs \ {me} : Holder(i) => dev[i].feed # own
  PROVE  feed[own].filters = <<>>
<1> SUFFICES ASSUME feed[own].filters # <<>> PROVE FALSE
  OBVIOUS
<1>1. /\ own \in Feeds /\ Live(own) /\ feed[own].type = "SEC"
      /\ feed[own].filters \in Seq(Filters)
  BY OwnFeed DEF Bare, Holding, Held, Feed
<1> DEFINE s == feed[own].filters[1]
<1>2. 1 \in 1 .. Len(feed[own].filters) /\ s \in Filters
  BY <1>1
<1>3. filter[s] = [state |-> "READY", feed |-> own]
  BY <1>1, <1>2 DEF Served, IInv, ChainsPoint
<1> HIDE DEF s
<1>4. filter[s].state # "FREE" /\ filter[s].feed = own
  BY <1>3
<1>5. priv[s] \in Devs
  BY <1>1, <1>2, <1>4 DEF Served, PrivsSet, CallInv, DevTypeOK
<1>6. /\ Holder(priv[s]) /\ ~(priv[s] = me)
      /\ filter[s] = [state |-> "READY", feed |-> dev[priv[s]].feed]
  BY <1>2, <1>5, NoneIsNoDev DEF Served, PrivsTrue
<1> QED
  BY <1>3, <1>5, <1>6

\* feed_restart finds another device exactly when the feed is shared.
LEMMA SharersShare ==
  ASSUME CallInv, Served, section, call.pc \in Holding, dev[me].state = "SET",
         NEW j \in Devs, Sharer(j)
  PROVE  /\ j # me /\ Holder(j) /\ Sec(j) /\ dev[j].feed = own /\ ~New
<1>1. /\ j # me /\ Holder(j) /\ Sec(j) /\ dev[j].params.pid = dev[me].params.pid
      /\ me \in Devs /\ Holder(me) /\ Sec(me)
  BY OwnFeed DEF Sharer, Holder, Sec, Running, section
<1>2. dev[j].feed = own
  BY <1>1 DEF Served, OnePid, own
<1>3. ~New
  BY <1>1, <1>2 DEF Served, Sharing, own
<1> QED
  BY <1>1, <1>2, <1>3

\* The search for a device that runs on the pid finds one when there is one.
LEMMA SharerExists ==
  ASSUME NEW i \in Devs, dev[i].state \in Running, Sec(i),
         dev[i].params.pid = dev[me].params.pid
  PROVE  \E k \in Devs : Sharer(k)
<1> DEFINE S == {k \in Devs : /\ dev[k].state \in Running /\ dev[k].params.type = "SEC"
                              /\ dev[k].params.pid = dev[me].params.pid}
<1>1. i \in S /\ S \subseteq Nat
  BY DEF Sec, Devs
<1>2. PICK k \in S : \A l \in S : ~(l < k)
  BY <1>1, SmallestExists
<1>3. Sharer(k)
  <2>1. ASSUME NEW l \in Devs, l < k, l \in S PROVE FALSE
    BY <1>1, <1>2, <2>1
  <2> QED
    BY <1>2, <2>1 DEF Sharer
<1> QED
  BY <1>2, <1>3

\* When it finds none, the caller's device has its feed alone.
LEMMA NoSharerAlone ==
  ASSUME CallInv, Served, section, call.pc \in Holding, NoSharer
  PROVE  \A i \in Devs \ {me} : Holder(i) => dev[i].feed # own
<1> SUFFICES ASSUME NEW i \in Devs, i # me, Holder(i), dev[i].feed = own PROVE FALSE
  OBVIOUS
<1>1. /\ me \in Devs /\ Holder(me) /\ dev[me].feed = own
  BY OwnFeed DEF own
<1>2. Sec(i) /\ ~New
  BY <1>1 DEF Served, Sharing
<1>3. dev[i].state \in Running /\ dev[i].params.pid = dev[me].params.pid
  BY <1>1, <1>2 DEF Served, HeldFeeds, Holder
<1> QED
  BY <1>2, <1>3, SharerExists DEF NoSharer

\* The feed of another device that runs, when no call has one.
LEMMA SharersFeed ==
  ASSUME CallInv, Served, At("find"), NEW j \in Devs, Sharer(j)
  PROVE  /\ dev[j].feed \in Feeds /\ Held(dev[j].feed, "SEC") /\ feed[dev[j].feed].filtering
<1>1. Holder(j) /\ Sec(j)
  BY DEF Sharer, Holder, Sec
<1> QED
  BY <1>1, HeldFeed DEF Served, FeedsRun, Paused, At

\* The demux steps of filter_stop.
LEMMA StopsKeepProtocol ==
  ASSUME CallInv, Served, UNCHANGED failed,
         StopQuietSection \/ StopQuietPes \/ StopReleaseFilter \/ StopReleasePes
  PROVE  [Next]_demux
<1>1. call.pc \in {"quiet", "release"} /\ call.pc \in Holding
  BY DEF StopQuietSection, StopQuietPes, StopReleaseFilter, StopReleasePes, At, Holding
<1>2. /\ me \in Devs /\ Holder(me) /\ own \in Feeds /\ Live(own)
      /\ Held(own, IF section THEN "SEC" ELSE "TS")
  BY <1>1, OwnFeed
<1>3. feed[own].filtering <=> At("quiet")
  BY <1>1, <1>2 DEF Served, FeedsRun, Paused, own, At
<1>4. CASE StopQuietSection
  BY <1>2, <1>3, <1>4 DEF StopQuietSection, Next, SectionNext
<1>5. CASE StopQuietPes
  BY <1>2, <1>3, <1>5 DEF StopQuietPes, Next, TsNext
<1>6. CASE StopReleaseFilter
  <2>1. CASE UNCHANGED demux
    BY <2>1
  <2>2. CASE ~UNCHANGED demux
    <3>1. dev[me].sec \in Filters /\ FilterRelease(own, dev[me].sec)
      BY <1>2, <1>6, <2>2, DevFields DEF StopReleaseFilter, CallInv, DevTypeOK
    <3>2. priv[dev[me].sec] = me
      BY <1>2, <1>6 DEF StopReleaseFilter, Served, HaveFilters, Sec, section, Bare, At
    <3>3. filter[dev[me].sec].state = "READY"
      <4>1. priv[dev[me].sec] # None
        BY <1>2, <3>2, NoneIsNoDev
      <4>2. filter[dev[me].sec] = [state |-> "READY", feed |-> dev[priv[dev[me].sec]].feed]
        BY <3>1, <4>1 DEF Served, PrivsTrue
      <4> QED
        BY <4>2
    <3> QED
      BY <1>2, <1>6, <3>1, <3>3 DEF StopReleaseFilter, Next, SectionNext
  <2> QED
    BY <2>1, <2>2
<1>7. CASE StopReleasePes
  BY <1>2, <1>3, <1>7 DEF StopReleasePes, Next, TsNext, At
<1> QED
  BY <1>4, <1>5, <1>6, <1>7

\* The section feed is restarted for another device or released.
LEMMA RestartKeepsProtocol ==
  ASSUME CallInv, Served, ~failed', section, call.pc \in {"restart", "refused", "full"},
         NEW devs, FeedRestart(devs)
  PROVE  \/ \E j \in Devs : /\ Sharer(j) /\ dev[j].feed = own
                            /\ dev' = [devs EXCEPT ![j].state = "GO"]
                            /\ ~New /\ SectionStart(own) /\ Next
         \/ NoSharer /\ dev' = devs /\ SectionRelease(own) /\ feed[own].filters = <<>> /\ Next
<1>1. call.pc \in Holding /\ Bare /\ dev[me].state = "SET"
  BY DEF Holding, Bare, CallInv, CallerSet
<1>2. /\ me \in Devs /\ Holder(me) /\ own \in Feeds /\ Live(own) /\ Held(own, "SEC")
  BY <1>1, OwnFeed
<1>3. ~feed[own].filtering
  BY <1>2 DEF Served, FeedsRun, Paused, own
<1>4. CASE NoSharer
  <2>1. dev' = devs /\ SectionRelease(own)
    BY <1>2, <1>4 DEF FeedRestart, NoSharer, Live
  <2>2. feed[own].filters = <<>>
    BY <1>1, <1>4, AloneEmpty, NoSharerAlone
  <2> QED
    BY <1>2, <1>4, <2>1, <2>2 DEF Next, SectionNext
<1>5. CASE ~NoSharer
  <2>1. PICK j \in Devs : /\ Sharer(j) /\ dev' = [devs EXCEPT ![j].state = "GO"]
                          /\ StartFiltering(dev[j].feed)
    BY <1>5 DEF FeedRestart, NoSharer
  <2>2. /\ j # me /\ Holder(j) /\ Sec(j) /\ dev[j].feed = own /\ ~New
    BY <1>1, <2>1, SharersShare
  <2>3. feed[own].state = "READY"
    BY <2>2, <1>1 DEF Served, OwnState, Paused, Sec, section
  <2>4. feed[own].filters # <<>>
    <3>1. dev[j].sec \in Filters /\ priv[dev[j].sec] = j
      BY <2>2 DEF Served, HaveFilters
    <3>2. filter[dev[j].sec] = [state |-> "READY", feed |-> own]
      BY <2>2, <3>1, NoneIsNoDev DEF Served, PrivsTrue
    <3>3. PICK i \in 1 .. Len(feed[own].filters) : TRUE
      BY <3>1, <3>2 DEF Served, IInv, FiltersChained
    <3> QED
      BY <3>3
  <2>5. SectionStart(own)
    BY <1>3, <2>1, <2>2, <2>4 DEF StartFiltering
  <2> QED
    BY <1>2, <2>1, <2>2, <2>3, <2>5 DEF Next, SectionNext
<1> QED
  BY <1>4, <1>5

\* The demux steps of filter_start.
LEMMA StartsKeepProtocol ==
  ASSUME CallInv, Served, ~failed',
         \/ StartShare \/ StartAllocate \/ StartSet \/ StartFilter \/ StartGo \/ StartAgain
         \/ StartPes \/ StartPesSet \/ StartPesRefused \/ StartPesGo
  PROVE  [Next]_demux
<1>1. CASE StartShare
  <2>1. PICK j \in Devs : Sharer(j) /\ SectionStop(dev[j].feed) /\ At("find")
    BY <1>1 DEF StartShare
  <2>2. dev[j].feed \in Feeds /\ Held(dev[j].feed, "SEC") /\ feed[dev[j].feed].filtering
    BY <2>1, SharersFeed
  <2> QED
    BY <2>1, <2>2 DEF Next, SectionNext
<1>2. CASE StartAllocate
  BY <1>2 DEF StartAllocate, Next, SectionNext
<1>3. CASE StartPes
  BY <1>3 DEF StartPes, Next, TsNext
<1>4. ASSUME call.pc \in {"set", "refused", "filter", "go"}
      PROVE  /\ me \in Devs /\ own \in Feeds /\ Held(own, IF section THEN "SEC" ELSE "TS")
             /\ ~feed[own].filtering
             /\ call.pc = "set" => Fresh(own, IF section THEN "SEC" ELSE "TS")
             /\ call.pc \in {"filter", "go"} => feed[own].state = "READY"
             /\ call.pc = "filter" => section
             /\ dev[me].params \in Params
  <2>1. call.pc \in Holding
    BY <1>4 DEF Holding
  <2>2. /\ me \in Devs /\ Holder(me) /\ own \in Feeds
        /\ Held(own, IF section THEN "SEC" ELSE "TS")
    BY <2>1, OwnFeed
  <2>3. ~feed[own].filtering
    BY <1>4, <2>2 DEF Served, FeedsRun, Paused, own
  <2>4. call.pc = "filter" => section
    BY DEF CallInv, CallerSet, section, Sec
  <2>5. call.pc \in {"filter", "go"} => feed[own].state = "READY"
    BY <2>4 DEF Served, OwnState, Paused, New, At, section, Sec
  <2>6. call.pc = "set" => Fresh(own, IF section THEN "SEC" ELSE "TS")
    BY <2>2 DEF Served, OwnState, New, Fresh
  <2>7. dev[me].params \in Params
    BY <2>2, DevFields DEF CallInv, DevTypeOK
  <2> QED
    BY <2>2, <2>3, <2>4, <2>5, <2>6, <2>7
<1>5. CASE StartSet
  BY <1>4, <1>5 DEF StartSet, At, SectionSet, Next, SectionNext
<1>6. CASE StartPesSet
  <2>1. dev[me].params.decoder \in BOOLEAN /\ dev[me].params.pes \in Pes
    BY <1>4, <1>6 DEF StartPesSet, At, Params
  <2>2. CASE UNCHANGED demux
    BY <2>2
  <2>3. CASE ~UNCHANGED demux
    <3>1. TsSet(own, dev[me].params.pid, dev[me].params.decoder, dev[me].params.pes)
      BY <1>6, <2>3 DEF StartPesSet
    <3>2. own \in Feeds /\ Fresh(own, "TS") /\ dev[me].params.pid \in Pids
      BY <1>4, <1>6, <3>1 DEF StartPesSet, At, TsSet
    <3> QED
      BY <2>1, <3>1, <3>2 DEF Next, TsNext
  <2> QED
    BY <2>2, <2>3
<1>7. CASE StartFilter
  BY <1>4, <1>7 DEF StartFilter, At, Next, SectionNext
<1>8. CASE StartGo
  BY <1>4, <1>8 DEF StartGo, At, Next, SectionNext
<1>9. CASE StartPesGo
  BY <1>4, <1>9 DEF StartPesGo, At, Next, TsNext
<1>10. CASE StartPesRefused
  BY <1>4, <1>10 DEF StartPesRefused, At, Next, TsNext
<1>11. CASE StartAgain
  <2>1. feed[own].filtering \/ feed[own].filters = <<>>
    BY <1>11 DEF StartAgain, Served, OwnState
  <2>2. UNCHANGED demux
    BY <1>11, <2>1 DEF StartAgain, StartFiltering, SectionStart
  <2> QED
    BY <2>2
<1> QED
  BY <1>1, <1>2, <1>3, <1>5, <1>6, <1>7, <1>8, <1>9, <1>10, <1>11

\* The device keeps the protocol: every step is one the demux allows, or none.
LEMMA StepKeepsProtocol ==
  ASSUME CallInv, Served, ~failed', [DevNext]_vars
  PROVE  [Next]_demux
<1>1. CASE UNCHANGED vars
  BY <1>1 DEF vars
<1>2. CASE StopNothing \/ StopMark \/ ThenStop \/ ThenFree \/ ThenSetSection \/ ThenSetPes
           \/ ThenStart \/ StartFails \/ StartTimer \/ StartReady \/ StartGoFails
  BY <1>2 DEF StopNothing, StopMark, ThenStop, ThenFree, ThenSetSection, ThenSetPes, SetTo,
     ThenStart, StartFails, StartTimer, StartReady, StartGoFails
<1>3. CASE StopRestart \/ StartRefused \/ StartFull
  <2>1. section /\ call.pc \in {"restart", "refused", "full"}
    BY <1>3 DEF StopRestart, StartRefused, StartFull, At, CallInv, CallerSet, section, Sec
  <2>2. PICK devs : FeedRestart(devs)
    BY <1>3 DEF StopRestart, StartRefused, StartFull
  <2> QED
    BY <2>1, <2>2, RestartKeepsProtocol
<1>4. CASE UNCHANGED failed /\ (StopQuietSection \/ StopQuietPes \/ StopReleaseFilter \/ StopReleasePes)
  BY <1>4, StopsKeepProtocol
<1>5. CASE \/ StartShare \/ StartAllocate \/ StartSet \/ StartFilter \/ StartGo \/ StartAgain
           \/ StartPes \/ StartPesSet \/ StartPesRefused \/ StartPesGo
  BY <1>5, StartsKeepProtocol
<1>6. ASSUME NEW i \in Devs,
             Open(i) \/ EnterStart(i) \/ EnterStop(i) \/ EnterFree(i) \/ EnterSet(i)
             \/ TimerFires(i)
      PROVE  [Next]_demux
  BY <1>6 DEF Open, EnterStart, EnterStop, EnterFree, EnterSet, Enter, TimerFires
<1>7. ASSUME NEW s \in Filters, SectionArrives(s)
      PROVE  [Next]_demux
  BY <1>7 DEF SectionArrives
<1> QED
  BY <1>1, <1>2, <1>3, <1>4, <1>5, <1>6, <1>7 DEF DevNext, Step

----------------------------------------------------------------------------
(* What the operations of the demux leave of the feeds.                    *)

FeedsBut(f) == \A g \in Feeds : g # f => feed'[g] = feed[g]

SameSetup(f) ==
  /\ feed'[f].type = feed[f].type /\ feed'[f].pid = feed[f].pid
  /\ feed'[f].filters = feed[f].filters

LEMMA StopEffect ==
  ASSUME TypeOK, NEW f \in Feeds, SectionStop(f) \/ TsStop(f)
  PROVE  /\ SameSetup(f) /\ FeedsBut(f) /\ UNCHANGED <<filter, feedList>>
         /\ feed'[f].state = IF SectionStop(f) THEN "READY" ELSE "ALLOCATED"
         /\ ~feed'[f].filtering
<1>1. feed \in [Feeds -> Feed] /\ feed[f] \in Feed
  BY DEF TypeOK
<1>2. CASE SectionStop(f)
  BY <1>1, <1>2 DEF SectionStop, FeedsBut, SameSetup, Feed
<1>3. CASE TsStop(f) /\ ~SectionStop(f)
  BY <1>1, <1>3 DEF TsStop, FeedsBut, SameSetup, Feed
<1> QED
  BY <1>2, <1>3

LEMMA StartEffect ==
  ASSUME TypeOK, NEW f \in Feeds, SectionStart(f) \/ TsStart(f)
  PROVE  /\ SameSetup(f) /\ FeedsBut(f) /\ UNCHANGED <<filter, feedList>>
         /\ feed'[f].state = "GO" /\ feed'[f].filtering
<1>1. feed \in [Feeds -> Feed] /\ feed[f] \in Feed
  BY DEF TypeOK
<1> QED
  BY <1>1 DEF SectionStart, TsStart, FeedsBut, SameSetup, Feed

LEMMA SetEffect ==
  ASSUME TypeOK, NEW f \in Feeds, NEW pid, NEW decoder, NEW pes,
         SectionSet(f, pid) \/ TsSet(f, pid, decoder, pes)
  PROVE  /\ FeedsBut(f) /\ UNCHANGED filter
         /\ feed'[f].state = "READY" /\ feed'[f].pid = pid
         /\ feed'[f].type = feed[f].type /\ feed'[f].filters = feed[f].filters
         /\ feed'[f].filtering = feed[f].filtering
<1>1. feed \in [Feeds -> Feed] /\ feed[f] \in Feed
  BY DEF TypeOK
<1>2. CASE SectionSet(f, pid)
  BY <1>1, <1>2 DEF SectionSet, FeedsBut, Feed
<1>3. CASE TsSet(f, pid, decoder, pes)
  BY <1>1, <1>3 DEF TsSet, FeedsBut, Feed
<1> QED
  BY <1>2, <1>3

LEMMA AllocateEffect ==
  ASSUME TypeOK, NEW f \in Feeds,
         SectionAllocate(f) \/ \E s \in Filters : TsAllocate(f, s)
  PROVE  /\ FeedsBut(f) /\ UNCHANGED feedList /\ feed[f].state = "FREE"
         /\ feed'[f].state = "ALLOCATED" /\ ~feed'[f].filtering
         /\ feed'[f].type = IF SectionAllocate(f) THEN "SEC" ELSE "TS"
         /\ \/ UNCHANGED filter
            \/ ~SectionAllocate(f) /\ \E s \in Filters :
                 /\ filter[s].state = "FREE"
                 /\ filter' = [filter EXCEPT ![s] = [state |-> "READY", feed |-> f]]
<1>1. feed \in [Feeds -> Feed] /\ feed[f] \in Feed
  BY DEF TypeOK
<1>2. CASE SectionAllocate(f)
  BY <1>1, <1>2 DEF SectionAllocate, FirstFree, FeedsBut, Feed
<1>3. CASE ~SectionAllocate(f)
  <2>1. PICK s \in Filters : TsAllocate(f, s)
    BY <1>3
  <2>2. feed[f].state = "FREE" /\ filter[s].state = "FREE"
    BY <2>1 DEF TsAllocate, FirstFree
  <2>3. /\ FeedsBut(f) /\ feed'[f].state = "ALLOCATED" /\ ~feed'[f].filtering
        /\ feed'[f].type = "TS"
    BY <1>1, <2>1 DEF TsAllocate, FeedsBut, Feed
  <2>4. /\ UNCHANGED feedList
        /\ filter' = [filter EXCEPT ![s] = [state |-> "READY", feed |-> f]]
    BY <2>1 DEF TsAllocate
  <2> QED
    BY <1>3, <2>2, <2>3, <2>4
<1> QED
  BY <1>2, <1>3

LEMMA ReleaseEffect ==
  ASSUME TypeOK, NEW f \in Feeds, SectionRelease(f) \/ TsRelease(f)
  PROVE  /\ FeedsBut(f) /\ feed'[f].state = "FREE" /\ feed'[f].type = feed[f].type
         /\ feed'[f].filtering = feed[f].filtering
         /\ SectionRelease(f) => UNCHANGED filter /\ feed'[f].filters = feed[f].filters
<1>1. feed \in [Feeds -> Feed] /\ feed[f] \in Feed
  BY DEF TypeOK
<1>2. CASE SectionRelease(f)
  BY <1>1, <1>2 DEF SectionRelease, FeedsBut, Feed
<1>3. CASE TsRelease(f) /\ ~SectionRelease(f)
  <2>1. /\ FeedsBut(f) /\ feed'[f].state = "FREE" /\ feed'[f].type = feed[f].type
        /\ feed'[f].filtering = feed[f].filtering
    BY <1>1, <1>3 DEF TsRelease, FeedsBut, Feed
  <2> QED
    BY <1>3, <2>1
<1> QED
  BY <1>2, <1>3

LEMMA FilterEffect ==
  ASSUME TypeOK, NEW f \in Feeds, NEW s \in Filters,
         FilterAllocate(f, s) \/ FilterRelease(f, s)
  PROVE  /\ FeedsBut(f) /\ UNCHANGED feedList
         /\ feed'[f].state = feed[f].state /\ feed'[f].type = feed[f].type
         /\ feed'[f].pid = feed[f].pid /\ feed'[f].filtering = feed[f].filtering
         /\ \A t \in Filters \ {s} : filter'[t] = filter[t]
         /\ FilterAllocate(f, s) => /\ filter[s].state = "FREE"
                                    /\ filter'[s] = [state |-> "READY", feed |-> f]
         /\ ~FilterAllocate(f, s) => filter'[s].state = "FREE"
<1>1. /\ feed \in [Feeds -> Feed] /\ feed[f] \in Feed
      /\ filter \in [Filters -> [state : FilterStates, feed : Feeds \cup {None}]]
  BY DEF TypeOK
<1>2. CASE FilterAllocate(f, s)
  BY <1>1, <1>2 DEF FilterAllocate, FirstFree, FeedsBut, Feed
<1>3. CASE FilterRelease(f, s) /\ ~FilterAllocate(f, s)
  BY <1>1, <1>3 DEF FilterRelease, FeedsBut, Feed
<1> QED
  BY <1>2, <1>3

----------------------------------------------------------------------------
(* Devices and feeds agree after every step, while the driver does not     *)
(* fail.                                                                   *)

\* A step that leaves every device its feed and the feed its pid; it may stop or
\* start the caller's.
LEMMA FeedsServed ==
  ASSUME CallInv, Served,
         New' <=> New,
         \A i \in Devs : Holder(i)' <=> Holder(i),
         \A i \in Devs : Holder(i) => dev'[i].params = dev[i].params /\ dev'[i].feed = dev[i].feed,
         New => UNCHANGED me,
         \A f \in Feeds : /\ feed'[f].type = feed[f].type /\ feed'[f].pid = feed[f].pid
                          /\ Live(f)' <=> Live(f),
         \A f \in Feeds : (\E i \in Devs : Holder(i) /\ dev[i].feed = f) =>
           (feed'[f].filtering <=> ~(Paused' /\ f = own'))
  PROVE  HeldFeeds' /\ Sharing' /\ OnePid' /\ FeedsHeld' /\ FeedsRun'
<1>1. \A i \in Devs : Holder(i) => dev[i].feed \in Feeds
  BY HeldFeed
<1>2. HeldFeeds'
  BY <1>1 DEF Served, HeldFeeds, Live, Sec
<1>3. Sharing'
  BY DEF Served, Sharing, Sec
<1>4. OnePid'
  BY DEF Served, OnePid, Sec
<1>5. FeedsHeld'
  BY DEF Served, FeedsHeld
<1>6. FeedsRun'
  BY <1>1 DEF Served, FeedsRun
<1> QED
  BY <1>2, <1>3, <1>4, <1>5, <1>6

\* One that leaves the filters as well.
LEMMA Toggles ==
  ASSUME CallInv, Served, IInv', UNCHANGED <<filter, priv>>,
         New' <=> New, Bare' <=> Bare,
         \A i \in Devs : Holder(i)' <=> Holder(i),
         \A i \in Devs : Holder(i) =>
           /\ dev'[i].params = dev[i].params /\ dev'[i].feed = dev[i].feed
           /\ dev'[i].sec = dev[i].sec,
         New \/ Bare => UNCHANGED me,
         \A f \in Feeds : /\ feed'[f].type = feed[f].type /\ feed'[f].pid = feed[f].pid
                          /\ Live(f)' <=> Live(f),
         \A f \in Feeds : (\E i \in Devs : Holder(i) /\ dev[i].feed = f) =>
           (feed'[f].filtering <=> ~(Paused' /\ f = own')),
         OwnState'
  PROVE  Served'
<1>1. HeldFeeds' /\ Sharing' /\ OnePid' /\ FeedsHeld' /\ FeedsRun'
  BY FeedsServed
<1>2. \A s \in Filters : priv[s] # None => priv[s] \in Devs
  BY DEF CallInv, DevTypeOK
<1>3. PrivsTrue'
  BY <1>2 DEF Served, PrivsTrue, Sec
<1>4. PrivsSet'
  BY DEF Served, PrivsSet, IInv, FiltersChained
<1>5. HaveFilters'
  BY DEF Served, HaveFilters, Sec
<1> QED
  BY <1>1, <1>3, <1>4, <1>5 DEF Served

\* A step that leaves the demux alone.
LEMMA Frame ==
  ASSUME CallInv, Served, IInv', UNCHANGED <<feed, filter, priv>>,
         New' <=> New, Bare' <=> Bare, Paused' <=> Paused,
         \A i \in Devs : Holder(i)' <=> Holder(i),
         \A i \in Devs : Holder(i) =>
           /\ dev'[i].params = dev[i].params /\ dev'[i].feed = dev[i].feed
           /\ dev'[i].sec = dev[i].sec,
         Paused => UNCHANGED me /\ own' = own,
         OwnState'
  PROVE  Served'
<1>1. New \/ Bare => UNCHANGED me
  BY DEF New, Bare, Paused
<1>2. \A f \in Feeds : (\E i \in Devs : Holder(i) /\ dev[i].feed = f) =>
        (feed'[f].filtering <=> ~(Paused' /\ f = own'))
  BY DEF Served, FeedsRun
<1> QED
  BY <1>1, <1>2, Toggles DEF Live

\* One that neither finds nor leaves the caller at work on a feed.
LEMMA Unpaused ==
  ASSUME CallInv, Served, IInv', UNCHANGED <<feed, filter, priv>>,
         ~Paused, ~Paused', ~At("again")',
         \A i \in Devs : Holder(i)' <=> Holder(i),
         \A i \in Devs : Holder(i) =>
           /\ dev'[i].params = dev[i].params /\ dev'[i].feed = dev[i].feed
           /\ dev'[i].sec = dev[i].sec
  PROVE  Served'
<1>1. ~New /\ ~New' /\ ~Bare /\ ~Bare'
  BY DEF New, Bare, Paused
<1>2. OwnState'
  BY <1>1 DEF OwnState
<1> QED
  BY <1>1, <1>2, Frame

\* Open, and the ioctls that enter.
LEMMA EntersServed ==
  ASSUME CallInv, Served, IInv', NEW i \in Devs,
         Open(i) \/ EnterStart(i) \/ EnterStop(i) \/ EnterFree(i) \/ EnterSet(i)
  PROVE  Served'
<1>1. /\ call.pc = "idle" /\ call'.pc \in {"idle", "stop"}
      /\ UNCHANGED <<demux, priv>> /\ dev \in [Devs -> Dev]
  BY DEF Open, EnterStart, EnterStop, EnterFree, EnterSet, Enter, CallInv, DevTypeOK
<1>2. dev' = dev \/ Open(i)
  BY DEF EnterStart, EnterStop, EnterFree, EnterSet, Enter
<1>3. CASE dev' = dev
  BY <1>1, <1>3, Unpaused DEF demux, Paused, At, Holder, Holding
<1>4. CASE Open(i)
  <2>1. /\ dev[i].state = "FREE" /\ dev'[i].state = "ALLOCATED"
        /\ \A j \in Devs \ {i} : dev'[j] = dev[j]
    <3>1. dev[i] \in Dev
      BY <1>1
    <3> QED
      BY <1>1, <1>4, <3>1 DEF Open, FirstFree, Dev
  <2>2. \A j \in Devs : /\ Holder(j)' <=> Holder(j)
                        /\ Holder(j) => dev'[j] = dev[j]
    BY <1>1, <2>1 DEF Holder, Holding, Running
  <2> QED
    BY <1>1, <2>2, Unpaused DEF demux, Paused, At
<1> QED
  BY <1>2, <1>3, <1>4

\* The steps of a call that leave the demux and the other devices alone.
LEMMA MovesServed ==
  ASSUME CallInv, Served, IInv', ~failed',
         \/ StopNothing \/ StopMark \/ ThenStop \/ ThenFree \/ ThenSetSection \/ ThenSetPes
         \/ ThenStart \/ StartFails \/ StartTimer \/ StartReady \/ StartAgain
  PROVE  Served'
<1>1. /\ me \in Devs /\ dev \in [Devs -> Dev] /\ dev[me] \in Dev /\ call \in Calls
  BY DEF CallInv, DevTypeOK, me, Calls
<1>2. UNCHANGED <<demux, priv>>
  <2>1. CASE StartAgain
    <3>1. UNCHANGED demux
      BY <2>1 DEF StartAgain, Served, OwnState, StartFiltering, SectionStart
    <3> QED
      BY <2>1, <3>1 DEF StartAgain
  <2> QED
    BY <2>1 DEF StopNothing, StopMark, ThenStop, ThenFree, ThenSetSection, ThenSetPes, SetTo,
       ThenStart, StartFails, StartTimer, StartReady
<1>3. \A j \in Devs \ {me} : dev'[j] = dev[j]
  BY <1>1 DEF StopNothing, StopMark, ThenStop, ThenFree, ThenSetSection, ThenSetPes, SetTo,
     ThenStart, StartFails, StartTimer, StartReady, StartAgain
<1>4. PICK from \in Points, to \in Points :
        /\ call.pc = from /\ call'.pc = to
        /\ to = "idle" \/ call'.dev = me
        /\ \/ /\ from \in {"stop", "then", "find", "again"} /\ to \in {"idle", "then", "find"}
              /\ dev[me].state \notin Running /\ dev'[me].state \notin Running
           \/ /\ from = "stop" /\ to = "quiet" /\ dev[me].state \in Running
              /\ dev'[me] = [dev[me] EXCEPT !.state = "SET"]
           \/ /\ from = "timer" /\ to = "ready"
              /\ dev'[me] = [dev[me] EXCEPT !.timer = dev[me].params.timeout]
           \/ /\ from = "ready" /\ to = "idle"
              /\ dev'[me] = [dev[me] EXCEPT !.state = "GO"]
  <2> USE <1>1, CallMoves DEF At, Points
  <2>1. CASE StopNothing
    BY <2>1 DEF StopNothing, CallInv, RunnersHaveFeeds, own
  <2>2. CASE StopMark
    BY <2>2 DEF StopMark
  <2>3. CASE ThenStop \/ ThenStart \/ StartFails
    BY <2>3 DEF ThenStop, ThenStart, StartFails, CallInv, CallerSet, Running
  <2>4. CASE ThenFree
    <3>1. dev'[me].state = "FREE"
      BY <2>4 DEF ThenFree, Closed
    <3> QED
      BY <2>4, <3>1 DEF ThenFree, CallInv, CallerSet, Running
  <2>5. CASE ThenSetSection \/ ThenSetPes
    <3>1. At("then") /\ (GoTo("find") \/ Return) /\ dev'[me].state = "SET"
      BY <2>5 DEF ThenSetSection, ThenSetPes, SetTo, Dev
    <3> QED
      BY <3>1 DEF CallInv, CallerSet, Running
  <2>6. CASE StartTimer
    BY <2>6 DEF StartTimer
  <2>7. CASE StartReady
    BY <2>7 DEF StartReady
  <2>8. CASE StartAgain
    BY <2>8 DEF StartAgain, CallInv, CallerSet, Running
  <2> QED
    BY <2>1, <2>2, <2>3, <2>4, <2>5, <2>6, <2>7, <2>8
<1>5. ~Paused /\ ~Paused' /\ ~At("again")'
  BY <1>4 DEF Paused, At
<1>6. ASSUME NEW i \in Devs
      PROVE  /\ Holder(i)' <=> Holder(i)
             /\ Holder(i) => /\ dev'[i].params = dev[i].params /\ dev'[i].feed = dev[i].feed
                             /\ dev'[i].sec = dev[i].sec
  <2>1. CASE i # me
    <3>1. dev'[i] = dev[i] /\ (to = "idle" \/ i # call'.dev)
      BY <1>3, <1>4, <2>1
    <3> QED
      BY <1>4, <2>1, <3>1 DEF Holder, Holding, me
  <2>2. CASE i = me
    BY <1>1, <1>4, <2>2 DEF Holder, Holding, Running, Dev, me
  <2> QED
    BY <2>1, <2>2
<1> QED
  BY <1>2, <1>5, <1>6, Unpaused DEF demux

\* The bottom halves.
LEMMA BottomServed ==
  ASSUME CallInv, Served, IInv', ~TimerRace,
         \/ \E i \in Devs : TimerFires(i)
         \/ \E s \in Filters : SectionArrives(s)
  PROVE  Served'
<1>1. /\ me \in Devs /\ dev \in [Devs -> Dev] /\ \A i \in Devs : dev[i] \in Dev
      /\ UNCHANGED <<demux, priv, call>>
  BY DEF CallInv, DevTypeOK, me, TimerFires, SectionArrives
<1>2. PICK i \in Devs, st \in Running :
        /\ dev' = [dev EXCEPT ![i].timer = FALSE, ![i].state = st]
        /\ Holder(i)
  <2>1. CASE \E i \in Devs : TimerFires(i)
    <3>1. PICK i \in Devs : TimerFires(i)
      BY <2>1
    <3>2. dev[i].state = "GO" \/ (i = me /\ At("ready"))
      BY <3>1 DEF TimerFires, CallInv, TimerSafe, At, me
    <3>3. Holder(i)
      BY <3>2 DEF Holder, Holding, Running, At
    <3> QED
      BY <3>1, <3>3 DEF TimerFires, Running
  <2>2. CASE \E s \in Filters : SectionArrives(s)
    <3>1. PICK s \in Filters : SectionArrives(s)
      BY <2>2
    <3>2. /\ priv[s] \in Devs /\ dev[priv[s]].state = "GO"
          /\ dev' = [dev EXCEPT ![priv[s]].timer = FALSE,
               ![priv[s]].state = IF dev[priv[s]].params.oneshot THEN "DONE" ELSE "GO"]
      BY <1>1, <3>1 DEF SectionArrives, CallInv, DevTypeOK
    <3>3. Holder(priv[s])
      BY <3>2 DEF Holder, Running
    <3> QED
      BY <3>2, <3>3 DEF Running
  <2> QED
    BY <2>1, <2>2
<1>3. \A j \in Devs :
        /\ dev'[j].params = dev[j].params /\ dev'[j].feed = dev[j].feed
        /\ dev'[j].sec = dev[j].sec
        /\ IF j = i THEN dev'[j].state \in Running ELSE dev'[j] = dev[j]
  BY <1>1, <1>2 DEF Dev
<1>4. \A j \in Devs : Holder(j)' <=> Holder(j)
  BY <1>1, <1>2, <1>3 DEF Holder, me
<1>5. /\ New' <=> New
      /\ Bare' <=> Bare
      /\ Paused' <=> Paused
      /\ UNCHANGED <<me, feed, filter, priv, feedList>> /\ own' = own
      /\ Sec(me)' <=> Sec(me)
  BY <1>1, <1>3 DEF New, Bare, Paused, me, own, Sec, demux
<1>6. OwnState'
  BY <1>1, <1>5 DEF Served, OwnState, At
<1> QED
  BY <1>3, <1>4, <1>5, <1>6, Frame

\* The caller's feed is stopped or started.
LEMMA TogglesServed ==
  ASSUME CallInv, Served, IInv', StopQuietSection \/ StopQuietPes \/ StartGo \/ StartPesGo
  PROVE  Served'
<1>1. /\ me \in Devs /\ dev \in [Devs -> Dev] /\ dev[me] \in Dev /\ call \in Calls /\ TypeOK
      /\ call.pc \in {"quiet", "go"} /\ call.pc \in Holding
  BY DEF CallInv, DevTypeOK, me, Calls, Served, IInv, StopQuietSection, StopQuietPes, StartGo,
     StartPesGo, At, Holding
<1>2. /\ own \in Feeds /\ Live(own) /\ Holder(me) /\ Held(own, IF section THEN "SEC" ELSE "TS")
      /\ feed[own].filtering <=> At("quiet")
  <2>1. /\ own \in Feeds /\ Live(own) /\ Holder(me)
        /\ Held(own, IF section THEN "SEC" ELSE "TS")
    BY <1>1, OwnFeed
  <2> QED
    BY <1>1, <2>1 DEF Served, FeedsRun, Paused, own, At
<1>3. /\ call' \in Calls /\ call'.dev = me /\ UNCHANGED <<me, priv>>
      /\ \/ At("quiet") /\ call'.pc = "release" /\ (section => SectionStop(own))
                        /\ (~section => TsStop(own))
         \/ At("go") /\ call'.pc \in {"timer", "ready"} /\ (SectionStart(own) \/ TsStart(own))
  <2>1. feed[own].filtering <=> feed[own].state = "GO"
    BY <1>2 DEF Served, IInv, FilteringTrue
  <2> USE <1>1, <1>2, <2>1, CallMoves DEF At, Points, me
  <2>2. CASE StopQuietSection
    BY <2>2 DEF StopQuietSection
  <2>3. CASE StopQuietPes
    BY <2>3 DEF StopQuietPes
  <2>4. CASE StartGo
    BY <2>4 DEF StartGo
  <2>5. CASE StartPesGo
    BY <2>5 DEF StartPesGo
  <2> QED
    BY <2>2, <2>3, <2>4, <2>5
<1>4. \A i \in Devs :
        /\ dev'[i].params = dev[i].params /\ dev'[i].feed = dev[i].feed
        /\ dev'[i].sec = dev[i].sec /\ dev'[i].state = dev[i].state
  BY <1>1 DEF StopQuietSection, StopQuietPes, StartGo, StartPesGo, Dev
<1>5. /\ SameSetup(own) /\ FeedsBut(own) /\ UNCHANGED <<filter, feedList>>
      /\ feed'[own].state # "FREE"
      /\ feed'[own].filtering <=> At("go")
      /\ At("quiet") /\ section => feed'[own].state = "READY"
  BY <1>1, <1>2, <1>3, StopEffect, StartEffect DEF At
<1>6. \A i \in Devs : Holder(i)' <=> Holder(i)
  BY <1>3, <1>4 DEF Holder, Holding, At, me
<1>7. /\ ~New /\ ~New' /\ ~Bare /\ ~Bare'
      /\ Paused <=> At("go")
      /\ Paused' <=> At("quiet")
      /\ ~At("go")' /\ ~At("again")'
      /\ own' = own
      /\ Sec(me)' <=> section
  BY <1>1, <1>3, <1>4 DEF New, Bare, Paused, At, own, Sec, section, me
<1>8. \A f \in Feeds : /\ feed'[f].type = feed[f].type /\ feed'[f].pid = feed[f].pid
                       /\ Live(f)' <=> Live(f)
  BY <1>2, <1>5 DEF FeedsBut, SameSetup, Live
<1>9. \A f \in Feeds : (\E i \in Devs : Holder(i) /\ dev[i].feed = f) =>
        (feed'[f].filtering <=> ~(Paused' /\ f = own'))
  <2> SUFFICES ASSUME NEW f \in Feeds, NEW i \in Devs, Holder(i), dev[i].feed = f
               PROVE  feed'[f].filtering <=> ~(Paused' /\ f = own')
    OBVIOUS
  <2>1. feed[f].filtering <=> ~(Paused /\ f = own)
    BY DEF Served, FeedsRun
  <2> QED
    BY <1>1, <1>5, <1>7, <2>1 DEF FeedsBut, At
<1>10. OwnState'
  BY <1>5, <1>7 DEF OwnState
<1> QED
  BY <1>3, <1>4, <1>5, <1>6, <1>7, <1>8, <1>9, <1>10, Toggles

\* The filter of the caller's device is released.
LEMMA ReleaseFilterServed ==
  ASSUME CallInv, Served, IInv', StopReleaseFilter
  PROVE  Served'
<1> DEFINE s == dev[me].sec
<1>1. /\ me \in Devs /\ call \in Calls /\ TypeOK /\ section /\ At("release") /\ dev' = dev
      /\ priv \in [Filters -> Devs \cup {None}]
  BY DEF CallInv, DevTypeOK, me, Calls, Served, IInv, StopReleaseFilter
<1>2. own \in Feeds /\ Holder(me)
  BY <1>1, OwnFeed DEF At, Holding
<1>3. /\ s \in Filters /\ priv[s] = me /\ filter[s] = [state |-> "READY", feed |-> own]
  <2>1. s \in Filters /\ priv[s] = me
    BY <1>1, <1>2 DEF Served, HaveFilters, Sec, section, Bare, At
  <2> QED
    BY <1>1, <2>1, NoneIsNoDev DEF Served, PrivsTrue, own
<1> HIDE DEF s
<1>4. FilterRelease(own, s) /\ priv' = [priv EXCEPT ![s] = None]
  BY <1>3, NoneIsNoDev DEF StopReleaseFilter, s
<1>5. /\ FeedsBut(own) /\ UNCHANGED feedList
      /\ feed'[own].state = feed[own].state /\ feed'[own].type = feed[own].type
      /\ feed'[own].pid = feed[own].pid
      /\ feed'[own].filtering <=> feed[own].filtering
      /\ \A t \in Filters \ {s} : filter'[t] = filter[t]
      /\ filter'[s].state = "FREE"
  <2>1. ~FilterAllocate(own, s)
    BY <1>3 DEF FilterAllocate, FirstFree
  <2> QED
    BY <1>1, <1>2, <1>3, <1>4, <2>1, FilterEffect
<1>6. call'.pc = "restart" /\ call'.dev = me /\ me' = me
  BY <1>1, CallMoves DEF StopReleaseFilter, Points, me
<1>7. /\ ~New /\ ~New' /\ ~Bare /\ Bare' /\ Paused /\ Paused' /\ own' = own
      /\ ~At("again")' /\ ~At("go")'
      /\ Sec(me)' <=> section
  BY <1>1, <1>6 DEF New, Bare, Paused, At, own, Sec, section
<1>8. \A i \in Devs : Holder(i)' <=> Holder(i)
  BY <1>1, <1>6 DEF Holder, Holding, At
<1>9. \A f \in Feeds : /\ feed'[f].type = feed[f].type /\ feed'[f].pid = feed[f].pid
                       /\ Live(f)' <=> Live(f)
                       /\ feed'[f].filtering <=> feed[f].filtering
  BY <1>5 DEF FeedsBut, Live
<1>10. HeldFeeds' /\ Sharing' /\ OnePid' /\ FeedsHeld' /\ FeedsRun'
  <2>1. \A f \in Feeds : (\E i \in Devs : Holder(i) /\ dev[i].feed = f) =>
          (feed'[f].filtering <=> ~(Paused' /\ f = own'))
    BY <1>7, <1>9 DEF Served, FeedsRun
  <2> QED
    BY <1>1, <1>7, <1>8, <1>9, <2>1, FeedsServed
<1>11. \A t \in Filters \ {s} : /\ priv'[t] = priv[t]
                                /\ priv[t] # None => priv[t] \in Devs
  BY <1>1, <1>4
<1>12. PrivsTrue'
  <2> SUFFICES ASSUME NEW t \in Filters, priv'[t] # None
               PROVE  /\ Holder(priv[t])' /\ Sec(priv[t])' /\ dev'[priv'[t]].sec = t
                      /\ filter'[t] = [state |-> "READY", feed |-> dev'[priv'[t]].feed]
                      /\ ~(priv'[t] = me' /\ Bare')
    BY DEF PrivsTrue
  <2>1. t # s
    BY <1>1, <1>4
  <2>2. /\ Holder(priv[t]) /\ Sec(priv[t]) /\ dev[priv[t]].sec = t /\ priv[t] \in Devs
        /\ filter[t] = [state |-> "READY", feed |-> dev[priv[t]].feed]
    BY <1>11, <2>1 DEF Served, PrivsTrue
  <2>3. priv[t] # me
    BY <2>1, <2>2 DEF s
  <2>4. Holder(priv[t])' /\ Sec(priv[t])'
    BY <1>1, <1>6, <1>11, <2>1, <2>2, <2>3 DEF Holder, Sec
  <2> QED
    BY <1>1, <1>5, <1>6, <1>11, <2>1, <2>2, <2>3, <2>4
<1>13. PrivsSet'
  BY <1>3, <1>5, <1>9, <1>11 DEF Served, PrivsSet, IInv, FiltersChained
<1>14. HaveFilters'
  <2>1. \A i \in Devs \ {me} : Holder(i) /\ Sec(i) => dev[i].sec # s
    BY <1>3 DEF Served, HaveFilters
  <2> QED
    BY <1>1, <1>6, <1>7, <1>8, <1>11, <2>1 DEF Served, HaveFilters, Sec
<1>15. OwnState'
  BY <1>1, <1>5, <1>7 DEF Served, OwnState, section, Sec
<1> QED
  BY <1>10, <1>12, <1>13, <1>14, <1>15 DEF Served

\* The caller's device gives up its feed, which then runs for another device or is
\* released.
LEMMA LeavesServed ==
  ASSUME CallInv, Served, IInv', call.pc \in Holding, Paused, Bare \/ ~section,
         call'.pc \notin Holding, priv' = priv,
         NEW k, k = me, dev'[k].state \notin Running,
         \A i \in Devs \ {k} :
           /\ dev'[i].params = dev[i].params /\ dev'[i].feed = dev[i].feed
           /\ dev'[i].sec = dev[i].sec
           /\ dev'[i].state \in Running <=> dev[i].state \in Running,
         FeedsBut(own), feed'[own].type = feed[own].type,
         \/ /\ \E i \in Devs \ {k} : Holder(i) /\ dev[i].feed = own
            /\ feed'[own].pid = feed[own].pid /\ feed'[own].state # "FREE"
            /\ feed'[own].filtering
         \/ /\ \A i \in Devs \ {k} : Holder(i) => dev[i].feed # own
            /\ feed'[own].state = "FREE",
         \A s \in Filters : /\ feed[filter[s].feed].type = "SEC" => filter'[s] = filter[s]
                            /\ filter'[s].state # "FREE" => filter'[s] = filter[s],
         OwnState'
  PROVE  Served'
<1>1. /\ k \in Devs /\ own \in Feeds /\ Holder(k) /\ Live(own)
      /\ \A i \in Devs : Holder(i) => dev[i].feed \in Feeds
  BY OwnFeed, HeldFeed
<1>2. \A i \in Devs : Holder(i)' <=> Holder(i) /\ i # k
  BY DEF Holder
<1>3. /\ ~New' /\ ~Bare' /\ ~Paused'
      /\ \A i \in Devs \ {k} : Sec(i)' <=> Sec(i)
  BY DEF New, Bare, Paused, Holding, Sec
<1>4. \A f \in Feeds : feed'[f].type = feed[f].type /\ (f # own => feed'[f] = feed[f])
  BY DEF FeedsBut
<1> HIDE DEF FeedsBut
<1>5. HeldFeeds'
  <2> SUFFICES ASSUME NEW i \in Devs, Holder(i), i # k
               PROVE  /\ feed'[dev'[i].feed].state # "FREE"
                      /\ feed'[dev'[i].feed].type = IF Sec(i)' THEN "SEC" ELSE "TS"
                      /\ feed'[dev'[i].feed].pid = dev'[i].params.pid
    BY <1>2 DEF HeldFeeds, Live
  <2>1. /\ feed[dev[i].feed].state # "FREE"
        /\ feed[dev[i].feed].type = IF Sec(i) THEN "SEC" ELSE "TS"
        /\ feed[dev[i].feed].pid = dev[i].params.pid
    BY DEF Served, HeldFeeds, Live
  <2> QED
    BY <1>1, <1>3, <1>4, <2>1
<1>6. Sharing'
  BY <1>1, <1>2, <1>3 DEF Served, Sharing
<1>7. OnePid'
  BY <1>1, <1>2, <1>3 DEF Served, OnePid
<1>8. FeedsHeld'
  <2> SUFFICES ASSUME NEW f \in Feeds, Live(f)'
               PROVE  \E i \in Devs : Holder(i) /\ i # k /\ dev[i].feed = f
    BY <1>2 DEF FeedsHeld
  <2>1. CASE f # own
    BY <1>4, <2>1 DEF Served, FeedsHeld, Live, own
  <2>2. CASE f = own
    BY <2>2 DEF Live
  <2> QED
    BY <2>1, <2>2
<1>9. PrivsTrue'
  <2> SUFFICES ASSUME NEW s \in Filters, priv[s] # None
               PROVE  /\ Holder(priv[s])' /\ Sec(priv[s])' /\ dev'[priv'[s]].sec = s
                      /\ filter'[s] = [state |-> "READY", feed |-> dev'[priv'[s]].feed]
                      /\ ~(priv'[s] = me' /\ Bare')
    BY DEF PrivsTrue
  <2>1. /\ Holder(priv[s]) /\ Sec(priv[s]) /\ dev[priv[s]].sec = s /\ priv[s] \in Devs
        /\ filter[s] = [state |-> "READY", feed |-> dev[priv[s]].feed]
        /\ ~(priv[s] = me /\ Bare)
    BY DEF Served, PrivsTrue, CallInv, DevTypeOK
  <2>2. priv[s] # k
    BY <2>1 DEF section, Sec
  <2>3. feed[filter[s].feed].type = "SEC"
    BY <2>1 DEF Served, HeldFeeds
  <2>4. Holder(priv[s])' /\ Sec(priv[s])'
    BY <1>2, <1>3, <2>1, <2>2 DEF Holder, Sec
  <2> QED
    BY <1>3, <2>1, <2>2, <2>3, <2>4
<1>10. PrivsSet'
  BY <1>4 DEF Served, PrivsSet, IInv, FiltersChained
<1>11. HaveFilters'
  BY <1>2, <1>3 DEF Served, HaveFilters
<1>12. FeedsRun'
  BY <1>1, <1>2, <1>3, <1>4 DEF Served, FeedsRun
<1> QED
  BY <1>5, <1>6, <1>7, <1>8, <1>9, <1>10, <1>11, <1>12 DEF Served

\* The section feed is restarted for another device or released.
LEMMA RestartsServed ==
  ASSUME CallInv, Served, IInv', ~failed', StopRestart \/ (StartRefused /\ section) \/ StartFull
  PROVE  Served'
<1>1. /\ me \in Devs /\ call \in Calls /\ TypeOK /\ section /\ dev \in [Devs -> Dev]
      /\ dev[me] \in Dev /\ priv' = priv
      /\ call.pc \in {"restart", "refused", "full"} /\ call.pc \in Holding /\ Bare /\ Paused
      /\ dev[me].state = "SET"
  BY DEF CallInv, CallerSet, DevTypeOK, me, Calls, Served, IInv, StopRestart, StartRefused,
     StartFull, At, Holding, Bare, Paused, section, Sec
<1>2. own \in Feeds /\ Live(own)
  BY <1>1, OwnFeed
<1>3. PICK d \in Dev :
        /\ d.state = "SET" /\ FeedRestart([dev EXCEPT ![me] = d])
        /\ StartFull => d = dev[me]
  <2>1. CASE StopRestart
    <3> DEFINE r == [dev[me] EXCEPT !.feed = None, !.sec = None]
    <3>1. r \in Dev /\ r.state = "SET"
      BY <1>1 DEF Dev
    <3>2. [dev EXCEPT ![me].feed = None, ![me].sec = None] = [dev EXCEPT ![me] = r]
      BY <1>1
    <3>3. ~StartFull
      BY <2>1 DEF StopRestart, StartFull, At
    <3> QED
      BY <2>1, <3>1, <3>2, <3>3 DEF StopRestart
  <2>2. CASE StartRefused \/ StartFull
    <3>1. dev = [dev EXCEPT ![me] = dev[me]]
      BY <1>1
    <3> QED
      BY <1>1, <2>2, <3>1 DEF StartRefused, StartFull
  <2> QED
    BY <2>1, <2>2
<1>4. /\ dev'[me] = d
      /\ \A i \in Devs \ {me} :
           /\ dev'[i].params = dev[i].params /\ dev'[i].feed = dev[i].feed
           /\ dev'[i].sec = dev[i].sec
           /\ dev'[i].state \in Running <=> dev[i].state \in Running
  BY <1>1, <1>3, RestartDevs DEF Running
<1>5. /\ call'.pc \in {"then", "idle", "again"}
      /\ call'.pc = "again" => StartFull /\ call'.dev = me
  BY <1>1, CallMoves DEF StopRestart, StartRefused, StartFull, Points
<1>6. /\ FeedsBut(own) /\ feed'[own].type = feed[own].type /\ UNCHANGED filter
      /\ \/ /\ \E i \in Devs \ {me} : Holder(i) /\ dev[i].feed = own
            /\ feed'[own].pid = feed[own].pid /\ feed'[own].state # "FREE"
            /\ feed'[own].filtering
         \/ /\ \A i \in Devs \ {me} : Holder(i) => dev[i].feed # own
            /\ feed'[own].state = "FREE" /\ feed'[own].filters = <<>>
  <2>1. CASE \E j \in Devs : Sharer(j) /\ SectionStart(own)
    <3>1. PICK j \in Devs : Sharer(j) /\ SectionStart(own)
      BY <2>1
    <3>2. j # me /\ Holder(j) /\ dev[j].feed = own
      BY <1>1, <3>1, SharersShare
    <3> QED
      BY <1>1, <1>2, <3>1, <3>2, StartEffect DEF SameSetup, Live
  <2>2. CASE NoSharer /\ SectionRelease(own) /\ feed[own].filters = <<>>
    <3>1. \A i \in Devs \ {me} : Holder(i) => dev[i].feed # own
      BY <1>1, <2>2, NoSharerAlone
    <3> QED
      BY <1>1, <1>2, <2>2, <3>1, ReleaseEffect
  <2> QED
    BY <1>1, <1>3, <2>1, <2>2, RestartKeepsProtocol
<1>7. OwnState'
  <2>1. ~New' /\ ~Paused'
    BY <1>5 DEF New, Paused
  <2>2. At("again")' => own' = own
    BY <1>3, <1>4, <1>5 DEF At, own, me
  <2> QED
    BY <1>6, <2>1, <2>2 DEF OwnState
<1>8. call'.pc \notin Holding
  BY <1>5 DEF Holding
<1> DEFINE k == me
<1>9. k = me /\ dev'[k].state \notin Running
  BY <1>3, <1>4 DEF Running
<1> HIDE DEF k
<1> QED
  BY <1>1, <1>4, <1>6, <1>7, <1>8, <1>9, LeavesServed

\* A transport stream feed is released: nobody shares it.
LEMMA TsReleasesServed ==
  ASSUME CallInv, Served, IInv', StopReleasePes \/ StartPesRefused
  PROVE  Served'
<1>1. /\ me \in Devs /\ call \in Calls /\ TypeOK /\ ~section /\ dev \in [Devs -> Dev]
      /\ dev[me] \in Dev /\ priv' = priv
      /\ call.pc \in {"release", "refused"} /\ call.pc \in Holding /\ Paused
      /\ dev[me].state = "SET"
  BY DEF CallInv, CallerSet, DevTypeOK, me, Calls, Served, IInv, StopReleasePes,
     StartPesRefused, At, Holding, Paused
<1>2. own \in Feeds /\ Live(own) /\ Held(own, "TS") /\ feed[own] \in Feed /\ Holder(me)
  BY <1>1, OwnFeed
<1>3. TsRelease(own)
  BY <1>2 DEF StopReleasePes, StartPesRefused, Live
<1>4. /\ \A i \in Devs \ {me} : dev'[i] = dev[i]
      /\ dev'[me].state = "SET"
  BY <1>1 DEF StopReleasePes, StartPesRefused, Dev
<1>5. call'.pc \in {"then", "idle"}
  BY <1>1, CallMoves DEF StopReleasePes, StartPesRefused, Points
<1>6. \A i \in Devs \ {me} : Holder(i) => dev[i].feed # own
  BY <1>1, <1>2 DEF Served, Sharing, own, section, Sec
<1>7. FeedsBut(own) /\ feed'[own].state = "FREE" /\ feed'[own].type = feed[own].type
  BY <1>1, <1>2, <1>3, ReleaseEffect
<1> DEFINE h == feed[own].filters[1]
<1>8. /\ h \in Filters /\ filter[h] = [state |-> "READY", feed |-> own]
      /\ h = Head(feed[own].filters)
  <2>1. Len(feed[own].filters) = 1 /\ feed[own].filters \in Seq(Filters)
    BY <1>2 DEF Served, IInv, TsChains, Held, Feed
  <2>2. 1 \in 1 .. Len(feed[own].filters)
    BY <2>1
  <2> QED
    BY <1>2, <2>1, <2>2 DEF Served, IInv, ChainsPoint
<1> HIDE DEF h
<1>9. \A s \in Filters : /\ s # h => filter'[s] = filter[s]
                         /\ filter'[h].state = "FREE"
  BY <1>1, <1>3, <1>8 DEF TsRelease, TypeOK
<1>10. \A s \in Filters : /\ feed[filter[s].feed].type = "SEC" => filter'[s] = filter[s]
                          /\ filter'[s].state # "FREE" => filter'[s] = filter[s]
  BY <1>2, <1>8, <1>9 DEF Held
<1>11. OwnState' /\ call'.pc \notin Holding
  BY <1>5 DEF OwnState, New, Paused, At, Holding
<1> DEFINE k == me
<1>12. k = me /\ dev'[k].state \notin Running
  BY <1>4 DEF Running
<1> HIDE DEF k
<1> QED
  BY <1>1, <1>4, <1>6, <1>7, <1>10, <1>11, <1>12, LeavesServed

----------------------------------------------------------------------------
(* filter_start.                                                           *)

\* The caller's device joins the feed of another one.
LEMMA ShareServed ==
  ASSUME CallInv, Served, IInv', StartShare
  PROVE  Served'
<1>1. /\ me \in Devs /\ call \in Calls /\ TypeOK /\ section /\ dev \in [Devs -> Dev]
      /\ dev[me] \in Dev /\ priv' = priv /\ At("find") /\ dev[me].state = "SET"
  BY DEF CallInv, CallerSet, DevTypeOK, me, Calls, Served, IInv, StartShare, At
<1>2. PICK j \in Devs \ {me} :
        /\ Sharer(j)
        /\ dev' = [dev EXCEPT ![me].feed = dev[j].feed, ![me].sec = None,
                              ![me].state = "SET", ![me].timer = FALSE]
        /\ SectionStop(dev[j].feed)
  BY DEF StartShare
<1> DEFINE f == dev[j].feed
<1>3. f \in Feeds /\ Held(f, "SEC") /\ feed[f].filtering
  BY <1>1, <1>2, SharersFeed
<1>4. /\ Holder(j) /\ Sec(j) /\ dev[j].params.pid = dev[me].params.pid
      /\ ~Holder(me) /\ ~New /\ ~Paused
  BY <1>1, <1>2 DEF Sharer, Holder, Sec, Running, Holding, New, Paused, At
<1> HIDE DEF f
<1>5. /\ SameSetup(f) /\ FeedsBut(f) /\ UNCHANGED filter
      /\ feed'[f].state = "READY" /\ ~feed'[f].filtering
  BY <1>1, <1>2, <1>3, StopEffect DEF f
<1>6. /\ \A i \in Devs \ {me} : dev'[i] = dev[i]
      /\ dev'[me].state = "SET" /\ dev'[me].feed = f /\ dev'[me].sec = None
      /\ dev'[me].params = dev[me].params
  BY <1>1, <1>2 DEF Dev, f
<1>7. /\ call'.pc = "filter" /\ me' = me /\ own' = f /\ dev'[me] = dev[me]'
      /\ ~New' /\ Bare' /\ Paused' /\ ~At("again")'
  BY <1>1, <1>6, CallMoves DEF StartShare, Points, New, Bare, Paused, At, me, own
<1>8. \A i \in Devs : /\ Holder(i)' <=> Holder(i) \/ i = me
                      /\ Sec(i)' <=> Sec(i)
                      /\ dev'[i].params = dev[i].params
                      /\ i # me => dev'[i] = dev[i]
  BY <1>4, <1>6, <1>7 DEF Holder, Holding, Running, Sec
<1>9. \A i \in Devs : Holder(i) => dev[i].feed \in Feeds
  BY HeldFeed
<1>10. \A g \in Feeds : /\ feed'[g].type = feed[g].type /\ feed'[g].pid = feed[g].pid
                        /\ Live(g)' <=> Live(g)
                        /\ feed'[g].filtering <=> (feed[g].filtering /\ g # f)
  BY <1>3, <1>5 DEF FeedsBut, SameSetup, Live, Held
<1>11. feed[f].type = "SEC" /\ Live(f) /\ feed[f].pid = dev[me].params.pid
  BY <1>3, <1>4 DEF Served, HeldFeeds, Held, Live, f
<1>12. HeldFeeds'
  <2> SUFFICES ASSUME NEW i \in Devs, Holder(i)'
               PROVE  /\ Live(dev[i].feed)'
                      /\ feed'[dev'[i].feed].type = IF Sec(i)' THEN "SEC" ELSE "TS"
                      /\ feed'[dev'[i].feed].pid = dev'[i].params.pid
    BY DEF HeldFeeds
  <2>1. CASE i = me
    BY <1>1, <1>3, <1>6, <1>8, <1>10, <1>11, <2>1 DEF Live, section, Sec
  <2>2. CASE i # me
    <3>1. Holder(i) /\ dev'[i] = dev[i] /\ dev[i].feed \in Feeds
      BY <1>8, <1>9, <2>2
    <3>2. /\ Live(dev[i].feed) /\ feed[dev[i].feed].pid = dev[i].params.pid
          /\ feed[dev[i].feed].type = IF Sec(i) THEN "SEC" ELSE "TS"
      BY <1>4, <3>1 DEF Served, HeldFeeds
    <3> QED
      BY <1>8, <1>10, <3>1, <3>2 DEF Live
  <2> QED
    BY <2>1, <2>2
<1>13. Sharing'
  <2>1. \A i \in Devs \ {me} : Holder(i) /\ dev[i].feed = f => Sec(i)
    BY <1>4 DEF Served, Sharing, f
  <2> QED
    BY <1>1, <1>6, <1>7, <1>8, <2>1 DEF Served, Sharing, section, Sec
<1>14. OnePid'
  <2>1. \A i \in Devs \ {me} : Holder(i) /\ Sec(i) /\ dev[i].params.pid = dev[me].params.pid
          => dev[i].feed = f
    BY <1>4 DEF Served, OnePid, f
  <2> QED
    BY <1>1, <1>6, <1>7, <1>8, <2>1 DEF Served, OnePid
<1>15. FeedsHeld'
  BY <1>4, <1>8, <1>10 DEF Served, FeedsHeld
<1>16. \A s \in Filters : priv[s] # None => priv[s] \in Devs /\ Holder(priv[s]) /\ priv[s] # me
  BY <1>4 DEF Served, PrivsTrue, CallInv, DevTypeOK
<1>17. PrivsTrue'
  BY <1>1, <1>5, <1>7, <1>8, <1>16 DEF Served, PrivsTrue
<1>18. PrivsSet'
  BY <1>1, <1>5, <1>10 DEF Served, PrivsSet, IInv, FiltersChained
<1>19. HaveFilters'
  BY <1>1, <1>4, <1>7, <1>8 DEF Served, HaveFilters
<1>20. FeedsRun'
  BY <1>3, <1>4, <1>6, <1>7, <1>8, <1>9, <1>10 DEF Served, FeedsRun
<1>21. OwnState'
  BY <1>5, <1>7 DEF OwnState
<1> QED
  BY <1>12, <1>13, <1>14, <1>15, <1>17, <1>18, <1>19, <1>20, <1>21 DEF Served

\* The caller's device gets a feed nobody has.
LEMMA AllocateServed ==
  ASSUME CallInv, Served, IInv', At("find"), priv' = priv, GoTo("set"),
         NEW f \in Feeds, NEW r \in Dev, dev' = [dev EXCEPT ![me] = r],
         r.feed = f, r.params = dev[me].params, r.state = "SET",
         \/ section /\ SectionAllocate(f) /\ NoSharer
         \/ ~section /\ \E s \in Filters : TsAllocate(f, s)
  PROVE  Served'
<1>1. /\ me \in Devs /\ call \in Calls /\ TypeOK /\ dev \in [Devs -> Dev]
      /\ dev[me].state = "SET"
  BY DEF CallInv, CallerSet, DevTypeOK, me, Calls, Served, IInv, At
<1>2. ~Holder(me) /\ ~New /\ ~Paused
  BY <1>1 DEF Holder, Running, Holding, New, Paused, At
<1>3. /\ FeedsBut(f) /\ UNCHANGED feedList /\ feed[f].state = "FREE"
      /\ feed'[f].state = "ALLOCATED" /\ ~feed'[f].filtering
      /\ feed'[f].type = IF section THEN "SEC" ELSE "TS"
      /\ \/ UNCHANGED filter
         \/ ~section /\ \E s \in Filters :
              /\ filter[s].state = "FREE"
              /\ filter' = [filter EXCEPT ![s] = [state |-> "READY", feed |-> f]]
  <2>1. ~section => ~SectionAllocate(f)
    <3>1. ASSUME NEW s \in Filters, TsAllocate(f, s), SectionAllocate(f) PROVE FALSE
      <4>1. feed[f] \in Feed
        BY <1>1 DEF TypeOK
      <4>2. feed'[f].type = "TS"
        BY <1>1, <3>1, <4>1 DEF TsAllocate, TypeOK, Feed
      <4>3. feed'[f].type = "SEC"
        BY <1>1, <3>1, <4>1 DEF SectionAllocate, TypeOK, Feed
      <4> QED
        BY <4>2, <4>3
    <3> QED
      BY <3>1
  <2> QED
    BY <1>1, <2>1, AllocateEffect
<1>4. /\ \A i \in Devs \ {me} : dev'[i] = dev[i]
      /\ dev'[me] = r
  BY <1>1
<1>5. /\ call'.pc = "set" /\ me' = me /\ own' = f
      /\ New' /\ Bare' /\ Paused' /\ ~At("again")'
  BY <1>1, <1>4, CallMoves DEF Points, New, Bare, Paused, At, me, own
<1>6. \A i \in Devs : /\ Holder(i)' <=> Holder(i) \/ i = me
                      /\ Sec(i)' <=> Sec(i)
                      /\ dev'[i].params = dev[i].params
                      /\ i # me => dev'[i] = dev[i]
  BY <1>2, <1>4, <1>5 DEF Holder, Holding, Running, Sec
<1>7. \A i \in Devs : Holder(i) => dev[i].feed \in Feeds /\ dev[i].feed # f
  BY <1>3, HeldFeed DEF Live
<1>8. \A g \in Feeds : g # f => feed'[g] = feed[g]
  BY <1>3 DEF FeedsBut
<1>9. HeldFeeds'
  <2> SUFFICES ASSUME NEW i \in Devs, Holder(i)'
               PROVE  /\ Live(dev[i].feed)'
                      /\ feed'[dev'[i].feed].type = IF Sec(i)' THEN "SEC" ELSE "TS"
                      /\ feed'[dev'[i].feed].pid = dev'[i].params.pid \/ i = me
    BY <1>5 DEF HeldFeeds
  <2>1. CASE i = me
    BY <1>1, <1>3, <1>4, <1>6, <2>1 DEF Live, section, Sec
  <2>2. CASE i # me
    <3>1. Holder(i) /\ dev'[i] = dev[i] /\ dev[i].feed \in Feeds /\ dev[i].feed # f
      BY <1>6, <1>7, <2>2
    <3>2. /\ Live(dev[i].feed) /\ feed[dev[i].feed].pid = dev[i].params.pid
          /\ feed[dev[i].feed].type = IF Sec(i) THEN "SEC" ELSE "TS"
      BY <1>2, <3>1 DEF Served, HeldFeeds
    <3> QED
      BY <1>6, <1>8, <3>1, <3>2 DEF Live
  <2> QED
    BY <2>1, <2>2
<1>10. Sharing'
  BY <1>1, <1>2, <1>4, <1>5, <1>6, <1>7 DEF Served, Sharing
<1>11. OnePid'
  <2>1. ASSUME section, NEW i \in Devs \ {me}, Holder(i), Sec(i) PROVE dev[i].params.pid # dev[me].params.pid
    <3>1. dev[i].state \in Running
      BY <2>1 DEF Holder
    <3> QED
      BY <2>1, <3>1, SharerExists DEF NoSharer
  <2> QED
    BY <1>1, <1>2, <1>6, <2>1 DEF Served, OnePid, section, Sec
<1>12. FeedsHeld'
  <2> SUFFICES ASSUME NEW g \in Feeds, Live(g)'
               PROVE  \E i \in Devs : Holder(i)' /\ dev'[i].feed = g
    BY DEF FeedsHeld
  <2>1. CASE g = f
    BY <1>1, <1>4, <1>6, <2>1
  <2>2. CASE g # f
    BY <1>2, <1>6, <1>8, <2>2 DEF Served, FeedsHeld, Live
  <2> QED
    BY <2>1, <2>2
<1>13. \A s \in Filters : priv[s] # None =>
         /\ priv[s] \in Devs /\ Holder(priv[s]) /\ priv[s] # me
         /\ filter'[s] = filter[s]
  <2> SUFFICES ASSUME NEW s \in Filters, priv[s] # None
               PROVE  /\ priv[s] \in Devs /\ Holder(priv[s]) /\ priv[s] # me
                      /\ filter'[s] = filter[s]
    OBVIOUS
  <2>1. Holder(priv[s]) /\ filter[s] = [state |-> "READY", feed |-> dev[priv[s]].feed]
    BY DEF Served, PrivsTrue
  <2>2. filter[s].state = "READY"
    BY <2>1
  <2>3. filter'[s] = filter[s]
    BY <1>1, <1>3, <2>2 DEF TypeOK
  <2> QED
    BY <1>2, <2>1, <2>3 DEF CallInv, DevTypeOK
<1>14. PrivsTrue'
  BY <1>1, <1>5, <1>6, <1>13 DEF Served, PrivsTrue
<1>15. PrivsSet'
  <2> SUFFICES ASSUME NEW s \in Filters, filter'[s].state # "FREE",
                      feed'[filter'[s].feed].type = "SEC"
               PROVE  priv[s] # None
    BY DEF PrivsSet
  <2>1. filter'[s] = filter[s]
    <3>1. CASE UNCHANGED filter
      BY <3>1
    <3>2. CASE ~section
      <4>1. feed'[f].type = "TS"
        BY <1>3, <3>2
      <4> QED
        BY <1>1, <1>3, <4>1 DEF TypeOK
    <3> QED
      BY <1>3, <3>1, <3>2
  <2>2. filter[s].feed \in Feeds /\ Live(filter[s].feed) /\ filter[s].state # "FREE"
    BY <2>1 DEF Served, IInv, FiltersChained
  <2>3. filter[s].feed # f
    BY <1>3, <2>2 DEF Live
  <2> QED
    BY <1>8, <2>1, <2>2, <2>3 DEF Served, PrivsSet
<1>16. HaveFilters'
  BY <1>1, <1>2, <1>5, <1>6 DEF Served, HaveFilters
<1>17. FeedsRun'
  BY <1>1, <1>2, <1>3, <1>4, <1>5, <1>6, <1>7, <1>8 DEF Served, FeedsRun
<1>18. OwnState'
  <2>1. f \notin feedList
    BY <1>3 DEF Served, IInv, ListSound, Live
  <2> QED
    BY <1>3, <1>5, <2>1 DEF OwnState
<1> QED
  BY <1>9, <1>10, <1>11, <1>12, <1>14, <1>15, <1>16, <1>17, <1>18 DEF Served

\* The steps that look for a feed.
LEMMA FindsServed ==
  ASSUME CallInv, Served, IInv', StartAllocate \/ StartPes
  PROVE  Served'
<1>1. /\ me \in Devs /\ call \in Calls /\ TypeOK /\ dev \in [Devs -> Dev] /\ dev[me] \in Dev
      /\ dev[me].state = "SET" /\ At("find") /\ priv' = priv
  BY DEF CallInv, CallerSet, DevTypeOK, me, Calls, Served, IInv, StartAllocate, StartPes, At
<1>2. ~Holder(me) /\ ~New /\ ~Bare /\ ~Paused
  BY <1>1 DEF Holder, Running, Holding, New, Bare, Paused, At
<1>3. section => NoSharer \/ ~StartAllocate
  <2>1. ASSUME StartAllocate, NEW j \in Devs, Sharer(j) PROVE FALSE
    <3>1. dev[j].feed # None
      BY <1>1, <2>1, SharersFeed, NoneIsNoDev
    <3>2. j # me
      BY <1>1, <2>1 DEF Sharer, Running
    <3> QED
      BY <2>1, <3>1, <3>2 DEF StartAllocate
  <2> QED
    BY <2>1 DEF NoSharer
<1>4. \A f \in Feeds \cup {None} :
        /\ [dev[me] EXCEPT !.feed = f, !.sec = None] \in Dev
        /\ [dev[me] EXCEPT !.feed = f] \in Dev
  BY <1>1 DEF Dev
<1>5. PICK f \in Feeds \cup {None}, r \in Dev :
        /\ r.feed = f /\ r.params = dev[me].params /\ r.state = "SET"
        /\ dev' = [dev EXCEPT ![me] = r]
        /\ \/ /\ Return
              /\ \/ UNCHANGED demux
                 \/ f \in Feeds /\ TsAllocateFails(f)
           \/ /\ f \in Feeds /\ GoTo("set")
              /\ \/ section /\ SectionAllocate(f)
                 \/ ~section /\ \E s \in Filters : TsAllocate(f, s)
  <2>1. CASE StartAllocate
    <3>1. PICK f \in Feeds \cup {None} :
            /\ dev' = [dev EXCEPT ![me].feed = f, ![me].sec = None]
            /\ \/ Return /\ UNCHANGED demux
               \/ f \in Feeds /\ GoTo("set") /\ section /\ SectionAllocate(f)
      BY <2>1 DEF StartAllocate
    <3> DEFINE r == [dev[me] EXCEPT !.feed = f, !.sec = None]
    <3>2. r \in Dev /\ r.feed = f /\ r.params = dev[me].params /\ r.state = "SET"
      BY <1>1, <1>4 DEF Dev
    <3>3. dev' = [dev EXCEPT ![me] = r]
      BY <1>1, <3>1
    <3> QED
      BY <3>1, <3>2, <3>3
  <2>2. CASE StartPes
    <3>1. PICK f \in Feeds \cup {None} :
            /\ dev' = [dev EXCEPT ![me].feed = f]
            /\ \/ Return /\ UNCHANGED demux
               \/ f \in Feeds /\ Return /\ TsAllocateFails(f)
               \/ f \in Feeds /\ GoTo("set") /\ ~section /\ \E s \in Filters : TsAllocate(f, s)
      BY <2>2 DEF StartPes
    <3> DEFINE r == [dev[me] EXCEPT !.feed = f]
    <3>2. r \in Dev /\ r.feed = f /\ r.params = dev[me].params /\ r.state = "SET"
      BY <1>1, <1>4 DEF Dev
    <3>3. dev' = [dev EXCEPT ![me] = r]
      BY <1>1, <3>1
    <3> QED
      BY <3>1, <3>2, <3>3
  <2> QED
    BY <2>1, <2>2
<1>6. CASE GoTo("set")
  <2>1. call'.pc = "set" /\ (Return => call'.pc = "idle")
    BY <1>1, <1>6, CallMoves DEF Points
  <2>2. ~Return
    BY <2>1
  <2>3. /\ f \in Feeds
        /\ \/ section /\ SectionAllocate(f)
           \/ ~section /\ \E s \in Filters : TsAllocate(f, s)
    BY <1>5, <2>2
  <2>4. section => NoSharer
    BY <1>3, <2>3 DEF StartPes
  <2> QED
    BY <1>1, <1>5, <1>6, <2>3, <2>4, AllocateServed
<1>7. CASE Return
  <2>1. call'.pc = "idle"
    BY <1>1, <1>7, CallMoves
  <2>2. /\ ~New' /\ ~Bare' /\ ~Paused' /\ ~At("again")'
    BY <2>1 DEF New, Bare, Paused, At
  <2>3. \A i \in Devs : /\ i # me => dev'[i] = dev[i]
                        /\ i = me => dev'[i].state = "SET"
    BY <1>1, <1>5
  <2>4. \A i \in Devs : /\ Holder(i)' <=> Holder(i)
                        /\ Holder(i) => dev'[i] = dev[i]
    BY <1>1, <1>2, <2>1, <2>3 DEF Holder, Holding, Running
  <2>5. CASE UNCHANGED demux
    BY <1>1, <1>2, <2>2, <2>4, <2>5, Unpaused DEF demux
  <2>6. CASE f \in Feeds /\ TsAllocateFails(f)
    <3>1. /\ UNCHANGED <<filter, feedList>> /\ feed[f].state = "FREE"
          /\ feed'[f].state = "FREE"
          /\ \A g \in Feeds : g # f => feed'[g] = feed[g]
      <4>1. feed[f] \in Feed
        BY <1>1, <2>6 DEF TypeOK
      <4> QED
        BY <1>1, <2>6, <4>1 DEF TsAllocateFails, FirstFree, TypeOK, Feed
    <3>2. \A i \in Devs : Holder(i) => dev[i].feed \in Feeds /\ dev[i].feed # f
      BY <3>1, HeldFeed DEF Live
    <3>3. \A s \in Filters : filter[s].state # "FREE" => filter[s].feed \in Feeds /\ filter[s].feed # f
      BY <3>1 DEF Served, IInv, FiltersChained, Live
    <3>4. HeldFeeds'
      BY <1>2, <2>2, <2>4, <3>1, <3>2 DEF Served, HeldFeeds, Live, Sec
    <3>5. Sharing'
      BY <1>2, <2>2, <2>4 DEF Served, Sharing, Sec
    <3>6. OnePid'
      BY <2>4 DEF Served, OnePid, Sec
    <3>7. FeedsHeld'
      BY <2>4, <3>1 DEF Served, FeedsHeld, Live
    <3>8. \A s \in Filters : priv[s] # None => priv[s] \in Devs
      BY DEF CallInv, DevTypeOK
    <3>9. PrivsTrue'
      BY <1>1, <2>2, <2>4, <3>1, <3>8 DEF Served, PrivsTrue, Sec
    <3>10. PrivsSet'
      BY <1>1, <3>1, <3>3 DEF Served, PrivsSet
    <3>11. HaveFilters'
      BY <1>1, <1>2, <2>2, <2>4 DEF Served, HaveFilters, Sec
    <3>12. FeedsRun'
      BY <1>2, <2>2, <2>4, <3>1, <3>2 DEF Served, FeedsRun
    <3>13. OwnState'
      BY <2>2 DEF OwnState
    <3> QED
      BY <3>4, <3>5, <3>6, <3>7, <3>9, <3>10, <3>11, <3>12, <3>13 DEF Served
  <2>7. ~GoTo("set")
    BY <1>1, <2>1, CallMoves DEF Points
  <2> QED
    BY <1>5, <2>5, <2>6, <2>7
<1> QED
  BY <1>5, <1>6, <1>7

\* The packet id of the caller's feed is set, or refused.
LEMMA SetsServed ==
  ASSUME CallInv, Served, IInv', StartSet \/ StartPesSet
  PROVE  Served'
<1>1. /\ me \in Devs /\ call \in Calls /\ TypeOK /\ dev' = dev /\ priv' = priv
      /\ At("set") /\ New /\ Bare /\ Paused
  BY DEF CallInv, DevTypeOK, me, Calls, Served, IInv, StartSet, StartPesSet, At, New, Bare, Paused
<1>2. /\ own \in Feeds /\ Live(own) /\ Holder(me) /\ Held(own, IF section THEN "SEC" ELSE "TS")
      /\ ~feed[own].filtering
  <2>1. /\ own \in Feeds /\ Live(own) /\ Holder(me)
        /\ Held(own, IF section THEN "SEC" ELSE "TS")
    BY <1>1, OwnFeed DEF At, Holding
  <2> QED
    BY <1>1, <2>1 DEF Served, FeedsRun, own
<1>3. me' = me /\ own' = own
  BY <1>1, CallMoves DEF StartSet, StartPesSet, Points, me, own
<1>4. PICK to \in {"refused", "filter", "go"} :
        /\ call'.pc = to
        /\ \/ to = "refused" /\ UNCHANGED demux
           \/ to = "filter" /\ section /\ SectionSet(own, dev[me].params.pid)
           \/ to = "go" /\ ~section /\ \E decoder, pes : TsSet(own, dev[me].params.pid, decoder, pes)
  BY <1>1, CallMoves DEF StartSet, StartPesSet, Points
<1>5. /\ \A i \in Devs : Holder(i)' <=> Holder(i)
      /\ Paused' /\ ~At("again")'
      /\ New' <=> to = "refused"
      /\ Bare' <=> to # "go"
  BY <1>1, <1>3, <1>4 DEF Holder, Holding, Paused, New, Bare, At
<1>6. CASE to = "refused"
  <2>1. UNCHANGED <<feed, filter, feedList>>
    BY <1>4, <1>6 DEF demux
  <2>2. OwnState'
    BY <1>1, <1>3, <1>5, <1>6, <2>1 DEF Served, OwnState
  <2> QED
    BY <1>1, <1>3, <1>5, <1>6, <2>1, <2>2, Frame
<1>7. CASE to # "refused"
  <2>1. /\ FeedsBut(own) /\ UNCHANGED filter
        /\ feed'[own].state = "READY" /\ feed'[own].pid = dev[me].params.pid
        /\ feed'[own].type = feed[own].type /\ ~feed'[own].filtering
    BY <1>1, <1>2, <1>4, <1>7, SetEffect
  <2>2. \A i \in Devs : Holder(i) => dev[i].feed \in Feeds /\ (i # me => dev[i].feed # own)
    <3>1. \A i \in Devs \ {me} : Holder(i) => dev[i].feed # own
      BY <1>1, <1>2 DEF Served, Sharing, own
    <3> QED
      BY <3>1, HeldFeed
  <2>3. \A f \in Feeds : /\ f # own => feed'[f] = feed[f]
                         /\ feed'[f].type = feed[f].type
                         /\ feed'[f].filtering <=> feed[f].filtering
                         /\ Live(f)' <=> Live(f)
    BY <1>2, <2>1 DEF FeedsBut, Live
  <2>4. HeldFeeds'
    BY <1>1, <1>2, <1>3, <1>5, <2>1, <2>2, <2>3 DEF Served, HeldFeeds, Live, Sec, own
  <2>5. Sharing'
    BY <1>1, <1>3, <1>5, <1>7 DEF Served, Sharing, Sec
  <2>6. OnePid'
    BY <1>1, <1>5 DEF Served, OnePid, Sec
  <2>7. FeedsHeld'
    BY <1>1, <1>5, <2>3 DEF Served, FeedsHeld
  <2>8. \A s \in Filters : priv[s] # None => priv[s] \in Devs
    BY DEF CallInv, DevTypeOK
  <2>9. PrivsTrue'
    BY <1>1, <1>3, <1>5, <2>1, <2>8 DEF Served, PrivsTrue, Sec
  <2>10. PrivsSet'
    BY <1>1, <2>1, <2>3 DEF Served, PrivsSet, IInv, FiltersChained
  <2>11. HaveFilters'
    BY <1>1, <1>3, <1>4, <1>5 DEF Served, HaveFilters, Sec, section
  <2>12. FeedsRun'
    BY <1>1, <1>3, <1>5, <2>2, <2>3 DEF Served, FeedsRun
  <2>13. OwnState'
    BY <1>3, <1>5, <1>7, <2>1 DEF OwnState
  <2> QED
    BY <2>4, <2>5, <2>6, <2>7, <2>9, <2>10, <2>11, <2>12, <2>13 DEF Served
<1> QED
  BY <1>6, <1>7

\* A filter is put in the caller's feed, or there is none left.
LEMMA FilterServed ==
  ASSUME CallInv, Served, IInv', StartFilter
  PROVE  Served'
<1>1. /\ me \in Devs /\ call \in Calls /\ TypeOK /\ dev \in [Devs -> Dev] /\ dev[me] \in Dev
      /\ At("filter") /\ ~New /\ Bare /\ Paused /\ section
      /\ priv \in [Filters -> Devs \cup {None}]
  BY DEF CallInv, CallerSet, DevTypeOK, me, Calls, Served, IInv, StartFilter, At, New, Bare,
     Paused, section, Sec
<1>2. /\ own \in Feeds /\ Holder(me) /\ Held(own, "SEC") /\ feed[own].state = "READY"
  <2>1. own \in Feeds /\ Holder(me) /\ Held(own, "SEC")
    BY <1>1, OwnFeed DEF At, Holding
  <2> QED
    BY <1>1, <2>1 DEF Served, OwnState, section, Sec
<1>3. CASE GoTo("full") /\ UNCHANGED <<demux, dev, priv>>
  <2>1. call'.pc = "full" /\ me' = me
    BY <1>1, <1>3, CallMoves DEF Points, me
  <2>2. /\ \A i \in Devs : Holder(i)' <=> Holder(i)
        /\ Paused' /\ ~New' /\ Bare' /\ ~At("again")' /\ own' = own
    BY <1>1, <1>3, <2>1 DEF Holder, Holding, Paused, New, Bare, At, own
  <2>3. OwnState'
    BY <1>2, <1>3, <2>2 DEF OwnState, demux
  <2> QED
    BY <1>1, <1>3, <2>1, <2>2, <2>3, Frame DEF demux
<1>4. CASE \E s \in Filters : /\ FilterAllocate(own, s) /\ GoTo("go")
                              /\ dev' = [dev EXCEPT ![me].sec = s]
                              /\ priv' = [priv EXCEPT ![s] = me]
  <2>1. PICK s \in Filters : /\ FilterAllocate(own, s) /\ GoTo("go")
                             /\ dev' = [dev EXCEPT ![me].sec = s]
                             /\ priv' = [priv EXCEPT ![s] = me]
    BY <1>4
  <2>2. /\ FeedsBut(own) /\ UNCHANGED feedList
        /\ feed'[own].state = feed[own].state /\ feed'[own].type = feed[own].type
        /\ feed'[own].pid = feed[own].pid
        /\ feed'[own].filtering <=> feed[own].filtering
        /\ \A t \in Filters \ {s} : filter'[t] = filter[t]
        /\ filter[s].state = "FREE"
        /\ filter'[s] = [state |-> "READY", feed |-> own]
    BY <1>1, <1>2, <2>1, FilterEffect
  <2>3. call'.pc = "go" /\ me' = me
    BY <1>1, <2>1, CallMoves DEF Points, me
  <2>4. /\ \A i \in Devs : /\ dev'[i].params = dev[i].params /\ dev'[i].feed = dev[i].feed
                           /\ dev'[i].state = dev[i].state
                           /\ i # me => dev'[i].sec = dev[i].sec
        /\ dev'[me].sec = s
    BY <1>1, <2>1 DEF Dev
  <2>5. /\ Paused' /\ ~New' /\ ~Bare' /\ ~At("again")' /\ own' = own
        /\ \A i \in Devs : Sec(i)' <=> Sec(i)
    BY <1>1, <2>3, <2>4 DEF Paused, New, Bare, At, own, Sec
  <2>6. \A i \in Devs : Holder(i)' <=> Holder(i)
    BY <1>1, <2>3, <2>4 DEF Holder, Holding, At
  <2>7. \A f \in Feeds : /\ feed'[f].type = feed[f].type /\ feed'[f].pid = feed[f].pid
                         /\ Live(f)' <=> Live(f)
                         /\ feed'[f].filtering <=> feed[f].filtering
    BY <2>2 DEF FeedsBut, Live
  <2>8. HeldFeeds' /\ Sharing' /\ OnePid' /\ FeedsHeld' /\ FeedsRun'
    <3>1. \A f \in Feeds : (\E i \in Devs : Holder(i) /\ dev[i].feed = f) =>
            (feed'[f].filtering <=> ~(Paused' /\ f = own'))
      BY <1>1, <2>5, <2>7 DEF Served, FeedsRun
    <3> QED
      BY <1>1, <2>4, <2>5, <2>6, <2>7, <3>1, FeedsServed
  <2>9. \A t \in Filters : /\ t # s => priv'[t] = priv[t]
                           /\ priv'[s] = me
                           /\ priv[t] # None => priv[t] \in Devs
    BY <1>1, <2>1
  <2>10. PrivsTrue'
    <3> SUFFICES ASSUME NEW t \in Filters, priv'[t] # None
                 PROVE  /\ Holder(priv[t])' /\ Sec(priv[t])' /\ dev'[priv'[t]].sec = t
                        /\ filter'[t] = [state |-> "READY", feed |-> dev'[priv'[t]].feed]
      BY <2>5 DEF PrivsTrue
    <3>1. CASE t = s
      <4>1. priv'[t] = me
        BY <2>9, <3>1
      <4>2. Holder(priv[t])' /\ Sec(priv[t])'
        BY <1>1, <2>3, <2>4, <4>1 DEF Holder, Holding, Sec, section, me
      <4> QED
        BY <1>1, <2>2, <2>4, <3>1, <4>1, <4>2 DEF own
    <3>2. CASE t # s
      <4>1. /\ Holder(priv[t]) /\ Sec(priv[t]) /\ dev[priv[t]].sec = t /\ priv[t] \in Devs
            /\ filter[t] = [state |-> "READY", feed |-> dev[priv[t]].feed]
            /\ ~(priv[t] = me /\ Bare)
        BY <2>9, <3>2 DEF Served, PrivsTrue
      <4>2. Holder(priv[t])' /\ Sec(priv[t])'
        BY <2>3, <2>4, <2>9, <3>2, <4>1 DEF Holder, Holding, Sec
      <4> QED
        BY <1>1, <2>2, <2>4, <2>9, <3>2, <4>1, <4>2
    <3> QED
      BY <3>1, <3>2
  <2>11. PrivsSet'
    BY <1>1, <2>2, <2>7, <2>9, NoneIsNoDev DEF Served, PrivsSet, IInv, FiltersChained
  <2>12. HaveFilters'
    <3> SUFFICES ASSUME NEW i \in Devs, Holder(i), Sec(i)
                 PROVE  dev'[i].sec \in Filters /\ priv'[dev'[i].sec] = i
      BY <2>5, <2>6 DEF HaveFilters
    <3>1. CASE i = me
      BY <2>4, <2>9, <3>1
    <3>2. CASE i # me
      <4>1. dev[i].sec \in Filters /\ priv[dev[i].sec] = i
        BY <3>2 DEF Served, HaveFilters
      <4>2. filter[dev[i].sec] = [state |-> "READY", feed |-> dev[i].feed]
        BY <4>1, NoneIsNoDev DEF Served, PrivsTrue
      <4>3. dev[i].sec # s
        BY <2>2, <4>2
      <4> QED
        BY <2>4, <2>9, <3>2, <4>1, <4>3
    <3> QED
      BY <3>1, <3>2
  <2>13. OwnState'
    BY <1>2, <2>2, <2>5 DEF OwnState
  <2> QED
    BY <2>8, <2>10, <2>11, <2>12, <2>13 DEF Served
<1> QED
  BY <1>3, <1>4 DEF StartFilter

----------------------------------------------------------------------------
(* The theorems.                                                           *)

\* A driver that has failed has failed.
LEMMA FailedStays ==
  ASSUME CallInv, [DevNext]_vars
  PROVE  /\ failed => failed'
         /\ ~failed /\ ~DriverFails => ~failed'
<1>1. CASE UNCHANGED failed
  BY <1>1
<1>2. CASE StopRestart \/ StartRefused \/ StartFull \/ StartAgain \/ StartGoFails
  BY <1>2 DEF StopRestart, StartRefused, StartFull, StartAgain, StartGoFails, FeedRestart,
     StartFiltering
<1> QED
  BY <1>1, <1>2 DEF DevNext, Step, vars

\* Every step keeps what the devices and the demux agree on.
LEMMA StepKeepsServed ==
  ASSUME CallInv, ServedInv, ~TimerRace, [DevNext]_vars
  PROVE  ServedInv'
<1> SUFFICES ASSUME ~failed' PROVE Served'
  BY DEF ServedInv
<1>1. Served
  BY FailedStays DEF ServedInv
<1>2. IInv'
  <2>1. [Next]_demux
    BY <1>1, StepKeepsProtocol
  <2> QED
    BY <1>1, <2>1, NextHolds DEF Served
<1>3. CASE UNCHANGED vars
  <2>1. UNCHANGED <<feed, filter, feedList, priv, dev, call, me>>
    BY <1>3 DEF vars, demux, me
  <2>2. /\ New' <=> New
        /\ Bare' <=> Bare
        /\ Paused' <=> Paused
        /\ \A i \in Devs : Holder(i)' <=> Holder(i)
        /\ own' = own
        /\ OwnState'
    BY <1>1, <2>1 DEF New, Bare, Paused, Holder, own, Served, OwnState, Sec, At
  <2> QED
    BY <1>1, <1>2, <2>1, <2>2, Frame
<1>4. ASSUME NEW i \in Devs,
             Open(i) \/ EnterStart(i) \/ EnterStop(i) \/ EnterFree(i) \/ EnterSet(i)
      PROVE  Served'
  BY <1>1, <1>2, <1>4, EntersServed
<1>5. CASE \/ \E i \in Devs : TimerFires(i)
           \/ \E s \in Filters : SectionArrives(s)
  BY <1>1, <1>2, <1>5, BottomServed
<1>6. CASE \/ StopNothing \/ StopMark \/ ThenStop \/ ThenFree \/ ThenSetSection \/ ThenSetPes
           \/ ThenStart \/ StartFails \/ StartTimer \/ StartReady \/ StartAgain
  BY <1>1, <1>2, <1>6, MovesServed
<1>7. CASE StopQuietSection \/ StopQuietPes \/ StartGo \/ StartPesGo
  BY <1>1, <1>2, <1>7, TogglesServed
<1>8. CASE StopReleaseFilter
  BY <1>1, <1>2, <1>8, ReleaseFilterServed
<1>9. CASE StopRestart \/ StartRefused \/ StartFull
  <2>1. StartRefused => section
    BY DEF StartRefused
  <2> QED
    BY <1>1, <1>2, <1>9, <2>1, RestartsServed
<1>10. CASE StopReleasePes \/ StartPesRefused
  BY <1>1, <1>2, <1>10, TsReleasesServed
<1>11. CASE StartShare
  BY <1>1, <1>2, <1>11, ShareServed
<1>12. CASE StartAllocate \/ StartPes
  BY <1>1, <1>2, <1>12, FindsServed
<1>13. CASE StartSet \/ StartPesSet
  BY <1>1, <1>2, <1>13, SetsServed
<1>14. CASE StartFilter
  BY <1>1, <1>2, <1>14, FilterServed
<1>15. ~StartGoFails
  BY DEF StartGoFails
<1> QED
  BY <1>3, <1>4, <1>5, <1>6, <1>7, <1>8, <1>9, <1>10, <1>11, <1>12, <1>13, <1>14, <1>15
     DEF DevNext, Step

\* They agree when the device is made: nobody holds anything.
LEMMA InitServed == DevInit => Served
<1> SUFFICES ASSUME DevInit PROVE Served
  OBVIOUS
<1>1. IInv
  BY InitHolds DEF DevInit
<1>2. /\ \A i \in Devs : ~Holder(i)
      /\ ~New /\ ~Bare /\ ~Paused /\ ~At("again")
  BY DEF DevInit, Closed, NoCall, Holder, Holding, Running, New, Bare, Paused, At
<1>3. \A f \in Feeds : ~Live(f)
  BY DEF DevInit, Init, Live
<1>4. \A s \in Filters : priv[s] = None /\ filter[s].state = "FREE"
  BY DEF DevInit, Init
<1> QED
  BY <1>1, <1>2, <1>3, <1>4 DEF Served, HeldFeeds, Sharing, OnePid, FeedsHeld, PrivsTrue,
     PrivsSet, HaveFilters, FeedsRun, OwnState

\* Until the driver fails, devices, feeds and filters agree at every step.
THEOREM DevicesServed ==
  ASSUME ~TimerRace
  PROVE  DevSpec => [](CallInv /\ ServedInv)
<1>1. CallInv /\ ServedInv /\ [DevNext]_vars => CallInv' /\ ServedInv'
  BY StepKeepsCall, StepKeepsServed
<1>2. DevInit => CallInv /\ ServedInv
  BY InitCall, InitServed DEF ServedInv
<1> QED
  BY <1>1, <1>2, PTL DEF DevSpec

\* The devices and the call keep their types.
THEOREM DevTypeCorrect ==
  ASSUME ~TimerRace
  PROVE  DevSpec => []DevTypeOK
<1>1. CallInv => DevTypeOK
  BY DEF CallInv
<1> QED
  BY <1>1, CallsOrderly, PTL

\* A timer never outlives the run it was set for, whatever the driver does.
THEOREM TimerSafeAlways ==
  ASSUME ~TimerRace
  PROVE  DevSpec => []TimerSafe
<1>1. CallInv => TimerSafe
  BY DEF CallInv
<1> QED
  BY <1>1, CallsOrderly, PTL

\* Between calls a device that runs is served, until the driver fails to start a
\* feed.
THEOREM RunningServedAlways ==
  ASSUME ~TimerRace
  PROVE  DevSpec => []RunningServed
<1>1. CallInv /\ ServedInv => RunningServed
  <2> SUFFICES ASSUME CallInv, Served, Idle, NEW i \in Devs, dev[i].state \in Running
               PROVE  /\ dev[i].feed # None
                      /\ feed[dev[i].feed].filtering
                      /\ feed[dev[i].feed].pid = dev[i].params.pid
                      /\ feed[dev[i].feed].type = IF Sec(i) THEN "SEC" ELSE "TS"
                      /\ Sec(i) =>
                           /\ dev[i].sec # None
                           /\ filter[dev[i].sec] = [state |-> "READY", feed |-> dev[i].feed]
                           /\ priv[dev[i].sec] = i
    BY DEF RunningServed, ServedInv, Sec
  <2>1. Holder(i) /\ ~New /\ ~Bare /\ ~Paused
    BY DEF Holder, Idle, New, Bare, Paused
  <2>2. dev[i].feed # None
    BY DEF CallInv, RunnersHaveFeeds
  <2>3. /\ feed[dev[i].feed].filtering
        /\ feed[dev[i].feed].pid = dev[i].params.pid
        /\ feed[dev[i].feed].type = IF Sec(i) THEN "SEC" ELSE "TS"
    BY <2>1 DEF Served, HeldFeeds, FeedsRun
  <2>4. ASSUME Sec(i)
        PROVE  /\ dev[i].sec # None
               /\ filter[dev[i].sec] = [state |-> "READY", feed |-> dev[i].feed]
               /\ priv[dev[i].sec] = i
    <3>1. dev[i].sec \in Filters /\ priv[dev[i].sec] = i
      BY <2>1, <2>4 DEF Served, HaveFilters
    <3> QED
      BY <3>1, NoneIsNoDev DEF Served, PrivsTrue
  <2> QED
    BY <2>2, <2>3, <2>4
<1> QED
  BY <1>1, DevicesServed, PTL

\* Between calls every feed taken serves a device that runs, until the driver fails
\* to start a feed.
THEOREM NoFeedLostAlways ==
  ASSUME ~TimerRace
  PROVE  DevSpec => []NoFeedLost
<1>1. CallInv /\ ServedInv => NoFeedLost
  BY DEF NoFeedLost, ServedInv, Served, FeedsHeld, Live, Holder, Holding, Idle
<1> QED
  BY <1>1, DevicesServed, PTL

\* The driver that does not fail.
LEMMA NeverFailed ==
  ASSUME ~TimerRace, ~DriverFails
  PROVE  DevSpec => [](CallInv /\ Served)
<1>1. DevInit => ~failed
  BY DEF DevInit
<1>2. CallInv /\ ~failed /\ [DevNext]_vars => ~failed'
  BY FailedStays
<1>3. CallInv /\ ServedInv /\ ~failed => CallInv /\ Served
  BY DEF ServedInv
<1> QED
  BY <1>1, <1>2, <1>3, DevicesServed, PTL DEF DevSpec

\* A section is only ever delivered to the open section device that asked for it,
\* when the driver does not fail.
THEOREM CallbackSafeAlways ==
  ASSUME ~TimerRace, ~DriverFails
  PROVE  DevSpec => []CallbackSafe
<1>1. CallInv /\ Served => CallbackSafe
  <2> SUFFICES ASSUME CallInv, Served, NEW s \in Filters, Delivers(s)
               PROVE  /\ priv[s] # None
                      /\ dev[priv[s]].sec = s
                      /\ Sec(priv[s])
                      /\ dev[priv[s]].state \notin {"FREE", "ALLOCATED"}
    BY DEF CallbackSafe, Sec
  <2>1. PICK f \in feedList :
          /\ feed[f].type = "SEC"
          /\ \E i \in 1 .. Len(feed[f].filters) : feed[f].filters[i] = s
    BY DEF Delivers
  <2>2. f \in Feeds /\ Live(f)
    BY <2>1 DEF Served, IInv, TypeOK, ListSound
  <2>3. filter[s] = [state |-> "READY", feed |-> f]
    BY <2>1, <2>2 DEF Served, IInv, ChainsPoint
  <2>4. filter[s].state # "FREE" /\ filter[s].feed = f
    BY <2>3
  <2>5. priv[s] # None
    BY <2>1, <2>4 DEF Served, PrivsSet
  <2>6. priv[s] \in Devs /\ dev[priv[s]].sec = s /\ Sec(priv[s])
    BY <2>5 DEF Served, PrivsTrue, CallInv, DevTypeOK
  <2> QED
    BY <2>5, <2>6 DEF CallInv, DevTypeOK, Sec
<1> QED
  BY <1>1, NeverFailed, PTL

\* Section devices that run on one pid share one feed, when the driver does not
\* fail.
THEOREM OneFeedPerPidAlways ==
  ASSUME ~TimerRace, ~DriverFails
  PROVE  DevSpec => []OneFeedPerPid
<1>1. CallInv /\ Served => OneFeedPerPid
  BY DEF OneFeedPerPid, Served, OnePid, Holder, Sec
<1> QED
  BY <1>1, NeverFailed, PTL

\* Whatever the ioctls, timers and sections do is a behaviour of the demux, when
\* the driver does not fail.
THEOREM ProtocolKept ==
  ASSUME ~TimerRace, ~DriverFails
  PROVE  DevSpec => KeepsProtocol
<1>1. DevInit => Init
  BY DEF DevInit
<1>2. CallInv /\ Served /\ ~failed' /\ [DevNext]_vars => [Next]_demux
  BY StepKeepsProtocol
<1>3. CallInv /\ ~failed /\ [DevNext]_vars => ~failed'
  BY FailedStays
<1>4. DevInit => ~failed
  BY DEF DevInit
<1> QED
  BY <1>1, <1>2, <1>3, <1>4, NeverFailed, PTL DEF DevSpec, Spec, KeepsProtocol
=============================================================================
