--------------------------- MODULE FrontendHooks ---------------------------
(***************************************************************************)
(* What the frontends of all adapters share (dvb_frontend.c): the list of  *)
(* frontends, the lists of hooks that other modules give the frontends of  *)
(* an adapter (ioctls before and after the driver's, notifiers), and the   *)
(* choice of the frequency a tuner is really set to: an offset that scans  *)
(* for the drift of the LNB, and one that keeps two tuners of an adapter   *)
(* apart.  All of it happens under frontend_mutex and does not sleep.      *)
(***************************************************************************)
EXTENDS Integers, Sequences, FiniteSets

CONSTANTS
  Frontends,    \* the frontends the drivers register
  Home,         \* the adapter of each
  Kinds,        \* kinds of hooks: ioctls, notifiers
  Hooks,        \* the callbacks other modules register
  Step,         \* info->frequency_stepsize
  Zigzag,       \* the step of the scan for the drift
  Cycle,        \* failed reads after which the scan starts again (32)
  Frequencies,  \* what is tuned to
  Adapters,     \* the adapters there are
  MaxAdds,      \* bound on the hooks added
  MaxChanges    \* bound on the hooks added, the tunings and the scan steps

None == "none"

VARIABLES
  phase,      \* of each frontend: "out", "in" the list, "stopping"
  given,      \* the lists frontend_ioctl_list and frontend_notifier_list
  hook,       \* the callback each frontend has
  thread,     \* the frontends whose thread runs
  freq,       \* parameters.frequency, 0 before the first tuning
  drift,      \* lnb_drift
  bending,    \* bending
  lost,       \* lost_sync_count, -1 before the first tuning
  adds,       \* hooks added
  tunes,      \* tunings and steps of the scan
  taken,      \* history: a hook was removed
  crowded     \* history: frontends that had no room when last tuned

hooks  == <<given, hook, adds, taken>>
tuning == <<freq, drift, bending, lost, tunes, crowded>>
vars   == <<phase, thread, hooks, tuning>>

Entries == [adapter : Adapters, hook : Hooks]

TypeOK ==
  /\ phase \in [Frontends -> {"out", "in", "stopping"}]
  /\ given \in [Kinds -> Seq(Entries)]
  /\ hook \in [Kinds -> [Frontends -> Hooks \cup {None}]]
  /\ thread \subseteq Frontends
  /\ freq \in [Frontends -> Frequencies \cup {0}]
  /\ drift \in [Frontends -> Int] /\ bending \in [Frontends -> {-Step, 0, Step}]
  /\ lost \in [Frontends -> -1 .. Cycle]
  /\ adds \in 0 .. MaxAdds /\ tunes \in 0 .. MaxChanges
  /\ taken \in BOOLEAN /\ crowded \subseteq Frontends

Zero == [f \in Frontends |-> 0]

Init ==
  /\ phase = [f \in Frontends |-> "out"] /\ thread = {}
  /\ given = [k \in Kinds |-> <<>>]
  /\ hook = [k \in Kinds |-> [f \in Frontends |-> None]]
  /\ adds = 0 /\ taken = FALSE
  /\ freq = Zero /\ drift = Zero /\ bending = Zero /\ lost = Zero
  /\ tunes = 0 /\ crowded = {}

In(f) == phase[f] = "in"

----------------------------------------------------------------------------
(* The lists.                                                              *)

First(S) == CHOOSE i \in S : \A j \in S : i <= j

Without(s, i) == SubSeq(s, 1, i - 1) \o SubSeq(s, i + 1, Len(s))

\* Wrong variant: the last entry of the adapter is not looked for.
FoundFirst(s, a) == IF s # <<>> /\ s[1].adapter = a THEN s[1].hook ELSE None

\* The first entry for an adapter.
Found(s, a) ==
  LET S == {i \in 1 .. Len(s) : s[i].adapter = a}
  IN IF S = {} THEN None ELSE s[First(S)].hook

\* dvb_register_frontend: a new frontend takes the first hooks of its adapter.
Register(f) ==
  /\ phase[f] = "out"
  /\ phase' = [phase EXCEPT ![f] = "in"]
  /\ hook' = [k \in Kinds |-> [hook[k] EXCEPT ![f] = Found(given[k], Home[f])]]
  /\ freq' = [freq EXCEPT ![f] = 0] /\ drift' = [drift EXCEPT ![f] = 0]
  /\ bending' = [bending EXCEPT ![f] = 0] /\ lost' = [lost EXCEPT ![f] = 0]
  /\ crowded' = crowded \ {f}
  /\ UNCHANGED <<thread, given, adds, taken, tunes>>

\* dvb_unregister_frontend: off the list, and then to the thread.
Unregister(f) ==
  /\ In(f)
  /\ phase' = [phase EXCEPT ![f] = IF f \in thread THEN "stopping" ELSE "out"]
  /\ UNCHANGED <<thread, hooks, tuning>>

\* dvb_frontend_stop returns: the thread has ended and woken it.
Stopped(f) ==
  /\ phase[f] = "stopping"
  /\ phase' = [phase EXCEPT ![f] = "out"]
  /\ thread' = thread \ {f}
  /\ UNCHANGED <<hooks, tuning>>

\* dvb_add_frontend_ioctls, dvb_add_frontend_notifier.
Add(k, a, h) ==
  /\ adds < MaxAdds /\ adds + tunes < MaxChanges
  /\ adds' = adds + 1
  /\ given' = [given EXCEPT ![k] = Append(@, [adapter |-> a, hook |-> h])]
  /\ hook' = [hook EXCEPT ![k] = [f \in Frontends |->
                IF In(f) /\ Home[f] = a /\ @[f] = None THEN h ELSE @[f]]]
  /\ UNCHANGED <<phase, thread, taken, tuning>>

\* Wrong variant: only the entry goes.
LeftHooks(k, a, h) == hook[k]

\* Who had the callback has none, whatever else the list offers.
Cleared(k, a, h) ==
  [f \in Frontends |-> IF In(f) /\ Home[f] = a /\ hook[k][f] = h THEN None ELSE hook[k][f]]

\* dvb_remove_frontend_ioctls, dvb_remove_frontend_notifier.
Remove(k, a, h) ==
  LET S == {i \in 1 .. Len(given[k]) : given[k][i] = [adapter |-> a, hook |-> h]}
  IN /\ S # {}
     /\ hook' = [hook EXCEPT ![k] = Cleared(k, a, h)]
     /\ given' = [given EXCEPT ![k] = Without(@, First(S))]
     /\ taken' = TRUE
     /\ UNCHANGED <<phase, thread, adds, tuning>>

\* dvb_frontend_internal_ioctl: the hook before, the driver, the hook after;
\* who is able answers.  A hook is one module's pair, of which each may be able.
Answers(f, able) ==
  IF hook["ioctl"][f] # None /\ "before" \in able THEN hook["ioctl"][f]
  ELSE IF "driver" \in able THEN "driver"
  ELSE IF hook["ioctl"][f] # None /\ "after" \in able THEN hook["ioctl"][f] ELSE None

----------------------------------------------------------------------------
(* The frequency.                                                          *)

\* Where a frontend is, with an offset b, and where the others are.
At(f, b) == freq[f] + drift[f] + b
Distance(x, y) == IF x > y THEN x - y ELSE y - x

Clash(x, g) == lost[g] # -1 /\ Distance(x, At(g, bending[g])) < Step

Neighbours(f) == {g \in Frontends \ {f} : In(g) /\ Home[g] = Home[f]}

Clear(f, x) == \A g \in Neighbours(f) : ~Clash(x, g)

\* Wrong variant: the offset is negated at every depth.
TriedNegated(b, d) == -b

Tried(b, d) == IF d % 2 = 1 THEN b + Step ELSE -b

\* dvb_bend_frequency: x is the frequency without bending; the recursion
\* ends at depth 11, whatever is found.
Bent(f, x) ==
  LET b[d \in 0 .. 11] ==
        IF d = 0 THEN 0
        ELSE IF Clear(f, x + b[d - 1]) THEN b[d - 1] ELSE Tried(b[d - 1], d - 1)
  IN b[11]

NoRoom(f, x) == \A b \in {-Step, 0, Step} : ~Clear(f, x + b)

\* dvb_frontend_set_parameters, for frequency q and drift d.
SetTo(f, q, d) ==
  /\ adds + tunes < MaxChanges
  /\ tunes' = tunes + 1
  /\ freq' = [freq EXCEPT ![f] = q]
  /\ drift' = [drift EXCEPT ![f] = d]
  /\ bending' = [bending EXCEPT ![f] = Bent(f, q + d)]
  /\ crowded' = IF NoRoom(f, q + d) THEN crowded \cup {f} ELSE crowded \ {f}

\* The device is opened for writing: the thread starts.
Start(f) ==
  /\ In(f) /\ f \notin thread
  /\ thread' = thread \cup {f}
  /\ lost' = [lost EXCEPT ![f] = -1]
  /\ UNCHANGED <<phase, hooks, freq, drift, bending, tunes, crowded>>

\* The thread ends some time after the device was closed.
End(f) ==
  /\ In(f) /\ f \in thread
  /\ thread' = thread \ {f}
  /\ UNCHANGED <<phase, hooks, tuning>>

\* FE_SET_FRONTEND.
Tune(f, q) ==
  /\ In(f) /\ f \in thread
  /\ SetTo(f, q, 0)
  /\ lost' = [lost EXCEPT ![f] = 0]
  /\ UNCHANGED <<phase, thread, hooks>>

\* The thread reads a status with lock.
Locked(f) ==
  /\ In(f) /\ f \in thread /\ lost[f] > 0
  /\ lost' = [lost EXCEPT ![f] = 0]
  /\ UNCHANGED <<phase, thread, hooks, freq, drift, bending, tunes, crowded>>

\* The next offset of the scan: 0, s, -s, 2s, -2s, ...
Scanned(d, j) ==
  IF j % Cycle = 0 THEN 0 ELSE IF j % 2 = 1 THEN -d + Zigzag ELSE -d

\* The thread reads a status without lock: dvb_frontend_recover.
Recover(f) ==
  /\ In(f) /\ f \in thread /\ lost[f] \in 0 .. Cycle - 1
  /\ SetTo(f, freq[f], Scanned(drift[f], lost[f] + 1))
  /\ lost' = [lost EXCEPT ![f] = @ + 1]
  /\ UNCHANGED <<phase, thread, hooks>>

----------------------------------------------------------------------------
Next ==
  \/ \E f \in Frontends :
        \/ Register(f) \/ Unregister(f) \/ Stopped(f)
        \/ Start(f) \/ End(f) \/ Locked(f) \/ Recover(f)
        \/ \E q \in Frequencies : Tune(f, q)
  \/ \E k \in Kinds, a \in Adapters, h \in Hooks : Add(k, a, h) \/ Remove(k, a, h)

Spec == Init /\ [][Next]_vars

----------------------------------------------------------------------------
\* A frontend on the list has no callback that was taken back, and has one
\* if its adapter offers one and none was ever taken back: registering
\* frontends, adding hooks and removing them may come in any order, and a
\* callback left behind is code of a module that is gone.  Then a command that
\* somebody is able to answer is answered.
HooksLive ==
  \A k \in Kinds, f \in Frontends : In(f) =>
    LET offered == {given[k][i].hook : i \in {j \in 1 .. Len(given[k]) :
                                                given[k][j].adapter = Home[f]}}
    IN /\ hook[k][f] # None => hook[k][f] \in offered
       /\ ~taken /\ offered # {} => hook[k][f] # None
       /\ \A able \in SUBSET {"before", "driver", "after"} :
             k = "ioctl" /\ ~taken /\ offered # {} /\ able # {} =>
               Answers(f, able) \in offered \cup ({"driver"} \cap able)

Tuned(f) == In(f) /\ freq[f] # 0 /\ lost[f] # -1

\* Two tuners of an adapter are at least frequency_stepsize apart, scanning
\* or not, unless one of them found its frequency and both neighbours of it
\* taken: the purpose of dvb_bend_frequency.
TunedApart ==
  \A f, g \in Frontends :
    f # g /\ Tuned(f) /\ Tuned(g) /\ Home[f] = Home[g] =>
      \/ Distance(At(f, bending[f]), At(g, bending[g])) >= Step
      \/ {f, g} \cap crowded # {}
============================================================================
