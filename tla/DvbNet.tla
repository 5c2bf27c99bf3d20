------------------------------- MODULE DvbNet -------------------------------
(***************************************************************************)
(* One network interface over a section feed (dvb_net.c).  Opening and     *)
(* closing run in the caller; a change of the multicast list or of the     *)
(* address is put on a work queue and runs later in keventd.  The demux    *)
(* may refuse a feed or a filter at any time.  A section that comes in is  *)
(* made into an Ethernet frame if it holds a whole datagram.               *)
(***************************************************************************)
EXTENDS Integers, FiniteSets, TLAPS

CONSTANTS
  MulticastMax,  \* filters for multicast addresses (10)
  MaxCount,      \* bound: addresses the kernel asks for
  LateWork,      \* work queued while the interface was up may run after it went down
  Split          \* a section may come in two buffers, as the hardware queues give it

VARIABLES
  state,   \* the slot: "free", "failed" (taken, but the device was not registered), "up", "down"
  priv,    \* struct dvb_net_priv
  want,    \* what the kernel asks for: [mode, count]
  work,    \* work queued: set_multicast_list_wq, restart_net_feed_wq
  lost,    \* history: feeds of the demux nobody holds any more
  whole    \* history: every frame passed on held one whole datagram

vars == <<state, priv, want, work, lost, whole>>

Modes == {"UNI", "MULTI", "ALL_MULTI", "PROMISC"}
Priv == [in_use : {-1, 0, 1}, mode : Modes, feed : BOOLEAN, filter : BOOLEAN,
         multi : SUBSET (1 .. MulticastMax), num : 0 .. MulticastMax, filtering : BOOLEAN]

Zero == [in_use |-> 0, mode |-> "UNI", feed |-> FALSE, filter |-> FALSE,
         multi |-> {}, num |-> 0, filtering |-> FALSE]

TypeOK ==
  /\ state \in {"free", "failed", "up", "down"} /\ priv \in Priv /\ lost \in Nat
  /\ whole \in BOOLEAN

Init ==
  /\ state = "free" /\ priv = Zero
  /\ want = [mode |-> "UNI", count |-> 0]
  /\ work = {} /\ lost = 0 /\ whole = TRUE

\* Wrong variant: the number of filters is reset before they are released.
StoppedLate(p) ==
  IF p.feed THEN [p EXCEPT !.feed = FALSE, !.filter = FALSE, !.filtering = FALSE, !.num = 0]
  ELSE p

\* What feed_stop leaves of p: it looks at multi_num filters.
Stopped(p) ==
  IF p.feed THEN [p EXCEPT !.feed = FALSE, !.filter = FALSE, !.filtering = FALSE,
                           !.multi = @ \ (1 .. p.num)]
  ELSE p

\* The filters feed_start asks for, and the number of them it notes.
Asked(p) ==
  CASE p.mode = "MULTI" -> 1 .. p.num
    [] p.mode = "ALL_MULTI" -> {1}
    [] OTHER -> {}

Noted(p) == CASE p.mode = "ALL_MULTI" -> 1 [] p.mode = "PROMISC" -> 0 [] OTHER -> p.num

\* The feed is refused; or it is there, with the filter f of the address and the filters m.
Refused(p) == [p EXCEPT !.feed = FALSE, !.filter = FALSE]
Granted(p, f, m) ==
  [p EXCEPT !.feed = TRUE, !.filter = f, !.multi = (@ \ Asked(p)) \cup m, !.num = Noted(p),
            !.filtering = f \/ m # {}]

\* What feed_start may leave of p: each filter asked for may be refused; a feed with no
\* filter does not start.
Started(p) == {Refused(p)} \cup {Granted(p, f, m) : f \in BOOLEAN, m \in SUBSET Asked(p)}

Loses(p) == IF p.feed THEN lost + 1 ELSE lost

AddIf ==
  /\ state = "free"
  /\ state' \in {"down", "failed"}
  /\ priv' = Zero /\ work' = {}
  /\ UNCHANGED <<want, lost, whole>>

Open ==
  /\ state = "down"
  /\ state' = "up" /\ lost' = Loses(priv)
  /\ \E p \in Started(priv) : priv' = [p EXCEPT !.in_use = 1]
  /\ work' = work \cup {"multicast"}     \* the kernel uploads the list when it opens
  /\ UNCHANGED <<want, whole>>

Stop ==
  /\ state = "up" /\ (LateWork \/ work = {})
  /\ state' = "down"
  /\ priv' = [Stopped(priv) EXCEPT !.in_use = 0]
  /\ UNCHANGED <<want, work, lost, whole>>

SetMulticastList ==
  /\ state = "up"
  /\ want' \in [mode : Modes, count : 0 .. MaxCount]
  /\ work' = work \cup {"multicast"}
  /\ UNCHANGED <<state, priv, lost, whole>>

SetMac ==
  /\ state = "up"
  /\ work' = work \cup {"restart"}
  /\ UNCHANGED <<state, priv, want, lost, whole>>

\* The list replaces what was asked for before; addresses beyond the tenth are left out.
Listed(p) ==
  CASE want.mode = "MULTI" /\ want.count > 0 ->
         [p EXCEPT !.mode = "MULTI",
                   !.num = IF want.count < MulticastMax THEN want.count ELSE MulticastMax]
    [] want.mode \in {"PROMISC", "ALL_MULTI"} -> [p EXCEPT !.mode = want.mode]
    [] OTHER -> [p EXCEPT !.mode = "UNI"]

WqSetMulticastList ==
  /\ "multicast" \in work
  /\ work' = work \ {"multicast"}
  /\ priv' \in Started(Listed(Stopped(priv)))
  /\ UNCHANGED <<state, want, lost, whole>>

WqRestartNetFeed ==
  /\ "restart" \in work
  /\ work' = work \ {"restart"}
  /\ IF state = "up" THEN priv' \in Started(Stopped(priv)) ELSE UNCHANGED priv
  /\ UNCHANGED <<state, want, lost, whole>>

\* The interface is stopped once more, then the work that is queued is awaited.
RemoveIf ==
  /\ state = "down" /\ priv.in_use = 0
  /\ IF "multicast" \in work
     THEN \E p \in Started(Listed(Stopped(priv))) : lost' = Loses(p)
     ELSE UNCHANGED lost
  /\ state' = "free" /\ priv' = Zero /\ work' = {}
  /\ UNCHANGED <<want, whole>>

\* dvb_net_do_ioctl: NET_ADD_IF and NET_REMOVE_IF, for the administrator; NET_GET_IF only tells.
Ioctl == AddIf \/ RemoveIf

Sections == [len : {12, 16, 20}, scrambled : BOOLEAN, llc : BOOLEAN, part : BOOLEAN]

\* Wrong variant: one section of several is taken for a datagram.
TakenPart(s, n) == n >= 16 /\ ~s.scrambled /\ ~s.llc

\* dvb_net_sec: what is too short, scrambled, of another encapsulation or one
\* section of several is counted and dropped.
Taken(s, n) == n >= 16 /\ ~s.scrambled /\ ~s.llc /\ ~s.part

\* The first buffer is taken for the section: a frame of its length comes out.
Callback(s, n) ==
  /\ priv.filtering
  /\ whole' = (whole /\ (Taken(s, n) => n = s.len /\ ~s.part))
  /\ UNCHANGED <<state, priv, want, work, lost>>

Next ==
  \/ Ioctl \/ Open \/ Stop \/ SetMulticastList \/ SetMac
  \/ WqSetMulticastList \/ WqRestartNetFeed
  \/ \E s \in Sections : \E n \in (IF Split THEN 1 .. s.len ELSE {s.len}) : Callback(s, n)
  \/ state = "failed" /\ UNCHANGED vars

Spec == Init /\ [][Next]_vars

\* An interface that is down holds no feed and no filter of the demux, and one that is up
\* holds no filter its feed does not know: all it was given it gives back, in whatever
\* modes it ran, which of its filters it was refused, and what was queued meanwhile.
GivesBack ==
  /\ lost = 0
  /\ state = "down" => ~priv.feed
  /\ ~priv.feed => priv.multi = {} /\ ~priv.filter

\* Each frame passed to the network holds one datagram, all of it: dvb_net_sec
\* counts on one complete section in the first buffer.
WholeDatagrams == whole

----------------------------------------------------------------------------
(* GivesBack for every number of filters.  Its hypothesis on late work is  *)
(* the one the run has: what was queued runs before the interface goes     *)
(* down.                                                                   *)

\* What feed_stop relies on: the filters it is to release are the first num.
FiltersCounted(p) ==
  /\ p.feed => p.multi \subseteq 1 .. p.num
  /\ ~p.feed => p.multi = {} /\ ~p.filter

\* Only an interface that is up has a feed, or work to come that could start one.
RestsWhenNotUp ==
  /\ state # "up" => ~priv.feed /\ work = {}
  /\ state = "failed" => priv = Zero

WantOK == want \in [mode : Modes, count : 0 .. MaxCount]

NetInv ==
  /\ TypeOK
  /\ WantOK
  /\ FiltersCounted(priv)
  /\ RestsWhenNotUp
  /\ lost = 0

\* feed_stop gives back all that a slot whose filters are counted holds.
LEMMA StoppedClean ==
  ASSUME NEW p \in Priv, FiltersCounted(p)
  PROVE  /\ Stopped(p) \in Priv
         /\ ~Stopped(p).feed /\ ~Stopped(p).filter /\ Stopped(p).multi = {}
  BY DEF Stopped, Priv, FiltersCounted

\* feed_start leaves the filters of a slot that has none counted, whatever is refused.
LEMMA StartedCounted ==
  ASSUME MulticastMax \in Nat \ {0},
         NEW p \in Priv, p.multi = {}, NEW q \in Started(p)
  PROVE  q \in Priv /\ FiltersCounted(q)
  <1>1. p.num \in 0 .. MulticastMax /\ p.mode \in Modes
    BY DEF Priv
  <1>2. Noted(p) \in 0 .. MulticastMax
    BY <1>1 DEF Modes, Noted
  <1>3. Asked(p) \subseteq 1 .. Noted(p)
    BY <1>1 DEF Modes, Asked, Noted
  <1>4. 1 .. Noted(p) \subseteq 1 .. MulticastMax
    BY <1>2
  <1>5. Refused(p) \in Priv /\ FiltersCounted(Refused(p))
    BY DEF Priv, FiltersCounted, Refused
  <1>6. ASSUME NEW f \in BOOLEAN, NEW m \in SUBSET Asked(p)
        PROVE  Granted(p, f, m) \in Priv /\ FiltersCounted(Granted(p, f, m))
    <2>1. /\ Granted(p, f, m).multi = m
          /\ Granted(p, f, m).num = Noted(p)
          /\ Granted(p, f, m).feed
      BY DEF Priv, Granted
    <2>2. m \subseteq 1 .. Noted(p) /\ m \subseteq 1 .. MulticastMax
      BY <1>3, <1>4
    <2>3. Granted(p, f, m) \in Priv
      BY <1>2, <2>2 DEF Priv, Granted
    <2> QED BY <2>1, <2>2, <2>3 DEF FiltersCounted
  <1> QED BY <1>5, <1>6 DEF Started

\* What set_multicast_list stores of the list keeps the slot in its type and touches no filter.
LEMMA ListedKeeps ==
  ASSUME MulticastMax \in Nat \ {0}, MaxCount \in Nat, WantOK, NEW p \in Priv
  PROVE  Listed(p) \in Priv /\ Listed(p).multi = p.multi
  <1>1. want.mode \in Modes /\ want.count \in 0 .. MaxCount
    BY DEF WantOK
  <1>2. (IF want.count < MulticastMax THEN want.count ELSE MulticastMax) \in 0 .. MulticastMax
    BY <1>1
  <1> QED BY <1>1, <1>2 DEF Listed, Priv, Modes

LEMMA NetInit ==
  ASSUME MulticastMax \in Nat \ {0}, MaxCount \in Nat, Init
  PROVE  NetInv
  BY DEF Init, NetInv, TypeOK, WantOK, FiltersCounted, RestsWhenNotUp, Zero, Priv, Modes

LEMMA NetNext ==
  ASSUME MulticastMax \in Nat \ {0}, MaxCount \in Nat, LateWork = FALSE, NetInv, [Next]_vars
  PROVE  NetInv'
  <1> USE DEF NetInv, WantOK
  <1>0. /\ priv \in Priv /\ FiltersCounted(priv) /\ RestsWhenNotUp
        /\ state \in {"free", "failed", "up", "down"} /\ whole \in BOOLEAN /\ lost = 0
    BY DEF TypeOK
  <1>z. Zero \in Priv /\ FiltersCounted(Zero) /\ ~Zero.feed
    BY DEF Zero, Priv, Modes, FiltersCounted
  <1>s. /\ Stopped(priv) \in Priv
        /\ ~Stopped(priv).feed /\ ~Stopped(priv).filter /\ Stopped(priv).multi = {}
    BY <1>0, StoppedClean
  <1>1. CASE AddIf
    BY <1>0, <1>z, <1>1 DEF AddIf, TypeOK, RestsWhenNotUp
  <1>2. CASE Open
    <2>1. PICK p \in Started(priv) : priv' = [p EXCEPT !.in_use = 1]
      BY <1>2 DEF Open
    <2>2. ~priv.feed /\ priv.multi = {}
      BY <1>0, <1>2 DEF Open, RestsWhenNotUp, FiltersCounted
    <2>3. p \in Priv /\ FiltersCounted(p)
      BY <1>0, <2>1, <2>2, StartedCounted
    <2>4. priv' \in Priv /\ FiltersCounted(priv)'
      BY <2>1, <2>3 DEF Priv, FiltersCounted
    <2>5. lost' = 0 /\ state' = "up"
      BY <1>0, <1>2, <2>2 DEF Open, Loses
    <2> QED BY <1>0, <1>2, <2>4, <2>5 DEF Open, TypeOK, RestsWhenNotUp
  <1>3. CASE Stop
    <2>1. priv' = [Stopped(priv) EXCEPT !.in_use = 0] /\ state' = "down" /\ work' = {}
      BY <1>3 DEF Stop
    <2>2. priv' \in Priv /\ FiltersCounted(priv)' /\ ~priv'.feed
      BY <1>s, <2>1 DEF Priv, FiltersCounted
    <2> QED BY <1>0, <1>3, <2>1, <2>2 DEF Stop, TypeOK, RestsWhenNotUp
  <1>4. CASE SetMulticastList
    BY <1>0, <1>4 DEF SetMulticastList, TypeOK, RestsWhenNotUp, FiltersCounted
  <1>5. CASE SetMac
    BY <1>0, <1>5 DEF SetMac, TypeOK, RestsWhenNotUp, FiltersCounted
  <1>6. CASE WqSetMulticastList
    <2>1. state = "up"
      BY <1>0, <1>6 DEF WqSetMulticastList, RestsWhenNotUp
    <2>2. Listed(Stopped(priv)) \in Priv /\ Listed(Stopped(priv)).multi = {}
      BY <1>s, ListedKeeps
    <2>3. priv' \in Priv /\ FiltersCounted(priv')
      BY <1>6, <2>2, StartedCounted DEF WqSetMulticastList
    <2> QED BY <1>0, <1>6, <2>1, <2>3 DEF WqSetMulticastList, TypeOK, RestsWhenNotUp, FiltersCounted
  <1>7. CASE WqRestartNetFeed
    <2>1. state = "up"
      BY <1>0, <1>7 DEF WqRestartNetFeed, RestsWhenNotUp
    <2>2. priv' \in Priv /\ FiltersCounted(priv')
      BY <1>7, <1>s, <2>1, StartedCounted DEF WqRestartNetFeed
    <2> QED BY <1>0, <1>7, <2>1, <2>2 DEF WqRestartNetFeed, TypeOK, RestsWhenNotUp, FiltersCounted
  <1>8. CASE RemoveIf
    <2>1. work = {} /\ lost' = 0
      BY <1>0, <1>8 DEF RemoveIf, RestsWhenNotUp
    <2> QED BY <1>0, <1>z, <1>8, <2>1 DEF RemoveIf, TypeOK, RestsWhenNotUp, FiltersCounted
  <1>9. CASE \E s \in Sections : \E n \in (IF Split THEN 1 .. s.len ELSE {s.len}) : Callback(s, n)
    <2>1. UNCHANGED <<state, priv, want, work, lost>> /\ whole' \in BOOLEAN
      BY <1>9 DEF Callback
    <2> QED BY <1>0, <2>1 DEF TypeOK, RestsWhenNotUp, FiltersCounted
  <1>10. CASE UNCHANGED vars
    BY <1>0, <1>10 DEF vars, TypeOK, RestsWhenNotUp, FiltersCounted
  <1> QED BY <1>1, <1>2, <1>3, <1>4, <1>5, <1>6, <1>7, <1>8, <1>9, <1>10 DEF Next, Ioctl

\* Opening and closing, the work that keventd does in between and every refusal of the demux
\* leave no feed and no filter behind (dvb_net.c: feed_start, feed_stop, remove_if), provided
\* that keventd has run what was queued when the interface goes down.
THEOREM NetGivesBack ==
  ASSUME MulticastMax \in Nat \ {0}, MaxCount \in Nat, LateWork = FALSE
  PROVE  Spec => [](TypeOK /\ GivesBack)
  <1>1. Init => NetInv
    BY NetInit
  <1>2. NetInv /\ [Next]_vars => NetInv'
    BY NetNext
  <1>3. NetInv => TypeOK /\ GivesBack
    BY DEF NetInv, FiltersCounted, RestsWhenNotUp, GivesBack
  <1> QED BY <1>1, <1>2, <1>3, PTL DEF Spec
=============================================================================
