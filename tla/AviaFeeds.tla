----------------------------- MODULE AviaFeeds -----------------------------
(***************************************************************************)
(* Feeds in the AViA demux: start_feed and stop_feed of the driver         *)
(* (avia_gt_napi.c), its queues (avia_gt_dmx.c) and the tables of the      *)
(* demux processor (avia_gt_ucode.c).  A feed of the demux API gets a      *)
(* queue and an entry of the pid table; the section feeds also a block of  *)
(* the filter table.  The processor delivers a pid by one entry only, so   *)
(* a feed whose pid the decoder uses is switched off and its user is given *)
(* what the queue of the decoder receives.                                 *)
(*                                                                         *)
(* Every operation runs with the mutex of the demux held.  All that it     *)
(* changes is one record, and the functions below are its calls.           *)
(***************************************************************************)
EXTENDS Integers, FiniteSets, FiniteSetsExt

CONSTANTS
  Feeds,     \* feeds of the demux API
  Pids,
  DecoderPids, SectionPids,  \* the pids of sections are no pids of the decoder
  LastUser,  \* queues are 0 (video) and 1 .. LastUser (for users)
  MaxFeed,   \* entries of the pid table (32)
  Slots,     \* entries of the filter table (32)
  Filters,   \* how many filters a section feed needs; 0: the hardware cannot filter it
  CcErrors   \* whether the processor reports lost packets

VARIABLES
  feed,   \* what runs for each feed of the API: Idle or [kind, pid, queue]
  fe,     \* the frontend that is connected: "hw" or "mem"
  dmx     \* the queues and tables of the demux

vars == <<feed, fe, dmx>>

Queues == 0 .. LastUser
System == {0}
User == Queues \ System
Kinds == {"video", "record", "section"}
Nobody == 0 - 1

PidsOf(kind) == CASE kind = "video" -> DecoderPids [] kind = "section" -> SectionPids
                  [] OTHER -> Pids

Pick(S) == IF S = {} THEN Nobody ELSE Min(S)

Unused == [queue |-> Nobody, pid |-> Nobody, tap |-> FALSE, active |-> FALSE,
           section |-> Nobody, count |-> 0]

Idle == [kind |-> "none", pid |-> Nobody, queue |-> Nobody]

FreeQueueRec == [busy |-> FALSE, running |-> FALSE, irq |-> FALSE, pid |-> Nobody,
                 mode |-> "TS", feed |-> Nobody, ts |-> Nobody]

Init ==
  /\ feed = [d \in Feeds |-> Idle]
  /\ fe = "hw"
  /\ dmx = [q |-> [n \in Queues |-> FreeQueueRec], client |-> Nobody,
            uc |-> [i \in 0 .. MaxFeed - 1 |-> Unused], map |-> [i \in 0 .. Slots - 1 |-> Nobody]]

\* ids of pids are numbers, to tell them from no pid
TypeOK ==
  /\ fe \in {"hw", "mem"}
  /\ feed \in [Feeds -> [kind : Kinds \cup {"none"}, pid : Pids \cup {Nobody},
                       queue : Queues \cup {Nobody}]]
  /\ dmx.client \in User \cup {Nobody}
  /\ dmx.q \in [Queues -> [busy : BOOLEAN, running : BOOLEAN, irq : BOOLEAN,
                           pid : Pids \cup {Nobody}, mode : {"TS", "PES", "SECTION"},
                           feed : -1 .. MaxFeed - 1, ts : Pids \cup {Nobody}]]
  /\ \A i \in DOMAIN dmx.map : dmx.map[i] \in -1 .. Slots - 1

----------------------------------------------------------------------------
(* The demux processor.                                                    *)

\* pid2feedidx: the first entry for pid that is not one of a tap.
FeedOf(s, pid) == Pick({i \in DOMAIN s.uc : s.uc[i].queue # Nobody /\ ~s.uc[i].tap /\ s.uc[i].pid = pid})

\* The blocks of free filters: [first, length].
Runs(s) ==
  {r \in (0 .. Slots - 1) \X (1 .. Slots) :
     /\ r[1] + r[2] <= Slots
     /\ \A i \in r[1] .. r[1] + r[2] - 1 : s.map[i] = Nobody
     /\ r[1] = 0 \/ s.map[r[1] - 1] # Nobody
     /\ r[1] + r[2] = Slots \/ s.map[r[1] + r[2]] # Nobody}

\* alloc_section_filter: the shortest block that holds n filters, the first of these.
BestFit(s, n) ==
  LET fit == {r \in Runs(s) : r[2] >= n}
  IN  IF fit = {} THEN Nobody
      ELSE Min({r[1] : r \in {x \in fit : \A y \in fit : x[2] <= y[2]}})

Reserve(s, e, n) == [s EXCEPT !.map = [i \in DOMAIN @ |-> IF i \in e .. e + n - 1 THEN e ELSE @[i]]]

FreeFilter(s, e) ==
  IF \E i \in DOMAIN s.uc : s.uc[i].section = e THEN s
  ELSE [s EXCEPT !.map = [i \in DOMAIN @ |-> IF @[i] = e THEN Nobody ELSE @[i]]]

\* Wrong variant: the decoder's feed may be marked, too.
AllocFeedTaps(s, i, n, pid, section, count) ==
  [s EXCEPT !.uc[i] = [queue |-> n, pid |-> pid, tap |-> FeedOf(s, pid) # Nobody,
                       active |-> FALSE, section |-> section, count |-> count],
            !.q[n].feed = i]

\* alloc_generic_feed: a user's feed for a pid that has one already is marked as a tap.
AllocFeed(s, i, n, pid, section, count) ==
  [s EXCEPT !.uc[i] = [queue |-> n, pid |-> pid, tap |-> n \in User /\ FeedOf(s, pid) # Nobody,
                       active |-> FALSE, section |-> section, count |-> count],
            !.q[n].feed = i]

StartFeed(s, i, tap) ==
  IF s.uc[i].queue = Nobody THEN s
  ELSE [s EXCEPT !.uc[i].active = @ \/ tap \/ ~s.uc[i].tap]

\* Wrong variant: the filters of a section feed are not freed.
StopFeedKeeps(s, i, remove) ==
  IF s.uc[i].queue = Nobody THEN s
  ELSE IF ~remove THEN [s EXCEPT !.uc[i].active = FALSE]
  ELSE [s EXCEPT !.uc[i] = Unused]

\* stop_feed: with remove the entry is free again, and its filters if no entry uses them.
StopFeed(s, i, remove) ==
  IF s.uc[i].queue = Nobody THEN s
  ELSE IF ~remove THEN [s EXCEPT !.uc[i].active = FALSE]
  ELSE LET t == [s EXCEPT !.uc[i] = Unused]
       IN  IF s.uc[i].section = Nobody THEN t ELSE FreeFilter(t, s.uc[i].section)

OfQueue(s, n) == {i \in DOMAIN s.uc : s.uc[i].queue = n}
StartQueueFeeds(s, n) == FoldSet(LAMBDA i, t : StartFeed(t, i, FALSE), s, OfQueue(s, n))
StopQueueFeeds(s, n)  == FoldSet(LAMBDA i, t : StopFeed(t, i, TRUE), s, OfQueue(s, n))

----------------------------------------------------------------------------
(* The queues.                                                             *)

\* Wrong variant: the interrupt stays on when the client leaves.
RescanKeeps(s) ==
  LET new == Pick({u \in User : s.q[u].running /\ s.q[0].pid # Nobody
                                  /\ s.q[u].pid = s.q[0].pid /\ s.q[u].mode = s.q[0].mode})
  IN  [s EXCEPT !.client = new, !.q[0].irq = @ \/ new # Nobody]

\* enable_disable_system_queue_irqs: the first user that wants what the decoder's queue
\* receives becomes its client, and its interrupt runs while it has one.
Rescan(s) ==
  LET new == Pick({u \in User : s.q[u].running /\ s.q[0].pid # Nobody
                                  /\ s.q[u].pid = s.q[0].pid /\ s.q[u].mode = s.q[0].mode})
      on  == CASE new # Nobody /\ s.client = Nobody -> TRUE
               [] new = Nobody /\ s.client # Nobody -> FALSE
               [] OTHER -> s.q[0].irq
  IN  [s EXCEPT !.client = new, !.q[0].irq = on,
                !.q[0].running = IF (new = Nobody) = (s.client = Nobody) THEN @ ELSE on]

Interrupts(s, n, on) ==
  LET t == [s EXCEPT !.q[n].running = on]
  IN  [(IF n \in User THEN Rescan(t) ELSE t) EXCEPT !.q[n].irq = on]

QueueStart(s, n, mode, pid) ==
  LET t == [s EXCEPT !.q[n].pid = pid, !.q[n].mode = mode]
  IN  StartQueueFeeds(IF n \in System THEN Rescan(t) ELSE t, n)

QueueStop(s, n) == StopQueueFeeds(Interrupts([s EXCEPT !.q[n].pid = Nobody], n, FALSE), n)

FreeQueue(s, n) == [Interrupts(s, n, FALSE) EXCEPT !.q[n].busy = FALSE]

\* alloc_queue: the queue of the decoder or the first that is free, Nobody when busy.
QueueFor(s, kind) == Pick({n \in IF kind = "video" THEN System ELSE User : ~s.q[n].busy})

\* The user's feed for a pid is switched off while the decoder has one, and on again after.
Tap(s, pid, start) ==
  LET u == Pick({n \in User : s.q[n].ts = pid})
  IN  IF u = Nobody THEN s
      ELSE IF start THEN StartFeed(s, s.q[u].feed, TRUE) ELSE StopFeed(s, s.q[u].feed, FALSE)

----------------------------------------------------------------------------
(* start_feed and stop_feed.                                               *)

\* What starting a feed leaves: [dmx, queue], with queue = Nobody when it is refused.
\* All but sections are transport streams here (mode = 1).
Started(kind, pid, count) ==
  LET n    == QueueFor(dmx, kind)
      i    == Pick({x \in DOMAIN dmx.uc : dmx.uc[x].queue = Nobody})
      e    == IF kind = "section" /\ count > 0 THEN BestFit(dmx, count) ELSE Nobody
      mode == IF e = Nobody THEN "TS" ELSE "SECTION"
      held == IF e = Nobody THEN dmx ELSE Reserve(dmx, e, count)
      a    == AllocFeed([held EXCEPT !.q[n].busy = TRUE], i, n, pid, e,
                        IF e = Nobody THEN 0 ELSE count)
      b    == IF kind = "section" THEN a ELSE [a EXCEPT !.q[n].ts = pid]
      c    == QueueStart(b, n, mode, pid)
  IN  IF n = Nobody \/ i = Nobody THEN [dmx |-> dmx, queue |-> Nobody]
      ELSE [dmx |-> IF kind = "video" THEN Tap(c, pid, FALSE) ELSE Interrupts(c, n, TRUE),
            queue |-> n]

\* With the memory as frontend only the decoder gets a queue; the rest is filtered in software.
NeedsQueue(kind) == fe = "hw" \/ kind = "video"

StartFeedOf(d, kind, pid, count) ==
  /\ feed[d] = Idle
  /\ IF NeedsQueue(kind)
     THEN LET r == Started(kind, pid, count)
          IN  /\ dmx' = r.dmx
              /\ feed' = IF r.queue = Nobody THEN feed
                         ELSE [feed EXCEPT ![d] = [kind |-> kind, pid |-> pid, queue |-> r.queue]]
     ELSE /\ feed' = [feed EXCEPT ![d] = [kind |-> kind, pid |-> pid, queue |-> Nobody]]
          /\ UNCHANGED dmx
  /\ UNCHANGED fe

Stopped(s, f) ==
  LET a == IF f.kind = "video" THEN Tap(s, f.pid, TRUE) ELSE s
  IN  FreeQueue([QueueStop(a, f.queue) EXCEPT !.q[f.queue].ts = Nobody], f.queue)

StopFeedOf(d) ==
  /\ feed[d] # Idle
  /\ dmx' = IF NeedsQueue(feed[d].kind) THEN Stopped(dmx, feed[d]) ELSE dmx
  /\ feed' = [feed EXCEPT ![d] = Idle]
  /\ UNCHANGED fe

\* connect_frontend and disconnect_frontend.  The code has a note that feeds should be
\* stopped first; here they are.
Connect ==
  /\ \A d \in Feeds : feed[d] = Idle
  /\ fe' = IF fe = "hw" THEN "mem" ELSE "hw"
  /\ UNCHANGED <<feed, dmx>>

\* handle_msgq: the processor lost a packet of a pid, the feed is started again.
CcError(pid) ==
  LET i == FeedOf(dmx, pid)
  IN  /\ CcErrors /\ i # Nobody
      /\ \E x \in DOMAIN dmx.uc : dmx.uc[x].active /\ dmx.uc[x].pid = pid
      /\ dmx' = StartFeed(StopFeed(dmx, i, FALSE), i, FALSE)
      /\ UNCHANGED <<feed, fe>>

Next ==
  \/ \E d \in Feeds, kind \in Kinds, count \in Filters :
       \E pid \in PidsOf(kind) : StartFeedOf(d, kind, pid, count)
  \/ \E d \in Feeds : StopFeedOf(d)
  \/ Connect
  \/ \E pid \in Pids : CcError(pid)

Spec == Init /\ [][Next]_vars

----------------------------------------------------------------------------
(* Properties.                                                             *)

\* Whatever was refused or stopped in whatever order, no queue, no entry of the pid table
\* and no filter is held for nothing, and no filter is held twice.
NothingOrphaned ==
  /\ \A n \in Queues : dmx.q[n].busy <=> \E d \in Feeds : feed[d] # Idle /\ feed[d].queue = n
  /\ \A i \in DOMAIN dmx.uc : dmx.uc[i].queue # Nobody => dmx.q[dmx.uc[i].queue].busy
  /\ \A e \in DOMAIN dmx.map :
       LET users == {i \in DOMAIN dmx.uc : e \in dmx.uc[i].section .. dmx.uc[i].section + dmx.uc[i].count - 1
                                            /\ dmx.uc[i].section # Nobody}
       IN  /\ Cardinality(users) = (IF dmx.map[e] = Nobody THEN 0 ELSE 1)
           /\ \A i \in users : dmx.map[e] = dmx.uc[i].section

\* The processor cannot handle two active entries with the same pid (avia_gt_dmx.c:998).  It
\* gets them from a continuity error of a pid that is tapped off, and from a second recorder
\* that starts after the decoder has left: no run checks it.
OneActivePerPid ==
  \A i, j \in DOMAIN dmx.uc :
    dmx.uc[i].active /\ dmx.uc[j].active /\ dmx.uc[i].pid = dmx.uc[j].pid => i = j

\* Whoever else wants its pid, and whatever packets are lost: what the decoder asked for
\* is delivered to it.
DecoderFed ==
  \A d \in Feeds : feed[d].kind = "video" =>
    \E i \in DOMAIN dmx.uc : dmx.uc[i].queue = 0 /\ dmx.uc[i].active /\ dmx.uc[i].pid = feed[d].pid

\* A queue whose interrupt is on has a user, and the interrupt of the decoder's queue is
\* on for a client only.
NoStrayInterrupt ==
  /\ \A u \in User : dmx.q[u].irq <=> dmx.q[u].running /\ dmx.q[u].busy
  /\ dmx.q[0].irq => dmx.client # Nobody

\* Interrupts of the decoder's queue are enabled while a client wants the same pid, which is what
\* the comment of avia_gt_dmx_enable_disable_system_queue_irqs says of it.
ClientServed ==
  \A u \in User : dmx.q[u].running /\ dmx.q[0].busy /\ dmx.q[u].pid = dmx.q[0].pid
                    /\ dmx.q[u].mode = dmx.q[0].mode => dmx.q[0].irq
=============================================================================
