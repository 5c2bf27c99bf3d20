------------------------------ MODULE DvbDemux ------------------------------
(***************************************************************************)
(* The kernel API of the software demux (dvb_demux.c): the table of feeds, *)
(* the table of filters, the chain of filters of a section feed, the list  *)
(* of feeds the packet path walks and the owners of the decoder's streams. *)
(*                                                                         *)
(* Every operation runs under demux->mutex and is one action.  An operation*)
(* is stated twice: as what the code does whatever it is called with       *)
(* (SectionStop), and, in Next, with the protocol its two callers, dmxdev.c*)
(* and dvb_net.c, keep.  DmxDev composes the former.                       *)
(***************************************************************************)
EXTENDS Integers, Sequences, SequencesExt

CONSTANTS
  FeedNum,     \* demux->feednum
  FilterNum,   \* demux->filternum
  Pids,        \* the valid packet ids
  BadPid,      \* a packet id no feed may have
  Pes,         \* the decoder's streams: pes types below DMX_TS_PES_OTHER
  NoPid,       \* 0xffff
  None         \* the NULL pointer

ASSUME TablesAssumption == FeedNum \in Nat /\ FilterNum \in Nat

ASSUME NamesAssumption ==
  /\ NoPid \notin Pids
  /\ BadPid \notin Pids \cup {NoPid}
  /\ None \notin 1 .. FeedNum

Feeds   == 1 .. FeedNum
Filters == 1 .. FilterNum

VARIABLES
  feed,       \* demux->feed[]
  filter,     \* demux->filter[]
  feedList,   \* the feeds on demux->feed_list
  pesfilter,  \* demux->pesfilter[]
  hw          \* the feeds the driver's start_feed started and stop_feed did not stop

demux == <<feed, filter, feedList, pesfilter, hw>>

FeedStates   == {"FREE", "ALLOCATED", "READY", "GO"}
FilterStates == {"FREE", "READY"}

Feed == [state : FeedStates, type : {"TS", "SEC"}, pid : Pids \cup {NoPid},
         filtering : BOOLEAN, filters : Seq(Filters),
         decoder : BOOLEAN,          \* ts_type & TS_DECODER
         pes : Pes]                  \* pes_type

TypeOK ==
  /\ feed \in [Feeds -> Feed]
  /\ filter \in [Filters -> [state : FilterStates, feed : Feeds \cup {None}]]
  /\ feedList \subseteq Feeds
  /\ pesfilter \in [Pes -> Feeds \cup {None}]
  /\ hw \subseteq Feeds

\* dvb_dmx_init: vmalloc leaves ts_type and pes_type of a feed undefined.
Init ==
  /\ \E d \in [Feeds -> BOOLEAN], p \in [Feeds -> Pes] :
       feed = [f \in Feeds |->
                 [state |-> "FREE", type |-> "TS", pid |-> NoPid,
                  filtering |-> FALSE, filters |-> <<>>,
                  decoder |-> d[f], pes |-> p[f]]]
  /\ filter = [s \in Filters |-> [state |-> "FREE", feed |-> None]]
  /\ feedList = {}
  /\ pesfilter = [p \in Pes |-> None]
  /\ hw = {}

----------------------------------------------------------------------------
(* The tables are searched from slot 0 on.                                 *)

FirstFree(table, i) ==
  /\ table[i].state = "FREE"
  /\ \A j \in DOMAIN table : j < i => table[j].state # "FREE"

Full(table) == \A i \in DOMAIN table : table[i].state # "FREE"

----------------------------------------------------------------------------
(* Transport stream feeds.                                                 *)

TsAllocate(f, s) ==
  /\ FirstFree(feed, f) /\ FirstFree(filter, s)
  /\ feed' = [feed EXCEPT ![f] = [@ EXCEPT !.state = "ALLOCATED", !.type = "TS",
                                           !.pid = NoPid,
                                           !.filtering = FALSE,
                                           !.filters = <<s>>]]
  /\ filter' = [filter EXCEPT ![s] = [state |-> "READY", feed |-> f]]
  /\ UNCHANGED <<feedList, pesfilter, hw>>

\* No filter left: the feed taken already is given back.
TsAllocateFails(f) ==
  /\ FirstFree(feed, f) /\ Full(filter)
  /\ feed' = [feed EXCEPT ![f] = [@ EXCEPT !.type = "TS", !.pid = NoPid,
                                           !.filtering = FALSE]]
  /\ UNCHANGED <<filter, feedList, pesfilter, hw>>

\* The decoder's stream belongs to another feed: -EINVAL.
PesBusy(f, decoder, pes) == decoder /\ pesfilter[pes] \notin {None, f}

TsSet(f, pid, decoder, pes) ==
  /\ pid \in Pids /\ ~PesBusy(f, decoder, pes)
  /\ feed' = [feed EXCEPT ![f] = [@ EXCEPT !.state = "READY", !.pid = pid,
                                           !.decoder = decoder, !.pes = pes]]
  /\ feedList' = feedList \cup {f}
  /\ pesfilter' = IF decoder THEN [pesfilter EXCEPT ![pes] = f] ELSE pesfilter
  /\ UNCHANGED <<filter, hw>>

\* start_feed of the driver succeeded; when it fails nothing changes.
TsStart(f) ==
  /\ feed[f].state = "READY" /\ feed[f].type = "TS"
  /\ feed' = [feed EXCEPT ![f] = [@ EXCEPT !.state = "GO", !.filtering = TRUE]]
  /\ hw' = hw \cup {f}
  /\ UNCHANGED <<filter, feedList, pesfilter>>

TsStop(f) ==
  /\ feed[f].state = "GO"
  /\ feed' = [feed EXCEPT ![f] = [@ EXCEPT !.state = "ALLOCATED",
                                           !.filtering = FALSE]]
  /\ hw' = hw \ {f}
  /\ UNCHANGED <<filter, feedList, pesfilter>>

\* Wrong variant: the filter of the feed is not given back.
TsReleaseLeak(f) ==
  /\ feed[f].state # "FREE"
  /\ feed' = [feed EXCEPT ![f] = [@ EXCEPT !.state = "FREE", !.pid = NoPid]]
  /\ feedList' = feedList \ {f}
  /\ pesfilter' = IF feed[f].decoder THEN [pesfilter EXCEPT ![feed[f].pes] = None]
                                     ELSE pesfilter
  /\ UNCHANGED <<filter, hw>>

\* Wrong variant: the decoder's stream is not given back.
TsReleaseKeepsPes(f) ==
  /\ feed[f].state # "FREE"
  /\ feed' = [feed EXCEPT ![f] = [@ EXCEPT !.state = "FREE", !.pid = NoPid,
                                           !.filters = <<>>]]
  /\ filter' = [filter EXCEPT ![Head(feed[f].filters)].state = "FREE"]
  /\ feedList' = feedList \ {f}
  /\ UNCHANGED <<pesfilter, hw>>

\* ts_type and pes_type are those of the last set() on this slot, which is not
\* necessarily of the feed that is released.  (The code leaves feed->filter, which
\* is not read before the slot is allocated again.)
TsRelease(f) ==
  /\ feed[f].state # "FREE"
  /\ feed' = [feed EXCEPT ![f] = [@ EXCEPT !.state = "FREE", !.pid = NoPid,
                                           !.filters = <<>>]]
  /\ filter' = [filter EXCEPT ![Head(feed[f].filters)].state = "FREE"]
  /\ feedList' = feedList \ {f}
  /\ pesfilter' = IF feed[f].decoder THEN [pesfilter EXCEPT ![feed[f].pes] = None]
                                     ELSE pesfilter
  /\ UNCHANGED hw

----------------------------------------------------------------------------
(* Section feeds and their filters.                                        *)

SectionAllocate(f) ==
  /\ FirstFree(feed, f)
  /\ feed' = [feed EXCEPT ![f] = [@ EXCEPT !.state = "ALLOCATED",
                                           !.type = "SEC", !.pid = NoPid,
                                           !.filtering = FALSE,
                                           !.filters = <<>>]]
  /\ UNCHANGED <<filter, feedList, pesfilter, hw>>

\* Wrong variant: any packet id is taken.
SectionSetAnyPid(f, pid) ==
  /\ feed' = [feed EXCEPT ![f] = [@ EXCEPT !.state = "READY", !.pid = pid]]
  /\ feedList' = feedList \cup {f}
  /\ UNCHANGED <<filter, pesfilter, hw>>

SectionSet(f, pid) ==
  /\ pid \in Pids
  /\ feed' = [feed EXCEPT ![f] = [@ EXCEPT !.state = "READY", !.pid = pid]]
  /\ feedList' = feedList \cup {f}
  /\ UNCHANGED <<filter, pesfilter, hw>>

\* The new filter becomes the head of the chain.
FilterAllocate(f, s) ==
  /\ FirstFree(filter, s)
  /\ filter' = [filter EXCEPT ![s] = [state |-> "READY", feed |-> f]]
  /\ feed' = [feed EXCEPT ![f] = [@ EXCEPT !.filters = <<s>> \o feed[f].filters]]
  /\ UNCHANGED <<feedList, pesfilter, hw>>

SectionStart(f) ==
  /\ ~feed[f].filtering /\ feed[f].filters # <<>>
  /\ feed' = [feed EXCEPT ![f] = [@ EXCEPT !.state = "GO", !.filtering = TRUE]]
  /\ hw' = hw \cup {f}
  /\ UNCHANGED <<filter, feedList, pesfilter>>

\* Wrong variant: the driver is told, the feed is still marked as filtering.
SectionStopHalf(f) ==
  /\ feed' = [feed EXCEPT ![f] = [@ EXCEPT !.state = "READY"]]
  /\ hw' = hw \ {f}
  /\ UNCHANGED <<filter, feedList, pesfilter>>

\* There is no test of the state: the driver is told to stop in any case.
SectionStop(f) ==
  /\ feed' = [feed EXCEPT ![f] = [@ EXCEPT !.state = "READY", !.filtering = FALSE]]
  /\ hw' = hw \ {f}
  /\ UNCHANGED <<filter, feedList, pesfilter>>

\* A filter of another feed is refused.  A running feed would be stopped, which
\* waits for the mutex already held, and the walk for the predecessor needs the
\* filter in the chain: there is no step out of either.
FilterRelease(f, s) ==
  /\ filter[s].feed = f /\ ~feed[f].filtering
  /\ \E i \in 1 .. Len(feed[f].filters) :
       /\ feed[f].filters[i] = s
       /\ feed' = [feed EXCEPT ![f] = [@ EXCEPT !.filters = RemoveAt(feed[f].filters, i)]]
  /\ filter' = [filter EXCEPT ![s].state = "FREE"]
  /\ UNCHANGED <<feedList, pesfilter, hw>>

\* Wrong variant: the packet path still finds the released feed.
SectionReleaseListed(f) ==
  /\ feed[f].state # "FREE"
  /\ feed' = [feed EXCEPT ![f] = [@ EXCEPT !.state = "FREE", !.pid = NoPid]]
  /\ UNCHANGED <<filter, feedList, pesfilter, hw>>

SectionRelease(f) ==
  /\ feed[f].state # "FREE"
  /\ feed' = [feed EXCEPT ![f] = [@ EXCEPT !.state = "FREE", !.pid = NoPid]]
  /\ feedList' = feedList \ {f}
  /\ UNCHANGED <<filter, pesfilter, hw>>

----------------------------------------------------------------------------
(* The protocol of the callers: a feed is used between its allocation and  *)
(* its release, set once, stopped when it runs, and released when it does  *)
(* not run and, a section feed, when its filters are released.             *)

Held(f, type) == feed[f].state # "FREE" /\ feed[f].type = type

Fresh(f, type) == Held(f, type) /\ feed[f].state = "ALLOCATED" /\ f \notin feedList

TsNext(f) ==
  \/ \E s \in Filters : TsAllocate(f, s)
  \/ TsAllocateFails(f)
  \/ \E pid \in Pids \cup {BadPid}, decoder \in BOOLEAN, pes \in Pes :
       Fresh(f, "TS") /\ TsSet(f, pid, decoder, pes)
  \/ TsStart(f)
  \/ Held(f, "TS") /\ TsStop(f)
  \/ Held(f, "TS") /\ ~feed[f].filtering /\ TsRelease(f)

SectionNext(f) ==
  \/ SectionAllocate(f)
  \/ \E pid \in Pids \cup {BadPid} : Fresh(f, "SEC") /\ SectionSet(f, pid)
  \/ \E s \in Filters :
       Held(f, "SEC") /\ feed[f].state = "READY" /\ FilterAllocate(f, s)
  \/ Held(f, "SEC") /\ feed[f].state = "READY" /\ SectionStart(f)
  \/ Held(f, "SEC") /\ feed[f].filtering /\ SectionStop(f)
  \/ \E s \in Filters :
       /\ Held(f, "SEC") /\ filter[s].state = "READY"
       /\ FilterRelease(f, s)
  \/ Held(f, "SEC") /\ feed[f].filters = <<>> /\ SectionRelease(f)

Next == \E f \in Feeds : TsNext(f) \/ SectionNext(f)

Spec == Init /\ [][Next]_demux

----------------------------------------------------------------------------
(* What the packet path and the callers rely on.                           *)

Live(f) == feed[f].state # "FREE"

\* The packet path (a bottom half walking feed_list) only ever meets feeds a
\* caller holds, with a packet id, and misses none that runs.
ListSound ==
  \A f \in Feeds :
    /\ f \in feedList => Live(f) /\ feed[f].pid # NoPid
    /\ feed[f].state \in {"READY", "GO"} => f \in feedList

\* No filter is shared, lost or left behind: a filter is in use exactly while
\* it is, once, in the chain of the one live feed it points to.
ChainsSound ==
  /\ \A f \in Feeds : Live(f) =>
       \A i \in 1 .. Len(feed[f].filters) :
         /\ filter[feed[f].filters[i]] = [state |-> "READY", feed |-> f]
         /\ \A j \in 1 .. Len(feed[f].filters) :
              feed[f].filters[i] = feed[f].filters[j] => i = j
  /\ \A s \in Filters : filter[s].state # "FREE" =>
       /\ filter[s].feed \in Feeds
       /\ Live(filter[s].feed)
       /\ \E i \in 1 .. Len(feed[filter[s].feed].filters) :
            feed[filter[s].feed].filters[i] = s

\* "Set to non-zero when filtering in progress" (demux.h): the flag the packet
\* path tests agrees with the state and with what the driver was told.
FilteringTrue ==
  \A f \in Feeds :
    /\ feed[f].filtering <=> f \in hw
    /\ feed[f].filtering <=> feed[f].state = "GO"

\* A feed that owns a stream of the decoder is live, and is the one that asked
\* for it: no stream stays owned by a slot that was given back.
OwnersLive ==
  \A p \in Pes : pesfilter[p] # None =>
    LET f == feed[pesfilter[p]]
    IN  f.state # "FREE" /\ f.type = "TS" /\ f.decoder /\ f.pes = p

\* A feed set up to write a stream of the decoder keeps that stream until it
\* is released, so that set() refuses the stream to every other feed.
OwnerKept ==
  \A f \in Feeds :
    /\ feed[f].state \in {"READY", "GO"} /\ feed[f].type = "TS" /\ feed[f].decoder
    => pesfilter[feed[f].pes] = f
=============================================================================
