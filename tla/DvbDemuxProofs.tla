--------------------------- MODULE DvbDemuxProofs ---------------------------
(***************************************************************************)
(* Proofs, for tables of any size, that the invariants of DvbDemux hold.   *)
(***************************************************************************)
EXTENDS DvbDemux, SequenceTheorems, TLAPS

\* A live transport stream feed has the one filter it was allocated with.
TsChains ==
  \A f \in Feeds : Live(f) /\ feed[f].type = "TS" => Len(feed[f].filters) = 1

\* A section feed that runs has a filter, so that it is not released.
SectionRuns ==
  \A f \in Feeds : feed[f].filtering /\ feed[f].type = "SEC" => feed[f].filters # <<>>

\* A feed that owns a stream was set: it is on the list.
OwnersListed ==
  \A p \in Pes : pesfilter[p] # None => pesfilter[p] \in feedList

\* The two halves of ChainsSound.
ChainsPoint ==
  \A f \in Feeds : Live(f) =>
    \A i \in 1 .. Len(feed[f].filters) :
      /\ filter[feed[f].filters[i]] = [state |-> "READY", feed |-> f]
      /\ \A j \in 1 .. Len(feed[f].filters) :
           feed[f].filters[i] = feed[f].filters[j] => i = j

FiltersChained ==
  \A s \in Filters : filter[s].state # "FREE" =>
    /\ filter[s].feed \in Feeds
    /\ Live(filter[s].feed)
    /\ \E i \in 1 .. Len(feed[filter[s].feed].filters) :
         feed[filter[s].feed].filters[i] = s

IInv ==
  /\ TypeOK
  /\ ListSound /\ FilteringTrue
  /\ TsChains /\ SectionRuns
  /\ OwnersLive /\ OwnersListed
  /\ ChainsPoint /\ FiltersChained

----------------------------------------------------------------------------

\* What is left of a sequence without its i-th element.
LEMMA RemoveAtProperties ==
  ASSUME NEW S, NEW c \in Seq(S), NEW i \in 1 .. Len(c)
  PROVE  /\ RemoveAt(c, i) \in Seq(S)
         /\ Len(RemoveAt(c, i)) = Len(c) - 1
         /\ \A j \in 1 .. Len(c) - 1 : RemoveAt(c, i)[j] = IF j < i THEN c[j] ELSE c[j + 1]
<1> DEFINE a == SubSeq(c, 1, i - 1)
           b == SubSeq(c, i + 1, Len(c))
<1>1. Len(c) \in Nat /\ i \in Nat
  OBVIOUS
<1>2. /\ a \in Seq(S) /\ Len(a) = i - 1
      /\ \A j \in 1 .. i - 1 : a[j] = c[j]
  BY <1>1, SubSeqProperties
<1>3. /\ b \in Seq(S) /\ Len(b) = Len(c) - i
      /\ \A j \in 1 .. Len(c) - i : b[j] = c[i + j]
  BY <1>1, SubSeqProperties
<1> HIDE DEF a, b
<1>4. /\ a \o b \in Seq(S) /\ Len(a \o b) = Len(c) - 1
      /\ \A j \in 1 .. Len(c) - 1 : (a \o b)[j] = IF j < i THEN c[j] ELSE c[j + 1]
  <2>1. a \o b \in Seq(S) /\ Len(a \o b) = Len(a) + Len(b)
    BY <1>2, <1>3, ConcatProperties
  <2>2. ASSUME NEW j \in 1 .. Len(c) - 1
        PROVE  (a \o b)[j] = IF j < i THEN c[j] ELSE c[j + 1]
    <3>1. CASE j < i
      BY <1>1, <1>2, <1>3, <3>1, ConcatProperties
    <3>2. CASE ~(j < i)
      <4>1. (a \o b)[j] = b[j - Len(a)]
        BY <1>1, <1>2, <1>3, <3>2, ConcatProperties
      <4>2. j - Len(a) \in 1 .. Len(c) - i /\ i + (j - Len(a)) = j + 1
        BY <1>1, <1>2, <3>2
      <4> QED
        BY <1>3, <3>2, <4>1, <4>2
    <3> QED
      BY <3>1, <3>2
  <2> QED
    BY <1>1, <1>2, <1>3, <2>1, <2>2
<1> QED
  BY <1>4 DEF RemoveAt, a, b

\* allocate_ts_feed keeps the invariant.
LEMMA TsAllocateKeeps ==
  ASSUME IInv, NEW f \in Feeds, NEW s \in Filters, TsAllocate(f, s)
  PROVE  IInv'
<1> USE NamesAssumption
<1> DEFINE r == [feed[f] EXCEPT !.state = "ALLOCATED", !.type = "TS", !.pid = NoPid,
                               !.filtering = FALSE, !.filters = <<s>>]
<1>1. /\ feed' = [feed EXCEPT ![f] = r]
      /\ feed[f] \in Feed
  BY DEF IInv, TypeOK, TsAllocate
<1>0. <<s>> \in Seq(Filters)
  OBVIOUS
<1>2. r \in Feed
  BY <1>1, <1>0 DEF IInv, TypeOK, Feed, FeedStates, TsAllocate
<1>3. /\ r.state = "ALLOCATED" /\ r.type = "TS" /\ r.pid = NoPid
      /\ r.filtering = FALSE /\ r.filters = <<s>>
  BY <1>1 DEF Feed
<1>4. r.decoder = feed[f].decoder /\ r.pes = feed[f].pes
  BY <1>1 DEF Feed
<1> HIDE DEF r
<1>5. /\ feed'[f] = r
      /\ \A g \in Feeds : g # f => feed'[g] = feed[g]
  BY <1>1 DEF IInv, TypeOK
<1>6. TypeOK'
  BY <1>1, <1>2 DEF IInv, TypeOK, TsAllocate, FilterStates
<1>7. ListSound'
  BY <1>3, <1>4, <1>5
  DEF IInv, TypeOK, ListSound, Live, FilteringTrue, TsAllocate, FirstFree
<1>8. FilteringTrue'
  BY DEF IInv, FilteringTrue, TsAllocate, FirstFree
<1>9. TsChains'
  BY DEF IInv, TsChains, Live, TsAllocate
<1>10. SectionRuns'
  BY <1>3, <1>5 DEF IInv, SectionRuns
<1>11. OwnersLive'
  BY DEF IInv, OwnersLive, TsAllocate
<1>12. OwnersListed'
  BY DEF IInv, OwnersListed, TsAllocate
<1>13. ChainsPoint'
  BY <1>3, <1>4, <1>5
  DEF IInv, TypeOK, ChainsPoint, FiltersChained, TsChains, Live, TsAllocate,
      FirstFree
<1>14. FiltersChained'
  BY <1>3, <1>4, <1>5
  DEF IInv, TypeOK, ChainsPoint, FiltersChained, TsChains, Live, TsAllocate,
      FirstFree
<1> QED
  BY <1>6, <1>7, <1>8, <1>9, <1>10, <1>11, <1>12, <1>13, <1>14 DEF IInv

\* allocate_ts_feed without a filter left keeps the invariant.
LEMMA TsAllocateFailsKeeps ==
  ASSUME IInv, NEW f \in Feeds, TsAllocateFails(f)
  PROVE  IInv'
<1> USE NamesAssumption
<1> DEFINE r == [feed[f] EXCEPT !.type = "TS", !.pid = NoPid,
                               !.filtering = FALSE]
<1>1. /\ feed' = [feed EXCEPT ![f] = r]
      /\ feed[f] \in Feed
  BY DEF IInv, TypeOK, TsAllocateFails
<1>2. r \in Feed
  BY <1>1 DEF IInv, Feed, FeedStates, TsAllocateFails
<1>3. r.type = "TS" /\ r.pid = NoPid /\ r.filtering = FALSE
  OBVIOUS
<1>4. /\ r.state = feed[f].state /\ r.filters = feed[f].filters
      /\ r.decoder = feed[f].decoder /\ r.pes = feed[f].pes
  BY <1>1 DEF Feed
<1> HIDE DEF r
<1>5. /\ feed'[f] = r
      /\ \A g \in Feeds : g # f => feed'[g] = feed[g]
  BY <1>1 DEF IInv, TypeOK
<1>6. TypeOK'
  BY <1>1, <1>2 DEF IInv, TypeOK, TsAllocateFails, FilterStates
<1>7. ListSound'
  BY <1>3, <1>4, <1>5
  DEF IInv, TypeOK, ListSound, Live, FilteringTrue, TsAllocateFails, FirstFree
<1>8. FilteringTrue'
  BY DEF IInv, FilteringTrue, TsAllocateFails, FirstFree
<1>9. TsChains'
  BY DEF IInv, TsChains, Live, TsAllocateFails, FirstFree
<1>10. SectionRuns'
  BY <1>3, <1>5 DEF IInv, SectionRuns
<1>11. OwnersLive'
  BY DEF IInv, OwnersLive, TsAllocateFails
<1>12. OwnersListed'
  BY DEF IInv, OwnersListed, TsAllocateFails
<1>13. ChainsPoint'
  BY <1>3, <1>4, <1>5
  DEF IInv, TypeOK, ChainsPoint, FiltersChained, TsChains, Live, TsAllocateFails,
      FirstFree
<1>14. FiltersChained'
  BY <1>3, <1>4, <1>5
  DEF IInv, TypeOK, ChainsPoint, FiltersChained, TsChains, Live, TsAllocateFails,
      FirstFree
<1> QED
  BY <1>6, <1>7, <1>8, <1>9, <1>10, <1>11, <1>12, <1>13, <1>14 DEF IInv

\* set of a transport stream feed keeps the invariant.
LEMMA TsSetKeeps ==
  ASSUME IInv, NEW f \in Feeds, NEW pid, NEW d \in BOOLEAN, NEW p \in Pes,
         Fresh(f, "TS"), TsSet(f, pid, d, p)
  PROVE  IInv'
<1> USE NamesAssumption
<1> DEFINE r == [feed[f] EXCEPT !.state = "READY", !.pid = pid,
                               !.decoder = d, !.pes = p]
<1>1. /\ feed' = [feed EXCEPT ![f] = r]
      /\ feed[f] \in Feed
  BY DEF IInv, TypeOK, TsSet
<1>2. r \in Feed
  BY <1>1 DEF IInv, Feed, FeedStates, TsSet, Fresh
<1>3. r.state = "READY" /\ r.pid = pid /\ r.decoder = d /\ r.pes = p
  OBVIOUS
<1>4. /\ r.type = feed[f].type /\ r.filtering = feed[f].filtering
      /\ r.filters = feed[f].filters
  BY <1>1 DEF Feed
<1> HIDE DEF r
<1>5. /\ feed'[f] = r
      /\ \A g \in Feeds : g # f => feed'[g] = feed[g]
  BY <1>1 DEF IInv, TypeOK
<1>6. TypeOK'
  BY <1>1, <1>2 DEF IInv, TypeOK, TsSet, FilterStates
<1>7. ListSound'
  BY <1>3, <1>4, <1>5 DEF IInv, ListSound, Live, TsSet, Held
<1>8. FilteringTrue'
  BY DEF IInv, FilteringTrue, TsSet, Fresh
<1>9. TsChains'
  BY <1>4, <1>5 DEF IInv, TsChains, Live, Fresh
<1>10. SectionRuns'
  BY <1>4, <1>5 DEF IInv, SectionRuns
<1>11. OwnersLive'
  BY <1>3, <1>4, <1>5
  DEF IInv, TypeOK, OwnersLive, OwnersListed, TsSet, PesBusy, Fresh, Held
<1>12. OwnersListed'
  BY DEF IInv, OwnersListed, TsSet
<1>13. ChainsPoint'
  BY <1>3, <1>4, <1>5
  DEF IInv, TypeOK, ChainsPoint, FiltersChained, TsChains, Live, TsSet, Fresh, Held
<1>14. FiltersChained'
  BY <1>3, <1>4, <1>5
  DEF IInv, TypeOK, ChainsPoint, FiltersChained, TsChains, Live, TsSet, Fresh, Held
<1> QED
  BY <1>6, <1>7, <1>8, <1>9, <1>10, <1>11, <1>12, <1>13, <1>14 DEF IInv

\* start_filtering of a transport stream feed keeps the invariant.
LEMMA TsStartKeeps ==
  ASSUME IInv, NEW f \in Feeds, TsStart(f)
  PROVE  IInv'
<1> USE NamesAssumption
<1> DEFINE r == [feed[f] EXCEPT !.state = "GO", !.filtering = TRUE]
<1>1. /\ feed' = [feed EXCEPT ![f] = r]
      /\ feed[f] \in Feed
  BY DEF IInv, TypeOK, TsStart
<1>2. r \in Feed
  BY <1>1 DEF IInv, Feed, FeedStates, TsStart
<1>3. r.state = "GO" /\ r.filtering = TRUE
  OBVIOUS
<1>4. /\ r.type = feed[f].type /\ r.pid = feed[f].pid /\ r.filters = feed[f].filters
      /\ r.decoder = feed[f].decoder /\ r.pes = feed[f].pes
  BY <1>1 DEF Feed
<1> HIDE DEF r
<1>5. /\ feed'[f] = r
      /\ \A g \in Feeds : g # f => feed'[g] = feed[g]
  BY <1>1 DEF IInv, TypeOK
<1>6. TypeOK'
  BY <1>1, <1>2 DEF IInv, TypeOK, TsStart, FilterStates
<1>7. ListSound'
  BY <1>4, <1>5 DEF IInv, ListSound, Live, TsStart
<1>8. FilteringTrue'
  BY <1>3, <1>5 DEF IInv, FilteringTrue, TsStart
<1>9. TsChains'
  BY DEF IInv, TsChains, Live, TsStart
<1>10. SectionRuns'
  BY DEF IInv, SectionRuns, TsStart
<1>11. OwnersLive'
  BY DEF IInv, OwnersLive, TsStart
<1>12. OwnersListed'
  BY DEF IInv, OwnersListed, TsStart
<1>13. ChainsPoint'
  BY <1>3, <1>4, <1>5
  DEF IInv, TypeOK, ChainsPoint, FiltersChained, TsChains, Live, TsStart
<1>14. FiltersChained'
  BY <1>3, <1>4, <1>5
  DEF IInv, TypeOK, ChainsPoint, FiltersChained, TsChains, Live, TsStart
<1> QED
  BY <1>6, <1>7, <1>8, <1>9, <1>10, <1>11, <1>12, <1>13, <1>14 DEF IInv

\* stop_filtering of a transport stream feed keeps the invariant.
LEMMA TsStopKeeps ==
  ASSUME IInv, NEW f \in Feeds, Held(f, "TS"), TsStop(f)
  PROVE  IInv'
<1> USE NamesAssumption
<1> DEFINE r == [feed[f] EXCEPT !.state = "ALLOCATED", !.filtering = FALSE]
<1>1. /\ feed' = [feed EXCEPT ![f] = r]
      /\ feed[f] \in Feed
  BY DEF IInv, TypeOK, TsStop
<1>2. r \in Feed
  BY <1>1 DEF IInv, TypeOK, Feed, FeedStates, TsStop, Held
<1>3. r.state = "ALLOCATED" /\ r.filtering = FALSE
  OBVIOUS
<1>4. /\ r.type = feed[f].type /\ r.pid = feed[f].pid /\ r.filters = feed[f].filters
      /\ r.decoder = feed[f].decoder /\ r.pes = feed[f].pes
  BY <1>1 DEF Feed
<1> HIDE DEF r
<1>5. /\ feed'[f] = r
      /\ \A g \in Feeds : g # f => feed'[g] = feed[g]
  BY <1>1 DEF IInv, TypeOK
<1>6. TypeOK'
  BY <1>1, <1>2 DEF IInv, TypeOK, TsStop, FilterStates
<1>7. ListSound'
  BY <1>3, <1>4, <1>5 DEF IInv, ListSound, Live, TsStop
<1>8. FilteringTrue'
  BY <1>3, <1>4, <1>5 DEF IInv, TypeOK, FilteringTrue, SectionRuns, TsStop, Held
<1>9. TsChains'
  BY <1>4, <1>5 DEF IInv, TsChains, Live, Held
<1>10. SectionRuns'
  BY <1>3, <1>5 DEF IInv, SectionRuns
<1>11. OwnersLive'
  BY DEF IInv, OwnersLive, TsStop
<1>12. OwnersListed'
  BY DEF IInv, OwnersListed, TsStop
<1>13. ChainsPoint'
  BY <1>3, <1>4, <1>5
  DEF IInv, TypeOK, ChainsPoint, FiltersChained, TsChains, Live, TsStop, Held
<1>14. FiltersChained'
  BY <1>3, <1>4, <1>5
  DEF IInv, TypeOK, ChainsPoint, FiltersChained, TsChains, Live, TsStop, Held
<1> QED
  BY <1>6, <1>7, <1>8, <1>9, <1>10, <1>11, <1>12, <1>13, <1>14 DEF IInv

\* release_ts_feed keeps the invariant.
LEMMA TsReleaseKeeps ==
  ASSUME IInv, NEW f \in Feeds, Held(f, "TS"), ~feed[f].filtering, TsRelease(f)
  PROVE  IInv'
<1> USE NamesAssumption
<1> DEFINE r == [feed[f] EXCEPT !.state = "FREE", !.pid = NoPid,
                               !.filters = <<>>]
<1>1. /\ feed' = [feed EXCEPT ![f] = r]
      /\ feed[f] \in Feed
  BY DEF IInv, TypeOK, TsRelease
<1>0. <<>> \in Seq(Filters)
  OBVIOUS
<1>2. r \in Feed
  BY <1>0 DEF IInv, TypeOK, Feed, FeedStates, TsRelease, Held
<1>3. r.state = "FREE" /\ r.pid = NoPid /\ r.filters = <<>>
  OBVIOUS
<1>4. /\ r.type = feed[f].type /\ r.filtering = feed[f].filtering
      /\ r.decoder = feed[f].decoder /\ r.pes = feed[f].pes
  BY <1>1 DEF Feed
<1> HIDE DEF r
<1>5. /\ feed'[f] = r
      /\ \A g \in Feeds : g # f => feed'[g] = feed[g]
  BY <1>1 DEF IInv, TypeOK
<1>h. PICK h \in Filters : feed[f].filters = <<h>>
  <2>1. Len(feed[f].filters) = 1 /\ feed[f].filters \in Seq(Filters)
    BY <1>1 DEF IInv, TsChains, Live, Held, Feed
  <2> QED
    BY <2>1
<1>i. /\ filter' = [filter EXCEPT ![h] = [@ EXCEPT !.state = "FREE"]]
      /\ filter[h] = [state |-> "READY", feed |-> f]
  BY <1>h DEF TsRelease, IInv, ChainsPoint, Live, Held
<1>6. TypeOK'
  <2>1. filter' \in [Filters -> [state : FilterStates, feed : Feeds \cup {None}]]
    BY <1>i DEF IInv, TypeOK, FilterStates
  <2> QED
    BY <1>1, <1>2, <2>1 DEF IInv, TypeOK, TsRelease
<1>7. ListSound'
  BY <1>3, <1>4, <1>5 DEF IInv, TypeOK, ListSound, Live, FilteringTrue, TsRelease
<1>8. FilteringTrue'
  BY DEF IInv, FilteringTrue, TsRelease
<1>9. TsChains'
  BY <1>3, <1>4, <1>5 DEF IInv, TypeOK, TsChains, Live, TsRelease, Held
<1>10. SectionRuns'
  BY <1>3, <1>4, <1>5 DEF IInv, TypeOK, SectionRuns, TsRelease, Held
<1>11. OwnersLive'
  BY <1>5 DEF IInv, TypeOK, OwnersLive, TsRelease
<1>12. OwnersListed'
  BY DEF IInv, TypeOK, OwnersLive, OwnersListed, TsRelease
<1>13. ChainsPoint'
  <2> SUFFICES ASSUME NEW g \in Feeds, feed'[g].state # "FREE",
                             NEW i \in 1 .. Len(feed'[g].filters)
               PROVE  /\ filter'[feed'[g].filters[i]] = [state |-> "READY", feed |-> g]
                      /\ \A j \in 1 .. Len(feed'[g].filters) :
                           feed'[g].filters[i] = feed'[g].filters[j] => i = j
    BY DEF ChainsPoint, Live
  <2>1. g # f /\ feed'[g] = feed[g]
    BY <1>3, <1>5 DEF Live
  <2>2. /\ filter[feed[g].filters[i]] = [state |-> "READY", feed |-> g]
        /\ \A j \in 1 .. Len(feed[g].filters) :
             feed[g].filters[i] = feed[g].filters[j] => i = j
    BY <2>1 DEF IInv, ChainsPoint, Live
  <2>3. feed[g].filters[i] \in Filters
    BY <2>1 DEF IInv, TypeOK, Feed
  <2>4. feed[g].filters[i] # h
    BY <1>i, <2>1, <2>2
  <2> QED
    BY <1>i, <2>1, <2>2, <2>3, <2>4 DEF IInv, TypeOK
<1>14. FiltersChained'
  <2> SUFFICES ASSUME NEW s \in Filters, filter'[s].state # "FREE"
               PROVE  /\ filter'[s].feed \in Feeds
                      /\ feed'[filter'[s].feed].state # "FREE"
                      /\ \E i \in 1 .. Len(feed'[filter'[s].feed].filters) :
                           feed'[filter'[s].feed].filters[i] = s
    BY DEF FiltersChained, Live
  <2>1. s # h /\ filter'[s] = filter[s]
    BY <1>i DEF IInv, TypeOK
  <2>2. PICK i \in 1 .. Len(feed[filter[s].feed].filters) :
          feed[filter[s].feed].filters[i] = s
    BY <2>1 DEF IInv, FiltersChained
  <2>3. filter[s].feed \in Feeds /\ Live(filter[s].feed) /\ filter[s].feed # f
    BY <1>h, <2>1, <2>2 DEF IInv, FiltersChained
  <2> QED
    BY <1>5, <2>1, <2>2, <2>3 DEF Live
<1> QED
  BY <1>6, <1>7, <1>8, <1>9, <1>10, <1>11, <1>12, <1>13, <1>14 DEF IInv

\* allocate_section_feed keeps the invariant.
LEMMA SectionAllocateKeeps ==
  ASSUME IInv, NEW f \in Feeds, SectionAllocate(f)
  PROVE  IInv'
<1> USE NamesAssumption
<1> DEFINE r == [feed[f] EXCEPT !.state = "ALLOCATED", !.type = "SEC", !.pid = NoPid,
                               !.filtering = FALSE, !.filters = <<>>]
<1>1. /\ feed' = [feed EXCEPT ![f] = r]
      /\ feed[f] \in Feed
  BY DEF IInv, TypeOK, SectionAllocate
<1>0. <<>> \in Seq(Filters)
  OBVIOUS
<1>2. r \in Feed
  BY <1>1, <1>0 DEF IInv, TypeOK, Feed, FeedStates, SectionAllocate
<1>3. /\ r.state = "ALLOCATED" /\ r.type = "SEC" /\ r.pid = NoPid
      /\ r.filtering = FALSE /\ r.filters = <<>>
  BY <1>1 DEF Feed
<1>4. r.decoder = feed[f].decoder /\ r.pes = feed[f].pes
  BY <1>1 DEF Feed
<1> HIDE DEF r
<1>5. /\ feed'[f] = r
      /\ \A g \in Feeds : g # f => feed'[g] = feed[g]
  BY <1>1 DEF IInv, TypeOK
<1>6. TypeOK'
  BY <1>1, <1>2 DEF IInv, TypeOK, SectionAllocate, FilterStates
<1>7. ListSound'
  BY <1>3, <1>4, <1>5
  DEF IInv, TypeOK, ListSound, Live, FilteringTrue, SectionAllocate, FirstFree
<1>8. FilteringTrue'
  BY DEF IInv, FilteringTrue, SectionAllocate, FirstFree
<1>9. TsChains'
  BY <1>3, <1>4, <1>5 DEF IInv, TypeOK, TsChains, Live, SectionAllocate, FirstFree
<1>10. SectionRuns'
  BY <1>3, <1>5 DEF IInv, SectionRuns
<1>11. OwnersLive'
  BY DEF IInv, OwnersLive, SectionAllocate, FirstFree
<1>12. OwnersListed'
  BY DEF IInv, OwnersListed, SectionAllocate
<1>13. ChainsPoint'
  BY <1>3, <1>4, <1>5
  DEF IInv, TypeOK, ChainsPoint, FiltersChained, TsChains, Live, SectionAllocate,
      FirstFree
<1>14. FiltersChained'
  BY <1>3, <1>4, <1>5
  DEF IInv, TypeOK, ChainsPoint, FiltersChained, TsChains, Live, SectionAllocate,
      FirstFree
<1> QED
  BY <1>6, <1>7, <1>8, <1>9, <1>10, <1>11, <1>12, <1>13, <1>14 DEF IInv

\* set of a section feed keeps the invariant.
LEMMA SectionSetKeeps ==
  ASSUME IInv, NEW f \in Feeds, NEW pid, Fresh(f, "SEC"), SectionSet(f, pid)
  PROVE  IInv'
<1> USE NamesAssumption
<1> DEFINE r == [feed[f] EXCEPT !.state = "READY", !.pid = pid]
<1>1. /\ feed' = [feed EXCEPT ![f] = r]
      /\ feed[f] \in Feed
  BY DEF IInv, TypeOK, SectionSet
<1>2. r \in Feed
  BY <1>1 DEF IInv, Feed, FeedStates, SectionSet, Fresh
<1>3. r.state = "READY" /\ r.pid = pid
  OBVIOUS
<1>4. /\ r.type = feed[f].type /\ r.filtering = feed[f].filtering /\ r.filters = feed[f].filters
      /\ r.decoder = feed[f].decoder /\ r.pes = feed[f].pes
  BY <1>1 DEF Feed
<1> HIDE DEF r
<1>5. /\ feed'[f] = r
      /\ \A g \in Feeds : g # f => feed'[g] = feed[g]
  BY <1>1 DEF IInv, TypeOK
<1>6. TypeOK'
  BY <1>1, <1>2 DEF IInv, TypeOK, SectionSet, FilterStates
<1>7. ListSound'
  BY <1>3, <1>4, <1>5 DEF IInv, ListSound, Live, SectionSet, Held
<1>8. FilteringTrue'
  BY DEF IInv, FilteringTrue, SectionSet, Fresh
<1>9. TsChains'
  BY <1>4, <1>5 DEF IInv, TsChains, Live, Fresh
<1>10. SectionRuns'
  BY <1>4, <1>5 DEF IInv, SectionRuns
<1>11. OwnersLive'
  BY DEF IInv, OwnersLive, SectionSet
<1>12. OwnersListed'
  BY DEF IInv, OwnersListed, SectionSet
<1>13. ChainsPoint'
  BY <1>3, <1>4, <1>5
  DEF IInv, TypeOK, ChainsPoint, FiltersChained, TsChains, Live, SectionSet, Fresh,
      Held
<1>14. FiltersChained'
  BY <1>3, <1>4, <1>5
  DEF IInv, TypeOK, ChainsPoint, FiltersChained, TsChains, Live, SectionSet, Fresh,
      Held
<1> QED
  BY <1>6, <1>7, <1>8, <1>9, <1>10, <1>11, <1>12, <1>13, <1>14 DEF IInv

\* allocate_filter keeps the invariant.
LEMMA FilterAllocateKeeps ==
  ASSUME IInv, NEW f \in Feeds, NEW s \in Filters,
         Held(f, "SEC"), feed[f].state = "READY", FilterAllocate(f, s)
  PROVE  IInv'
<1> USE NamesAssumption
<1> DEFINE r == [feed[f] EXCEPT !.filters = <<s>> \o feed[f].filters]
<1>1. /\ feed' = [feed EXCEPT ![f] = r]
      /\ feed[f] \in Feed
  BY DEF IInv, TypeOK, FilterAllocate
<1>0. <<s>> \o feed[f].filters \in Seq(Filters)
  BY <1>1 DEF Feed
<1>2. r \in Feed
  BY <1>1, <1>0 DEF IInv, TypeOK, Feed, FeedStates, FilterAllocate, Held
<1>3. r.filters = <<s>> \o feed[f].filters
  OBVIOUS
<1>4. /\ r.state = feed[f].state /\ r.type = feed[f].type /\ r.pid = feed[f].pid
      /\ r.filtering = feed[f].filtering /\ r.decoder = feed[f].decoder /\ r.pes = feed[f].pes
  BY <1>1 DEF Feed
<1> HIDE DEF r
<1>5. /\ feed'[f] = r
      /\ \A g \in Feeds : g # f => feed'[g] = feed[g]
  BY <1>1 DEF IInv, TypeOK
<1>6. TypeOK'
  BY <1>1, <1>2 DEF IInv, TypeOK, FilterAllocate, FilterStates
<1>7. ListSound'
  BY <1>3, <1>4, <1>5 DEF IInv, ListSound, Live, FilterAllocate, Held
<1>8. FilteringTrue'
  BY DEF IInv, FilteringTrue, FilterAllocate
<1>9. TsChains'
  BY <1>3, <1>4, <1>5
  DEF IInv, TypeOK, TsChains, Live, FilterAllocate, FirstFree, Held
<1>10. SectionRuns'
  BY <1>3, <1>4, <1>5 DEF IInv, TypeOK, SectionRuns, FilterAllocate, FirstFree, Held
<1>11. OwnersLive'
  BY <1>5 DEF IInv, OwnersLive, FilterAllocate
<1>12. OwnersListed'
  BY DEF IInv, OwnersListed, FilterAllocate
<1>c. /\ Len(r.filters) = Len(feed[f].filters) + 1
      /\ r.filters[1] = s
      /\ \A i \in 1 .. Len(r.filters) : i # 1 => r.filters[i] = feed[f].filters[i - 1]
  BY <1>1, <1>3, ConcatProperties DEF Feed
<1>d. /\ filter[s].state = "FREE"
      /\ filter'[s] = [state |-> "READY", feed |-> f]
      /\ \A t \in Filters : t # s => filter'[t] = filter[t]
  BY DEF IInv, TypeOK, FilterAllocate, FirstFree
<1>13. ChainsPoint'
  <2> SUFFICES ASSUME NEW g \in Feeds, feed'[g].state # "FREE",
                             NEW i \in 1 .. Len(feed'[g].filters)
               PROVE  /\ filter'[feed'[g].filters[i]] = [state |-> "READY", feed |-> g]
                      /\ \A j \in 1 .. Len(feed'[g].filters) :
                           feed'[g].filters[i] = feed'[g].filters[j] => i = j
    BY DEF ChainsPoint, Live
  <2>1. \A k \in Feeds, n \in Nat :
          Live(k) /\ n \in 1 .. Len(feed[k].filters) =>
            /\ feed[k].filters[n] \in Filters /\ feed[k].filters[n] # s
            /\ filter'[feed[k].filters[n]] = [state |-> "READY", feed |-> k]
    BY <1>d DEF IInv, TypeOK, Feed, ChainsPoint
  <2>2. CASE g # f
    BY <1>5, <2>1, <2>2 DEF IInv, TypeOK, Feed, ChainsPoint, Live
  <2>3. CASE g = f
    <3>1. Live(f) /\ Len(feed[f].filters) \in Nat
      BY <1>1 DEF Live, Held, Feed
    <3>2. \A n \in 1 .. Len(r.filters) :
            n # 1 => n - 1 \in 1 .. Len(feed[f].filters)
      BY <1>c, <3>1
    <3>3. i \in 1 .. Len(r.filters)
      BY <1>5, <2>3
    <3>4. filter'[r.filters[i]] = [state |-> "READY", feed |-> f]
      <4>1. CASE i = 1
        BY <1>c, <1>d, <4>1
      <4>2. CASE i # 1
        <5>1. r.filters[i] = feed[f].filters[i - 1] /\ i - 1 \in 1 .. Len(feed[f].filters)
          BY <1>c, <3>2, <3>3, <4>2
        <5>2. i - 1 \in Nat
          BY <3>1, <5>1
        <5> QED
          BY <2>1, <3>1, <5>1, <5>2
      <4> QED
        BY <4>1, <4>2
    <3>5. \A n \in 1 .. Len(r.filters) : n # 1 => r.filters[n] # s
      <4> TAKE n \in 1 .. Len(r.filters)
      <4> HAVE n # 1
      <4>1. r.filters[n] = feed[f].filters[n - 1] /\ n - 1 \in 1 .. Len(feed[f].filters)
        BY <1>c, <3>2
      <4>2. n - 1 \in Nat
        BY <3>1, <4>1
      <4> QED
        BY <2>1, <3>1, <4>1, <4>2
    <3>6. ASSUME NEW j \in 1 .. Len(r.filters), r.filters[i] = r.filters[j]
          PROVE  i = j
      <4>1. CASE i = 1
        BY <1>c, <3>5, <3>6, <4>1
      <4>2. CASE j = 1
        BY <1>c, <3>3, <3>5, <3>6, <4>2
      <4>3. CASE i # 1 /\ j # 1
        <5>1. /\ feed[f].filters[i - 1] = feed[f].filters[j - 1]
              /\ i - 1 \in 1 .. Len(feed[f].filters)
              /\ j - 1 \in 1 .. Len(feed[f].filters)
          BY <1>c, <3>2, <3>3, <3>6, <4>3
        <5>2. i - 1 = j - 1
          BY <3>1, <5>1 DEF IInv, ChainsPoint
        <5> QED
          BY <3>1, <3>3, <5>2
      <4> QED
        BY <4>1, <4>2, <4>3
    <3> QED
      BY <1>5, <2>3, <3>4, <3>6
  <2> QED
    BY <2>2, <2>3
<1>14. FiltersChained'
  <2> SUFFICES ASSUME NEW t \in Filters, filter'[t].state # "FREE"
               PROVE  /\ filter'[t].feed \in Feeds
                      /\ feed'[filter'[t].feed].state # "FREE"
                      /\ \E i \in 1 .. Len(feed'[filter'[t].feed].filters) :
                           feed'[filter'[t].feed].filters[i] = t
    BY DEF FiltersChained, Live
  <2>1. CASE t = s
    <3>1. 1 \in 1 .. Len(r.filters)
      BY <1>1, <1>c DEF Feed
    <3> QED
      BY <1>4, <1>5, <1>c, <1>d, <2>1, <3>1 DEF Live, Held
  <2>2. CASE t # s
    <3>1. filter'[t] = filter[t] /\ filter[t].feed \in Feeds /\ Live(filter[t].feed)
      BY <1>d, <2>2 DEF IInv, FiltersChained
    <3>2. PICK i \in 1 .. Len(feed[filter[t].feed].filters) :
            feed[filter[t].feed].filters[i] = t
      BY <1>d, <2>2 DEF IInv, FiltersChained
    <3>3. CASE filter[t].feed # f
      BY <1>5, <3>1, <3>2, <3>3 DEF Live
    <3>4. CASE filter[t].feed = f
      <4>1. i + 1 \in 1 .. Len(r.filters) /\ i + 1 # 1 /\ (i + 1) - 1 = i
        BY <1>1, <1>c, <3>2, <3>4 DEF Feed
      <4>2. r.filters[i + 1] = t
        BY <1>c, <3>2, <3>4, <4>1
      <4> QED
        BY <1>4, <1>5, <3>1, <3>4, <4>1, <4>2 DEF Live
    <3> QED
      BY <3>3, <3>4
  <2> QED
    BY <2>1, <2>2
<1> QED
  BY <1>6, <1>7, <1>8, <1>9, <1>10, <1>11, <1>12, <1>13, <1>14 DEF IInv

\* start_filtering of a section feed keeps the invariant.
LEMMA SectionStartKeeps ==
  ASSUME IInv, NEW f \in Feeds, Held(f, "SEC"), feed[f].state = "READY", SectionStart(f)
  PROVE  IInv'
<1> USE NamesAssumption
<1> DEFINE r == [feed[f] EXCEPT !.state = "GO", !.filtering = TRUE]
<1>1. /\ feed' = [feed EXCEPT ![f] = r]
      /\ feed[f] \in Feed
  BY DEF IInv, TypeOK, SectionStart
<1>2. r \in Feed
  BY <1>1 DEF IInv, TypeOK, Feed, FeedStates, SectionStart, Held
<1>3. r.state = "GO" /\ r.filtering = TRUE
  OBVIOUS
<1>4. /\ r.type = feed[f].type /\ r.pid = feed[f].pid /\ r.filters = feed[f].filters
      /\ r.decoder = feed[f].decoder /\ r.pes = feed[f].pes
  BY <1>1 DEF Feed
<1> HIDE DEF r
<1>5. /\ feed'[f] = r
      /\ \A g \in Feeds : g # f => feed'[g] = feed[g]
  BY <1>1 DEF IInv, TypeOK
<1>6. TypeOK'
  BY <1>1, <1>2 DEF IInv, TypeOK, SectionStart, FilterStates
<1>7. ListSound'
  BY <1>3, <1>4, <1>5 DEF IInv, ListSound, Live, SectionStart
<1>8. FilteringTrue'
  BY <1>3, <1>4, <1>5 DEF IInv, TypeOK, FilteringTrue, SectionRuns, SectionStart, Held
<1>9. TsChains'
  BY <1>4, <1>5 DEF IInv, TsChains, Live
<1>10. SectionRuns'
  BY DEF IInv, SectionRuns, SectionStart
<1>11. OwnersLive'
  BY DEF IInv, OwnersLive, SectionStart
<1>12. OwnersListed'
  BY DEF IInv, OwnersListed, SectionStart
<1>13. ChainsPoint'
  BY <1>3, <1>4, <1>5
  DEF IInv, TypeOK, ChainsPoint, FiltersChained, TsChains, Live, SectionStart, Held
<1>14. FiltersChained'
  BY <1>3, <1>4, <1>5
  DEF IInv, TypeOK, ChainsPoint, FiltersChained, TsChains, Live, SectionStart, Held
<1> QED
  BY <1>6, <1>7, <1>8, <1>9, <1>10, <1>11, <1>12, <1>13, <1>14 DEF IInv

\* stop_filtering of a section feed keeps the invariant.
LEMMA SectionStopKeeps ==
  ASSUME IInv, NEW f \in Feeds, Held(f, "SEC"), feed[f].filtering, SectionStop(f)
  PROVE  IInv'
<1> USE NamesAssumption
<1> DEFINE r == [feed[f] EXCEPT !.state = "READY", !.filtering = FALSE]
<1>1. /\ feed' = [feed EXCEPT ![f] = r]
      /\ feed[f] \in Feed
  BY DEF IInv, TypeOK, SectionStop
<1>2. r \in Feed
  BY <1>1 DEF IInv, TypeOK, Feed, FeedStates, SectionStop, Held
<1>3. r.state = "READY" /\ r.filtering = FALSE
  OBVIOUS
<1>4. /\ r.type = feed[f].type /\ r.pid = feed[f].pid /\ r.filters = feed[f].filters
      /\ r.decoder = feed[f].decoder /\ r.pes = feed[f].pes
  BY <1>1 DEF Feed
<1> HIDE DEF r
<1>5. /\ feed'[f] = r
      /\ \A g \in Feeds : g # f => feed'[g] = feed[g]
  BY <1>1 DEF IInv, TypeOK
<1>6. TypeOK'
  BY <1>1, <1>2 DEF IInv, TypeOK, SectionStop, FilterStates
<1>7. ListSound'
  BY <1>3, <1>4, <1>5 DEF IInv, ListSound, Live, FilteringTrue, SectionStop
<1>8. FilteringTrue'
  BY <1>3, <1>4, <1>5 DEF IInv, TypeOK, FilteringTrue, SectionRuns, SectionStop, Held
<1>9. TsChains'
  BY <1>4, <1>5 DEF IInv, TsChains, Live, Held
<1>10. SectionRuns'
  BY <1>3, <1>4, <1>5 DEF IInv, TypeOK, SectionRuns, SectionStop, Held
<1>11. OwnersLive'
  BY <1>5 DEF IInv, OwnersLive, SectionStop
<1>12. OwnersListed'
  BY DEF IInv, OwnersListed, SectionStop
<1>13. ChainsPoint'
  BY <1>3, <1>4, <1>5
  DEF IInv, TypeOK, ChainsPoint, FiltersChained, TsChains, Live, SectionStop, Held
<1>14. FiltersChained'
  BY <1>3, <1>4, <1>5
  DEF IInv, TypeOK, ChainsPoint, FiltersChained, TsChains, Live, SectionStop, Held
<1> QED
  BY <1>6, <1>7, <1>8, <1>9, <1>10, <1>11, <1>12, <1>13, <1>14 DEF IInv

\* release_filter keeps the invariant.
LEMMA FilterReleaseKeeps ==
  ASSUME IInv, NEW f \in Feeds, NEW s \in Filters, Held(f, "SEC"),
         filter[s].state = "READY", FilterRelease(f, s)
  PROVE  IInv'
<1> USE NamesAssumption
<1>p. PICK i \in 1 .. Len(feed[f].filters) :
        /\ feed[f].filters[i] = s
        /\ feed' = [feed EXCEPT ![f] = [@ EXCEPT !.filters = RemoveAt(feed[f].filters, i)]]
  BY DEF FilterRelease
<1> DEFINE r == [feed[f] EXCEPT !.filters = RemoveAt(feed[f].filters, i)]
<1>1. /\ feed' = [feed EXCEPT ![f] = r]
      /\ feed[f] \in Feed
  BY <1>p DEF IInv, TypeOK, FilterRelease
<1>0. RemoveAt(feed[f].filters, i) \in Seq(Filters)
  BY <1>1, <1>p, RemoveAtProperties DEF Feed
<1>2. r \in Feed
  BY <1>1, <1>0 DEF IInv, TypeOK, Feed, FeedStates, FilterRelease, Held
<1>3. r.filters = RemoveAt(feed[f].filters, i)
  OBVIOUS
<1>4. /\ r.state = feed[f].state /\ r.type = feed[f].type /\ r.pid = feed[f].pid
      /\ r.filtering = feed[f].filtering /\ r.decoder = feed[f].decoder /\ r.pes = feed[f].pes
  BY <1>1 DEF Feed
<1> HIDE DEF r
<1>5. /\ feed'[f] = r
      /\ \A g \in Feeds : g # f => feed'[g] = feed[g]
  BY <1>1 DEF IInv, TypeOK
<1>6. TypeOK'
  BY <1>1, <1>2 DEF IInv, TypeOK, FilterRelease, FilterStates
<1>7. ListSound'
  BY <1>3, <1>4, <1>5 DEF IInv, ListSound, Live, FilterRelease
<1>8. FilteringTrue'
  BY DEF IInv, FilteringTrue, FilterRelease
<1>9. TsChains'
  BY <1>4, <1>5 DEF IInv, TsChains, Live, Held
<1>10. SectionRuns'
  BY DEF IInv, SectionRuns, FilterRelease
<1>11. OwnersLive'
  BY DEF IInv, OwnersLive, FilterRelease
<1>12. OwnersListed'
  BY DEF IInv, OwnersListed, FilterRelease
<1>c. /\ Len(feed[f].filters) \in Nat
      /\ Len(r.filters) = Len(feed[f].filters) - 1
      /\ \A j \in 1 .. Len(r.filters) :
           r.filters[j] = feed[f].filters[IF j < i THEN j ELSE j + 1]
  BY <1>1, <1>3, <1>p, RemoveAtProperties DEF Feed
<1>d. /\ filter[s].feed = f /\ filter'[s].state = "FREE"
      /\ \A t \in Filters : t # s => filter'[t] = filter[t]
  BY DEF IInv, TypeOK, FilterRelease
<1>e. Live(f)
  BY DEF Live, Held
<1>g. /\ \A m \in 1 .. Len(feed[f].filters) : feed[f].filters[m] \in Filters
      /\ \A m, n \in 1 .. Len(feed[f].filters) :
           feed[f].filters[m] = feed[f].filters[n] => m = n
  <2>1. feed[f].filters \in Seq(Filters)
    BY <1>1 DEF Feed
  <2>2. \A m, n \in 1 .. Len(feed[f].filters) :
          feed[f].filters[m] = feed[f].filters[n] => m = n
    BY <1>e DEF IInv, ChainsPoint
  <2> QED
    BY <2>1, <2>2
<1>13. ChainsPoint'
  <2> SUFFICES ASSUME NEW g \in Feeds, feed'[g].state # "FREE",
                             NEW j \in 1 .. Len(feed'[g].filters)
               PROVE  /\ filter'[feed'[g].filters[j]] = [state |-> "READY", feed |-> g]
                      /\ \A k \in 1 .. Len(feed'[g].filters) :
                           feed'[g].filters[j] = feed'[g].filters[k] => j = k
    BY DEF ChainsPoint, Live
  <2>1. CASE g # f
    <3>1. /\ filter[feed[g].filters[j]] = [state |-> "READY", feed |-> g]
          /\ feed[g].filters[j] \in Filters
      BY <1>5, <2>1 DEF IInv, TypeOK, Feed, ChainsPoint, Live
    <3>2. feed[g].filters[j] # s
      BY <1>d, <2>1, <3>1
    <3> QED
      BY <1>5, <1>d, <2>1, <3>1, <3>2 DEF IInv, ChainsPoint, Live
  <2>2. CASE g = f
    <3> DEFINE old(n) == IF n < i THEN n ELSE n + 1
    <3>1. ASSUME NEW n \in 1 .. Len(r.filters)
          PROVE  /\ old(n) \in 1 .. Len(feed[f].filters) /\ old(n) # i
                 /\ r.filters[n] = feed[f].filters[old(n)]
                 /\ r.filters[n] \in Filters /\ r.filters[n] # s
                 /\ filter[r.filters[n]] = [state |-> "READY", feed |-> f]
      <4>1. old(n) \in 1 .. Len(feed[f].filters) /\ old(n) # i
        BY <1>c
      <4>2. r.filters[n] = feed[f].filters[old(n)]
        BY <1>c
      <4> HIDE DEF old
      <4>3. r.filters[n] \in Filters /\ r.filters[n] # s
        BY <1>g, <1>p, <4>1, <4>2
      <4>4. filter[r.filters[n]] = [state |-> "READY", feed |-> f]
        BY <1>e, <4>1, <4>2 DEF IInv, ChainsPoint
      <4> QED
        BY <4>1, <4>2, <4>3, <4>4
    <3>2. j \in 1 .. Len(r.filters)
      BY <1>5, <2>2
    <3>3. ASSUME NEW k \in 1 .. Len(r.filters), r.filters[j] = r.filters[k]
          PROVE  j = k
      <4>1. old(j) = old(k)
        <5> HIDE DEF old
        <5>1. /\ old(j) \in 1 .. Len(feed[f].filters)
              /\ old(k) \in 1 .. Len(feed[f].filters)
              /\ feed[f].filters[old(j)] = feed[f].filters[old(k)]
          BY <3>1, <3>2, <3>3
        <5> QED
          BY <1>g, <5>1
      <4> QED
        BY <1>c, <3>2, <4>1
    <3> HIDE DEF old
    <3> QED
      BY <1>5, <1>d, <2>2, <3>1, <3>2, <3>3
  <2> QED
    BY <2>1, <2>2
<1>14. FiltersChained'
  <2> SUFFICES ASSUME NEW t \in Filters, filter'[t].state # "FREE"
               PROVE  /\ filter'[t].feed \in Feeds
                      /\ feed'[filter'[t].feed].state # "FREE"
                      /\ \E n \in 1 .. Len(feed'[filter'[t].feed].filters) :
                           feed'[filter'[t].feed].filters[n] = t
    BY DEF FiltersChained, Live
  <2>1. t # s /\ filter'[t] = filter[t] /\ filter[t].feed \in Feeds /\ Live(filter[t].feed)
    BY <1>d DEF IInv, FiltersChained
  <2>2. PICK n \in 1 .. Len(feed[filter[t].feed].filters) :
          feed[filter[t].feed].filters[n] = t
    BY <2>1 DEF IInv, FiltersChained
  <2>3. CASE filter[t].feed # f
    BY <1>5, <2>1, <2>2, <2>3 DEF Live
  <2>4. CASE filter[t].feed = f
    <3>1. n \in 1 .. Len(feed[f].filters) /\ n # i
      BY <1>p, <2>1, <2>2, <2>4
    <3>2. CASE n < i
      <4>1. n \in 1 .. Len(r.filters) /\ r.filters[n] = t
        BY <1>c, <2>2, <2>4, <3>1, <3>2
      <4> QED
        BY <1>4, <1>5, <2>1, <2>4, <4>1 DEF Live
    <3>3. CASE n > i
      <4>1. n - 1 \in 1 .. Len(r.filters) /\ ~(n - 1 < i) /\ (n - 1) + 1 = n
        BY <1>c, <3>1, <3>3
      <4>2. r.filters[n - 1] = t
        BY <1>c, <2>2, <2>4, <4>1
      <4> QED
        BY <1>4, <1>5, <2>1, <2>4, <4>1, <4>2 DEF Live
    <3> QED
      BY <1>c, <3>1, <3>2, <3>3
  <2> QED
    BY <2>3, <2>4
<1> QED
  BY <1>6, <1>7, <1>8, <1>9, <1>10, <1>11, <1>12, <1>13, <1>14 DEF IInv

\* release_section_feed keeps the invariant.
LEMMA SectionReleaseKeeps ==
  ASSUME IInv, NEW f \in Feeds, Held(f, "SEC"), feed[f].filters = <<>>, SectionRelease(f)
  PROVE  IInv'
<1> USE NamesAssumption
<1> DEFINE r == [feed[f] EXCEPT !.state = "FREE", !.pid = NoPid]
<1>1. /\ feed' = [feed EXCEPT ![f] = r]
      /\ feed[f] \in Feed
  BY DEF IInv, TypeOK, SectionRelease
<1>2. r \in Feed
  BY <1>1 DEF IInv, TypeOK, Feed, FeedStates, SectionRelease, Held
<1>3. r.state = "FREE" /\ r.pid = NoPid
  OBVIOUS
<1>4. /\ r.type = feed[f].type /\ r.filtering = feed[f].filtering /\ r.filters = feed[f].filters
      /\ r.decoder = feed[f].decoder /\ r.pes = feed[f].pes
  BY <1>1 DEF Feed
<1> HIDE DEF r
<1>5. /\ feed'[f] = r
      /\ \A g \in Feeds : g # f => feed'[g] = feed[g]
  BY <1>1 DEF IInv, TypeOK
<1>6. TypeOK'
  BY <1>1, <1>2 DEF IInv, TypeOK, SectionRelease, FilterStates
<1>7. ListSound'
  BY <1>3, <1>4, <1>5 DEF IInv, ListSound, Live, SectionRelease
<1>8. FilteringTrue'
  BY DEF IInv, FilteringTrue, SectionRuns, SectionRelease, Held
<1>9. TsChains'
  BY <1>3, <1>4, <1>5 DEF IInv, TypeOK, TsChains, Live, SectionRelease, Held
<1>10. SectionRuns'
  BY <1>3, <1>4, <1>5 DEF IInv, TypeOK, SectionRuns, SectionRelease, Held
<1>11. OwnersLive'
  BY <1>5 DEF IInv, OwnersLive, SectionRelease, Held
<1>12. OwnersListed'
  BY DEF IInv, OwnersLive, OwnersListed, SectionRelease, Held
<1>13. ChainsPoint'
  BY <1>3, <1>4, <1>5
  DEF IInv, TypeOK, ChainsPoint, FiltersChained, TsChains, Live, SectionRelease,
      Held
<1>14. FiltersChained'
  BY <1>3, <1>4, <1>5
  DEF IInv, TypeOK, ChainsPoint, FiltersChained, TsChains, Live, SectionRelease,
      Held
<1> QED
  BY <1>6, <1>7, <1>8, <1>9, <1>10, <1>11, <1>12, <1>13, <1>14 DEF IInv

----------------------------------------------------------------------------

\* The invariant holds of the empty tables dvb_dmx_init leaves.
LEMMA InitHolds == Init => IInv
<1> SUFFICES ASSUME Init PROVE IInv
  OBVIOUS
<1> USE NamesAssumption DEF Init
<1>1. PICK d \in [Feeds -> BOOLEAN], p \in [Feeds -> Pes] :
        feed = [f \in Feeds |->
                  [state |-> "FREE", type |-> "TS", pid |-> NoPid,
                   filtering |-> FALSE, filters |-> <<>>,
                   decoder |-> d[f], pes |-> p[f]]]
  OBVIOUS
<1>2. feed \in [Feeds -> Feed]
  <2>1. <<>> \in Seq(Filters)
    OBVIOUS
  <2> QED
    BY <1>1, <2>1 DEF Feed, FeedStates
<1>3. TypeOK
  BY <1>2 DEF TypeOK, FilterStates
<1>4. \A f \in Feeds : feed[f].state = "FREE" /\ ~feed[f].filtering
  BY <1>1
<1> QED
  BY <1>3, <1>4 DEF IInv, ListSound, FilteringTrue, TsChains, SectionRuns,
     OwnersLive, OwnersListed, ChainsPoint, FiltersChained, Live

\* The invariant is inductive under the protocol of the callers.
LEMMA NextHolds == IInv /\ [Next]_demux => IInv'
<1> SUFFICES ASSUME IInv, [Next]_demux PROVE IInv'
  OBVIOUS
<1>1. CASE UNCHANGED demux
  BY <1>1 DEF demux, IInv, TypeOK, ListSound, FilteringTrue, TsChains, SectionRuns,
     OwnersLive, OwnersListed, ChainsPoint, FiltersChained, Live
<1>2. ASSUME NEW f \in Feeds, TsNext(f) PROVE IInv'
  BY <1>2, TsAllocateKeeps, TsAllocateFailsKeeps, TsSetKeeps, TsStartKeeps, TsStopKeeps,
     TsReleaseKeeps DEF TsNext
<1>3. ASSUME NEW f \in Feeds, SectionNext(f) PROVE IInv'
  BY <1>3, SectionAllocateKeeps, SectionSetKeeps, FilterAllocateKeeps, SectionStartKeeps,
     SectionStopKeeps, FilterReleaseKeeps, SectionReleaseKeeps DEF SectionNext
<1> QED
  BY <1>1, <1>2, <1>3 DEF Next

\* The inductive invariant holds in every state of every behaviour.
THEOREM Invariance == Spec => []IInv
<1> QED
  BY InitHolds, NextHolds, PTL DEF Spec

\* The tables keep their shape: every pointer names a slot of its table.
THEOREM TypeCorrect == Spec => []TypeOK
<1>1. IInv => TypeOK
  BY DEF IInv
<1> QED
  BY <1>1, Invariance, PTL

\* The packet path never meets a feed nobody holds and misses none that runs.
THEOREM ListSoundAlways == Spec => []ListSound
<1>1. IInv => ListSound
  BY DEF IInv
<1> QED
  BY <1>1, Invariance, PTL

\* No filter is shared, lost or left in the chain of a feed.
THEOREM ChainsSoundAlways == Spec => []ChainsSound
<1>1. IInv => ChainsSound
  BY DEF IInv, ChainsPoint, FiltersChained, ChainsSound
<1> QED
  BY <1>1, Invariance, PTL

\* is_filtering agrees with the state of the feed and with the driver.
THEOREM FilteringTrueAlways == Spec => []FilteringTrue
<1>1. IInv => FilteringTrue
  BY DEF IInv
<1> QED
  BY <1>1, Invariance, PTL

\* A stream of the decoder is owned by a live feed that asked for it, or by none.
THEOREM OwnersLiveAlways == Spec => []OwnersLive
<1>1. IInv => OwnersLive
  BY DEF IInv
<1> QED
  BY <1>1, Invariance, PTL
=============================================================================
