-------------------------- MODULE SectionAssembly --------------------------
(***************************************************************************)
(* The packet path of a section feed (dvb_demux.c): packets of a pid come  *)
(* in order, some are lost, some are damaged, and the sections in them are *)
(* put together in secbuf and handed to the filters of the feed.           *)
(*                                                                         *)
(* A byte on the air is <<s, i>>, byte i of section s, or Fill (0xff) after *)
(* the last section of a packet, or Noise.  Lengths and flags of a header  *)
(* are never damaged.  Section s has length lens[s].                       *)
(***************************************************************************)
EXTENDS Integers, Sequences, SequencesExt

CONSTANTS
  Payload,      \* bytes of a packet after its header (184 in the code)
  Lengths,      \* lengths of the sections on the air
  MaxSec,       \* the size of secbuf (4096)
  MaskMax,      \* bytes the masks of a filter look at (18)
  CcMod,        \* the continuity counter counts modulo this (16)
  Checks,       \* the values of check_crc the user may ask for
  MaxSections   \* bound: sections on the air

VARIABLES
  lens, rem, cc,   \* the air: sections begun, bytes of the last one still to send, counter
  sec,             \* the feed: secbuf, secbufp, seclen, cc, check_crc
  delivered,       \* history: what the filters were given
  cut, damaged     \* history: sections whose header a packet cut; anything lost or damaged

air  == <<lens, rem, cc>>
vars == <<lens, rem, cc, sec, delivered, cut, damaged>>

Fill  == <<0, 0>>
Noise == <<0, 1>>
Empty == <<0, 2>>
Bytes == ((1 .. MaxSections) \X (0 .. MaxSec)) \cup {Fill, Noise, Empty}

TypeOK ==
  /\ sec.secbuf \in [0 .. MaxSec - 1 -> Bytes]
  /\ sec.secbufp \in Nat
  /\ sec.seclen \in {0} \cup Lengths /\ sec.cc \in 0 .. CcMod - 1
  /\ rem \in 0 .. MaxSec /\ cc \in 0 .. CcMod - 1
  /\ cut \subseteq DOMAIN lens

Init ==
  /\ lens = <<>> /\ rem = 0 /\ cc = 0
  /\ \E c \in Checks :
       sec = [secbuf |-> [i \in 0 .. MaxSec - 1 |-> Empty], secbufp |-> 0,
              seclen |-> 0, cc |-> CcMod - 1, crc |-> c]
  /\ delivered = <<>> /\ cut = {} /\ damaged = FALSE

----------------------------------------------------------------------------
(* The air.                                                                *)

Sum(s) == FoldLeft(+, 0, s)

\* The lengths of the sections a packet with this room may begin: all but the last
\* must leave room for another.
Begun(room) ==
  {ls \in SeqOf(Lengths, 1 + room \div 3) : /\ ls # <<>> /\ Sum(Front(ls)) < room
                                 /\ Len(lens) + Len(ls) <= MaxSections}

\* A packet: [pusi, tail, new]: bytes of the section under way, and sections begun.
Continuing ==
  {[pusi |-> FALSE, tail |-> t, new |-> <<>>] :
     t \in IF rem = 0 THEN {} ELSE IF rem < Payload THEN {rem} ELSE {Payload}}

Starting ==
  IF rem + 1 >= Payload THEN {}
  ELSE {[pusi |-> TRUE, tail |-> rem, new |-> ls] : ls \in Begun(Payload - 1 - rem)}

Left(pkt) ==
  IF pkt.pusi THEN LET over == Sum(pkt.new) - (Payload - 1 - pkt.tail)
                   IN  IF over > 0 THEN over ELSE 0
  ELSE rem - pkt.tail

CutBy(pkt) ==
  LET room == Payload - 1 - pkt.tail - Sum(Front(pkt.new))
  IN  IF pkt.pusi /\ room <= 2 THEN {Len(lens) + Len(pkt.new)} ELSE {}

Send(pkt) ==
  /\ lens' = lens \o pkt.new
  /\ rem' = Left(pkt)
  /\ cc' = (cc + 1) % CcMod
  /\ cut' = cut \cup CutBy(pkt)

\* The bytes of the packet that belong to each section in it, the one under way first.
\* hit is the section of the packet that is damaged (its last byte here), 0 for none.
Pieces(pkt) ==
  LET n == Len(lens)
      at(k) == Payload - 1 - pkt.tail - Sum(SubSeq(pkt.new, 1, k - 1))    \* room
      len(k) == IF pkt.new[k] <= at(k) THEN pkt.new[k] ELSE at(k)
  IN  << [i \in 1 .. pkt.tail |-> <<n, lens[n] - rem + i - 1>>] >>
      \o [k \in 1 .. Len(pkt.new) |-> [i \in 1 .. len(k) |-> <<n + k, i - 1>>]]

Hit(pieces, hit) ==
  [k \in DOMAIN pieces |->
     IF k = hit THEN [pieces[k] EXCEPT ![Len(pieces[k])] = Noise] ELSE pieces[k]]

Hits(pieces) == {0} \cup {k \in DOMAIN pieces : Len(pieces[k]) > 0 /\ Last(pieces[k])[2] > 2}

----------------------------------------------------------------------------
(* The feed.  a is the feed in the middle of a packet: sec, and out, what  *)
(* it has delivered.                                                       *)

Copy(a, at, bytes) ==
  [a EXCEPT !.secbuf = [i \in at .. at + Len(bytes) - 1 |-> bytes[i - at + 1]] @@ @]

Reset(a) == [a EXCEPT !.secbufp = 0, !.seclen = 0]

Content(a) == [i \in 1 .. a.seclen |-> a.secbuf[i - 1]]

\* The checksum: it is right for a whole section only.
IsWhole(content) ==
  \E s \in {content[1][1]} \ {0} : content = [i \in 1 .. Len(content) |-> <<s, i - 1>>]

\* Wrong variant: the buffer is not given back once the filters have the section.
SectionFeedKeeps(a) ==
  IF a.secbufp # a.seclen \/ (a.crc /\ ~IsWhole(Content(a))) THEN a
  ELSE [a EXCEPT !.out = Append(@, Content(a))]

\* Wrong variant: the checksum is not asked for.
SectionFeedUnchecked(a) ==
  IF a.secbufp # a.seclen THEN a
  ELSE [Reset(a) EXCEPT !.out = Append(@, Content(a))]

\* Hands a complete section to the filters and clears the bytes the masks look at;
\* one with a bad checksum stays in the buffer.
SectionFeed(a) ==
  IF a.secbufp # a.seclen \/ (a.crc /\ ~IsWhole(Content(a))) THEN a
  ELSE [Reset(a) EXCEPT !.out = Append(@, Content(a)),
                        !.secbuf = [i \in 0 .. MaskMax - 1 |-> Empty] @@ @]

\* The rest of the section under way, before the pointer of a packet with PUSI.
Rest(a, ccok, bytes) ==
  IF bytes # <<>> /\ ccok /\ a.seclen > 0 /\ a.seclen - a.secbufp = Len(bytes)
  THEN SectionFeed([Copy(a, a.secbufp, bytes) EXCEPT !.secbufp = a.seclen])
  ELSE a

\* Wrong variant: a section that continues keeps the bytes of its header only.
TakeShort(a, s) ==
  IF s.len = Len(s.bytes)
  THEN SectionFeed([Copy(a, 0, s.bytes) EXCEPT !.seclen = s.len, !.secbufp = s.len])
  ELSE IF Len(s.bytes) <= 2 THEN Reset(a)
  ELSE [Copy(a, 0, s.bytes) EXCEPT !.seclen = s.len, !.secbufp = @ + 3]

\* One section that begins in the packet: complete, cut in its header, or continued.
\* The length of a continued section is added to what secbufp was.
Take(a, s) ==
  IF s.len = Len(s.bytes)
  THEN SectionFeed([Copy(a, 0, s.bytes) EXCEPT !.seclen = s.len, !.secbufp = s.len])
  ELSE IF Len(s.bytes) <= 2 THEN Reset(a)
  ELSE [Copy(a, 0, s.bytes) EXCEPT !.seclen = s.len, !.secbufp = @ + Len(s.bytes)]

\* Wrong variant: the bytes are appended without a look at what is missing.
ContinueLong(a, ccok, bytes) ==
  LET b == [Copy(a, a.secbufp, bytes) EXCEPT !.secbufp = @ + Len(bytes)]
  IN  IF ~ccok \/ a.secbufp = 0 THEN Reset(a) ELSE SectionFeed(b)

\* A packet without PUSI.
Continue(a, ccok, bytes) ==
  LET rest == a.seclen - a.secbufp
  IN  IF ~ccok \/ a.secbufp = 0 \/ rest < 0 THEN Reset(a)
      ELSE IF rest <= Len(bytes)
      THEN SectionFeed([Copy(a, a.secbufp, SubSeq(bytes, 1, rest))
                          EXCEPT !.secbufp = a.seclen])
      ELSE [Copy(a, a.secbufp, bytes) EXCEPT !.secbufp = @ + Len(bytes)]

\* dvb_dmx_swfilter_section_packet, and the reset its caller makes when it fails.
SectionPacket(pkt, pieces) ==
  LET ccok  == cc = (sec.cc + 1) % CcMod
      a     == [sec EXCEPT !.cc = cc] @@ [out |-> <<>>]
      fill  == [i \in 1 .. Payload - pkt.tail |-> Fill]
      new   == [k \in 1 .. Len(pkt.new) |-> [len |-> pkt.new[k], bytes |-> pieces[k + 1]]]
      after == IF pkt.pusi THEN FoldLeft(Take, Rest(a, ccok, pieces[1]), new)
               ELSE Continue(a, ccok, pieces[1] \o fill)
  IN  /\ sec' = [k \in DOMAIN sec |-> after[k]]
      /\ delivered' = delivered \o after.out

Receive ==
  \E pkt \in Continuing \cup Starting : \E hit \in Hits(Pieces(pkt)) :
    /\ Send(pkt)
    /\ SectionPacket(pkt, Hit(Pieces(pkt), hit))
    /\ damaged' = (damaged \/ hit # 0)

Lose ==
  \E pkt \in Continuing \cup Starting :
    /\ Send(pkt)
    /\ damaged' = TRUE
    /\ UNCHANGED <<sec, delivered>>

\* stop_filtering and start_filtering by the user.
Restart ==
  /\ sec' = Reset(sec)
  /\ damaged' = TRUE
  /\ UNCHANGED <<air, delivered, cut>>

Next == Receive \/ Lose \/ Restart

Spec == Init /\ [][Next]_vars

----------------------------------------------------------------------------
(* What a user of the feed relies on.                                      *)

\* The sections that came out whole.
Ids == LET whole == SelectSeq(delivered, IsWhole)
       IN  [i \in DOMAIN whole |-> whole[i][1][1]]

\* A user that asks for the checksum sees a stream that may lose sections and nothing
\* worse, whatever packets were lost or damaged: none twice, none out of order.
Stream == INSTANCE LossyStream WITH sent <- Len(lens), got <- Ids
LossyAtWorst == Stream!Spec

\* And none that is not whole.
DeliversWhole == sec.crc => \A i \in DOMAIN delivered : IsWhole(delivered[i])

\* As long as no packet was lost or damaged every section that has ended was delivered,
\* but for those whose first two bytes or less ended a packet (line 299 gives up on them).
LosesOnlyCut ==
  LET ended == Len(lens) - (IF rem > 0 THEN 1 ELSE 0)
  IN  ~damaged => Ids = SelectSeq([i \in 1 .. ended |-> i], LAMBDA s : s \notin cut)

\* What has been put together of a section under way is its beginning, unless a section
\* came apart before: then its length still counts (secbufp is added to at line 305).
HoldsPrefix ==
  (sec.secbufp > 0 /\ ~damaged) =>
    /\ sec.secbufp > 2 /\ sec.secbufp < sec.seclen
    /\ \A i \in 0 .. sec.secbufp - 1 : sec.secbuf[i] = <<Len(lens), i>>
=============================================================================
