--------------------------- MODULE SectionFilters ---------------------------
(***************************************************************************)
(* How the section filters of a feed become filters of the demux processor *)
(* (prop_ucode_alloc_section_filter, avia_gt_ucode.c).  The processor may  *)
(* pass more than the filters of the feed accept, since the driver checks  *)
(* every section again, but never less.  It knows a mask and a value per   *)
(* byte, one flag that negates a filter and one that negates the byte of   *)
(* the version, and either all filters of a block must match or any one.   *)
(*                                                                         *)
(* A byte is a set of bits, so that & is \cap and ^ the difference.        *)
(***************************************************************************)
EXTENDS Integers, Sequences, FiniteSets, FiniteSetsExt, SequencesExt

CONSTANTS
  Bits,        \* bits of a byte
  Bytes,       \* bytes that are compared (8)
  Version,     \* which of them holds the version
  MaxFilters   \* filters of a feed the hardware is used for (16)

VARIABLES
  filters,  \* the filters of the feed
  block     \* what the processor was given, "none" before that, "refused" if it is not used

vars == <<filters, block>>

Pos == 1 .. Bytes
ByteFilter == {b \in [mask : SUBSET Bits, value : SUBSET Bits, neg : SUBSET Bits] :
                 b.value \subseteq b.mask /\ b.neg \subseteq b.mask}
Filter == [Pos -> ByteFilter]
Section == [Pos -> SUBSET Bits]

Empty(state) == [state |-> state, any |-> FALSE, e |-> <<>>]

Init ==
  /\ filters \in UNION {[1 .. n -> Filter] : n \in 1 .. MaxFilters}
  /\ block = Empty("none")

TypeOK ==
  /\ filters \in Seq(Filter)
  /\ block.state \in {"none", "refused", "set"} /\ Len(block.e) \in 0 .. MaxFilters + 1

\* What the driver itself accepts: all bits that must match do, and of those that must
\* differ, where there are any, one does.
Accepts(f, x) ==
  /\ \A p \in Pos : x[p] \cap (f[p].mask \ f[p].neg) = f[p].value \ f[p].neg
  /\ (\E p \in Pos : f[p].neg # {}) =>
       \E p \in Pos : x[p] \cap f[p].neg # f[p].value \cap f[p].neg

----------------------------------------------------------------------------
(* One entry: masks and values, the last byte that is compared, and what   *)
(* the version must not be.                                                *)

LastOf(mask) == Max({0} \cup {p \in Pos : mask[p] # {}})

OnlyNot(b) == b.neg # {} /\ b.neg = b.mask

Entry(f) ==
  LET mask == [p \in Pos |-> f[p].mask]
  IN  [mask |-> mask, value |-> [p \in Pos |-> f[p].value], last |-> LastOf(mask),
       ver |-> OnlyNot(f[Version]), nmask |-> f[Version].mask, nvalue |-> f[Version].value,
       same |-> TRUE, not |-> FALSE]

\* A single filter: a second entry for the bits that must differ, or its negation.
Single(f) ==
  LET e      == Entry(f)
      nots   == {p \in Pos : f[p].neg # {}}
      mixed  == {p \in nots : ~OnlyNot(f[p])}
      normal == {p \in Pos \ nots : f[p].mask # {}}
  IN  IF nots = {} \/ (nots = {Version} /\ mixed = {}) THEN <<e>>
      ELSE IF normal # {}
      THEN <<[e EXCEPT !.mask = [p \in Pos |-> f[p].mask \ f[p].neg],
                       !.value = [p \in Pos |-> f[p].value \ f[p].neg]],
             [e EXCEPT !.mask = [p \in Pos |-> f[p].neg],
                       !.value = [p \in Pos |-> f[p].value \cap f[p].neg],
                       !.ver = FALSE, !.not = TRUE]>>
      ELSE <<[e EXCEPT !.not = TRUE]>>

\* Of several filters only the bits that must match are kept.
Positive(f) ==
  LET mask == [p \in Pos |-> f[p].mask \ f[p].neg]
  IN  [Entry(f) EXCEPT !.mask = mask, !.value = [p \in Pos |-> f[p].value \ f[p].neg],
                       !.last = LastOf(mask)]

----------------------------------------------------------------------------
(* Redundant entries are merged, a into one that passes what a and b do.   *)

Common(a, b) == 1 .. Min({a.last, b.last})

SameNot(a, b) == a.ver = b.ver /\ a.nmask = b.nmask /\ a.nvalue = b.nvalue

Narrowed(a, b, mask, last) ==
  [a EXCEPT !.mask = mask, !.value = [p \in Pos |-> a.value[p] \cap mask[p]],
            !.last = last, !.same = @ /\ SameNot(a, b)]

\* The bytes that are compared are one, and differ in one bit.
DifferInOneBit(a, b) ==
  LET x == (a.value[1] \ b.value[1]) \cup (b.value[1] \ a.value[1])
  IN  Common(a, b) = {1} /\ a.mask[1] = b.mask[1] /\ Cardinality(x) = 1

WithoutBit(a, b) ==
  LET x    == (a.value[1] \ b.value[1]) \cup (b.value[1] \ a.value[1])
      mask == [p \in Pos |-> IF p = 1 THEN a.mask[1] \ x ELSE {}]
  IN  Narrowed(a, b, mask, IF a.last = 1 THEN LastOf(mask) ELSE 1)

\* In every byte one mask holds the other, and the values agree where both compare.
Redundant(a, b) ==
  \A p \in Common(a, b) :
    LET t == a.mask[p] \cap b.mask[p]
    IN  t \in {a.mask[p], b.mask[p]} /\ a.value[p] \cap t = b.value[p] \cap t

\* Wrong variant: the bytes behind the last one compared keep their masks.
WeakerKeeps(a, b) ==
  Narrowed(a, b, [p \in Pos |-> IF p \in Common(a, b) THEN a.mask[p] \cap b.mask[p] ELSE a.mask[p]],
           Max(Common(a, b)))

Weaker(a, b) ==
  Narrowed(a, b, [p \in Pos |-> IF p \in Common(a, b) THEN a.mask[p] \cap b.mask[p] ELSE {}],
           Max(Common(a, b)))

\* The entry j is merged into i where that is possible; last = 0 marks an entry that is gone,
\* and refused a filter that would pass everything.
Merge(s, i, j) ==
  LET a == s.e[i] b == s.e[j]
  IN  IF s.refused \/ a.last = 0 \/ b.last = 0 THEN s
      ELSE IF DifferInOneBit(a, b)
      THEN LET m == WithoutBit(a, b)
           IN  [e |-> [s.e EXCEPT ![i] = m, ![j].last = 0], refused |-> m.last = 0]
      ELSE IF Redundant(a, b)
      THEN [s EXCEPT !.e = [@ EXCEPT ![i] = Weaker(a, b), ![j].last = 0]]
      ELSE s

Pairs(n) == SetToSortSeq({p \in (1 .. n) \X (1 .. n) : p[1] < p[2]},
                         LAMBDA p, q : p[1] < q[1] \/ (p[1] = q[1] /\ p[2] < q[2]))

\* Passes over all pairs until nothing changes: each but the last one merges some.
Merged(es) ==
  LET pass(s) == FoldLeft(LAMBDA t, p : Merge(t, p[1], p[2]), s, Pairs(Len(es)))
  IN  FoldLeft(LAMBDA t, k : pass(t), [e |-> es, refused |-> FALSE], [k \in 1 .. Len(es) |-> k])

\* What is written for an entry: the version is negated unless a merge changed it.
Written(e) == [mask |-> e.mask, value |-> e.value, not |-> e.not, notver |-> e.same /\ e.ver,
               nmask |-> e.nmask, nvalue |-> e.nvalue]

InUse(es) == SelectSeq(es, LAMBDA e : e.last # 0)

Set(any, es) == [state |-> "set", any |-> any, e |-> [i \in DOMAIN es |-> Written(es[i])]]

OfSeveral(es) ==
  LET m == Merged(es)
  IN  IF (\E i \in DOMAIN es : es[i].last = 0) \/ m.refused THEN Empty("refused")
      ELSE Set(TRUE, InUse(m.e))

Block(fs) ==
  IF \E i \in DOMAIN fs : Entry(fs[i]).last = 0 THEN Empty("refused")
  ELSE IF Len(fs) = 1 THEN Set(FALSE, Single(fs[1]))
  ELSE OfSeveral([i \in DOMAIN fs |-> Positive(fs[i])])

Program ==
  /\ block.state = "none"
  /\ block' = Block(filters)
  /\ UNCHANGED filters

Next == Program
Spec == Init /\ [][Next]_vars

----------------------------------------------------------------------------
(* The processor.                                                          *)

Matches(e, x) ==
  LET same(p) == x[p] \cap e.mask[p] = e.value[p]
      ver == IF e.notver THEN x[Version] \cap e.nmask # e.nvalue ELSE same(Version)
  IN  ((\A p \in Pos \ {Version} : same(p)) /\ ver) # e.not

Passes(x) ==
  IF block.any THEN \E i \in DOMAIN block.e : Matches(block.e[i], x)
  ELSE \A i \in DOMAIN block.e : Matches(block.e[i], x)

Programmed == block.state = "set"

\* At most one byte of the filter must differ.
SimpleNot(f) == Cardinality({p \in Pos : f[p].neg # {}}) <= 1

\* A section that a filter of the feed accepts is never kept back by the processor, in
\* whatever way the filters were split, narrowed and merged.
PassesAll ==
  Programmed /\ (\A i \in DOMAIN filters : SimpleNot(filters[i])) =>
    \A x \in Section : (\E i \in DOMAIN filters : Accepts(filters[i], x)) => Passes(x)
=============================================================================
