------------------------------ MODULE PcrClock ------------------------------
(***************************************************************************)
(* How the clock of the decoder follows the clock of the stream            *)
(* (avia_gt_pcr_irq in avia_gt_dmx.c).  The interrupt of a program clock   *)
(* reference compares it with the decoder's clock, latched at its arrival. *)
(* Both counters have 33 bits and wrap; the difference has 32 bits.  An    *)
(* interrupt may be missed, and the broadcaster may jump.                  *)
(***************************************************************************)
EXTENDS Integers

CONSTANTS
  Wrap,       \* 2^33; the difference is computed modulo Wrap \div 2
  MaxPcrDiff, \* MAX_PCR_DIFF
  MaxDiff,    \* MAX_DIFF
  ForceDiff,  \* FORCE_DIFF
  MaxDiffDiff,\* MAX_DIFF_DIFF
  Steps,      \* what either clock advances between two references
  MaxGain     \* bound: of the correction, in units of GAIN

VARIABLES
  pcr, stc,   \* the clocks; as they are read at the last reference
  clk,        \* the static variables of the interrupt
  reload,     \* force_stc_reload
  away,       \* history: stc - pcr, not reduced, since the last reload
  step        \* history: how far the references of the last interrupt were apart

vars == <<pcr, stc, clk, reload, away, step>>

Far == Wrap \div 4
Jump == 0 - 1

TypeOK ==
  /\ pcr \in 0 .. Wrap - 1 /\ stc \in 0 .. Wrap - 1
  /\ clk.last_pcr \in 0 .. Wrap - 1 /\ clk.diff \in Int
  /\ reload \in BOOLEAN

Init ==
  /\ pcr = 0 /\ stc = 0
  /\ clk = [last_pcr |-> 0, last_lstc |-> 0, diff |-> 0, gain |-> 0, dir |-> "OK"]
  /\ reload = TRUE /\ away = 0 /\ step = 0

\* A value of the signed 32 bit type of the difference.
Signed(x) == LET h == Wrap \div 2 IN ((x + (h \div 2)) % h) - (h \div 2)

\* Wrong variant: the wrap of the decoder's clock alone is not seen, in a wider type.
DifferenceWide(p, l) ==
  IF p < clk.last_pcr /\ l >= clk.last_lstc THEN l - p - Wrap ELSE l - p

\* pcr_lstc_diff: either clock may have wrapped since the last interrupt.
Difference(p, l) ==
  Signed(CASE p < clk.last_pcr /\ l >= clk.last_lstc -> l - p - Wrap
           [] p >= clk.last_pcr /\ l < clk.last_lstc -> l + Wrap - p
           [] OTHER -> l - p)

PcrStep(p) == IF p > clk.last_pcr THEN p - clk.last_pcr ELSE p + Wrap - clk.last_pcr

Direction(dd) == CASE dd > MaxDiffDiff -> "FAST" [] dd < -MaxDiffDiff -> "SLOW" [] OTHER -> "OK"

\* The correction: strong when the clocks are far apart and do not approach each other.
Adjusted(d) ==
  LET dir == Direction(d - clk.diff)
      up(x)   == [gain |-> clk.gain + 1, diff |-> x]
      down(x) == [gain |-> clk.gain - 1, diff |-> x]
      new == CASE d > ForceDiff /\ dir # "SLOW" -> up(d)
               [] d < -ForceDiff /\ dir # "FAST" -> down(d)
               [] d \in -ForceDiff .. ForceDiff /\ dir = "FAST" -> up(clk.diff + 1)
               [] d \in -ForceDiff .. ForceDiff /\ dir = "SLOW" -> down(clk.diff - 1)
               [] OTHER -> [gain |-> clk.gain, diff |-> clk.diff]
  IN  [gain |-> new.gain, diff |-> new.diff, dir |-> dir]

\* A reference arrives: the clocks are a and b further than at the last one, or the
\* broadcaster jumped.  After a reload the decoder's clock has its value.
PcrIrq(a, b) ==
  LET p == IF a = Jump THEN (pcr + Far) % Wrap ELSE (pcr + a) % Wrap
      l == (stc + b) % Wrap
      d == Difference(p, l)
      g == Adjusted(d)
  IN  /\ pcr' = p
      /\ IF reload
         THEN /\ stc' = p /\ reload' = FALSE /\ away' = 0 /\ step' = 0
              /\ clk' = [clk EXCEPT !.last_pcr = p, !.last_lstc = p, !.diff = 0, !.dir = "OK"]
         ELSE /\ stc' = l
              /\ away' = away + b - (IF a = Jump THEN Far ELSE a)
              /\ step' = IF a = Jump THEN Far ELSE a
              /\ IF PcrStep(p) > MaxPcrDiff
                 THEN reload' = TRUE /\ UNCHANGED clk
                 ELSE IF d > MaxDiff \/ d < -MaxDiff
                 THEN /\ reload' = TRUE
                      /\ clk' = [clk EXCEPT !.last_pcr = p, !.last_lstc = l]
                 ELSE /\ UNCHANGED reload
                      /\ -MaxGain <= g.gain /\ g.gain <= MaxGain
                      /\ clk' = [last_pcr |-> p, last_lstc |-> l, diff |-> g.diff,
                                 gain |-> g.gain, dir |-> g.dir]

\* Another pid is set, or the decoder asks for it.
ForceDiscontinuity == ~reload /\ reload' = TRUE /\ UNCHANGED <<pcr, stc, clk, away, step>>

Next ==
  \/ \E a \in Steps \cup {Jump}, b \in Steps : PcrIrq(a, b)
  \/ ForceDiscontinuity

Spec == Init /\ [][Next]_vars

\* The interrupt reloads the clock when the clocks are apart or references are missing, and
\* only then: a wrap of either clock, in whatever order they wrap, is neither.
ReloadsWhenApart ==
  [][(\E a \in Steps \cup {Jump}, b \in Steps : PcrIrq(a, b)) /\ ~reload =>
       (reload' <=> away' > MaxDiff \/ away' < -MaxDiff \/ step' > MaxPcrDiff)]_vars
=============================================================================
