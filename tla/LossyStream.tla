---------------------------- MODULE LossyStream ----------------------------
(***************************************************************************)
(* What a path that may lose data promises: items, numbered in the order   *)
(* they were sent, come out each at most once and in that order.  Several  *)
(* may come out in one step and some never do.                             *)
(***************************************************************************)
EXTENDS Integers, Sequences, SequencesExt

VARIABLES
  sent,   \* how many items have been sent
  got     \* the items that came out

Increasing(s) == \A i, j \in DOMAIN s : i < j => s[i] < s[j]

Init == sent = 0 /\ got = <<>>

Next ==
  /\ sent' >= sent
  /\ IsPrefix(got, got')
  /\ Increasing(got')
  /\ \A i \in DOMAIN got' : got'[i] \in 1 .. sent'

Spec == Init /\ [][Next]_<<sent, got>>
=============================================================================
