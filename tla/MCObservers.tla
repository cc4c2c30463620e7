----------------------------- MODULE MCObservers -----------------------------
(***************************************************************************)
(* Instances of Observers for TLC.                                         *)
(***************************************************************************)
EXTENDS Observers, TLC

CONSTANTS a1, a2, r1

TwoActions == {a1, a2}
OneRoot == {r1}
SameRoot == [a \in TwoActions |-> r1]

Sym == Permutations(TwoActions)
=============================================================================
