--------------------------- MODULE MCPersistence ---------------------------
(***************************************************************************)
(* Instances of Persistence for TLC.                                       *)
(***************************************************************************)
EXTENDS Persistence

CONSTANTS c1, c2, c3, r1, r2

ThreeCalls == {c1, c2, c3}
TwoRecordings == {r1, r2}

Swap == Permutations(ThreeCalls) \cup Permutations(TwoRecordings)
=============================================================================
