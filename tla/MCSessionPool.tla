--------------------------- MODULE MCSessionPool ---------------------------
(***************************************************************************)
(* Instances of SessionPool for TLC.                                       *)
(***************************************************************************)
EXTENDS SessionPool

CONSTANTS c1, c2, c3, s1, s2, s3, m1, m2
ThreeCalls == {c1, c2, c3}
ThreeSessions == {s1, s2, s3}
TwoComputers == {m1, m2}

(* A task in one session, and: another task there or elsewhere, with any   *)
(* call that has no computer; or screenshots of two other sessions, the    *)
(* last of which may find the pool full.                                   *)
Asked(x, y) == [c \in ThreeCalls |-> CASE c = c1 -> <<"task", s1>> [] c = c2 -> x [] c = c3 -> y]

SomeAsks ==
  {Asked(x, <<kind, s1>>) : x \in {"task"} \X {s1, s2}, kind \in {"cleanup", "stats"}}
    \cup {Asked(<<"screenshot", s2>>, <<"screenshot", s3>>)}
=============================================================================
