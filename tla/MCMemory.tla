------------------------------ MODULE MCMemory ------------------------------
(***************************************************************************)
(* Instances of Memory for TLC.                                            *)
(***************************************************************************)
EXTENDS Memory

CONSTANTS h1, t1, t2, l1, p1, p2
TwoProcesses == {p1, p2}

(* A task and a host in one process, a task in another, and a lesson. *)
FourAgents == {h1, t1, t2, l1}
FourHomes == [a \in FourAgents |-> IF a = t2 THEN p2 ELSE p1]
FourKinds == [a \in FourAgents |->
  CASE a = h1 -> "host" [] a = l1 -> "lesson" [] OTHER -> "task"]
FourSteps == [a \in FourAgents |-> IF a = t1 THEN 2 ELSE IF a = l1 THEN 0 ELSE 1]
=============================================================================
