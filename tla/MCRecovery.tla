----------------------------- MODULE MCRecovery -----------------------------
(***************************************************************************)
(* Instances of Recovery for TLC.                                          *)
(***************************************************************************)
EXTENDS Recovery

CONSTANTS a1, a2, k1

MCAttempt == {a1, a2}
MCKey == {k1}

(* What main.py registers. *)
RegisteredBranches ==
  <<"B1_RESCROLL", "B2_OCR_REGROUND", "B3_WORLD_REPLAN", "B4_PLANNER_REPLAN",
    "B5_APPLESCRIPT_FALLBACK">>

AllReplies == Reply

(* A class with one branch, one that no branch is registered for, and one that
   has two branches and counts the attempts. *)
MCContexts ==
  {[band |-> ".50-.70", error |-> "unexpected state", prev |-> 0],
   [band |-> ".30-.50", error |-> "cdp ws closed", prev |-> 0],
   [band |-> ">.70", error |-> "other", prev |-> 2]}

Either == BOOLEAN
=============================================================================
