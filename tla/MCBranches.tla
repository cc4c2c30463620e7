----------------------------- MODULE MCBranches -----------------------------
(***************************************************************************)
(* Instances of Branches for TLC.                                          *)
(***************************************************************************)
EXTENDS Branches

CONSTANTS a1

OneAction == {a1}

(* The branches the failure classes list, under their registered names. *)
ClassFans == {{"B1", "B2", "B4"}, {"B3", "B4"}, {"B1", "B2", "B5"}, {"B4", "B5"}}

(* What the server hands in: no process, with cognition or without; and what
   the interface takes. *)
AllContexts == Context
=============================================================================
