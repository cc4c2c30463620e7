---------------------------- MODULE MCCDPSession ----------------------------
(***************************************************************************)
(* Instances of CDPSession for TLC: two actions, a page of the workspace   *)
(* and another one.                                                        *)
(***************************************************************************)
EXTENDS CDPSession

CONSTANTS a1, a2, w1, p1

TwoActions == {a1, a2}
TwoPages == {w1, p1}
WorkspacePages == {w1}
InternalPages == {}
=============================================================================
