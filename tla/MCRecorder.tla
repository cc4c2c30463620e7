----------------------------- MODULE MCRecorder -----------------------------
(***************************************************************************)
(* Instances of Recorder for TLC.                                          *)
(***************************************************************************)
EXTENDS Recorder

AllKinds == EventKind
AllModes == TimerMode
=============================================================================
