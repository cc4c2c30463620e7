-------------------------- MODULE MCBrowserDaemon --------------------------
(***************************************************************************)
(* Instances of BrowserDaemon for TLC.                                     *)
(***************************************************************************)
EXTENDS BrowserDaemon

CONSTANTS c1, c2
TwoCalls == {c1, c2}
Processes == 1..4
ClickAndAny == [c \in TwoCalls |-> IF c = c1 THEN {"click"} ELSE {"click", "restart_daemon"}]
=============================================================================
