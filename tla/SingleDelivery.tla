--------------------------- MODULE SingleDelivery ---------------------------
(***************************************************************************)
(* What action delivery promises, without saying how: every action has at  *)
(* most one owner among the channels, for good, and only its owner acts on *)
(* the application, at most Limit[channel] times.                          *)
(*                                                                         *)
(* The promise is that of docstring D-16..D-18 of                          *)
(* basicctrl/actions/idempotency.py; the limit is one for every channel    *)
(* but AppleScript, whose daemon may run a script a second time.           *)
(***************************************************************************)
EXTENDS Naturals

CONSTANTS Action, Channel, None, Limit

VARIABLES
  owner,     \* the channel an action belongs to, or None
  performed  \* how often each channel acted for the action

vars == <<owner, performed>>

Init ==
  /\ owner = [a \in Action |-> None]
  /\ performed = [a \in Action |-> [c \in Channel |-> 0]]

Own(a, c) ==
  /\ owner[a] = None
  /\ owner' = [owner EXCEPT ![a] = c]
  /\ UNCHANGED performed

Perform(a, c) ==
  /\ owner[a] = c
  /\ performed[a][c] < Limit[c]
  /\ performed' = [performed EXCEPT ![a][c] = @ + 1]
  /\ UNCHANGED owner

Next == \E a \in Action, c \in Channel : Own(a, c) \/ Perform(a, c)

Spec == Init /\ [][Next]_vars
=============================================================================
