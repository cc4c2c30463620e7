---------------------------- MODULE MCActionRace ----------------------------
(***************************************************************************)
(* Instances of ActionRace for TLC.                                        *)
(***************************************************************************)
EXTENDS ActionRace, Profiles

CONSTANTS a1

OneAction == {a1}

(* Every order that classify can put into a profile, before and after the
   iWork applications drift out of the table. *)
ProfilePriorities ==
  {Priority(b, version, f) :
     b \in KnownBundle \cup {"other"}, version \in {14, 15}, f \in Facts}

Click == [verb |-> "click", combo |-> ""]
Submit == [verb |-> "submit", combo |-> ""]
Save == [verb |-> "key_combo", combo |-> "cmd+s"]
Copy == [verb |-> "key_combo", combo |-> "cmd+c"]
Unknown == [verb |-> "pinch", combo |-> ""]

AllTypes == {Click, Submit, Save, Copy, Unknown}
AllTiers == Tier

(* What main.py registers, and a registry without the channels of T4 and T5. *)
MCRegistries == {Channel, {"C2", "C4", "C5"}}
=============================================================================
