--------------------------- MODULE RaceSelection ---------------------------
(***************************************************************************)
(* The pure decisions of basicctrl/actions: which delivery policy an       *)
(* action gets (race_policy.py) and which channels it is handed to         *)
(* (channel_registry.py).  Tiers name translators (ways to find a target), *)
(* channels name delivery mechanisms (ways to act on it).                  *)
(*                                                                         *)
(* A priority is the sequence of tiers of an application profile.  The     *)
(* list of candidates that select() builds is modelled as a set together   *)
(* with the order Before, since the code de-duplicates it and only its     *)
(* order of first occurrence matters.                                      *)
(***************************************************************************)
EXTENDS Naturals, Sequences

Tier == {"T1", "T2", "T3", "T4", "T5"}
Channel == {"C1", "C2", "C3", "C4", "C5"}

Policy == {"auto", "race", "single_channel"}
Effective == {"race", "single_channel"}

(***************************************************************************)
(* An action type is a verb, with the key combination for "key_combo:..."  *)
(* and "" otherwise.  Combos are lower case here: the code lowers them     *)
(* before it looks them up.                                                *)
(***************************************************************************)
ActionType == [verb : STRING, combo : STRING]

RaceAllowlist ==
  {"click", "click_button", "right_click", "focus", "scroll_to_position", "hover"}

SingleChannelAllowlist ==
  {"submit", "send", "delete", "confirm", "type_into_focused", "type",
   "type_text", "type_text_chars", "set_value", "drag_and_drop", "drag",
   "scroll_by_delta"}

DestructiveCombos == {"cmd+s", "cmd+enter", "cmd+return", "cmd+w", "cmd+z"}
SafeRaceCombos == {"cmd+c", "cmd+v"}

(* The verbs and combos whose repeated delivery would corrupt state (D-11). *)
Destructive(t) ==
  \/ t.verb \in SingleChannelAllowlist
  \/ t.verb = "key_combo" /\ t.combo \in DestructiveCombos

MayRace(t) ==
  \/ t.verb = "key_combo" /\ t.combo \in SafeRaceCombos
  \/ t.verb # "key_combo" /\ t.verb \in RaceAllowlist

(* The policy of the verb itself; anything unknown is single-channel. *)
Intrinsic(t) == IF MayRace(t) THEN "race" ELSE "single_channel"

(* A caller may narrow the policy but never widen it beyond the intrinsic one. *)
ResolvePolicy(policy, t) ==
  IF policy = "single_channel" THEN "single_channel" ELSE Intrinsic(t)

ChannelOf(tier) ==
  CASE tier = "T1" -> "C2"
    [] tier = "T2" -> "C5"
    [] tier = "T3" -> "C4"
    [] tier = "T4" -> "C1"
    [] OTHER -> "C3"

(* The inverse of ChannelOf; "none" has no tier. *)
TierOf(channel) ==
  CASE channel = "C2" -> "T1"
    [] channel = "C5" -> "T2"
    [] channel = "C4" -> "T3"
    [] channel = "C1" -> "T4"
    [] channel = "C3" -> "T5"
    [] OTHER -> "none"

(* The channels the tiers of a priority stand for, less the unregistered. *)
Available(priority, registered) ==
  {c \in registered : \E i \in DOMAIN priority : ChannelOf(priority[i]) = c}

(* c occurs in the priority before any occurrence of d. *)
Before(priority, c, d) ==
  \E i \in DOMAIN priority :
    /\ ChannelOf(priority[i]) = c
    /\ \A j \in DOMAIN priority : j <= i => ChannelOf(priority[j]) # d

(* All the available channels for a race, the first of them otherwise. *)
Select(priority, effective, registered) ==
  LET available == Available(priority, registered)
  IN  IF effective = "race"
      THEN available
      ELSE {c \in available : \A d \in available \ {c} : Before(priority, c, d)}

(***************************************************************************)
(* The handles a target carries when the translator of a tier made it,     *)
(* given as the channels that can act on it: T1 leaves an AX element, T2 a *)
(* CDP session with a bounding box, T3 a script, T4 and T5 (which copies   *)
(* T4's target) a bounding box.                                            *)
(***************************************************************************)
ReadyFor(tier) ==
  CASE tier = "T1" -> {"C2"}
    [] tier = "T2" -> {"C5", "C1", "C3"}
    [] tier = "T3" -> {"C4"}
    [] tier \in {"T4", "T5"} -> {"C1", "C3"}
    [] OTHER -> {}
=============================================================================
