--------------------------- MODULE MCVerification ---------------------------
(***************************************************************************)
(* Instances of Verification for TLC: one call of each of the four modes,  *)
(* while others change the desktop and take tokens.                        *)
(***************************************************************************)
EXTENDS Verification

CONSTANTS c1, r, x, y, w1, w2

MCCall == {c1}
MCNode == {r, x, y}

Tree(a, b) ==
  [n \in MCNode |-> IF n = r THEN a ELSE IF n = x THEN b ELSE <<>>]

(* A small tree, and one that is too wide for the medium layer. *)
MCShapes == {Tree(<<x>>, <<>>), Tree(<<x, y>>, <<>>)}

MCLabelOf == [n \in MCNode |-> IF n = y THEN "ok" ELSE "other"]

MCCap ==
  [k \in Kind |-> IF k = "T1" THEN [depth |-> 2, children |-> 2, nodes |-> 3]
                  ELSE [depth |-> 2, children |-> 1, nodes |-> 3]]

MCCapacity == [b \in Bucket |-> IF b = "validate" THEN 1 ELSE 4]

P(mode, class, cdp, expects, effects) ==
  [mode |-> mode, class |-> class, cdp |-> cdp, expects |-> expects, label |-> "ok",
   effects |-> effects]

MCPlans ==
  {[c \in MCCall |-> p] :
     p \in {P("race", "click", FALSE, FALSE, {{}, {"value", "focus"}, {w1, w2, "roi"}}),
            P("proxy", "type", TRUE, FALSE, {{}, {"value", "nav"}, {"focus", "pb"}}),
            P("demo", "click", TRUE, FALSE, {{"focus", "nav"}, {"roi"}}),
            P("ladder", "scroll", FALSE, TRUE, {{}, {"roi"}, {"focus", "tree"}})}}

MCForeign == {{w1, "value"}, {"roi", "nav"}, {"tree"}}
=============================================================================
