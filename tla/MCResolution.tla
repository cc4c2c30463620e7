---------------------------- MODULE MCResolution ----------------------------
(* Instances of Resolution for TLC. *)
EXTENDS Resolution

CONSTANTS c1, c2

MCAsker == {c1, c2}

(* Two calls of one process, or of two. *)
MCLayouts == {[c \in MCAsker |-> "p"], [c \in MCAsker |-> IF c = c1 THEN "p" ELSE "q"]}
MCVerbs == {[c \in MCAsker |-> FALSE], [c \in MCAsker |-> c = c1]}

Of(version, build, sdef) == [version |-> version, build |-> build, sdef |-> sdef]

(* A new build that can be scripted, then a version the table does not know. *)
MCReleases == <<Of(14, 1, FALSE), Of(14, 2, TRUE), Of(15, 1, FALSE)>>
=============================================================================
