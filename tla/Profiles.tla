------------------------------ MODULE Profiles ------------------------------
(***************************************************************************)
(* The pure decisions of basicctrl/profile: the translators an application *)
(* is approached with, in which order (known_apps.py and classifier.py),   *)
(* and whether a profile kept on disk still counts (cache.py).             *)
(*                                                                         *)
(* Bundle identifiers are short names and versions are numbers.  The       *)
(* fields of a known application that classify does not read are left out. *)
(***************************************************************************)
EXTENDS Naturals, Sequences

KnownBundle ==
  {"calculator", "pages", "numbers", "keynote", "mail", "calendar", "notes",
   "reminders", "safari", "slack", "cursor", "obsidian", "settings", "terminal",
   "music", "chrome", "chess"}

(* The table's order of translators. *)
KnownPriority(b) ==
  CASE b = "calculator" -> <<"T1", "T4", "T5">>
    [] b \in {"pages", "numbers", "keynote"} -> <<"T3", "T1", "T4">>
    [] b \in {"mail", "calendar", "notes", "reminders"} -> <<"T1", "T3", "T4">>
    [] b \in {"slack", "cursor", "obsidian"} -> <<"T2", "T4", "T5">>
    [] b \in {"safari", "terminal", "music"} -> <<"T1", "T3">>
    [] b = "settings" -> <<"T1">>
    [] b = "chrome" -> <<"T2", "T1">>
    [] b = "chess" -> <<"T4", "T5">>

(* The newest version the table's entry is trusted for, 0 for any. *)
MinKnownVersion(b) == IF b \in {"pages", "numbers", "keynote"} THEN 14 ELSE 0

(* Whether the table decides: the application is in it and has not drifted. *)
Bundled(b, version) ==
  /\ b \in KnownBundle
  /\ MinKnownVersion(b) # 0 => version <= MinKnownVersion(b)

(* What the probes find out. *)
Facts == [electron : BOOLEAN, port : BOOLEAN, rich : BOOLEAN, sdef : BOOLEAN]

When(there, t) == IF there THEN <<t>> ELSE <<>>

(* Variant of Derived: vision only for an application with nothing better. *)
DerivedEager(f) ==
  When(f.electron /\ f.port, "T2") \o When(f.rich, "T1") \o When(f.sdef, "T3") \o
  (IF f.rich \/ f.sdef THEN <<>> ELSE <<"T4", "T5">>)

(* _derive_translator_priority: vision and pixels are always at the tail. *)
Derived(f) ==
  When(f.electron /\ f.port, "T2") \o When(f.rich, "T1") \o When(f.sdef, "T3") \o
  <<"T4", "T5">>

Priority(b, version, f) ==
  IF Bundled(b, version) THEN KnownPriority(b) ELSE Derived(f)

(* should_invalidate_cache. *)
Outdated(profile, release) ==
  profile.version # release.version \/ profile.build # release.build
=============================================================================
