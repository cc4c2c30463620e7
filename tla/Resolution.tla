----------------------------- MODULE Resolution -----------------------------
(***************************************************************************)
(* From an application to a target: classify (profile/classifier.py) with  *)
(* its cache on disk (profile/cache.py) and its probes, and the search of  *)
(* the translators in the order of the profile, as RaceOrchestrator.execute*)
(* makes it (actions/race_orchestrator.py).                                *)
(*                                                                         *)
(* Calls run in processes that share the directory of profiles.  The       *)
(* application may be updated, restarted with or without a debugging port, *)
(* lose its windows or its visible label; the permission may be revoked;   *)
(* a process may end anywhere.  A file being written is Partial, and a     *)
(* writer writes into the file it opened, whatever it is called by then.   *)
(***************************************************************************)
EXTENDS Profiles, FiniteSets

CONSTANTS
  Asker,        \* the calls
  Bundle,       \* the applications considered
  Layouts,      \* the process of each call
  Verbs,        \* whether a call brings an AppleScript verb
  Releases,     \* version, build and scripting dictionary, in order
  Registered,   \* tiers with a registered translator
  MaxUpsets,    \* bound on what happens to the application and the processes
  Nothing,      \* no file, no profile, no answer yet
  Partial       \* a file that is not whole

Tiers == {"T1", "T2", "T3", "T4", "T5"}

Profile ==
  [version : Nat, build : Nat, bundled : BOOLEAN, sdef : BOOLEAN, priority : Seq(Tiers)]

ASSUME ResolutionAssumption ==
  /\ Releases \in Seq([version : Nat \ {0}, build : Nat, sdef : BOOLEAN]) \ {<<>>}
  /\ MaxUpsets \in Nat
  /\ Nothing # Partial /\ Nothing \notin Profile /\ Partial \notin Profile
  /\ Nothing \notin {"tmp", "disk", "gone"}

(* The scripting dictionary comes with the release; the cache compares no more
   than the version and the build. *)
ASSUME SameRelease ==
  \A i, j \in DOMAIN Releases :
    /\ Releases[i].version = Releases[j].version
    /\ Releases[i].build = Releases[j].build
    => Releases[i].sdef = Releases[j].sdef

VARIABLES
  bundle,    \* the application asked for
  proc,      \* the process of each call
  verb,      \* whether a call brings a verb
  release,   \* which release is installed
  run,       \* the running application: instance, richness
  port,      \* whether a debugging port answers, its own or another's
  visible,   \* whether the label can be read on the screen
  trusted,   \* the accessibility permission
  disk, tmp, \* the file of the profile and the one renamed onto it
  pc,        \* where each call is
  seen,      \* the release a call read
  probed,    \* what its probes returned
  profile,   \* its profile
  asked,     \* how far the search has come in its order
  held,      \* the instance its accessibility element belongs to
  fd,        \* the file it writes to
  gap,       \* history: the label could not be read at some moment of the call
  upsets

appVars == <<release, run, port, visible, trusted>>
files == <<disk, tmp>>
callVars == <<pc, seen, probed, profile, asked, held, fd>>
resolutionVars == <<bundle, proc, verb, appVars, files, callVars, gap, upsets>>

Over == {"idle", "target", "raised", "savefailed", "exited"}
Writing == {"open", "rename"}

-----------------------------------------------------------------------------
(* Processes. *)

(* The calls of process p are over, and their files closed. *)
Ends(p) ==
  /\ pc' = [c \in Asker |->
              IF proc[c] = p /\ pc[c] \notin Over THEN "exited" ELSE pc[c]]
  /\ fd' = [c \in Asker |-> IF proc[c] = p THEN Nothing ELSE fd[c]]

(* SystemExit(2), or a crash. *)
ProcessEnds ==
  /\ upsets < MaxUpsets /\ upsets' = upsets + 1
  /\ \E c \in Asker : pc[c] \in Writing /\ Ends(proc[c])
  /\ UNCHANGED <<bundle, proc, verb, appVars, files, seen, probed, profile, asked,
                 held, gap>>

(* A step of c, which runs while no other call of its process is between two
   statements of a save: there is no await between them. *)
Runs(c) == \A d \in Asker \ {c} : proc[d] = proc[c] => pc[d] \notin Writing

(* The permission is checked before anything else. *)
Start(c) ==
  /\ pc[c] = "idle" /\ Runs(c)
  /\ IF trusted
     THEN pc' = [pc EXCEPT ![c] = "meta"] /\ UNCHANGED fd
     ELSE /\ pc' = [d \in Asker |-> IF d = c \/ (proc[d] = proc[c] /\ pc[d] \notin Over)
                                   THEN "exited" ELSE pc[d]]
          /\ fd' = [d \in Asker |-> IF proc[d] = proc[c] THEN Nothing ELSE fd[d]]
  /\ gap' = [gap EXCEPT ![c] = ~visible]
  /\ UNCHANGED <<bundle, proc, verb, appVars, files, seen, probed, profile, asked,
                 held, upsets>>

-----------------------------------------------------------------------------
(* The profile. *)

(* probe_bundle_metadata: version, build and scripting from one Info.plist. *)
ReadMetadata(c) ==
  /\ pc[c] = "meta" /\ Runs(c)
  /\ seen' = [seen EXCEPT ![c] = Releases[release]]
  /\ pc' = [pc EXCEPT ![c] = "load"]
  /\ UNCHANGED <<bundle, proc, verb, appVars, files, probed, profile, asked, held, fd,
                 gap, upsets>>

(* load_cached_profile returns nothing for a file it cannot parse. *)
Readable == disk \notin {Nothing, Partial}

(* The cached profile, or the probes are started. *)
LoadCached(c) ==
  /\ pc[c] = "load" /\ Runs(c)
  /\ IF Readable /\ (disk \in Profile => ~Outdated(disk, seen[c]))
     THEN /\ profile' = [profile EXCEPT ![c] = disk]
          /\ pc' = [pc EXCEPT ![c] = "ask"]
     ELSE /\ pc' = [pc EXCEPT ![c] = "probe"]
          /\ UNCHANGED profile
  /\ UNCHANGED <<bundle, proc, verb, appVars, files, seen, probed, asked, held, fd, gap,
                 upsets>>

Electron == bundle \in {"slack", "cursor", "obsidian", "electron"}

(* The children of the application element, unless that takes too long. *)
ProbeRich(c) ==
  /\ pc[c] = "probe" /\ probed[c].rich = Nothing /\ Runs(c)
  /\ \E there \in {FALSE, run.rich} : probed' = [probed EXCEPT ![c].rich = there]
  /\ UNCHANGED <<bundle, proc, verb, appVars, files, pc, seen, profile, asked, held, fd,
                 gap, upsets>>

(* Any port that answers is taken for the application's. *)
ProbePort(c) ==
  /\ pc[c] = "probe" /\ probed[c].port = Nothing /\ Runs(c)
  /\ probed' = [probed EXCEPT ![c].port = Electron /\ port]
  /\ UNCHANGED <<bundle, proc, verb, appVars, files, pc, seen, profile, asked, held, fd,
                 gap, upsets>>

(* The task group is over: the profile is put together. *)
Compose(c) ==
  /\ pc[c] = "probe" /\ probed[c].rich # Nothing /\ probed[c].port # Nothing /\ Runs(c)
  /\ LET facts == [electron |-> Electron, port |-> probed[c].port,
                   rich |-> probed[c].rich, sdef |-> seen[c].sdef]
     IN  profile' = [profile EXCEPT ![c] =
           [version |-> seen[c].version, build |-> seen[c].build, sdef |-> seen[c].sdef,
            bundled |-> Bundled(bundle, seen[c].version),
            priority |-> Priority(bundle, seen[c].version, facts)]]
  /\ pc' = [pc EXCEPT ![c] = "save"]
  /\ probed' = [probed EXCEPT ![c] = [rich |-> Nothing, port |-> Nothing]]
  /\ UNCHANGED <<bundle, proc, verb, appVars, files, seen, asked, held, fd, gap, upsets>>

(* write_text opens the temporary file and empties it. *)
Open(c) ==
  /\ pc[c] = "save" /\ Runs(c)
  /\ tmp' = Partial
  /\ fd' = [fd EXCEPT ![c] = "tmp"]
  /\ pc' = [pc EXCEPT ![c] = "open"]
  /\ UNCHANGED <<bundle, proc, verb, appVars, disk, seen, probed, profile, asked, held,
                 gap, upsets>>

(* The text goes where the file is that was opened. *)
WriteText(c) ==
  /\ pc[c] = "open"
  /\ tmp' = IF fd[c] = "tmp" THEN profile[c] ELSE tmp
  /\ disk' = IF fd[c] = "disk" THEN profile[c] ELSE disk
  /\ pc' = [pc EXCEPT ![c] = "rename"]
  /\ UNCHANGED <<bundle, proc, verb, appVars, seen, probed, profile, asked, held, fd,
                 gap, upsets>>

(* The files still open follow the rename. *)
Renamed(c) ==
  [d \in Asker |-> CASE d = c -> Nothing
                    [] d # c /\ fd[d] = "tmp" -> "disk"
                    [] d # c /\ fd[d] = "disk" -> "gone"
                    [] OTHER -> fd[d]]

(* Variant of Replace: a writer that fails takes the entry away. *)
ReplaceOrRemove(c) ==
  /\ pc[c] = "rename"
  /\ disk' = tmp
  /\ tmp' = Nothing
  /\ fd' = Renamed(c)
  /\ pc' = [pc EXCEPT ![c] = IF tmp = Nothing THEN "savefailed" ELSE "ask"]
  /\ UNCHANGED <<bundle, proc, verb, appVars, seen, probed, profile, asked, held, gap,
                 upsets>>

(* os.replace fails, and classify with it, when another process has renamed
   the temporary file in between. *)
Replace(c) ==
  /\ pc[c] = "rename"
  /\ IF tmp = Nothing
     THEN /\ pc' = [pc EXCEPT ![c] = "savefailed"]
          /\ fd' = [fd EXCEPT ![c] = Nothing]
          /\ UNCHANGED files
     ELSE /\ disk' = tmp /\ tmp' = Nothing
          /\ fd' = Renamed(c)
          /\ pc' = [pc EXCEPT ![c] = "ask"]
  /\ UNCHANGED <<bundle, proc, verb, appVars, seen, probed, profile, asked, held, gap,
                 upsets>>

-----------------------------------------------------------------------------
(* The translators, in the order of the profile. *)

(* The translators not yet asked; select_for_priority leaves out the tiers
   that nobody registered. *)
Left(c) ==
  LET order == profile[c].priority IN
  {i \in DOMAIN order : i > asked[c] /\ order[i] \in Registered}

(* Variant of Ask: after the last translator, the first is asked again. *)
AskStartingOver(c, t) ==
  /\ pc[c] = "ask" /\ Runs(c)
  /\ \E i \in Left(c) :
       /\ \A j \in Left(c) : i <= j
       /\ profile[c].priority[i] = t
       /\ asked' = [asked EXCEPT ![c] = IF Left(c) = {i} THEN 0 ELSE i]

(* The next of them, of tier t, is asked. *)
Ask(c, t) ==
  /\ pc[c] = "ask" /\ Runs(c)
  /\ \E i \in Left(c) :
       /\ \A j \in Left(c) : i <= j
       /\ profile[c].priority[i] = t
       /\ asked' = [asked EXCEPT ![c] = i]

Found(c) == pc' = [pc EXCEPT ![c] = "target"]
Missed == UNCHANGED pc

(* T1 needs a window and finds the label in the tree, or not. *)
AskTree(c) ==
  /\ Ask(c, "T1")
  /\ \/ /\ run.rich /\ pc' = [pc EXCEPT ![c] = "check"]
        /\ held' = [held EXCEPT ![c] = run.instance]
     \/ Missed /\ UNCHANGED held
  /\ UNCHANGED <<bundle, proc, verb, appVars, files, seen, probed, profile, fd, gap,
                 upsets>>

(* Its element must still be one of the running application. *)
Check(c) ==
  /\ pc[c] = "check" /\ Runs(c)
  /\ pc' = [pc EXCEPT ![c] = IF held[c] = run.instance THEN "target" ELSE "ask"]
  /\ held' = [held EXCEPT ![c] = 0]
  /\ UNCHANGED <<bundle, proc, verb, appVars, files, seen, probed, profile, asked, fd, gap,
                 upsets>>

(* T2 takes the first port that answers, whoever's it is. *)
AskPage(c) ==
  /\ Ask(c, "T2")
  /\ (port /\ Found(c)) \/ Missed
  /\ UNCHANGED <<bundle, proc, verb, appVars, files, seen, probed, profile, held, fd, gap,
                 upsets>>

(* T3 makes a script of the verb without asking the application. *)
AskScript(c) ==
  /\ Ask(c, "T3")
  /\ IF verb[c] THEN Found(c) ELSE Missed
  /\ UNCHANGED <<bundle, proc, verb, appVars, files, seen, probed, profile, held, fd, gap,
                 upsets>>

(* uitag's detections or, when none fits the label, the text ocrmac reads. *)
Recognised == visible

(* CGWindowListCreateImage gives no image. *)
NoScreenshot(c) ==
  /\ upsets < MaxUpsets /\ upsets' = upsets + 1
  /\ gap' = [gap EXCEPT ![c] = TRUE]

(* T4 reads the whole screen; T5 has T4 do the same again. *)
AskVision(c) ==
  /\ Ask(c, "T4") \/ Ask(c, "T5")
  /\ \/ (IF Recognised THEN Found(c) ELSE Missed) /\ UNCHANGED <<gap, upsets>>
     \/ NoScreenshot(c) /\ Missed
  /\ UNCHANGED <<bundle, proc, verb, appVars, files, seen, probed, profile, held, fd>>

(* NoTargetResolvable. *)
GiveUp(c) ==
  /\ pc[c] = "ask" /\ Runs(c)
  /\ Left(c) = {}
  /\ pc' = [pc EXCEPT ![c] = "raised"]
  /\ UNCHANGED <<bundle, proc, verb, appVars, files, seen, probed, profile, asked, held,
                 fd, gap, upsets>>

-----------------------------------------------------------------------------
(* The application and its user. *)

(* An update ends the running instance. *)
Update ==
  /\ release < Len(Releases)
  /\ release' = release + 1
  /\ run' = [run EXCEPT !.instance = @ + 1]
  /\ UNCHANGED <<port, visible, trusted>>

(* The user starts it anew, with or without a port. *)
Relaunch ==
  /\ run' = [run EXCEPT !.instance = @ + 1]
  /\ port' \in BOOLEAN
  /\ UNCHANGED <<release, visible, trusted>>

Redraw ==
  /\ visible' = ~visible
  /\ UNCHANGED <<release, run, port, trusted>>

Revoke ==
  /\ trusted /\ trusted' = FALSE
  /\ UNCHANGED <<release, run, port, visible>>

Upset ==
  /\ upsets < MaxUpsets /\ upsets' = upsets + 1
  /\ Update \/ Relaunch \/ Redraw \/ Revoke
  /\ gap' = [c \in Asker |-> gap[c] \/ ~visible']
  /\ UNCHANGED <<bundle, proc, verb, files, callVars>>

-----------------------------------------------------------------------------

(* What the directory may hold of earlier runs. *)
Stored ==
  {Nothing, Partial} \cup
  {[version |-> Releases[1].version, build |-> Releases[1].build,
    sdef |-> Releases[1].sdef, bundled |-> Bundled(bundle, Releases[1].version),
    priority |-> Priority(bundle, Releases[1].version, f)] :
     f \in {g \in Facts : /\ g.sdef = Releases[1].sdef
                          /\ g.electron = Electron /\ (g.port => Electron)}}

ResolutionInit ==
  /\ bundle \in Bundle /\ proc \in Layouts /\ verb \in Verbs
  /\ release = 1
  /\ run \in [instance : {1}, rich : BOOLEAN]
  /\ port \in BOOLEAN
  /\ visible \in BOOLEAN /\ trusted = TRUE
  /\ disk \in Stored /\ tmp = Nothing
  /\ pc = [c \in Asker |-> "idle"]
  /\ seen = [c \in Asker |-> Nothing]
  /\ probed = [c \in Asker |-> [rich |-> Nothing, port |-> Nothing]]
  /\ profile = [c \in Asker |-> Nothing]
  /\ asked = [c \in Asker |-> 0]
  /\ held = [c \in Asker |-> 0]
  /\ fd = [c \in Asker |-> Nothing]
  /\ gap = [c \in Asker |-> FALSE]
  /\ upsets = 0

Classify(c) ==
  \/ Start(c) \/ ReadMetadata(c) \/ LoadCached(c) \/ ProbeRich(c) \/ ProbePort(c)
  \/ Compose(c) \/ Open(c) \/ WriteText(c) \/ Replace(c)

Search(c) ==
  AskTree(c) \/ Check(c) \/ AskPage(c) \/ AskScript(c) \/ AskVision(c) \/ GiveUp(c)

Finished == (\A c \in Asker : pc[c] \in Over \ {"idle"}) /\ UNCHANGED resolutionVars

ResolutionNext ==
  \/ \E c \in Asker : Classify(c) \/ Search(c)
  \/ ProcessEnds \/ Upset \/ Finished

ResolutionSpec == ResolutionInit /\ [][ResolutionNext]_resolutionVars

(* Threads return, and the loop of each process runs every ready task. *)
FairSpec == ResolutionSpec /\ \A c \in Asker : WF_resolutionVars(Classify(c) \/ Search(c))

-----------------------------------------------------------------------------

ResolutionTypeOK ==
  /\ release \in DOMAIN Releases
  /\ disk \in Profile \cup {Nothing, Partial} /\ tmp \in Profile \cup {Nothing, Partial}
  /\ pc \in [Asker -> {"meta", "load", "probe", "save", "open", "rename", "ask", "check"}
                     \cup Over]
  /\ profile \in [Asker -> Profile \cup {Nothing}]
  /\ \A c \in Asker : asked[c] = 0 \/ asked[c] \in 1 .. Len(profile[c].priority)
  /\ fd \in [Asker -> {Nothing, "tmp", "disk", "gone"}]
  /\ upsets \in 0 .. MaxUpsets

(***************************************************************************)
(* Whoever wrote the cached profile, whenever, and into whichever file: a  *)
(* call works with a profile of the release it read, and AppleScript is in *)
(* its order exactly if that release can be scripted, unless the table of  *)
(* known applications decides.  Only what changes without a release, the   *)
(* port and the richness of the tree, may be stale.                        *)
(***************************************************************************)
ServedFits ==
  \A c \in Asker :
    pc[c] \in {"ask", "check", "target", "raised"} =>
      LET p == profile[c]
      IN  /\ p.bundled = Bundled(bundle, seen[c].version)
          /\ ~p.bundled => ("T3" \in {p.priority[i] : i \in DOMAIN p.priority}
                            <=> seen[c].sdef)

(***************************************************************************)
(* A call whose rename fails because another process was faster raises,    *)
(* but leaves the cache no worse: there is an entry, and one that is not   *)
(* whole is still being written, or its writer died.                       *)
(***************************************************************************)
SaveFailureHarmless ==
  \A c \in Asker :
    pc[c] = "savefailed" =>
      /\ disk # Nothing
      /\ disk = Partial => \E d \in Asker : fd[d] = "disk" \/ pc[d] = "exited"

(* A profile fits the release it was asked for, and processes that save at a
   time do no harm to the file. *)
ProfileInv == ResolutionTypeOK /\ ServedFits /\ SaveFailureHarmless

(***************************************************************************)
(* A label that can be read on the screen throughout the call is found by  *)
(* some translator, whatever the cache said and the probes missed, unless  *)
(* the table sends the application to translators without vision.          *)
(***************************************************************************)
VisibleIsFound ==
  \A c \in Asker :
    pc[c] = "raised" /\ ~gap[c] =>
      profile[c].bundled /\ \A i \in DOMAIN profile[c].priority :
                               profile[c].priority[i] \notin {"T4", "T5"}

(* Every call ends with a target, with an exception, or with its process:
   no probe, file or translator keeps it. *)
EveryCallEnds == <>(\A c \in Asker : pc[c] \in Over \ {"idle"})
=============================================================================
