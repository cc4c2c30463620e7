------------------------------- MODULE Memory -------------------------------
(***************************************************************************)
(* What the program remembers of its tasks: the healing tools that record  *)
(* verified actions (mcp_server/healing_tools.py), the buffer and its      *)
(* flush into a recipe (agents/learning_loop.py), the index and the        *)
(* metadata file (state/episodic.py), the skill notes, and the learn tool  *)
(* (mcp_server/learn_tool.py).                                             *)
(*                                                                         *)
(* Every process of the server has a buffer of its own, which all its      *)
(* tasks share; the files are shared by all processes.  A flush never      *)
(* yields, so nothing else of its process runs until it ends, while        *)
(* another process, or a thread of the learn tool, runs between any two    *)
(* of its file operations.  A process may crash at any point.              *)
(***************************************************************************)
EXTENDS Naturals, Sequences, SequencesExt, FiniteSets

CONSTANTS
  Agent,      \* tasks and lessons, each run once
  Process,    \* processes of the server
  Home,       \* the process of each agent
  KindOf,     \* host: tool calls and register_task_complete; task: do_task; lesson: learn
  Steps,      \* tool calls of each agent at most: max_steps of do_task
  MaxCrashes, \* bound: crashes
  None,
  Torn        \* the content of a file opened for writing and not yet written

Tool == {"race", "focused", "destructive"}

ASSUME KindAssumption == KindOf \in [Agent -> {"host", "task", "lesson"}]
ASSUME HomeAssumption == Home \in [Agent -> Process]
ASSUME StepsAssumption == Steps \in [Agent -> Nat] /\ MaxCrashes \in Nat
ASSUME NoneAssumption == None \notin Agent
ASSUME TornAssumption == Torn \notin Seq(Agent)

VARIABLES
  agent,    \* what each agent is doing
  buf,      \* LearningLoop._buffer of each process
  loop,     \* the agent that keeps the event loop of each process
  mem,      \* EpisodicMemory of each process: loaded, rows, metadata
  index,    \* episodic.faiss: whose recipe each row is, or torn
  meta,     \* episodic_metadata.json: row number -> recipe, or torn
  skill,    \* the blocks of the skill file
  recipe,   \* the actions each agent's flush took
  crashes,
  hist      \* history: verified and lost actions, what was stored, overlaps

vars == <<agent, buf, loop, mem, index, meta, skill, recipe, crashes, hist>>
files == <<index, meta, skill>>

NoMeta == [i \in {} |-> None]
Unloaded == [loaded |-> FALSE, rows |-> <<>>, meta |-> NoMeta, fresh |-> FALSE]

Init ==
  /\ agent = [a \in Agent |->
       [pc |-> CASE KindOf[a] = "host" -> "step" [] KindOf[a] = "task" -> "plan"
                 [] KindOf[a] = "lesson" -> "look",
        n |-> 0, left |-> IF KindOf[a] = "host" THEN Steps[a] ELSE 0,
        tool |-> None, ok |-> TRUE, seen |-> {}]]
  /\ buf = [p \in Process |-> <<>>]
  /\ loop = [p \in Process |-> None]
  /\ mem = [p \in Process |-> Unloaded]
  /\ index = <<>> /\ meta = NoMeta /\ skill = {}
  /\ recipe = [a \in Agent |-> <<>>]
  /\ crashes = 0
  /\ hist = [verified |-> {}, lost |-> {}, kept |-> {}, stale |-> FALSE,
             torn |-> FALSE, noted |-> {}, raced |-> FALSE]

At(a, where) == agent[a].pc = where
Awake(a) == loop[Home[a]] = None
Holds(a) == loop[Home[a]] = a
Set(a, r) == agent' = [agent EXCEPT ![a] = r]
Go(a, where) == Set(a, [agent[a] EXCEPT !.pc = where])
Over(r) == [r EXCEPT !.pc = "done", !.left = 0, !.ok = TRUE, !.tool = None, !.seen = {}]
End(a) == Set(a, Over(agent[a]))

-----------------------------------------------------------------------------
(* do_task asks the host for a plan; the host cannot, fails, or answers.   *)
Plan(a) ==
  /\ At(a, "plan") /\ Awake(a)
  /\ \/ End(a)
     \/ \E n \in 1..Steps[a] : Set(a, [agent[a] EXCEPT !.pc = "step", !.left = n])
  /\ UNCHANGED <<buf, loop, mem, files, recipe, crashes, hist>>

(* The next tool call; a plan may name a tool there is not.                *)
Call(a) ==
  /\ At(a, "step") /\ Awake(a) /\ agent[a].left > 0
  /\ \/ \E t \in Tool :
          Set(a, [agent[a] EXCEPT !.pc = "acting", !.left = @ - 1, !.n = @ + 1, !.tool = t])
     \/ /\ KindOf[a] = "task"
        /\ Set(a, [agent[a] EXCEPT !.left = @ - 1, !.ok = FALSE])
  /\ UNCHANGED <<buf, loop, mem, files, recipe, crashes, hist>>

Returned(a, ok) ==
  [agent[a] EXCEPT !.pc = "step", !.tool = None, !.ok = @ /\ ok]

(* Every healing tool records what it verified, but send_destructive.      *)
Records(t) == t # "destructive"

Record(a) ==
  LET act == <<a, agent[a].n>> IN
  /\ buf' = [buf EXCEPT ![Home[a]] = Append(@, act)]
  /\ hist' = [hist EXCEPT !.verified = @ \cup {act}]

(* The action returns verified, and is recorded before the tool returns.   *)
Verified(a) ==
  /\ At(a, "acting") /\ Awake(a) /\ agent[a].tool # "focused"
  /\ Set(a, Returned(a, TRUE))
  /\ IF Records(agent[a].tool) THEN Record(a) ELSE UNCHANGED <<buf, hist>>
  /\ UNCHANGED <<loop, mem, files, recipe, crashes>>

(* Keystrokes without a target count as verified when the driver accepts   *)
(* them, whatever the verifier says.                                       *)
Accepted(a) ==
  /\ At(a, "acting") /\ Awake(a) /\ agent[a].tool = "focused"
  /\ Set(a, Returned(a, TRUE))
  /\ Record(a)
  /\ UNCHANGED <<loop, mem, files, recipe, crashes>>

Recovers(t) == t = "race"

(* The tool raises, or the action is not verified.  The raced tools but    *)
(* send_destructive then run the recovery, whose success is reported       *)
(* beside verified = FALSE and recorded by nobody.                         *)
Unverified(a) ==
  /\ At(a, "acting") /\ Awake(a)
  /\ \/ Set(a, Returned(a, FALSE))
     \/ Recovers(agent[a].tool) /\ Go(a, "recovering")
  /\ UNCHANGED <<buf, loop, mem, files, recipe, crashes, hist>>

Recovered(a) ==
  /\ At(a, "recovering") /\ Awake(a)
  /\ Set(a, Returned(a, FALSE))
  /\ UNCHANGED <<buf, loop, mem, files, recipe, crashes, hist>>

-----------------------------------------------------------------------------
(* register_task_complete, whenever the host calls it, and the end of      *)
(* do_task, if every step was verified.                                    *)
Complete(a) ==
  /\ At(a, "step")
  /\ KindOf[a] = "task" => agent[a].left = 0 /\ agent[a].ok

(* do_task ends without a recipe. *)
GiveUp(a) ==
  /\ At(a, "step") /\ Awake(a)
  /\ KindOf[a] = "task" /\ agent[a].left = 0 /\ ~agent[a].ok
  /\ End(a)
  /\ UNCHANGED <<buf, loop, mem, files, recipe, crashes, hist>>

(* Variant of Take: the buffer stays as it is. *)
TakeCopy(a) ==
  LET p == Home[a] IN
  /\ Complete(a) /\ Awake(a)
  /\ UNCHANGED buf
  /\ \/ buf[p] = <<>> /\ End(a) /\ UNCHANGED <<loop, recipe, hist>>
     \/ /\ buf[p] # <<>>
        /\ recipe' = [recipe EXCEPT ![a] = buf[p]]
        /\ Go(a, IF mem[p].loaded THEN "add" ELSE "loadindex")
        /\ loop' = [loop EXCEPT ![p] = a]
        /\ UNCHANGED hist
     \/ /\ buf[p] # <<>>
        /\ End(a)
        /\ hist' = [hist EXCEPT !.lost = @ \cup ToSet(buf[p])]
        /\ UNCHANGED <<loop, recipe>>
  /\ UNCHANGED <<mem, files, crashes>>

(* flush_to_recipe: the buffer is emptied first.  Whatever raises from     *)
(* there on (the synthesizer, the embedder) loses what it held.            *)
Take(a) ==
  LET p == Home[a] IN
  /\ Complete(a) /\ Awake(a)
  /\ buf' = [buf EXCEPT ![p] = <<>>]
  /\ \/ buf[p] = <<>> /\ End(a) /\ UNCHANGED <<loop, recipe, hist>>
     \/ /\ buf[p] # <<>>
        /\ recipe' = [recipe EXCEPT ![a] = buf[p]]
        /\ Go(a, IF mem[p].loaded THEN "add" ELSE "loadindex")
        /\ loop' = [loop EXCEPT ![p] = a]
        /\ UNCHANGED hist
     \/ /\ buf[p] # <<>>
        /\ End(a)
        /\ hist' = [hist EXCEPT !.lost = @ \cup ToSet(buf[p])]
        /\ UNCHANGED <<loop, recipe>>
  /\ UNCHANGED <<mem, files, crashes>>

(* The flush raises: the recipe is gone, and the loop is free. *)
Raise(a, half) ==
  /\ End(a)
  /\ loop' = [loop EXCEPT ![Home[a]] = None]
  /\ hist' = [hist EXCEPT !.lost = @ \cup ToSet(recipe[a]), !.torn = @ \/ half]
  /\ recipe' = [recipe EXCEPT ![a] = <<>>]

(* _load_faiss marks the memory loaded before it reads: an index that      *)
(* cannot be read leaves none for the rest of the process.                 *)
LoadIndex(a) ==
  LET p == Home[a] IN
  /\ At(a, "loadindex") /\ Holds(a)
  /\ IF index = Torn
     THEN /\ mem' = [mem EXCEPT ![p] = [loaded |-> TRUE, rows |-> Torn, meta |-> NoMeta,
                                        fresh |-> TRUE]]
          /\ Raise(a, FALSE)
     ELSE /\ mem' = [mem EXCEPT ![p] = [loaded |-> TRUE, rows |-> index, meta |-> NoMeta,
                                        fresh |-> TRUE]]
          /\ Go(a, "loadmeta")
          /\ UNCHANGED <<loop, recipe, hist>>
  /\ UNCHANGED <<buf, files, crashes>>

(* A metadata file that cannot be read leaves the index without it.        *)
LoadMeta(a) ==
  LET p == Home[a] IN
  /\ At(a, "loadmeta") /\ Holds(a)
  /\ IF meta = Torn
     THEN Raise(a, TRUE) /\ UNCHANGED mem
     ELSE /\ mem' = [mem EXCEPT ![p].meta = meta]
          /\ Go(a, "add")
          /\ UNCHANGED <<loop, recipe, hist>>
  /\ UNCHANGED <<buf, files, crashes>>

(* lookup: the rows that have metadata, each with the recipe it is given.  *)
Hits(rows, m) == {<<i, m[i]>> : i \in DOMAIN m \cap 1..Len(rows)}

(* The number of the next row. *)
RowByMeta(p) == Cardinality(DOMAIN mem[p].meta) + 1   \* Variant of Row
Row(p) == Len(mem[p].rows) + 1

(* index_recipe: a row for the recipe, in memory. *)
Add(a) ==
  LET p == Home[a] IN
  /\ At(a, "add") /\ Holds(a)
  /\ IF mem[p].rows = Torn
     THEN Raise(a, FALSE) /\ UNCHANGED mem
     ELSE /\ mem' = [mem EXCEPT ![p].rows = Append(@, a),
                                ![p].meta = [i \in DOMAIN @ \cup {Row(p)} |->
                                               IF i = Row(p) THEN a ELSE @[i]]]
          /\ Go(a, "openindex")
          /\ UNCHANGED <<loop, recipe, hist>>
  /\ UNCHANGED <<buf, files, crashes>>

(* Saving truncates a file, then writes it: the index, then the metadata.  *)
(* A process that loaded before another saved overwrites what it saved.    *)
Saving(a, from, to) ==
  /\ At(a, from) /\ Holds(a)
  /\ Go(a, to)
  /\ mem' = [p \in Process |-> [mem[p] EXCEPT !.fresh = @ /\ p = Home[a]]]

Stale(a) == hist.stale \/ ~mem[Home[a]].fresh

OpenIndex(a) ==
  /\ Saving(a, "openindex", "saveindex")
  /\ index' = Torn
  /\ hist' = [hist EXCEPT !.stale = Stale(a)]
  /\ UNCHANGED <<buf, loop, meta, skill, recipe, crashes>>

SaveIndex(a) ==
  /\ Saving(a, "saveindex", "openmeta")
  /\ index' = mem[Home[a]].rows
  /\ hist' = [hist EXCEPT !.stale = Stale(a)]
  /\ UNCHANGED <<buf, loop, meta, skill, recipe, crashes>>

OpenMeta(a) ==
  /\ Saving(a, "openmeta", "savemeta")
  /\ meta' = Torn
  /\ hist' = [hist EXCEPT !.stale = Stale(a)]
  /\ UNCHANGED <<buf, loop, index, skill, recipe, crashes>>

SaveMeta(a) ==
  /\ Saving(a, "savemeta", "readskill")
  /\ meta' = mem[Home[a]].meta
  /\ hist' = [hist EXCEPT !.stale = Stale(a), !.kept = @ \cup {a}]
  /\ UNCHANGED <<buf, loop, index, skill, recipe, crashes>>

-----------------------------------------------------------------------------
(* The skill notes are read and then written, by the flush, and by learn,  *)
(* whose reading and writing are threads.                                  *)
Read(a) ==
  /\ Set(a, [agent[a] EXCEPT !.pc = "write", !.seen = skill])
  /\ UNCHANGED <<buf, loop, mem, files, recipe, crashes, hist>>

ReadSkill(a) == At(a, "readskill") /\ Holds(a) /\ Read(a)
Look(a) == At(a, "look") /\ Awake(a) /\ Read(a)

Write(a) ==
  /\ At(a, "write")
  /\ skill' = agent[a].seen \cup {a}
  /\ hist' = [hist EXCEPT !.raced = @ \/ ~(skill \subseteq agent[a].seen), !.noted = @ \cup {a}]
  /\ End(a)
  /\ UNCHANGED <<buf, mem, index, meta, recipe, crashes>>

WriteSkill(a) == Holds(a) /\ Write(a) /\ loop' = [loop EXCEPT ![Home[a]] = None]
WriteLesson(a) == KindOf[a] = "lesson" /\ Write(a) /\ UNCHANGED loop

(* The notes cannot be written: the flush ends all the same. *)
SkipSkill(a) ==
  /\ At(a, "readskill") /\ Holds(a)
  /\ End(a)
  /\ loop' = [loop EXCEPT ![Home[a]] = None]
  /\ UNCHANGED <<buf, mem, files, recipe, crashes, hist>>

-----------------------------------------------------------------------------
(* A process ends, with its buffer and whatever it was doing; a file it    *)
(* was writing stays torn.                                                 *)
Crash(p) ==
  LET mine == {a \in Agent : Home[a] = p /\ ~At(a, "done")}
      gone == ToSet(buf[p]) \cup
              UNION {ToSet(recipe[a]) : a \in {b \in mine : b \notin hist.kept}} IN
  /\ crashes < MaxCrashes /\ crashes' = crashes + 1
  /\ \E again \in SUBSET {a \in mine : KindOf[a] = "host" /\ loop[p] # a} :
       agent' = [a \in Agent |->
                   IF a \notin mine THEN agent[a]
                   ELSE IF a \in again THEN [agent[a] EXCEPT !.pc = "step", !.tool = None]
                   ELSE Over(agent[a])]
  /\ buf' = [buf EXCEPT ![p] = <<>>]
  /\ loop' = [loop EXCEPT ![p] = None]
  /\ mem' = [mem EXCEPT ![p] = Unloaded]
  /\ recipe' = [a \in Agent |-> IF a \in mine /\ a \notin hist.kept THEN <<>> ELSE recipe[a]]
  /\ hist' = [hist EXCEPT !.lost = @ \cup gone]
  /\ UNCHANGED files

-----------------------------------------------------------------------------
Flush(a) ==
  \/ LoadIndex(a) \/ LoadMeta(a) \/ Add(a) \/ OpenIndex(a) \/ SaveIndex(a)
  \/ OpenMeta(a) \/ SaveMeta(a) \/ ReadSkill(a) \/ WriteSkill(a) \/ SkipSkill(a)

AgentStep(a) ==
  \/ Plan(a) \/ Call(a) \/ Verified(a) \/ Accepted(a) \/ Unverified(a) \/ Recovered(a)
  \/ GiveUp(a) \/ Take(a) \/ Flush(a) \/ Look(a) \/ WriteLesson(a)

Next == (\E a \in Agent : AgentStep(a)) \/ (\E p \in Process : Crash(p))

Spec == Init /\ [][Next]_vars
-----------------------------------------------------------------------------
Action == {act \in Agent \X Nat : act[2] \in 1..Steps[act[1]]}
Pc == {"plan", "step", "acting", "recovering", "loadindex", "loadmeta", "add", "openindex",
       "saveindex", "openmeta", "savemeta", "readskill", "look", "write", "done"}
AgentState == [pc : Pc, n : Nat, left : Nat, tool : Tool \cup {None}, ok : BOOLEAN,
               seen : SUBSET Agent]
Rows == {Torn} \cup Seq(Agent)

(* The buffer and the recipes hold verified actions; the event loop is     *)
(* kept by an agent of its process in the midst of a flush; no agent makes *)
(* more calls than max_steps.                                              *)
TypeOK ==
  /\ agent \in [Agent -> AgentState]
  /\ \A a \in Agent :
       /\ agent[a].left \in 0..Steps[a] /\ agent[a].n \in 0..Steps[a]
       /\ recipe[a] \in Seq(hist.verified)
  /\ \A p \in Process :
       /\ buf[p] \in Seq(hist.verified)
       /\ loop[p] \in {None} \cup {a \in Agent : Home[a] = p}
       /\ mem[p].rows \in Rows
  /\ index \in Rows
  /\ hist.verified \subseteq Action
  /\ crashes \in 0..MaxCrashes

(* A verified action is in exactly one place and there once: the buffer of *)
(* its process, one recipe, or what a flush that raised or a crash has     *)
(* lost; and a recipe has the steps of an agent in their order             *)
(* (LearningLoop.record_action, flush_to_recipe).                          *)
Places(act) ==
  (UNION {{p} \X {i \in 1..Len(buf[p]) : buf[p][i] = act} : p \in Process}) \cup
  (UNION {{a} \X {i \in 1..Len(recipe[a]) : recipe[a][i] = act} : a \in Agent})

Conserved ==
  /\ \A act \in hist.verified :
       Cardinality(Places(act)) = IF act \in hist.lost THEN 0 ELSE 1
  /\ \A a \in Agent : \A i, j \in 1..Len(recipe[a]) :
       i < j /\ recipe[a][i][1] = recipe[a][j][1] => recipe[a][i][2] < recipe[a][j][2]

(* As long as no process saved over what another had saved, the metadata   *)
(* a lookup finds for a row is that of the recipe whose vector the row is, *)
(* whatever crashes and failures left behind (EpisodicMemory.lookup).      *)
Match(rows, m) ==
  rows # Torn /\ m # Torn => \A hit \in Hits(rows, m) : rows[hit[1]] = hit[2]

FoundIsIndexed ==
  ~hist.stale => /\ Match(index, meta)
                 /\ \A p \in Process : Match(mem[p].rows, mem[p].meta)

(* A recipe that a flush reported as indexed is in the files from then on, *)
(* unless a process saved over another's save or met the metadata half     *)
(* written when it loaded them; and a block of the skill notes stays,      *)
(* unless a writer had read them before it was there.                      *)
StoredStays ==
  /\ ~hist.stale /\ ~hist.torn /\ index # Torn /\ meta # Torn =>
       \A a \in hist.kept : \E hit \in Hits(index, meta) : hit[2] = a
  /\ ~hist.raced => hist.noted \subseteq skill

(* What is remembered can be recalled: what a lookup finds belongs         *)
(* together, and what was reported as stored is found.                     *)
RecallInv == TypeOK /\ FoundIsIndexed /\ StoredStays
=============================================================================
