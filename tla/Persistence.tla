---------------------------- MODULE Persistence ----------------------------
(***************************************************************************)
(* What a session leaves on disk, and what a later process finds there.    *)
(*                                                                         *)
(* run_action_wrap (basicctrl/mcp_server/proxy.py) fires an upstream tool, *)
(* appends the step to the action log and writes a checkpoint to Postgres. *)
(* Calls overlap; each await lets the others, or a crash, come between.    *)
(* resume_from_checkpoint reads the newest checkpoint back.                *)
(*                                                                         *)
(* The session's cassette (basicctrl/cache/) is kept as a file and, after  *)
(* the first use, in memory.  AgentCache writes both, WriteBack only the   *)
(* file; a replay fires the recorded steps one after the other.  Reading   *)
(* and writing have no await, so that only a crash interrupts them.        *)
(***************************************************************************)
EXTENDS Naturals, Sequences, SequencesExt

CONSTANTS
  Call,        \* tool calls of the session
  Recording,   \* recordings an agent may put into the cache
  Length,      \* steps of a recording
  MaxHeals,    \* bound on the write-backs explored
  None         \* no cassette

(* A cassette: a recording and how many of its selectors were healed since. *)
Cassette == [recording : Recording, heals : 0..MaxHeals]

ASSUME PersistenceAssumption ==
  /\ Length \in Nat \ {0}
  /\ MaxHeals \in Nat
  /\ None \notin Cassette

VARIABLES
  alive,      \* does the session's process run
  counter,    \* _step_counter
  step,       \* step_idx of each call
  at,         \* where each call is
  effects,    \* steps whose tool acted
  log,        \* action_log.ndjson: the steps, in order
  begun,      \* steps whose checkpoint was begun: the order of their ids
  committed,  \* steps whose checkpoint Postgres has
  restored,   \* last_step_idx of a resume, or None
  file,       \* the cassette on disk
  memory,     \* the cassette in AgentCache's dict
  writing,    \* what is about to be renamed into place, and by whom
  served,     \* the cassette a replay was given
  cursor,     \* the step the replay is at; 0 when none runs
  played,     \* the recorded steps it fired
  mismatch    \* where it stopped, or 0

stepVars == <<counter, step, at, effects, log, begun, committed>>
cassetteVars == <<file, memory, writing>>
replayVars == <<served, cursor, played, mismatch>>
vars == <<alive, stepVars, restored, cassetteVars, replayVars>>

Place == {"idle", "firing", "acted", "verifying", "saving", "returned", "raised", "passed"}
InFlight == {"firing", "acted", "verifying", "saving"}

Idle == [by |-> "nobody", cassette |-> None]

Init ==
  /\ alive = TRUE
  /\ counter = 0
  /\ step = [c \in Call |-> 0]
  /\ at = [c \in Call |-> "idle"]
  /\ effects = {} /\ log = <<>> /\ begun = <<>> /\ committed = {}
  /\ restored = None
  /\ file = None /\ memory = None /\ writing = Idle
  /\ served = None /\ cursor = 0 /\ played = <<>> /\ mismatch = 0

(* The event loop is free: nobody is between a write and its rename. *)
Free == alive /\ writing = Idle

-----------------------------------------------------------------------------
(* A tool call through the proxy. *)

Goes(c, from, to) ==
  /\ Free
  /\ at[c] = from
  /\ at' = [at EXCEPT ![c] = to]
  /\ UNCHANGED <<alive, restored, cassetteVars, replayVars>>

(* A tool that is no action is forwarded, and leaves nothing. *)
Passthrough(c) ==
  /\ Goes(c, "idle", "passed")
  /\ UNCHANGED <<counter, step, effects, log, begun, committed>>

(* The step's number is taken before the first await. *)
Begin(c) ==
  /\ Goes(c, "idle", "firing")
  /\ counter' = counter + 1
  /\ step' = [step EXCEPT ![c] = counter + 1]
  /\ UNCHANGED <<effects, log, begun, committed>>

(* The upstream tool acts on the application. *)
Act(c) ==
  /\ Goes(c, "firing", "acted")
  /\ effects' = effects \cup {step[c]}
  /\ UNCHANGED <<counter, step, log, begun, committed>>

(* Upstream answers.  A tool that refuses its arguments or does not find its
   element has not acted; its error is a result like any other, to be verified,
   logged and returned. *)
Answer(c) ==
  /\ \E from \in {"firing", "acted"} : Goes(c, from, "verifying")
  /\ UNCHANGED <<counter, step, effects, log, begun, committed>>

(* The call raises: upstream is gone, the log cannot be written, or the host
   cancelled the call at any await. *)
Raise(c) ==
  /\ \E from \in InFlight : Goes(c, from, "raised")
  /\ UNCHANGED <<counter, step, effects, log, begun, committed>>

(* Variant of Log: the log line is written once the checkpoint is. *)
LogLater(c) ==
  /\ Goes(c, "verifying", "saving")
  /\ begun' = Append(begun, step[c])
  /\ UNCHANGED <<counter, step, effects, log, committed>>

(* The action was verified or not: the log line is written, and without an
   await in between the checkpoint gets its id. *)
Log(c) ==
  /\ Goes(c, "verifying", "saving")
  /\ log' = Append(log, step[c])
  /\ begun' = Append(begun, step[c])
  /\ UNCHANGED <<counter, step, effects, committed>>

(* Postgres has the checkpoint, though the process may not hear of it. *)
Checkpoint(c) ==
  /\ Free
  /\ at[c] = "saving"
  /\ committed' = committed \cup {step[c]}
  /\ UNCHANGED <<alive, counter, step, at, effects, log, begun, restored,
                 cassetteVars, replayVars>>

(* The call returns whether Postgres took the checkpoint or failed. *)
Return(c) ==
  /\ Goes(c, "saving", "returned")
  /\ UNCHANGED <<counter, step, effects, log, begun, committed>>

-----------------------------------------------------------------------------
(* The cassette. *)

(* What from_ndjson reads: a file comes into place whole, by a rename. *)
Loaded == file

(* The new content is in the .tmp file. *)
Write(by, cassette) ==
  /\ writing' = [by |-> by, cassette |-> cassette]
  /\ UNCHANGED <<alive, stepVars, restored, file, memory, replayVars>>

(* AgentCache.put of a new recording. *)
Put ==
  /\ Free
  /\ \E r \in Recording : Write("put", [recording |-> r, heals |-> 0])

(* WriteBack.heal of a stable locator: adds it to a step of the file. *)
Heal ==
  /\ Free
  /\ Loaded # None /\ Loaded.heals < MaxHeals
  /\ Write("heal", [Loaded EXCEPT !.heals = @ + 1])

(* Variant of Rename: put keeps its cassette in memory even if it fails. *)
RenameOrNot ==
  /\ alive
  /\ writing # Idle
  /\ file' \in {writing.cassette, file}
  /\ memory' = IF writing.by = "put" THEN writing.cassette ELSE memory
  /\ writing' = Idle
  /\ UNCHANGED <<alive, stepVars, restored, replayVars>>

(* os.rename; put then keeps the cassette in memory as well.  heal does not
   know of the memory, and logs by awaiting what is not awaitable, so that it
   reports a failure. *)
Rename ==
  /\ alive
  /\ writing # Idle
  /\ file' = writing.cassette
  /\ memory' = IF writing.by = "put" THEN file' ELSE memory
  /\ writing' = Idle
  /\ UNCHANGED <<alive, stepVars, restored, replayVars>>

(* Writing or syncing raises; put and heal catch it. *)
WriteFails ==
  /\ alive
  /\ writing # Idle
  /\ writing' = Idle
  /\ UNCHANGED <<alive, stepVars, restored, file, memory, replayVars>>

Clear ==
  /\ Free
  /\ file # None
  /\ file' = None /\ memory' = None
  /\ UNCHANGED <<alive, stepVars, restored, writing, replayVars>>

(* AgentCache.get for a replay: what is in memory, else what is on disk. *)
Get ==
  /\ Free
  /\ cursor = 0
  /\ memory' = IF memory = None THEN Loaded ELSE memory
  /\ memory' # None
  /\ served' = memory'
  /\ cursor' = 1 /\ played' = <<>> /\ mismatch' = 0
  /\ UNCHANGED <<alive, stepVars, restored, file, writing>>

(* A recorded step is fired, and only then is the screen compared with the
   recording.  What raises counts as a mismatch, which ends the replay. *)
Replay ==
  /\ Free
  /\ cursor > 0
  /\ \E fires, matches \in BOOLEAN :
       /\ matches => fires
       /\ played' = IF fires THEN Append(played, cursor) ELSE played
       /\ mismatch' = IF matches THEN mismatch ELSE cursor
       /\ cursor' = IF matches /\ cursor < Length THEN cursor + 1 ELSE 0
  /\ UNCHANGED <<alive, stepVars, restored, cassetteVars, served>>

-----------------------------------------------------------------------------
(* The end of the process and what a later one finds. *)

Crash ==
  /\ alive
  /\ alive' = FALSE
  /\ memory' = None /\ writing' = Idle /\ cursor' = 0
  /\ UNCHANGED <<stepVars, restored, file, served, played, mismatch>>

(* The i-th checkpoint is the one with the newest id that was kept. *)
Latest(i) ==
  /\ begun[i] \in committed
  /\ \A j \in DOMAIN begun : j > i => begun[j] \notin committed

(* resume_from_checkpoint, in a later process. *)
Resume ==
  /\ ~alive
  /\ restored = None
  /\ \E i \in DOMAIN begun : Latest(i) /\ restored' = begun[i]
  /\ UNCHANGED <<alive, stepVars, cassetteVars, replayVars>>

CallStep(c) ==
  \/ Passthrough(c) \/ Begin(c) \/ Act(c) \/ Answer(c) \/ Raise(c)
  \/ Log(c) \/ Checkpoint(c) \/ Return(c)

Next ==
  \/ \E c \in Call : CallStep(c)
  \/ Put \/ Heal \/ Rename \/ WriteFails \/ Clear \/ Get \/ Replay
  \/ Crash \/ Resume

Spec == Init /\ [][Next]_vars

-----------------------------------------------------------------------------
(* Properties. *)

TypeOK ==
  /\ alive \in BOOLEAN
  /\ counter \in Nat
  /\ step \in [Call -> Nat]
  /\ at \in [Call -> Place]
  /\ effects \subseteq Nat /\ committed \subseteq Nat
  /\ log \in Seq(Nat) /\ begun \in Seq(Nat)
  /\ restored \in Nat \cup {None}
  /\ file \in Cassette \cup {None}
  /\ memory \in Cassette \cup {None}
  /\ writing \in [by : {"nobody", "put", "heal"}, cassette : Cassette \cup {None}]
  /\ served \in Cassette \cup {None}
  /\ cursor \in 0..Length /\ mismatch \in 0..Length
  /\ played \in Seq(1..Length)

(* However calls overlap, raise and crash: a step is in the log once, and not
   before upstream answered; what acted and is not in the log is of a call that
   did not get that far; and every checkpoint that can be resumed from is in
   the log.  That a step is in the log does not say that its tool acted. *)
LogComplete ==
  /\ IsInjective(log)
  /\ \A c \in Call :
       /\ at[c] \in {"saving", "returned"} => step[c] \in ToSet(log)
       /\ at[c] \in {"firing", "acted", "verifying"} => step[c] \notin ToSet(log)
  /\ \A n \in effects \ ToSet(log) :
       \E c \in Call : step[c] = n /\ at[c] \in {"acted", "verifying", "raised"}
  /\ committed \subseteq ToSet(log)

(* What the memory has and the file has not, or the other way round, is never
   more than heals of the same recording: after any mixture of puts, failed
   writes, clears and write-backs a replay is given the recording on disk. *)
MemoryBehindHeals ==
  memory # None =>
    /\ file # None
    /\ memory.recording = file.recording
    /\ memory.heals <= file.heals

(* A replay fires recorded steps in order from the first, and none after the
   step that did not match; that one may have been fired, so that falling
   through to live execution of it acts twice. *)
ReplayIsPrefix ==
  /\ \A i \in 1..Len(played) : played[i] = i
  /\ mismatch > 0 => Len(played) \in {mismatch - 1, mismatch}

(* A cassette serves its replays: what is served is what is on disk, up to
   heals, and no replay goes on past a step that does not match. *)
CassetteInv == TypeOK /\ MemoryBehindHeals /\ ReplayIsPrefix
=============================================================================
