------------------------- MODULE PersistenceProofs -------------------------
(***************************************************************************)
(* Proofs about what is kept in files: Persistence, for any calls,         *)
(* recordings and lengths, and Resolution with the cache of profiles, for  *)
(* any calls, processes and releases.                                      *)
(***************************************************************************)
EXTENDS Persistence, Resolution, TLAPS

(* Why the log is complete.  Numbers are taken one at a time, so that two
   calls under way never share one; a call is logged once, after upstream
   answered, and the line is written before the checkpoint is begun. *)
Started(c) == at[c] \notin {"idle", "passed"}

NumberInv ==
  /\ ToSet(log) \subseteq 1..counter
  /\ \A c \in Call : Started(c) => step[c] \in 1..counter
  /\ \A c, d \in Call : Started(c) /\ Started(d) /\ step[c] = step[d] => c = d

PlaceInv ==
  \A c \in Call :
    /\ at[c] \in {"firing", "acted", "verifying"} => step[c] \notin ToSet(log)
    /\ at[c] \in {"saving", "returned"} => step[c] \in ToSet(log)

LogInv ==
  /\ IsInjective(log)
  /\ committed \subseteq ToSet(log)

(* Who acted is a call that was begun, and past its firing. *)
Acting == {"acted", "verifying", "saving", "returned", "raised"}

EffectInv == \A n \in effects : \E c \in Call : step[c] = n /\ at[c] \in Acting

LogTypes ==
  /\ counter \in Nat
  /\ step \in [Call -> Nat]
  /\ at \in [Call -> Place]
  /\ log \in Seq(Nat)

StepInv == LogTypes /\ NumberInv /\ PlaceInv /\ LogInv /\ EffectInv

(* What is about to be renamed is either a new recording, or what is on disk
   with one more heal. *)
WritingInv ==
  writing # Idle =>
    /\ writing.by \in {"put", "heal"}
    /\ writing.cassette \in Cassette
    /\ writing.by = "heal" =>
         /\ file \in Cassette
         /\ writing.cassette.recording = file.recording
         /\ writing.cassette.heals >= file.heals

(* A replay that runs has fired what is before its cursor. *)
CursorInv ==
  cursor > 0 => Len(played) = cursor - 1 /\ mismatch = 0

ReplayInv == TypeOK /\ MemoryBehindHeals /\ WritingInv /\ ReplayIsPrefix /\ CursorInv

-----------------------------------------------------------------------------
LEMMA InitSteps == Init => StepInv
BY DEF Init, StepInv, LogTypes, NumberInv, PlaceInv, LogInv, EffectInv, Started, Place,
       IsInjective, ToSet

(* The log grows by a step that is not in it. *)
LEMMA Appended ==
  ASSUME NEW s \in Seq(Nat), NEW n \in Nat
  PROVE  /\ Append(s, n) \in Seq(Nat)
         /\ ToSet(Append(s, n)) = ToSet(s) \cup {n}
         /\ IsInjective(s) /\ n \notin ToSet(s) => IsInjective(Append(s, n))
<1>1. /\ Append(s, n) \in Seq(Nat)
      /\ DOMAIN Append(s, n) = DOMAIN s \cup {Len(s) + 1}
      /\ \A i \in DOMAIN s : Append(s, n)[i] = s[i]
      /\ Append(s, n)[Len(s) + 1] = n
      /\ Len(s) + 1 \notin DOMAIN s
  OBVIOUS
<1>2. ToSet(Append(s, n)) = ToSet(s) \cup {n}
  BY <1>1 DEF ToSet
<1>3. ASSUME IsInjective(s), n \notin ToSet(s) PROVE IsInjective(Append(s, n))
  BY <1>1, <1>3 DEF ToSet, IsInjective
<1>. QED BY <1>1, <1>2, <1>3

(* What acted stays acted, wherever one call goes from there. *)
LEMMA EffectsKept ==
  ASSUME StepInv, NEW c \in Call, at[c] \in Acting => at'[c] \in Acting,
         \A d \in Call \ {c} : at'[d] = at[d],
         UNCHANGED <<step, effects>>
  PROVE  EffectInv'
<1>. SUFFICES ASSUME NEW n \in effects
             PROVE  \E d \in Call : step[d] = n /\ at'[d] \in Acting
  BY DEF EffectInv
<1>1. PICK d \in Call : step[d] = n /\ at[d] \in Acting
  BY DEF StepInv, EffectInv
<1>. QED BY <1>1

(* A call goes to another place without a number, a line or an effect. *)
LEMMA CallMoves ==
  ASSUME StepInv, NEW c \in Call, NEW from, NEW to \in Place,
         at[c] = from, at' = [at EXCEPT ![c] = to],
         UNCHANGED <<counter, step, log, effects>>,
         committed' \subseteq ToSet(log),
         \/ from = "idle" /\ to = "passed"
         \/ from \in InFlight /\ to = "raised"
         \/ from \in {"firing", "acted"} /\ to = "verifying"
         \/ from = "saving" /\ to = "returned"
  PROVE  StepInv'
<1>1. \A d \in Call \ {c} : at'[d] = at[d]
  BY DEF StepInv, LogTypes
<1>2. at'[c] = to /\ at' \in [Call -> Place]
  BY DEF StepInv, LogTypes
<1>3. NumberInv'
  <2>1. \A d \in Call : Started(d)' => Started(d)
    BY <1>1, <1>2 DEF Started, InFlight
  <2>. QED BY <2>1 DEF StepInv, NumberInv
<1>4. PlaceInv'
  BY <1>1, <1>2 DEF StepInv, PlaceInv
<1>5. LogInv'
  BY DEF StepInv, LogInv
<1>6. EffectInv'
  BY <1>1, <1>2, EffectsKept DEF Acting
<1>. QED BY <1>2, <1>3, <1>4, <1>5, <1>6 DEF StepInv, LogTypes

LEMMA StepsKept == StepInv /\ [Next]_vars => StepInv'
<1>. SUFFICES ASSUME StepInv, [Next]_vars PROVE StepInv'
  OBVIOUS
<1>t. LogTypes
  BY DEF StepInv
<1>1. ASSUME NEW c \in Call, Passthrough(c) PROVE StepInv'
  <2>1. committed' \subseteq ToSet(log)
    BY <1>1 DEF Passthrough, StepInv, LogInv
  <2>. QED BY <1>1, <2>1, CallMoves DEF Passthrough, Goes, Place
<1>2. ASSUME NEW c \in Call, Begin(c) PROVE StepInv'
  <2>1. /\ at[c] = "idle"
        /\ at' = [at EXCEPT ![c] = "firing"]
        /\ counter' = counter + 1
        /\ step' = [step EXCEPT ![c] = counter + 1]
        /\ UNCHANGED <<effects, log, committed>>
    BY <1>2 DEF Begin, Goes
  <2>2. /\ LogTypes'
        /\ at'[c] = "firing" /\ step'[c] = counter + 1
        /\ \A d \in Call \ {c} : at'[d] = at[d] /\ step'[d] = step[d]
    BY <1>t, <2>1 DEF LogTypes, Place
  <2>3. counter + 1 \notin ToSet(log) /\ 1..counter \subseteq 1..(counter + 1)
    BY <1>t DEF StepInv, LogTypes, NumberInv
  <2>4. NumberInv'
    <3>1. ToSet(log)' \subseteq 1..counter'
      BY <2>1, <2>3 DEF StepInv, NumberInv
    <3>2. \A d \in Call : Started(d)' => step'[d] \in 1..counter'
      BY <1>t, <2>1, <2>2, <2>3 DEF StepInv, NumberInv, Started, LogTypes
    <3>3. \A d \in Call \ {c} : Started(d)' => step'[d] # counter + 1
      BY <1>t, <2>2 DEF StepInv, NumberInv, Started, LogTypes
    <3>4. \A d, e \in Call \ {c} : Started(d)' /\ Started(e)' /\ step'[d] = step'[e] => d = e
      BY <2>2 DEF StepInv, NumberInv, Started
    <3>5. \A d, e \in Call : Started(d)' /\ Started(e)' /\ step'[d] = step'[e] => d = e
      BY <2>2, <3>3, <3>4
    <3>. QED BY <3>1, <3>2, <3>5 DEF NumberInv
  <2>5. PlaceInv'
    BY <2>1, <2>2, <2>3 DEF StepInv, PlaceInv
  <2>6. LogInv'
    BY <2>1 DEF StepInv, LogInv
  <2>7. EffectInv'
    <3>. SUFFICES ASSUME NEW n \in effects
                 PROVE  \E d \in Call : step'[d] = n /\ at'[d] \in Acting
      BY <2>1 DEF EffectInv
    <3>1. PICK d \in Call : step[d] = n /\ at[d] \in Acting
      BY DEF StepInv, EffectInv
    <3>2. d # c
      BY <2>1, <3>1 DEF Acting
    <3>. QED BY <2>2, <3>1, <3>2
  <2>. QED BY <2>2, <2>4, <2>5, <2>6, <2>7 DEF StepInv
<1>3. ASSUME NEW c \in Call, Act(c) PROVE StepInv'
  <2>1. /\ at[c] = "firing"
        /\ at' = [at EXCEPT ![c] = "acted"]
        /\ effects' = effects \cup {step[c]}
        /\ UNCHANGED <<counter, step, log, committed>>
    BY <1>3 DEF Act, Goes
  <2>2. /\ LogTypes'
        /\ at'[c] = "acted"
        /\ \A d \in Call \ {c} : at'[d] = at[d]
    BY <1>t, <2>1 DEF LogTypes, Place
  <2>4. NumberInv'
    BY <2>1, <2>2 DEF StepInv, NumberInv, Started
  <2>5. PlaceInv'
    BY <2>1, <2>2 DEF StepInv, PlaceInv
  <2>6. LogInv'
    BY <2>1 DEF StepInv, LogInv
  <2>7. EffectInv'
    <3>. SUFFICES ASSUME NEW n \in effects'
                 PROVE  \E d \in Call : step[d] = n /\ at'[d] \in Acting
      BY <2>1 DEF EffectInv
    <3>1. CASE n = step[c]
      BY <2>2, <3>1 DEF Acting
    <3>2. CASE n \in effects
      <4>1. PICK d \in Call : step[d] = n /\ at[d] \in Acting
        BY <3>2 DEF StepInv, EffectInv
      <4>2. d # c
        BY <2>1, <4>1 DEF Acting
      <4>. QED BY <2>2, <4>1, <4>2
    <3>. QED BY <2>1, <3>1, <3>2
  <2>. QED BY <2>2, <2>4, <2>5, <2>6, <2>7 DEF StepInv
<1>4. ASSUME NEW c \in Call, Answer(c) PROVE StepInv'
  <2>1. PICK from \in {"firing", "acted"} : Goes(c, from, "verifying")
    BY <1>4 DEF Answer
  <2>2. committed' \subseteq ToSet(log)
    BY <1>4 DEF Answer, StepInv, LogInv
  <2>. QED BY <1>4, <2>1, <2>2, CallMoves DEF Answer, Goes, Place
<1>5. ASSUME NEW c \in Call, Raise(c) PROVE StepInv'
  <2>1. PICK from \in InFlight : Goes(c, from, "raised")
    BY <1>5 DEF Raise
  <2>2. committed' \subseteq ToSet(log)
    BY <1>5 DEF Raise, StepInv, LogInv
  <2>. QED BY <1>5, <2>1, <2>2, CallMoves DEF Raise, Goes, Place, InFlight
<1>6. ASSUME NEW c \in Call, Log(c) PROVE StepInv'
  <2>1. /\ at[c] = "verifying"
        /\ at' = [at EXCEPT ![c] = "saving"]
        /\ log' = Append(log, step[c])
        /\ UNCHANGED <<counter, step, effects, committed>>
    BY <1>6 DEF Log, Goes
  <2>2. /\ at' \in [Call -> Place]
        /\ at'[c] = "saving"
        /\ \A d \in Call \ {c} : at'[d] = at[d]
    BY <1>t, <2>1 DEF LogTypes, Place
  <2>3. /\ step[c] \in 1..counter /\ step[c] \notin ToSet(log) /\ step[c] \in Nat
        /\ \A d \in Call \ {c} : Started(d) => step[d] # step[c]
    BY <1>t, <2>1 DEF StepInv, NumberInv, PlaceInv, Started, LogTypes
  <2>4. /\ log' \in Seq(Nat)
        /\ ToSet(log)' = ToSet(log) \cup {step[c]}
        /\ IsInjective(log)'
    BY <1>t, <2>1, <2>3, Appended DEF LogTypes, StepInv, LogInv
  <2>5. NumberInv'
    BY <2>1, <2>2, <2>3, <2>4 DEF StepInv, NumberInv, Started
  <2>6. PlaceInv'
    BY <2>1, <2>2, <2>3, <2>4 DEF StepInv, PlaceInv, Started
  <2>7. LogInv'
    BY <2>1, <2>3, <2>4 DEF StepInv, LogInv
  <2>8. EffectInv'
    BY <2>1, <2>2, EffectsKept DEF Acting
  <2>. QED BY <1>t, <2>1, <2>2, <2>4, <2>5, <2>6, <2>7, <2>8 DEF StepInv, LogTypes
<1>7. ASSUME NEW c \in Call, Checkpoint(c) PROVE StepInv'
  <2>1. /\ step[c] \in ToSet(log)
        /\ committed' = committed \cup {step[c]}
        /\ UNCHANGED <<counter, step, at, effects, log>>
    BY <1>7 DEF Checkpoint, StepInv, PlaceInv
  <2>2. LogInv'
    BY <2>1 DEF StepInv, LogInv
  <2>. QED BY <2>1, <2>2
           DEF StepInv, LogTypes, NumberInv, PlaceInv, EffectInv, Started
<1>8. ASSUME NEW c \in Call, Return(c) PROVE StepInv'
  <2>1. committed' \subseteq ToSet(log)
    BY <1>8 DEF Return, StepInv, LogInv
  <2>. QED BY <1>8, <2>1, CallMoves DEF Return, Goes, Place
<1>9. CASE \/ Put \/ Heal \/ Rename \/ WriteFails \/ Clear \/ Get \/ Replay
           \/ Crash \/ Resume \/ UNCHANGED vars
  <2>1. UNCHANGED stepVars
    BY <1>9 DEF Put, Heal, Rename, WriteFails, Clear, Get, Replay, Crash, Resume, Write, vars
  <2>. QED BY <2>1
           DEF stepVars, StepInv, LogTypes, NumberInv, PlaceInv, LogInv, EffectInv, Started
<1>. QED
  BY <1>1, <1>2, <1>3, <1>4, <1>5, <1>6, <1>7, <1>8, <1>9 DEF Next, CallStep

(* However calls overlap, raise and crash, a step is logged once, after
   upstream answered; what acted and is not logged is of a call that did not
   return, and every checkpoint that can be resumed from is logged. *)
THEOREM LogCompleteAlways == Spec => []LogComplete
<1>1. StepInv => LogComplete
  <2>. SUFFICES ASSUME StepInv PROVE LogComplete
    OBVIOUS
  <2>1. ASSUME NEW n \in effects \ ToSet(log)
        PROVE  \E c \in Call : step[c] = n /\ at[c] \in {"acted", "verifying", "raised"}
    <3>1. PICK c \in Call : step[c] = n /\ at[c] \in Acting
      BY DEF StepInv, EffectInv
    <3>2. at[c] \notin {"saving", "returned"}
      BY <2>1, <3>1 DEF StepInv, PlaceInv
    <3>. QED BY <3>1, <3>2 DEF Acting
  <2>. QED BY <2>1 DEF StepInv, PlaceInv, LogInv, LogComplete
<1>. QED BY <1>1, InitSteps, StepsKept, PTL DEF Spec

-----------------------------------------------------------------------------
LEMMA InitReplay == Init => ReplayInv
<1>. SUFFICES ASSUME Init PROVE ReplayInv
  OBVIOUS
<1>1. TypeOK
  BY PersistenceAssumption DEF Init, TypeOK, Idle, Place
<1>2. MemoryBehindHeals /\ WritingInv /\ ReplayIsPrefix /\ CursorInv
  BY PersistenceAssumption
     DEF Init, MemoryBehindHeals, WritingInv, ReplayIsPrefix, CursorInv
<1>. QED BY <1>1, <1>2 DEF ReplayInv

(* A call's own steps have nothing to do with the cassette. *)
LEMMA CallTypes ==
  ASSUME TypeOK, NEW c \in Call, CallStep(c)
  PROVE  TypeOK' /\ UNCHANGED <<cassetteVars, replayVars>>
<1>0. /\ step[c] \in Nat
      /\ UNCHANGED <<alive, restored, cassetteVars, replayVars>>
  BY DEF TypeOK, CallStep, Passthrough, Begin, Act, Answer, Raise, Log, Checkpoint, Return, Goes
<1>1. at' \in [Call -> Place]
  <2>1. CASE Checkpoint(c)
    BY <2>1 DEF Checkpoint, TypeOK
  <2>2. ASSUME NEW from, NEW to \in Place, Goes(c, from, to)
        PROVE  at' \in [Call -> Place]
    BY <2>2 DEF Goes, TypeOK
  <2>3. CASE Passthrough(c) \/ Begin(c) \/ Act(c) \/ Answer(c)
    BY <2>2, <2>3 DEF Passthrough, Begin, Act, Answer, Place
  <2>4. CASE Raise(c) \/ Log(c) \/ Return(c)
    BY <2>2, <2>4 DEF Raise, Log, Return, Place
  <2>5. \/ Passthrough(c) \/ Begin(c) \/ Act(c) \/ Answer(c)
        \/ Raise(c) \/ Log(c) \/ Checkpoint(c) \/ Return(c)
    BY DEF CallStep
  <2>. QED BY <2>1, <2>3, <2>4, <2>5
<1>2. counter' \in Nat /\ step' \in [Call -> Nat]
  <2>1. CASE UNCHANGED <<counter, step>>
    BY <2>1 DEF TypeOK
  <2>2. CASE counter' = counter + 1 /\ step' = [step EXCEPT ![c] = counter + 1]
    BY <2>2 DEF TypeOK
  <2>. QED
    BY <2>1, <2>2 DEF CallStep, Passthrough, Begin, Act, Answer, Raise, Log, Checkpoint, Return
<1>3. effects' \subseteq Nat /\ committed' \subseteq Nat
  BY <1>0 DEF TypeOK, CallStep, Passthrough, Begin, Act, Answer, Raise, Log, Checkpoint, Return
<1>4. log' \in Seq(Nat) /\ begun' \in Seq(Nat)
  <2>1. CASE UNCHANGED <<log, begun>>
    BY <2>1 DEF TypeOK
  <2>2. CASE log' = Append(log, step[c]) /\ begun' = Append(begun, step[c])
    BY <1>0, <2>2, Appended DEF TypeOK
  <2>. QED
    BY <2>1, <2>2 DEF CallStep, Passthrough, Begin, Act, Answer, Raise, Log, Checkpoint, Return
<1>5. TypeOK'
  BY <1>0, <1>1, <1>2, <1>3, <1>4 DEF TypeOK, cassetteVars, replayVars
<1>. QED BY <1>0, <1>5

LEMMA ReplayKept == ReplayInv /\ [Next]_vars => ReplayInv'
<1>. SUFFICES ASSUME ReplayInv, [Next]_vars PROVE ReplayInv'
  OBVIOUS
<1>. USE PersistenceAssumption
<1>t. TypeOK /\ MemoryBehindHeals /\ WritingInv /\ ReplayIsPrefix /\ CursorInv
  BY DEF ReplayInv
<1>l. Loaded \in Cassette \cup {None} /\ file = Loaded
  BY <1>t DEF Loaded, TypeOK
<1>1. ASSUME NEW c \in Call, CallStep(c) PROVE ReplayInv'
  BY <1>1, <1>t, CallTypes
     DEF ReplayInv, cassetteVars, replayVars, MemoryBehindHeals, WritingInv, ReplayIsPrefix,
         CursorInv, Idle
<1>2. CASE Put
  <2>1. PICK r \in Recording :
          writing' = [by |-> "put", cassette |-> [recording |-> r, heals |-> 0]]
    BY <1>2 DEF Put, Write
  <2>2. [recording |-> r, heals |-> 0] \in Cassette
    BY DEF Cassette
  <2>3. UNCHANGED <<alive, stepVars, restored, file, memory, replayVars>>
    BY <1>2 DEF Put, Write
  <2>4. TypeOK'
    BY <1>t, <2>1, <2>2, <2>3 DEF TypeOK, stepVars, replayVars
  <2>5. WritingInv'
    BY <2>1, <2>2 DEF WritingInv
  <2>. QED BY <1>t, <2>3, <2>4, <2>5
           DEF ReplayInv, MemoryBehindHeals, ReplayIsPrefix, CursorInv, replayVars
<1>3. CASE Heal
  <2>1. /\ Loaded # None /\ Loaded.heals < MaxHeals
        /\ writing' = [by |-> "heal", cassette |-> [Loaded EXCEPT !.heals = @ + 1]]
        /\ UNCHANGED <<alive, stepVars, restored, file, memory, replayVars>>
    BY <1>3 DEF Heal, Write
  <2>2. PICK k \in Cassette : k = Loaded /\ k = file
    BY <1>l, <2>1
  <2>3. /\ [k EXCEPT !.heals = @ + 1] \in Cassette
        /\ [k EXCEPT !.heals = @ + 1].recording = k.recording
        /\ [k EXCEPT !.heals = @ + 1].heals >= k.heals
    BY <2>1, <2>2 DEF Cassette
  <2>4. TypeOK'
    BY <1>t, <2>1, <2>2, <2>3 DEF TypeOK, stepVars, replayVars
  <2>5. WritingInv'
    BY <2>1, <2>2, <2>3 DEF WritingInv
  <2>. QED BY <1>t, <2>1, <2>4, <2>5
           DEF ReplayInv, MemoryBehindHeals, ReplayIsPrefix, CursorInv, replayVars
<1>4. CASE Rename
  <2>1. /\ writing # Idle /\ writing' = Idle
        /\ file' = writing.cassette
        /\ memory' = IF writing.by = "put" THEN file' ELSE memory
        /\ UNCHANGED <<alive, stepVars, restored, replayVars>>
    BY <1>4 DEF Rename
  <2>2. writing.cassette \in Cassette /\ writing.by \in {"put", "heal"}
    BY <1>t, <2>1 DEF WritingInv
  <2>3. TypeOK'
    BY <1>t, <2>1, <2>2 DEF TypeOK, stepVars, replayVars, Idle
  <2>4. MemoryBehindHeals'
    <3>1. CASE writing.by = "put"
      BY <2>1, <2>2, <3>1 DEF MemoryBehindHeals, Cassette
    <3>2. CASE writing.by = "heal"
      <4>1. /\ file \in Cassette
            /\ file'.recording = file.recording
            /\ file'.heals >= file.heals
            /\ file' \in Cassette
        BY <1>t, <2>1, <2>2, <3>2 DEF WritingInv
      <4>2. memory' # None => memory \in Cassette /\ memory' = memory
        BY <1>t, <2>1, <3>2 DEF TypeOK
      <4>. QED BY <1>t, <4>1, <4>2 DEF MemoryBehindHeals, Cassette
    <3>. QED BY <2>2, <3>1, <3>2
  <2>5. WritingInv'
    BY <2>1 DEF WritingInv
  <2>. QED BY <1>t, <2>1, <2>3, <2>4, <2>5
           DEF ReplayInv, ReplayIsPrefix, CursorInv, replayVars
<1>5. CASE WriteFails
  <2>1. /\ writing' = Idle
        /\ UNCHANGED <<alive, stepVars, restored, file, memory, replayVars>>
    BY <1>5 DEF WriteFails
  <2>2. TypeOK'
    BY <1>t, <2>1 DEF TypeOK, stepVars, replayVars, Idle
  <2>. QED BY <1>t, <2>1, <2>2
           DEF ReplayInv, MemoryBehindHeals, WritingInv, ReplayIsPrefix, CursorInv, replayVars
<1>6. CASE Clear
  <2>1. /\ writing = Idle /\ file' = None /\ memory' = None
        /\ UNCHANGED <<alive, stepVars, restored, writing, replayVars>>
    BY <1>6 DEF Clear, Free
  <2>2. TypeOK'
    BY <1>t, <2>1 DEF TypeOK, stepVars, replayVars
  <2>3. WritingInv' /\ MemoryBehindHeals'
    BY <2>1 DEF WritingInv, MemoryBehindHeals, Idle
  <2>. QED BY <1>t, <2>1, <2>2, <2>3 DEF ReplayInv, ReplayIsPrefix, CursorInv, replayVars
<1>7. CASE Get
  <2>1. /\ writing = Idle
        /\ memory' = IF memory = None THEN Loaded ELSE memory
        /\ memory' # None
        /\ served' = memory'
        /\ cursor' = 1 /\ played' = <<>> /\ mismatch' = 0
        /\ UNCHANGED <<alive, stepVars, restored, file, writing>>
    BY <1>7 DEF Get, Free
  <2>2. memory' \in Cassette
    BY <1>t, <1>l, <2>1 DEF TypeOK
  <2>3. TypeOK'
    BY <1>t, <2>1, <2>2 DEF TypeOK, stepVars
  <2>4. MemoryBehindHeals'
    <3>1. CASE memory = None
      <4>1. memory' = file /\ file # None
        BY <1>l, <2>1, <3>1
      <4>. QED BY <1>t, <2>1, <2>2, <4>1 DEF MemoryBehindHeals, Cassette
    <3>2. CASE memory # None
      BY <1>t, <2>1, <3>2 DEF MemoryBehindHeals
    <3>. QED BY <3>1, <3>2
  <2>5. WritingInv'
    BY <2>1 DEF WritingInv, Idle
  <2>6. ReplayIsPrefix' /\ CursorInv'
    BY <2>1 DEF ReplayIsPrefix, CursorInv
  <2>. QED BY <2>3, <2>4, <2>5, <2>6 DEF ReplayInv
<1>8. CASE Replay
  <2>1. PICK fires \in BOOLEAN, matches \in BOOLEAN :
          /\ matches => fires
          /\ played' = IF fires THEN Append(played, cursor) ELSE played
          /\ mismatch' = IF matches THEN mismatch ELSE cursor
          /\ cursor' = IF matches /\ cursor < Length THEN cursor + 1 ELSE 0
    BY <1>8 DEF Replay
  <2>2. /\ cursor > 0
        /\ UNCHANGED <<alive, stepVars, restored, cassetteVars, served>>
    BY <1>8 DEF Replay
  <2>3. /\ cursor \in 1..Length /\ mismatch = 0 /\ Len(played) = cursor - 1
        /\ played \in Seq(1..Length)
    BY <1>t, <2>2 DEF TypeOK, CursorInv
  <2>4. /\ played' \in Seq(1..Length)
        /\ fires => Len(played') = cursor
        /\ ~fires => Len(played') = cursor - 1
        /\ \A i \in 1..Len(played') : played'[i] = i
    <3>1. CASE fires
      <4>1. /\ played' \in Seq(1..Length) /\ Len(played') = cursor
            /\ \A i \in 1..Len(played) : played'[i] = played[i]
            /\ played'[cursor] = cursor
        BY <2>1, <2>3, <3>1
      <4>. QED BY <1>t, <2>3, <3>1, <4>1 DEF ReplayIsPrefix
    <3>2. CASE ~fires
      BY <1>t, <2>1, <2>3, <3>2 DEF ReplayIsPrefix
    <3>. QED BY <3>1, <3>2
  <2>5. cursor' \in 0..Length /\ mismatch' \in 0..Length
    BY <2>1, <2>3
  <2>6. TypeOK'
    BY <1>t, <2>2, <2>4, <2>5 DEF TypeOK, stepVars, cassetteVars
  <2>7. CursorInv'
    BY <2>1, <2>3, <2>4 DEF CursorInv
  <2>8. ReplayIsPrefix'
    BY <2>1, <2>3, <2>4 DEF ReplayIsPrefix
  <2>9. MemoryBehindHeals' /\ WritingInv'
    BY <1>t, <2>2 DEF MemoryBehindHeals, WritingInv, cassetteVars, Idle
  <2>. QED BY <2>6, <2>7, <2>8, <2>9 DEF ReplayInv
<1>9. CASE Crash
  <2>1. /\ alive' = FALSE /\ memory' = None /\ writing' = Idle /\ cursor' = 0
        /\ UNCHANGED <<stepVars, restored, file, served, played, mismatch>>
    BY <1>9 DEF Crash
  <2>2. TypeOK'
    <3>1. alive' \in BOOLEAN
      BY <2>1
    <3>2. /\ writing' \in [by : {"nobody", "put", "heal"}, cassette : Cassette \cup {None}]
          /\ cursor' \in 0..Length
      BY <2>1 DEF Idle
    <3>. QED BY <1>t, <2>1, <3>1, <3>2 DEF TypeOK, stepVars
  <2>. QED BY <1>t, <2>1, <2>2
           DEF ReplayInv, MemoryBehindHeals, WritingInv, ReplayIsPrefix, CursorInv
<1>10. CASE Resume
  <2>1. /\ \E i \in DOMAIN begun : restored' = begun[i]
        /\ UNCHANGED <<alive, stepVars, cassetteVars, replayVars>>
    BY <1>10 DEF Resume
  <2>2. restored' \in Nat
    BY <1>t, <2>1 DEF TypeOK
  <2>3. TypeOK'
    BY <1>t, <2>1, <2>2 DEF TypeOK, stepVars, cassetteVars, replayVars
  <2>. QED BY <1>t, <2>1, <2>3
           DEF ReplayInv, MemoryBehindHeals, WritingInv, ReplayIsPrefix, CursorInv,
               cassetteVars, replayVars, Idle
<1>11. CASE UNCHANGED vars
  <2>1. UNCHANGED <<alive, stepVars, restored, cassetteVars, replayVars>>
    BY <1>11 DEF vars
  <2>2. TypeOK'
    BY <1>t, <2>1 DEF TypeOK, stepVars, cassetteVars, replayVars
  <2>. QED BY <1>t, <2>1, <2>2
           DEF ReplayInv, MemoryBehindHeals, WritingInv, ReplayIsPrefix, CursorInv,
               cassetteVars, replayVars, Idle
<1>. QED
  BY <1>1, <1>2, <1>3, <1>4, <1>5, <1>6, <1>7, <1>8, <1>9, <1>10, <1>11 DEF Next

(* A replay is given the recording on disk, and fires a prefix of it. *)
THEOREM CassetteAlways == Spec => []CassetteInv
<1>1. ReplayInv => CassetteInv
  BY DEF ReplayInv, CassetteInv
<1>. QED BY <1>1, InitReplay, ReplayKept, PTL DEF Spec

-----------------------------------------------------------------------------
(* Sequences of tiers, and what they hold. *)
Has(s, t) == \E i \in DOMAIN s : s[i] = t

LEMMA HasConcat ==
  ASSUME NEW s \in Seq(Tiers), NEW t \in Seq(Tiers)
  PROVE  /\ s \o t \in Seq(Tiers)
         /\ \A x : Has(s \o t, x) <=> Has(s, x) \/ Has(t, x)
<1>1. s \o t \in Seq(Tiers) /\ Len(s \o t) = Len(s) + Len(t)
  OBVIOUS
<1>2. /\ \A i \in 1 .. Len(s) : (s \o t)[i] = s[i]
      /\ \A i \in 1 .. Len(t) : (s \o t)[Len(s) + i] = t[i]
  OBVIOUS
<1>3. ASSUME NEW x, Has(s \o t, x)
      PROVE  Has(s, x) \/ Has(t, x)
  <2>1. PICK i \in 1 .. Len(s) + Len(t) : (s \o t)[i] = x
    BY <1>1, <1>3 DEF Has
  <2>2. CASE i <= Len(s)
    BY <1>2, <2>1, <2>2 DEF Has
  <2>3. CASE i > Len(s)
    <3>1. i - Len(s) \in 1 .. Len(t) /\ Len(s) + (i - Len(s)) = i
      BY <2>1, <2>3
    <3>2. t[i - Len(s)] = x
      BY <1>2, <2>1, <3>1
    <3>. QED BY <3>1, <3>2 DEF Has
  <2>. QED BY <2>1, <2>2, <2>3
<1>4. ASSUME NEW x, Has(s, x) \/ Has(t, x)
      PROVE  Has(s \o t, x)
  <2>1. CASE Has(s, x)
    <3>1. PICK i \in 1 .. Len(s) : s[i] = x
      BY <2>1 DEF Has
    <3>2. i \in DOMAIN (s \o t) /\ (s \o t)[i] = x
      BY <1>1, <1>2, <3>1
    <3>. QED BY <3>2 DEF Has
  <2>2. CASE Has(t, x)
    <3>1. PICK i \in 1 .. Len(t) : t[i] = x
      BY <2>2 DEF Has
    <3>2. Len(s) + i \in DOMAIN (s \o t) /\ (s \o t)[Len(s) + i] = x
      BY <1>1, <1>2, <3>1
    <3>. QED BY <3>2 DEF Has
  <2>. QED BY <1>4, <2>1, <2>2
<1>. QED BY <1>1, <1>3, <1>4

LEMMA HasWhen ==
  ASSUME NEW there \in BOOLEAN, NEW t \in Tiers
  PROVE  /\ When(there, t) \in Seq(Tiers)
         /\ \A x : Has(When(there, t), x) <=> there /\ x = t
<1>1. CASE there
  <2>1. When(there, t) = <<t>> /\ DOMAIN <<t>> = {1} /\ <<t>>[1] = t /\ <<t>> \in Seq(Tiers)
    BY <1>1 DEF When
  <2>2. \A x : Has(<<t>>, x) <=> x = t
    BY <2>1 DEF Has
  <2>. QED BY <1>1, <2>1, <2>2
<1>2. CASE ~there
  <2>1. When(there, t) = <<>> /\ DOMAIN <<>> = {} /\ <<>> \in Seq(Tiers)
    BY <1>2 DEF When
  <2>2. \A x : ~Has(<<>>, x)
    BY <2>1 DEF Has
  <2>. QED BY <1>2, <2>1, <2>2
<1>. QED BY <1>1, <1>2

(* The derived order asks the scripting dictionary, and ends with vision.  *)
LEMMA DerivedOrder ==
  ASSUME NEW f \in Facts
  PROVE  /\ Derived(f) \in Seq(Tiers)
         /\ Has(Derived(f), "T3") <=> f.sdef
         /\ Has(Derived(f), "T4")
<1> DEFINE web == When(f.electron /\ f.port, "T2")
           tree == When(f.rich, "T1")
           script == When(f.sdef, "T3")
           sight == <<"T4", "T5">>
<1>1. f.electron \in BOOLEAN /\ f.port \in BOOLEAN /\ f.rich \in BOOLEAN /\ f.sdef \in BOOLEAN
  BY DEF Facts
<1>2. "T1" \in Tiers /\ "T2" \in Tiers /\ "T3" \in Tiers /\ "T4" \in Tiers /\ "T5" \in Tiers
  BY DEF Tiers
<1>3. (f.electron /\ f.port) \in BOOLEAN
  BY <1>1
<1>4. web \in Seq(Tiers) /\ ~Has(web, "T3")
  <2> HIDE DEF web
  <2>1. web = When(f.electron /\ f.port, "T2")
    BY DEF web
  <2>. QED BY <1>2, <1>3, <2>1, HasWhen, "T2" # "T3"
<1>5. tree \in Seq(Tiers) /\ ~Has(tree, "T3")
  BY <1>1, <1>2, HasWhen
<1>6. script \in Seq(Tiers) /\ (Has(script, "T3") <=> f.sdef)
  BY <1>1, <1>2, HasWhen
<1>7. sight \in Seq(Tiers) /\ Has(sight, "T4") /\ ~Has(sight, "T3")
  BY <1>2 DEF Has
<1>8. Derived(f) = ((web \o tree) \o script) \o sight
  BY <1>4, <1>5, <1>6, <1>7 DEF Derived
<1> HIDE DEF web, tree, script, sight
<1>9. web \o tree \in Seq(Tiers) /\ ~Has(web \o tree, "T3")
  BY <1>4, <1>5, HasConcat
<1>10. /\ (web \o tree) \o script \in Seq(Tiers)
       /\ Has((web \o tree) \o script, "T3") <=> f.sdef
  BY <1>6, <1>9, HasConcat
<1>11. /\ ((web \o tree) \o script) \o sight \in Seq(Tiers)
       /\ Has(((web \o tree) \o script) \o sight, "T3") <=> f.sdef
       /\ Has(((web \o tree) \o script) \o sight, "T4")
  BY <1>7, <1>10, HasConcat
<1>. QED BY <1>8, <1>11

LEMMA KnownOrder ==
  ASSUME NEW b \in KnownBundle
  PROVE  KnownPriority(b) \in Seq(Tiers)
<1>1. \/ KnownPriority(b) = <<"T1", "T4", "T5">>
      \/ KnownPriority(b) = <<"T3", "T1", "T4">>
      \/ KnownPriority(b) = <<"T1", "T3", "T4">>
      \/ KnownPriority(b) = <<"T2", "T4", "T5">>
      \/ KnownPriority(b) = <<"T1", "T3">>
      \/ KnownPriority(b) = <<"T1">>
      \/ KnownPriority(b) = <<"T2", "T1">>
      \/ KnownPriority(b) = <<"T4", "T5">>
  BY ZenonT(60) DEF KnownBundle, KnownPriority
<1>2. /\ <<"T1", "T4", "T5">> \in Seq(Tiers) /\ <<"T3", "T1", "T4">> \in Seq(Tiers)
      /\ <<"T1", "T3", "T4">> \in Seq(Tiers) /\ <<"T2", "T4", "T5">> \in Seq(Tiers)
      /\ <<"T1", "T3">> \in Seq(Tiers) /\ <<"T1">> \in Seq(Tiers)
      /\ <<"T2", "T1">> \in Seq(Tiers) /\ <<"T4", "T5">> \in Seq(Tiers)
  BY DEF Tiers
<1> HIDE DEF KnownPriority
<1>. QED BY <1>1, <1>2

-----------------------------------------------------------------------------
Released == {Releases[i] : i \in DOMAIN Releases}

(* Profile p is one that classify may compose for release r of application *)
(* b, with whatever its probes return.                                     *)
Good(b, p, r) ==
  /\ p \in Profile
  /\ p.version = r.version /\ p.build = r.build
  /\ p.bundled = Bundled(b, r.version)
  /\ ~p.bundled => (Has(p.priority, "T3") <=> r.sdef) /\ Has(p.priority, "T4")

Fit(b, p) == \E r \in Released : Good(b, p, r)

LEMMA ReleaseTypes ==
  /\ \A r \in Released : r \in [version : Nat \ {0}, build : Nat, sdef : BOOLEAN]
  /\ DOMAIN Releases = 1 .. Len(Releases) /\ Len(Releases) \in Nat \ {0}
<1>1. /\ Releases \in Seq([version : Nat \ {0}, build : Nat, sdef : BOOLEAN])
      /\ Releases # <<>>
  BY ResolutionAssumption
<1>2. DOMAIN Releases = 1 .. Len(Releases) /\ Len(Releases) \in Nat \ {0}
  BY <1>1
<1> DEFINE Kind == [version : Nat \ {0}, build : Nat, sdef : BOOLEAN]
<1>3. \A i \in DOMAIN Releases : Releases[i] \in Kind
  <2>1. Releases \in Seq(Kind)
    BY <1>1
  <2> HIDE DEF Kind
  <2>. QED BY <2>1
<1>. QED BY <1>2, <1>3 DEF Released

LEMMA BundledBoolean == \A b, v : Bundled(b, v) \in BOOLEAN
BY DEF Bundled

LEMMA Composed ==
  ASSUME NEW b, NEW r \in Released, NEW f \in Facts, f.sdef = r.sdef
  PROVE  Good(b, [version |-> r.version, build |-> r.build, sdef |-> r.sdef,
                  bundled |-> Bundled(b, r.version),
                  priority |-> Priority(b, r.version, f)], r)
<1>1. r.version \in Nat /\ r.build \in Nat /\ r.sdef \in BOOLEAN
  BY ReleaseTypes
<1>2. Bundled(b, r.version) \in BOOLEAN
  BY BundledBoolean
<1>3. Priority(b, r.version, f) \in Seq(Tiers)
  <2>1. CASE Bundled(b, r.version)
    BY <2>1, KnownOrder DEF Priority, Bundled
  <2>2. CASE ~Bundled(b, r.version)
    BY <2>2, DerivedOrder DEF Priority
  <2>. QED BY <2>1, <2>2
<1>4. ~Bundled(b, r.version) =>
        /\ Has(Priority(b, r.version, f), "T3") <=> r.sdef
        /\ Has(Priority(b, r.version, f), "T4")
  BY DerivedOrder DEF Priority
<1>. QED BY <1>1, <1>2, <1>3, <1>4 DEF Good, Profile

(* A cached profile that is not outdated is one of the release just read.  *)
LEMMA CachedFits ==
  ASSUME NEW b, NEW p, Fit(b, p), NEW r \in Released, ~Outdated(p, r)
  PROVE  Good(b, p, r)
<1>1. PICK q \in Released : Good(b, p, q)
  BY DEF Fit
<1>2. q.version = r.version /\ q.build = r.build
  BY <1>1 DEF Good, Outdated
<1>3. q.sdef = r.sdef
  BY <1>2, SameRelease DEF Released
<1>. QED BY <1>1, <1>2, <1>3 DEF Good

-----------------------------------------------------------------------------
Searching == {"ask", "check", "target", "raised"}
Serving == {"save", "open", "rename"} \cup Searching

(* What a call at q knows of application b: release s, profile p, and how  *)
(* far it has come in its order.                                           *)
Knows(b, q, s, p, a) ==
  /\ q \in {"load", "probe"} \cup Serving => s \in Released
  /\ q \in Serving => Good(b, p, s)
  /\ p \in Profile \cup {Nothing}
  /\ q \notin Searching \cup {"exited"} => a = 0
  /\ a = 0 \/ a \in 1 .. Len(p.priority)

(* As long as it had no gap, vision is still to be asked; and it gives up  *)
(* when nobody is left.                                                    *)
Sees(q, p, a, g, v) ==
  /\ q # "idle" /\ ~g => v
  /\ q \in {"ask", "check", "raised"} /\ ~g =>
       \A i \in DOMAIN p.priority : p.priority[i] \in {"T4", "T5"} \cap Registered => a < i
  /\ q = "raised" => \A i \in DOMAIN p.priority : p.priority[i] \in Registered => i <= a

Asks(c) ==
  /\ Knows(bundle, pc[c], seen[c], profile[c], asked[c])
  /\ Sees(pc[c], profile[c], asked[c], gap[c], visible)

ResolutionTypes ==
  /\ release \in DOMAIN Releases
  /\ run \in [instance : Nat, rich : BOOLEAN] /\ port \in BOOLEAN /\ visible \in BOOLEAN
  /\ pc \in [Asker -> {"meta", "load", "probe", "save", "open", "rename", "ask", "check"}
                       \cup Over]
  /\ seen \in [Asker -> Released \cup {Nothing}]
  /\ probed \in [Asker -> [rich : BOOLEAN \cup {Nothing}, port : BOOLEAN \cup {Nothing}]]
  /\ profile \in [Asker -> Profile \cup {Nothing}]
  /\ asked \in [Asker -> Nat]
  /\ fd \in [Asker -> {Nothing, "tmp", "disk", "gone"}]
  /\ gap \in [Asker -> BOOLEAN]
  /\ upsets \in 0 .. MaxUpsets

(* Somebody is still to write what file f is to hold, or died before.      *)
Excused(f) == \E d \in Asker : (fd[d] = f /\ pc[d] = "open") \/ pc[d] = "exited"

(* The entry is there and whole, or else excused. *)
Kept == disk # Nothing /\ (disk = Partial => Excused("disk"))

FilesInv ==
  /\ disk \in {Nothing, Partial} \/ Fit(bundle, disk)
  /\ tmp \in {Nothing, Partial} \/ Fit(bundle, tmp)
  /\ \A c \in Asker : fd[c] # Nothing <=> pc[c] \in Writing
  /\ \A c \in Asker : fd[c] = "tmp" => tmp # Nothing
  /\ tmp = Partial => Excused("tmp")
  /\ \A c \in Asker : fd[c] \in {"disk", "gone"} \/ pc[c] = "savefailed" => Kept

ResolutionIInv == ResolutionTypes /\ FilesInv /\ \A c \in Asker : Asks(c)

-----------------------------------------------------------------------------
LEMMA ResolutionInitial == ResolutionInit => ResolutionIInv
<1> SUFFICES ASSUME ResolutionInit PROVE ResolutionIInv
  OBVIOUS
<1>1. release = 1 /\ 1 \in DOMAIN Releases
  BY ReleaseTypes DEF ResolutionInit
<1>2. disk \in {Nothing, Partial} \/ Fit(bundle, disk)
  <2>1. disk \in Stored
    BY DEF ResolutionInit
  <2>2. CASE disk \notin {Nothing, Partial}
    <3>1. Releases[1] \in Released
      BY <1>1 DEF Released
    <3> DEFINE r == Releases[1]
    <3>2. PICK f \in Facts :
            /\ f.sdef = r.sdef
            /\ disk = [version |-> r.version, build |-> r.build, sdef |-> r.sdef,
                       bundled |-> Bundled(bundle, r.version),
                       priority |-> Priority(bundle, r.version, f)]
      BY <2>1, <2>2 DEF Stored
    <3> HIDE DEF r
    <3>3. r \in Released
      BY <3>1 DEF r
    <3>4. Good(bundle, disk, r)
      BY <3>2, <3>3, Composed
    <3>. QED BY <3>3, <3>4 DEF Fit
  <2>. QED BY <2>2
<1>3. FilesInv
  BY <1>2, ResolutionAssumption DEF FilesInv, ResolutionInit, Excused, Writing
<1>4. upsets \in 0 .. MaxUpsets
  BY ResolutionAssumption DEF ResolutionInit
<1>5. ResolutionTypes
  <2>1. \A c \in Asker : "idle" \in Over
    BY DEF Over
  <2>2. run \in [instance : Nat, rich : BOOLEAN] /\ port \in BOOLEAN /\ visible \in BOOLEAN
    BY DEF ResolutionInit
  <2>. QED BY <1>1, <1>4, <2>1, <2>2 DEF ResolutionInit, ResolutionTypes
<1>6. \A c \in Asker : Asks(c)
  BY DEF ResolutionInit, Asks, Knows, Sees, Serving, Searching
<1>. QED BY <1>3, <1>5, <1>6 DEF ResolutionIInv

(* A step of c that touches nobody else. *)
Alone(c) ==
  \A d \in Asker \ {c} :
    /\ pc'[d] = pc[d] /\ seen'[d] = seen[d] /\ profile'[d] = profile[d]
    /\ asked'[d] = asked[d] /\ gap'[d] = gap[d]

LEMMA OneAsks ==
  ASSUME NEW c \in Asker, \A d \in Asker : Asks(d), UNCHANGED <<bundle, visible>>,
         Alone(c), Asks(c)'
  PROVE  \A d \in Asker : Asks(d)'
<1> TAKE d \in Asker
<1>1. CASE d = c
  BY <1>1
<1>2. CASE d # c
  BY <1>2 DEF Alone, Asks
<1>. QED BY <1>1, <1>2

(* Steps that neither save nor end. *)
LEMMA FilesSame ==
  ASSUME FilesInv, UNCHANGED <<bundle, files, fd>>,
         \A d \in Asker : \/ pc'[d] = pc[d]
                          \/ /\ pc[d] \notin Writing \cup {"savefailed", "exited"}
                             /\ pc'[d] \notin Writing \cup {"savefailed", "exited"}
  PROVE  FilesInv'
<1>1. \A f : Excused(f) => Excused(f)'
  BY DEF Excused, Writing
<1>2. UNCHANGED <<bundle, disk, tmp, fd>>
  BY DEF files
<1>3. \A d \in Asker : /\ pc'[d] \in Writing <=> pc[d] \in Writing
                       /\ pc'[d] = "savefailed" <=> pc[d] = "savefailed"
  BY DEF Writing
<1>4. /\ disk' \in {Nothing, Partial} \/ Fit(bundle', disk')
      /\ tmp' \in {Nothing, Partial} \/ Fit(bundle', tmp')
  BY <1>2 DEF FilesInv
<1>5. Kept => Kept'
  BY <1>1, <1>2 DEF Kept
<1>. QED BY <1>1, <1>2, <1>3, <1>4, <1>5 DEF FilesInv

(* Calls that end with their process close their files. *)
LEMMA ProcessKeeps ==
  ASSUME ResolutionIInv,
         UNCHANGED <<bundle, appVars, files, seen, probed, profile, asked>>,
         pc' \in [Asker -> {"exited"} \cup {pc[d] : d \in Asker}],
         fd' \in [Asker -> {Nothing, "tmp", "disk", "gone"}],
         gap' \in [Asker -> BOOLEAN], upsets' \in 0 .. MaxUpsets,
         \A d \in Asker : \/ pc'[d] = pc[d] /\ fd'[d] = fd[d] /\ gap'[d] = gap[d]
                          \/ /\ pc'[d] = "exited" /\ fd'[d] = Nothing
                             /\ (gap'[d] = gap[d] /\ pc[d] # "idle") \/ gap'[d] = ~visible,
         \E d \in Asker : pc'[d] = "exited"
  PROVE  ResolutionIInv'
<1>1. \A f : Excused(f)'
  BY DEF Excused
<1>2. FilesInv'
  <2>1. FilesInv /\ UNCHANGED <<bundle, disk, tmp>> /\ Nothing \notin {"tmp", "disk", "gone"}
    BY ResolutionAssumption DEF ResolutionIInv, files
  <2>2. /\ disk' \in {Nothing, Partial} \/ Fit(bundle', disk')
        /\ tmp' \in {Nothing, Partial} \/ Fit(bundle', tmp')
    BY <2>1 DEF FilesInv
  <2>3. Kept => Kept'
    BY <1>1, <2>1 DEF Kept
  <2>4. \A d \in Asker : /\ fd'[d] # Nothing => fd'[d] = fd[d]
                         /\ pc'[d] = "savefailed" => pc[d] = "savefailed"
                         /\ fd'[d] # Nothing <=> pc'[d] \in Writing
    BY <2>1 DEF FilesInv, Writing
  <2>. QED BY <1>1, <2>1, <2>2, <2>3, <2>4 DEF FilesInv
<1>3. \A d \in Asker : Asks(d)'
  <2> TAKE d \in Asker
  <2>1. Asks(d)
    BY DEF ResolutionIInv
  <2>2. CASE pc'[d] = pc[d] /\ gap'[d] = gap[d]
    BY <2>1, <2>2 DEF Asks, appVars
  <2>3. CASE pc'[d] = "exited" /\ ((gap'[d] = gap[d] /\ pc[d] # "idle") \/ gap'[d] = ~visible)
    BY <2>1, <2>3 DEF Asks, Knows, Sees, Serving, Searching, appVars
  <2>. QED BY <2>2, <2>3
<1>4. ResolutionTypes'
  <2>1. ResolutionTypes
    BY DEF ResolutionIInv
  <2>2. pc' \in [Asker -> {"meta", "load", "probe", "save", "open", "rename", "ask", "check"}
                       \cup Over]
    BY <2>1 DEF ResolutionTypes, Over
  <2>. QED BY <2>1, <2>2 DEF ResolutionTypes, appVars
<1>. QED BY <1>2, <1>3, <1>4 DEF ResolutionIInv

LEMMA EndsKeeps ==
  ASSUME ResolutionIInv, ProcessEnds
  PROVE  ResolutionIInv'
<1>1. PICK c \in Asker : pc[c] \in Writing /\ Ends(proc[c])
  BY DEF ProcessEnds
<1>2. /\ UNCHANGED <<bundle, appVars, files, seen, probed, profile, asked, gap>>
      /\ upsets < MaxUpsets /\ upsets' = upsets + 1
  BY DEF ProcessEnds
<1>3. ResolutionTypes /\ FilesInv
  BY DEF ResolutionIInv
<1>4. upsets' \in 0 .. MaxUpsets
  BY <1>2, <1>3, ResolutionAssumption DEF ResolutionTypes
<1>5. \A d \in Asker :
        /\ pc'[d] = IF proc[d] = proc[c] /\ pc[d] \notin Over THEN "exited" ELSE pc[d]
        /\ fd'[d] = IF proc[d] = proc[c] THEN Nothing ELSE fd[d]
  BY <1>1 DEF Ends
<1>6. pc' \in [Asker -> {"exited"} \cup {pc[d] : d \in Asker}]
  BY <1>1 DEF Ends
<1>7. fd' \in [Asker -> {Nothing, "tmp", "disk", "gone"}]
  BY <1>1, <1>3 DEF Ends, ResolutionTypes
<1>8. \A d \in Asker : \/ pc'[d] = pc[d] /\ fd'[d] = fd[d]
                       \/ pc'[d] = "exited" /\ fd'[d] = Nothing /\ pc[d] # "idle"
  BY <1>3, <1>5 DEF FilesInv, Writing, Over
<1>9. pc'[c] = "exited"
  BY <1>1, <1>5 DEF Over, Writing
<1>10. gap' \in [Asker -> BOOLEAN]
  BY <1>2, <1>3 DEF ResolutionTypes
<1>. QED BY <1>2, <1>4, <1>6, <1>7, <1>8, <1>9, <1>10, ProcessKeeps

LEMMA StartKeeps ==
  ASSUME ResolutionIInv, NEW c \in Asker, Start(c)
  PROVE  ResolutionIInv'
<1>1. ResolutionTypes /\ FilesInv
  BY DEF ResolutionIInv
<1>2. /\ UNCHANGED <<bundle, appVars, files, seen, probed, profile, asked, upsets>>
      /\ gap' = [gap EXCEPT ![c] = ~visible] /\ pc[c] = "idle"
  BY DEF Start
<1>3. /\ gap' \in [Asker -> BOOLEAN] /\ upsets' \in 0 .. MaxUpsets
      /\ gap'[c] = ~visible /\ \A d \in Asker \ {c} : gap'[d] = gap[d]
  BY <1>1, <1>2 DEF ResolutionTypes
<1>4. CASE trusted
  <2>1. pc' = [pc EXCEPT ![c] = "meta"] /\ UNCHANGED fd
    BY <1>4 DEF Start
  <2>2. pc'[c] = "meta" /\ \A d \in Asker \ {c} : pc'[d] = pc[d]
    BY <1>1, <2>1 DEF ResolutionTypes
  <2>3. ResolutionTypes'
    BY <1>1, <1>2, <1>3, <2>1 DEF ResolutionTypes, appVars
  <2>4. FilesInv'
    BY <1>1, <1>2, <2>1, <2>2, FilesSame DEF Writing, files
  <2>5. Asks(c)'
    BY <1>2, <1>3, <2>2 DEF ResolutionIInv, Asks, Knows, Sees, Serving, Searching, appVars
  <2>6. Alone(c)
    BY <1>2, <1>3, <2>2 DEF Alone
  <2>. QED BY <1>2, <2>3, <2>4, <2>5, <2>6, OneAsks DEF ResolutionIInv, appVars
<1>5. CASE ~trusted
  <2>1. /\ pc' = [d \in Asker |-> IF d = c \/ (proc[d] = proc[c] /\ pc[d] \notin Over)
                                 THEN "exited" ELSE pc[d]]
        /\ fd' = [d \in Asker |-> IF proc[d] = proc[c] THEN Nothing ELSE fd[d]]
    BY <1>5 DEF Start
  <2>2. pc' \in [Asker -> {"exited"} \cup {pc[d] : d \in Asker}]
    BY <2>1
  <2>3. fd' \in [Asker -> {Nothing, "tmp", "disk", "gone"}]
    BY <1>1, <2>1 DEF ResolutionTypes
  <2>4. pc'[c] = "exited" /\ fd'[c] = Nothing
    BY <2>1
  <2>5. \A d \in Asker \ {c} : \/ pc'[d] = pc[d] /\ fd'[d] = fd[d]
                               \/ pc'[d] = "exited" /\ fd'[d] = Nothing /\ pc[d] # "idle"
    BY <1>1, <2>1 DEF FilesInv, Writing, Over
  <2>6. \A d \in Asker :
          \/ pc'[d] = pc[d] /\ fd'[d] = fd[d] /\ gap'[d] = gap[d]
          \/ /\ pc'[d] = "exited" /\ fd'[d] = Nothing
             /\ (gap'[d] = gap[d] /\ pc[d] # "idle") \/ gap'[d] = ~visible
    BY <1>3, <2>4, <2>5
  <2>. QED BY <1>2, <1>3, <2>2, <2>3, <2>4, <2>6, ProcessKeeps
<1>. QED BY <1>4, <1>5

(* A step of c within classify, up to the save. *)
LEMMA Classifies ==
  ASSUME ResolutionIInv, NEW c \in Asker, NEW q, pc' = [pc EXCEPT ![c] = q],
         q \in {"load", "probe", "save", "ask"}, pc[c] \in {"meta", "load", "probe"},
         UNCHANGED <<bundle, appVars, files, asked, fd, gap, upsets>>,
         Alone(c), ResolutionTypes', Knows(bundle, q, seen'[c], profile'[c], asked[c])
  PROVE  ResolutionIInv'
<1>1. pc'[c] = q /\ \A d \in Asker \ {c} : pc'[d] = pc[d]
  BY DEF ResolutionIInv, ResolutionTypes
<1>2. FilesInv'
  BY <1>1, FilesSame DEF ResolutionIInv, Writing, files
<1>3. asked[c] = 0
  BY DEF ResolutionIInv, Asks, Knows, Searching
<1>4. pc[c] # "idle" /\ Sees(pc[c], profile[c], asked[c], gap[c], visible)
  BY DEF ResolutionIInv, Asks
<1>5. q = "ask" => DOMAIN profile'[c].priority = 1 .. Len(profile'[c].priority)
                   /\ Len(profile'[c].priority) \in Nat
  BY DEF Knows, Good, Serving, Searching, Profile
<1>6. Sees(q, profile'[c], asked[c], gap[c], visible)
  BY <1>3, <1>4, <1>5 DEF Sees
<1>7. Asks(c)'
  BY <1>1, <1>6 DEF Asks, appVars
<1>. QED BY <1>2, <1>7, OneAsks DEF ResolutionIInv, appVars

LEMMA ReadMetadataKeeps ==
  ASSUME ResolutionIInv, NEW c \in Asker, ReadMetadata(c)
  PROVE  ResolutionIInv'
<1>1. /\ pc[c] = "meta" /\ pc' = [pc EXCEPT ![c] = "load"]
      /\ seen' = [seen EXCEPT ![c] = Releases[release]]
      /\ UNCHANGED <<bundle, appVars, files, probed, profile, asked, fd, gap, upsets>>
  BY DEF ReadMetadata
<1>2. ResolutionTypes
  BY DEF ResolutionIInv
<1>3. Releases[release] \in Released
  BY <1>2 DEF ResolutionTypes, Released
<1>4. ResolutionTypes'
  BY <1>1, <1>2, <1>3 DEF ResolutionTypes, appVars
<1>5. seen'[c] \in Released /\ profile'[c] = profile[c] /\ Alone(c)
  BY <1>1, <1>2, <1>3 DEF ResolutionTypes, Alone
<1>6. Knows(bundle, "load", seen'[c], profile'[c], asked[c])
  BY <1>1, <1>5 DEF ResolutionIInv, Asks, Knows, Serving, Searching
<1>. QED BY <1>1, <1>4, <1>5, <1>6, Classifies

LEMMA LoadCachedKeeps ==
  ASSUME ResolutionIInv, NEW c \in Asker, LoadCached(c)
  PROVE  ResolutionIInv'
<1>1. /\ pc[c] = "load"
      /\ UNCHANGED <<bundle, appVars, files, seen, probed, asked, fd, gap, upsets>>
  BY DEF LoadCached
<1>2. ResolutionTypes /\ FilesInv /\ Knows(bundle, pc[c], seen[c], profile[c], asked[c])
  BY DEF ResolutionIInv, Asks
<1>3. seen[c] \in Released /\ asked[c] = 0
  BY <1>1, <1>2 DEF Knows, Searching
<1>4. CASE Readable /\ (disk \in Profile => ~Outdated(disk, seen[c]))
  <2>1. pc' = [pc EXCEPT ![c] = "ask"] /\ profile' = [profile EXCEPT ![c] = disk]
    BY <1>4 DEF LoadCached
  <2>2. Fit(bundle, disk) /\ disk \in Profile
    BY <1>2, <1>4 DEF Readable, FilesInv, Fit, Good
  <2>3. Good(bundle, disk, seen[c])
    BY <1>3, <1>4, <2>2, CachedFits
  <2>4. ResolutionTypes'
    BY <1>1, <1>2, <2>1, <2>2 DEF ResolutionTypes, appVars, Over
  <2>5. profile'[c] = disk /\ seen'[c] = seen[c] /\ Alone(c)
    BY <1>1, <1>2, <2>1 DEF ResolutionTypes, Alone
  <2>6. Knows(bundle, "ask", seen'[c], profile'[c], asked[c])
    BY <1>3, <2>2, <2>3, <2>5 DEF Knows, Serving, Searching
  <2>. QED BY <1>1, <2>1, <2>4, <2>5, <2>6, Classifies
<1>5. CASE ~(Readable /\ (disk \in Profile => ~Outdated(disk, seen[c])))
  <2>1. pc' = [pc EXCEPT ![c] = "probe"] /\ UNCHANGED profile
    BY <1>5 DEF LoadCached
  <2>2. ResolutionTypes'
    BY <1>1, <1>2, <2>1 DEF ResolutionTypes, appVars, Over
  <2>3. profile'[c] = profile[c] /\ seen'[c] = seen[c] /\ Alone(c)
    BY <1>1, <1>2, <2>1 DEF ResolutionTypes, Alone
  <2>4. Knows(bundle, "probe", seen'[c], profile'[c], asked[c])
    BY <1>1, <1>2, <2>3 DEF Knows, Serving, Searching
  <2>. QED BY <1>1, <2>1, <2>2, <2>3, <2>4, Classifies
<1>. QED BY <1>4, <1>5

LEMMA ProbeKeeps ==
  ASSUME ResolutionIInv, NEW c \in Asker, ProbeRich(c) \/ ProbePort(c)
  PROVE  ResolutionIInv'
<1>1. UNCHANGED <<bundle, appVars, files, pc, seen, profile, asked, fd, gap, upsets>>
  BY DEF ProbeRich, ProbePort
<1>2. ResolutionTypes /\ FilesInv
  BY DEF ResolutionIInv
<1>3. probed' \in [Asker -> [rich : BOOLEAN \cup {Nothing}, port : BOOLEAN \cup {Nothing}]]
  <2>1. CASE ProbeRich(c)
    <3>1. PICK there \in BOOLEAN : probed' = [probed EXCEPT ![c].rich = there]
      BY <1>2, <2>1, FALSE \in BOOLEAN DEF ProbeRich, ResolutionTypes
    <3>. QED BY <1>2, <3>1 DEF ResolutionTypes
  <2>2. CASE ProbePort(c)
    <3>1. (Electron /\ port) \in BOOLEAN
      OBVIOUS
    <3>2. PICK there \in BOOLEAN : probed' = [probed EXCEPT ![c].port = there]
      BY <2>2, <3>1 DEF ProbePort
    <3>. QED BY <1>2, <3>2 DEF ResolutionTypes
  <2>. QED BY <2>1, <2>2
<1>4. ResolutionTypes'
  BY <1>1, <1>2, <1>3 DEF ResolutionTypes, appVars
<1>5. FilesInv'
  BY <1>1, <1>2, FilesSame
<1>6. \A d \in Asker : Asks(d)'
  BY <1>1 DEF ResolutionIInv, Asks, appVars
<1>. QED BY <1>4, <1>5, <1>6 DEF ResolutionIInv

LEMMA ComposeKeeps ==
  ASSUME ResolutionIInv, NEW c \in Asker, Compose(c)
  PROVE  ResolutionIInv'
<1> DEFINE facts == [electron |-> Electron, port |-> probed[c].port,
                     rich |-> probed[c].rich, sdef |-> seen[c].sdef]
           p == [version |-> seen[c].version, build |-> seen[c].build, sdef |-> seen[c].sdef,
                 bundled |-> Bundled(bundle, seen[c].version),
                 priority |-> Priority(bundle, seen[c].version, facts)]
<1>1. /\ pc[c] = "probe" /\ pc' = [pc EXCEPT ![c] = "save"]
      /\ profile' = [profile EXCEPT ![c] = p]
      /\ probed' = [probed EXCEPT ![c] = [rich |-> Nothing, port |-> Nothing]]
      /\ probed[c].rich # Nothing /\ probed[c].port # Nothing
      /\ UNCHANGED <<bundle, appVars, files, seen, asked, fd, gap, upsets>>
  BY DEF Compose
<1>2. ResolutionTypes /\ Knows(bundle, pc[c], seen[c], profile[c], asked[c])
  BY DEF ResolutionIInv, Asks
<1>3. seen[c] \in Released /\ asked[c] = 0
  BY <1>1, <1>2 DEF Knows, Searching
<1>4. facts \in Facts /\ facts.sdef = seen[c].sdef
  <2>1. probed[c].rich \in BOOLEAN /\ probed[c].port \in BOOLEAN
    BY <1>1, <1>2 DEF ResolutionTypes
  <2>2. seen[c].sdef \in BOOLEAN
    BY <1>3, ReleaseTypes
  <2>3. Electron \in BOOLEAN
    BY DEF Electron
  <2>. QED BY <2>1, <2>2, <2>3 DEF Facts
<1> HIDE DEF facts
<1>5. Good(bundle, p, seen[c])
  BY <1>3, <1>4, Composed
<1> HIDE DEF p
<1>6. p \in Profile
  BY <1>5 DEF Good
<1>7. ResolutionTypes'
  BY <1>1, <1>2, <1>6 DEF ResolutionTypes, appVars, Over
<1>8. profile'[c] = p /\ seen'[c] = seen[c] /\ Alone(c)
  BY <1>1, <1>2 DEF ResolutionTypes, Alone
<1>9. Knows(bundle, "save", seen'[c], profile'[c], asked[c])
  BY <1>3, <1>5, <1>6, <1>8 DEF Knows, Serving, Searching
<1>. QED BY <1>1, <1>7, <1>8, <1>9, Classifies

-----------------------------------------------------------------------------
(* A step of c within the save. *)
LEMMA Saves ==
  ASSUME ResolutionIInv, NEW c \in Asker, NEW q, pc' = [pc EXCEPT ![c] = q],
         pc[c] \in {"save", "open", "rename"}, q \in {"open", "rename", "ask", "savefailed"},
         UNCHANGED <<bundle, appVars, seen, probed, profile, asked, gap, upsets>>,
         fd' \in [Asker -> {Nothing, "tmp", "disk", "gone"}], FilesInv'
  PROVE  ResolutionIInv'
<1>1. ResolutionTypes /\ Asks(c)
  BY DEF ResolutionIInv
<1>2. pc'[c] = q /\ \A d \in Asker \ {c} : pc'[d] = pc[d]
  BY <1>1 DEF ResolutionTypes
<1>3. /\ asked[c] = 0 /\ Good(bundle, profile[c], seen[c]) /\ seen[c] \in Released
      /\ profile[c] \in Profile /\ pc[c] # "idle"
  BY <1>1 DEF Asks, Knows, Serving, Searching, Good
<1>4. DOMAIN profile[c].priority = 1 .. Len(profile[c].priority)
      /\ Len(profile[c].priority) \in Nat
  BY <1>3 DEF Profile
<1>5. Knows(bundle, q, seen[c], profile[c], asked[c])
  BY <1>3 DEF Knows, Serving, Searching
<1>6. Sees(q, profile[c], asked[c], gap[c], visible)
  BY <1>1, <1>3, <1>4 DEF Asks, Sees
<1>7. Asks(c)'
  BY <1>2, <1>5, <1>6 DEF Asks, appVars
<1>8. Alone(c)
  BY <1>2 DEF Alone
<1>9. ResolutionTypes'
  BY <1>1 DEF ResolutionTypes, appVars, Over
<1>. QED BY <1>7, <1>8, <1>9, OneAsks DEF ResolutionIInv, appVars

LEMMA OpenKeeps ==
  ASSUME ResolutionIInv, NEW c \in Asker, Open(c)
  PROVE  ResolutionIInv'
<1>1. /\ pc[c] = "save" /\ tmp' = Partial /\ fd' = [fd EXCEPT ![c] = "tmp"]
      /\ pc' = [pc EXCEPT ![c] = "open"]
      /\ UNCHANGED <<bundle, appVars, disk, seen, probed, profile, asked, gap, upsets>>
  BY DEF Open
<1>2. ResolutionTypes /\ FilesInv
  BY DEF ResolutionIInv
<1>3. /\ fd'[c] = "tmp" /\ pc'[c] = "open"
      /\ \A d \in Asker \ {c} : fd'[d] = fd[d] /\ pc'[d] = pc[d]
  BY <1>1, <1>2 DEF ResolutionTypes
<1>4. fd' \in [Asker -> {Nothing, "tmp", "disk", "gone"}]
  BY <1>1, <1>2 DEF ResolutionTypes
<1>5. FilesInv'
  <2>1. Nothing \notin {"tmp", "disk", "gone"} /\ Nothing # Partial
    BY ResolutionAssumption
  <2>2. Excused("tmp")'
    BY <1>3 DEF Excused
  <2>3. Kept => Kept'
    <3>1. Excused("disk") => Excused("disk")'
      BY <1>1, <1>3, <2>1, <1>2 DEF Excused, FilesInv, Writing
    <3>. QED BY <1>1, <3>1 DEF Kept
  <2>4. \A d \in Asker : /\ fd'[d] # Nothing <=> pc'[d] \in Writing
                         /\ fd'[d] \in {"disk", "gone"} => fd[d] = fd'[d]
                         /\ pc'[d] = "savefailed" => pc[d] = "savefailed"
    BY <1>2, <1>3, <2>1 DEF FilesInv, Writing
  <2>5. disk' \in {Nothing, Partial} \/ Fit(bundle', disk')
    BY <1>1, <1>2 DEF FilesInv
  <2>. QED BY <1>1, <1>2, <2>1, <2>2, <2>3, <2>4, <2>5 DEF FilesInv
<1>. QED BY <1>1, <1>4, <1>5, Saves

LEMMA WriteTextKeeps ==
  ASSUME ResolutionIInv, NEW c \in Asker, WriteText(c)
  PROVE  ResolutionIInv'
<1>1. /\ pc[c] = "open" /\ pc' = [pc EXCEPT ![c] = "rename"]
      /\ tmp' = IF fd[c] = "tmp" THEN profile[c] ELSE tmp
      /\ disk' = IF fd[c] = "disk" THEN profile[c] ELSE disk
      /\ UNCHANGED <<bundle, appVars, seen, probed, profile, asked, fd, gap, upsets>>
  BY DEF WriteText
<1>2. ResolutionTypes /\ FilesInv /\ Asks(c)
  BY DEF ResolutionIInv
<1>3. pc'[c] = "rename" /\ \A d \in Asker \ {c} : pc'[d] = pc[d]
  BY <1>1, <1>2 DEF ResolutionTypes
<1>4. /\ Nothing \notin {"tmp", "disk", "gone"} /\ Nothing # Partial
      /\ Nothing \notin Profile /\ Partial \notin Profile
  BY ResolutionAssumption
<1>5. Fit(bundle, profile[c]) /\ profile[c] \notin {Nothing, Partial}
  BY <1>1, <1>2, <1>4 DEF Asks, Knows, Serving, Fit, Good
<1>6. FilesInv'
  <2>1. /\ disk' \in {Nothing, Partial} \/ Fit(bundle', disk')
        /\ tmp' \in {Nothing, Partial} \/ Fit(bundle', tmp')
    BY <1>1, <1>2, <1>5 DEF FilesInv
  <2>2. tmp' = Partial => Excused("tmp")'
    <3> SUFFICES ASSUME tmp' = Partial PROVE Excused("tmp")'
      OBVIOUS
    <3>1. fd[c] # "tmp" /\ Excused("tmp")
      BY <1>1, <1>2, <1>5 DEF FilesInv
    <3>. QED BY <1>1, <1>3, <3>1 DEF Excused
  <2>3. Kept => Kept'
    <3>1. CASE fd[c] = "disk"
      BY <1>1, <1>5, <3>1 DEF Kept
    <3>2. CASE fd[c] # "disk"
      <4>1. Excused("disk") => Excused("disk")'
        BY <1>1, <1>3, <3>2 DEF Excused
      <4>. QED BY <1>1, <3>2, <4>1 DEF Kept
    <3>. QED BY <3>1, <3>2
  <2>4. \A d \in Asker : /\ fd'[d] # Nothing <=> pc'[d] \in Writing
                         /\ fd'[d] = fd[d]
                         /\ pc'[d] = "savefailed" => pc[d] = "savefailed"
    BY <1>1, <1>2, <1>3 DEF FilesInv, Writing
  <2>5. tmp # Nothing => tmp' # Nothing
    BY <1>1, <1>5
  <2>. QED BY <1>2, <2>1, <2>2, <2>3, <2>4, <2>5 DEF FilesInv
<1>7. fd' \in [Asker -> {Nothing, "tmp", "disk", "gone"}]
  BY <1>1, <1>2 DEF ResolutionTypes
<1>. QED BY <1>1, <1>6, <1>7, Saves

(* Whoever renames while others write takes their file along: what becomes *)
(* the entry is whole, or still being written.                             *)
LEMMA ReplaceKeeps ==
  ASSUME ResolutionIInv, NEW c \in Asker, Replace(c)
  PROVE  ResolutionIInv'
<1>1. pc[c] = "rename"
      /\ UNCHANGED <<bundle, appVars, seen, probed, profile, asked, gap, upsets>>
  BY DEF Replace
<1>2. ResolutionTypes /\ FilesInv
  BY DEF ResolutionIInv
<1>3. Nothing \notin {"tmp", "disk", "gone"} /\ Nothing # Partial
  BY ResolutionAssumption
<1>4. CASE tmp = Nothing
  <2>1. /\ pc' = [pc EXCEPT ![c] = "savefailed"] /\ fd' = [fd EXCEPT ![c] = Nothing]
        /\ UNCHANGED <<disk, tmp>>
    BY <1>4 DEF Replace, files
  <2>2. /\ pc'[c] = "savefailed" /\ fd'[c] = Nothing
        /\ \A d \in Asker \ {c} : pc'[d] = pc[d] /\ fd'[d] = fd[d]
    BY <1>2, <2>1 DEF ResolutionTypes
  <2>3. fd' \in [Asker -> {Nothing, "tmp", "disk", "gone"}]
    BY <1>2, <2>1 DEF ResolutionTypes
  <2>4. fd[c] \in {"disk", "gone"}
    BY <1>1, <1>2, <1>4 DEF ResolutionTypes, FilesInv, Writing
  <2>5. Kept'
    <3>1. Kept
      BY <1>2, <2>4 DEF FilesInv
    <3>2. Excused("disk") => Excused("disk")'
      BY <1>1, <2>2 DEF Excused
    <3>. QED BY <2>1, <3>1, <3>2 DEF Kept
  <2>6. FilesInv'
    <3>1. /\ disk' \in {Nothing, Partial} \/ Fit(bundle', disk')
          /\ tmp' \in {Nothing, Partial} \/ Fit(bundle', tmp')
      BY <1>1, <1>2, <2>1 DEF FilesInv
    <3>2. \A d \in Asker : /\ fd'[d] # Nothing <=> pc'[d] \in Writing
                           /\ fd'[d] = "tmp" => fd[d] = "tmp"
      BY <1>2, <1>3, <2>2 DEF FilesInv, Writing
    <3>3. tmp' # Partial
      BY <1>3, <1>4, <2>1
    <3>. QED BY <1>2, <2>1, <2>5, <3>1, <3>2, <3>3 DEF FilesInv
  <2>. QED BY <1>1, <2>1, <2>3, <2>6, Saves
<1>5. CASE tmp # Nothing
  <2>1. /\ pc' = [pc EXCEPT ![c] = "ask"] /\ fd' = Renamed(c)
        /\ disk' = tmp /\ tmp' = Nothing
    BY <1>5 DEF Replace
  <2>2. /\ pc'[c] = "ask" /\ \A d \in Asker \ {c} : pc'[d] = pc[d]
    BY <1>2, <2>1 DEF ResolutionTypes
  <2>3. /\ fd'[c] = Nothing
        /\ \A d \in Asker \ {c} : /\ fd[d] = "tmp" => fd'[d] = "disk"
                                  /\ fd[d] = "disk" => fd'[d] = "gone"
                                  /\ fd[d] \notin {"tmp", "disk"} => fd'[d] = fd[d]
        /\ DOMAIN fd' = Asker /\ fd' = [d \in Asker |-> fd'[d]]
    <3>1. fd' = [d \in Asker |-> CASE d = c -> Nothing
                                   [] d # c /\ fd[d] = "tmp" -> "disk"
                                   [] d # c /\ fd[d] = "disk" -> "gone"
                                   [] OTHER -> fd[d]]
      BY <2>1 DEF Renamed
    <3>. QED BY <3>1
  <2>4. fd' \in [Asker -> {Nothing, "tmp", "disk", "gone"}]
    BY <1>2, <2>3 DEF ResolutionTypes
  <2>5. Kept'
    <3>1. disk' = Partial => Excused("disk")'
      <4>1. tmp = Partial => Excused("tmp")
        BY <1>2 DEF FilesInv
      <4>2. Excused("tmp") => Excused("disk")'
        BY <1>1, <2>2, <2>3 DEF Excused
      <4>. QED BY <2>1, <4>1, <4>2
    <3>. QED BY <1>5, <2>1, <3>1 DEF Kept
  <2>6. FilesInv'
    <3>1. /\ disk' \in {Nothing, Partial} \/ Fit(bundle', disk')
          /\ tmp' \in {Nothing, Partial} \/ Fit(bundle', tmp')
      BY <1>1, <1>2, <2>1 DEF FilesInv
    <3>2. \A d \in Asker : fd'[d] # Nothing <=> pc'[d] \in Writing
      BY <1>2, <1>3, <2>2, <2>3 DEF FilesInv, Writing
    <3>3. \A d \in Asker : fd'[d] # "tmp"
      BY <1>2, <1>3, <2>3 DEF ResolutionTypes
    <3>4. tmp' # Partial
      BY <1>3, <2>1
    <3>. QED BY <2>5, <3>1, <3>2, <3>3, <3>4 DEF FilesInv
  <2>. QED BY <1>1, <2>1, <2>4, <2>6, Saves
<1>. QED BY <1>4, <1>5

-----------------------------------------------------------------------------
(* A step of c within the search; k is how far it has come then.           *)
LEMMA Searches ==
  ASSUME ResolutionIInv, NEW c \in Asker, NEW q \in Searching, NEW k,
         pc' = [pc EXCEPT ![c] = q], pc[c] \in {"ask", "check"},
         asked' = [asked EXCEPT ![c] = k], k \in Nat,
         k = 0 \/ k \in 1 .. Len(profile[c].priority),
         UNCHANGED <<bundle, appVars, files, seen, probed, profile, fd>>,
         gap' \in [Asker -> BOOLEAN], \A d \in Asker \ {c} : gap'[d] = gap[d],
         upsets' \in 0 .. MaxUpsets,
         Sees(q, profile[c], k, gap'[c], visible)
  PROVE  ResolutionIInv'
<1>1. ResolutionTypes /\ Asks(c)
  BY DEF ResolutionIInv
<1>2. /\ pc'[c] = q /\ asked'[c] = k
      /\ \A d \in Asker \ {c} : pc'[d] = pc[d] /\ asked'[d] = asked[d]
  BY <1>1 DEF ResolutionTypes
<1>3. FilesInv'
  BY <1>2, FilesSame DEF ResolutionIInv, Writing, Searching
<1>4. Asks(c)'
  BY <1>1, <1>2 DEF Asks, Knows, Serving, Searching, appVars
<1>5. Alone(c)
  BY <1>2 DEF Alone
<1>6. ResolutionTypes'
  BY <1>1 DEF ResolutionTypes, appVars, Searching, Over
<1>. QED BY <1>3, <1>4, <1>5, <1>6, OneAsks DEF ResolutionIInv, appVars

(* Who is asked next is in the order, and nobody registered was passed by. *)
LEMMA AskNext ==
  ASSUME ResolutionIInv, NEW c \in Asker, NEW t, Ask(c, t)
  PROVE  /\ pc[c] = "ask"
         /\ \E i \in 1 .. Len(profile[c].priority) :
              /\ i \in Nat /\ asked' = [asked EXCEPT ![c] = i]
              /\ profile[c].priority[i] = t
              /\ \A j \in DOMAIN profile[c].priority :
                   profile[c].priority[j] \in Registered => j <= asked[c] \/ i <= j
<1>1. pc[c] = "ask" /\ asked[c] \in Nat
  BY DEF Ask, ResolutionIInv, ResolutionTypes
<1>2. PICK i \in Left(c) : /\ \A j \in Left(c) : i <= j
                           /\ profile[c].priority[i] = t
                           /\ asked' = [asked EXCEPT ![c] = i]
  BY DEF Ask
<1>3. DOMAIN profile[c].priority = 1 .. Len(profile[c].priority)
      /\ Len(profile[c].priority) \in Nat
  BY <1>1 DEF ResolutionIInv, Asks, Knows, Serving, Searching, Good, Profile
<1>4. i \in 1 .. Len(profile[c].priority) /\ i \in Nat
  BY <1>2, <1>3 DEF Left
<1>5. \A j \in DOMAIN profile[c].priority :
        profile[c].priority[j] \in Registered => j <= asked[c] \/ i <= j
  BY <1>1, <1>2, <1>3 DEF Left
<1>. QED BY <1>1, <1>2, <1>4, <1>5

(* Whoever is asked, vision is still to be asked afterwards, unless it is  *)
(* vision that was asked.                                                  *)
LEMMA AskedKeeps ==
  ASSUME ResolutionIInv, NEW c \in Asker, NEW t, Ask(c, t), NEW q \in {"ask", "check", "target"},
         pc' = [pc EXCEPT ![c] = q],
         UNCHANGED <<bundle, appVars, files, seen, probed, profile, fd>>,
         gap' \in [Asker -> BOOLEAN], \A d \in Asker \ {c} : gap'[d] = gap[d],
         gap[c] => gap'[c], upsets' \in 0 .. MaxUpsets,
         t \in {"T4", "T5"} => q = "target" \/ gap'[c]
  PROVE  ResolutionIInv'
<1>1. pc[c] = "ask"
  BY AskNext
<1>2. PICK i \in 1 .. Len(profile[c].priority) :
        /\ i \in Nat /\ asked' = [asked EXCEPT ![c] = i]
        /\ profile[c].priority[i] = t
        /\ \A j \in DOMAIN profile[c].priority :
             profile[c].priority[j] \in Registered => j <= asked[c] \/ i <= j
  BY AskNext
<1>3. Sees(pc[c], profile[c], asked[c], gap[c], visible) /\ asked[c] \in Nat
  BY DEF ResolutionIInv, ResolutionTypes, Asks
<1>4. DOMAIN profile[c].priority = 1 .. Len(profile[c].priority)
      /\ Len(profile[c].priority) \in Nat
  BY <1>1 DEF ResolutionIInv, Asks, Knows, Serving, Searching, Good, Profile
<1>5. ~gap'[c] => visible
  BY <1>1, <1>3 DEF Sees
<1>6. ASSUME q \in {"ask", "check"}, ~gap'[c], NEW j \in DOMAIN profile[c].priority,
             profile[c].priority[j] \in {"T4", "T5"} \cap Registered
      PROVE  i < j
  <2>1. asked[c] < j /\ j \in Nat
    BY <1>1, <1>3, <1>4, <1>6 DEF Sees
  <2>2. i <= j
    BY <1>2, <1>3, <1>6, <2>1
  <2>3. i # j
    BY <1>2, <1>6
  <2>. QED BY <2>1, <2>2, <2>3
<1>7. Sees(q, profile[c], i, gap'[c], visible)
  BY <1>5, <1>6 DEF Sees
<1>8. q \in Searching /\ pc[c] \in {"ask", "check"}
  BY <1>1 DEF Searching
<1>. QED BY <1>2, <1>7, <1>8, Searches

LEMMA AskTreeKeeps ==
  ASSUME ResolutionIInv, NEW c \in Asker, AskTree(c)
  PROVE  ResolutionIInv'
<1>1. /\ Ask(c, "T1")
      /\ UNCHANGED <<bundle, appVars, files, seen, probed, profile, fd, gap, upsets>>
      /\ pc' = [pc EXCEPT ![c] = "check"] \/ UNCHANGED pc
  BY DEF AskTree, Missed
<1>2. ResolutionTypes /\ pc[c] = "ask"
  BY <1>1, AskNext DEF ResolutionIInv
<1>3. \E q \in {"ask", "check", "target"} : pc' = [pc EXCEPT ![c] = q]
  BY <1>1, <1>2 DEF ResolutionTypes
<1>4. gap' \in [Asker -> BOOLEAN] /\ upsets' \in 0 .. MaxUpsets
  BY <1>1, <1>2 DEF ResolutionTypes
<1>5. "T1" \notin {"T4", "T5"} /\ UNCHANGED gap
  BY <1>1
<1>. QED BY <1>1, <1>3, <1>4, <1>5, AskedKeeps

LEMMA AskPageKeeps ==
  ASSUME ResolutionIInv, NEW c \in Asker, AskPage(c) \/ AskScript(c)
  PROVE  ResolutionIInv'
<1>1. PICK t \in {"T2", "T3"} : Ask(c, t)
  BY DEF AskPage, AskScript
<1>2. /\ UNCHANGED <<bundle, appVars, files, seen, probed, profile, fd, gap, upsets>>
      /\ pc' = [pc EXCEPT ![c] = "target"] \/ UNCHANGED pc
  BY DEF AskPage, AskScript, Missed, Found
<1>3. ResolutionTypes /\ pc[c] = "ask"
  BY <1>1, AskNext DEF ResolutionIInv
<1>4. \E q \in {"ask", "check", "target"} : pc' = [pc EXCEPT ![c] = q]
  BY <1>2, <1>3 DEF ResolutionTypes
<1>5. gap' \in [Asker -> BOOLEAN] /\ upsets' \in 0 .. MaxUpsets
  BY <1>2, <1>3 DEF ResolutionTypes
<1>6. t \notin {"T4", "T5"}
  OBVIOUS
<1>. QED BY <1>1, <1>2, <1>4, <1>5, <1>6, AskedKeeps

LEMMA AskVisionKeeps ==
  ASSUME ResolutionIInv, NEW c \in Asker, AskVision(c)
  PROVE  ResolutionIInv'
<1>1. PICK t \in {"T4", "T5"} : Ask(c, t)
  BY DEF AskVision
<1>2. UNCHANGED <<bundle, appVars, files, seen, probed, profile, fd>>
  BY DEF AskVision
<1>3. ResolutionTypes /\ pc[c] = "ask" /\ Sees(pc[c], profile[c], asked[c], gap[c], visible)
  BY <1>1, AskNext DEF ResolutionIInv, Asks
<1>4. CASE visible /\ Found(c) /\ UNCHANGED <<gap, upsets>>
  <2>1. pc' = [pc EXCEPT ![c] = "target"]
    BY <1>4 DEF Found
  <2>2. gap' \in [Asker -> BOOLEAN] /\ upsets' \in 0 .. MaxUpsets
    BY <1>3, <1>4 DEF ResolutionTypes
  <2>. QED BY <1>1, <1>2, <1>4, <2>1, <2>2, AskedKeeps
<1>5. CASE ~visible /\ Missed /\ UNCHANGED <<gap, upsets>>
  <2>1. pc' = [pc EXCEPT ![c] = "ask"]
    BY <1>3, <1>5 DEF Missed, ResolutionTypes
  <2>2. gap' \in [Asker -> BOOLEAN] /\ upsets' \in 0 .. MaxUpsets /\ gap'[c]
    BY <1>3, <1>5 DEF ResolutionTypes, Sees
  <2>. QED BY <1>1, <1>2, <1>5, <2>1, <2>2, AskedKeeps
<1>6. CASE NoScreenshot(c) /\ Missed
  <2>1. pc' = [pc EXCEPT ![c] = "ask"]
    BY <1>3, <1>6 DEF Missed, ResolutionTypes
  <2>2. /\ gap' \in [Asker -> BOOLEAN] /\ gap'[c]
        /\ \A d \in Asker \ {c} : gap'[d] = gap[d]
    BY <1>3, <1>6 DEF NoScreenshot, ResolutionTypes
  <2>3. upsets' \in 0 .. MaxUpsets
    BY <1>3, <1>6, ResolutionAssumption DEF NoScreenshot, ResolutionTypes
  <2>. QED BY <1>1, <1>2, <2>1, <2>2, <2>3, AskedKeeps
<1>. QED BY <1>4, <1>5, <1>6 DEF AskVision, Recognised

LEMMA CheckKeeps ==
  ASSUME ResolutionIInv, NEW c \in Asker, Check(c)
  PROVE  ResolutionIInv'
<1>1. /\ pc[c] = "check"
      /\ UNCHANGED <<bundle, appVars, files, seen, probed, profile, asked, fd, gap, upsets>>
  BY DEF Check
<1>2. PICK q \in {"target", "ask"} : pc' = [pc EXCEPT ![c] = q]
  BY DEF Check
<1>3. ResolutionTypes /\ Asks(c)
  BY DEF ResolutionIInv
<1>4. asked' = [asked EXCEPT ![c] = asked[c]] /\ asked[c] \in Nat
  BY <1>1, <1>3 DEF ResolutionTypes
<1>5. asked[c] = 0 \/ asked[c] \in 1 .. Len(profile[c].priority)
  BY <1>3 DEF Asks, Knows
<1>6. gap' \in [Asker -> BOOLEAN] /\ upsets' \in 0 .. MaxUpsets /\ gap'[c] = gap[c]
  BY <1>1, <1>3 DEF ResolutionTypes
<1>7. Sees(q, profile[c], asked[c], gap[c], visible)
  BY <1>1, <1>3 DEF Asks, Sees
<1>8. q \in Searching
  BY DEF Searching
<1>. QED BY <1>1, <1>2, <1>4, <1>5, <1>6, <1>7, <1>8, Searches

LEMMA GiveUpKeeps ==
  ASSUME ResolutionIInv, NEW c \in Asker, GiveUp(c)
  PROVE  ResolutionIInv'
<1>1. /\ pc[c] = "ask" /\ Left(c) = {} /\ pc' = [pc EXCEPT ![c] = "raised"]
      /\ UNCHANGED <<bundle, appVars, files, seen, probed, profile, asked, fd, gap, upsets>>
  BY DEF GiveUp
<1>2. ResolutionTypes /\ Asks(c)
  BY DEF ResolutionIInv
<1>3. asked' = [asked EXCEPT ![c] = asked[c]] /\ asked[c] \in Nat
  BY <1>1, <1>2 DEF ResolutionTypes
<1>4. asked[c] = 0 \/ asked[c] \in 1 .. Len(profile[c].priority)
  BY <1>2 DEF Asks, Knows
<1>5. gap' \in [Asker -> BOOLEAN] /\ upsets' \in 0 .. MaxUpsets /\ gap'[c] = gap[c]
  BY <1>1, <1>2 DEF ResolutionTypes
<1>6. DOMAIN profile[c].priority = 1 .. Len(profile[c].priority)
      /\ Len(profile[c].priority) \in Nat
  BY <1>1, <1>2 DEF Asks, Knows, Serving, Searching, Good, Profile
<1>7. \A i \in DOMAIN profile[c].priority :
        profile[c].priority[i] \in Registered => i <= asked[c]
  BY <1>1, <1>3, <1>6 DEF Left
<1>8. Sees("raised", profile[c], asked[c], gap[c], visible)
  BY <1>1, <1>2, <1>7 DEF Asks, Sees
<1>9. "raised" \in Searching
  BY DEF Searching
<1>. QED BY <1>1, <1>3, <1>4, <1>5, <1>8, <1>9, Searches

LEMMA UpsetKeeps ==
  ASSUME ResolutionIInv, Upset
  PROVE  ResolutionIInv'
<1>1. /\ UNCHANGED <<bundle, files, pc, seen, probed, profile, asked, fd>>
      /\ gap' = [c \in Asker |-> gap[c] \/ ~visible']
      /\ upsets < MaxUpsets /\ upsets' = upsets + 1
  BY DEF Upset, callVars
<1>2. ResolutionTypes /\ FilesInv
  BY DEF ResolutionIInv
<1>3. /\ release' \in DOMAIN Releases
      /\ run' \in [instance : Nat, rich : BOOLEAN] /\ port' \in BOOLEAN /\ visible' \in BOOLEAN
  <2>1. CASE Update
    <3>1. release' \in DOMAIN Releases
      BY <1>2, <2>1, ReleaseTypes DEF Update, ResolutionTypes
    <3>2. run' = [run EXCEPT !.instance = @ + 1] /\ run \in [instance : Nat, rich : BOOLEAN]
      BY <1>2, <2>1 DEF Update, ResolutionTypes
    <3>3. run' \in [instance : Nat, rich : BOOLEAN]
      BY <3>2
    <3>. QED BY <1>2, <2>1, <3>1, <3>3 DEF Update, ResolutionTypes
  <2>2. CASE Relaunch
    <3>1. run' = [run EXCEPT !.instance = @ + 1] /\ run \in [instance : Nat, rich : BOOLEAN]
      BY <1>2, <2>2 DEF Relaunch, ResolutionTypes
    <3>2. run' \in [instance : Nat, rich : BOOLEAN]
      BY <3>1
    <3>. QED BY <1>2, <2>2, <3>2 DEF Relaunch, ResolutionTypes
  <2>3. CASE Redraw
    BY <1>2, <2>3 DEF Redraw, ResolutionTypes
  <2>4. CASE Revoke
    BY <1>2, <2>4 DEF Revoke, ResolutionTypes
  <2>. QED BY <2>1, <2>2, <2>3, <2>4 DEF Upset
<1>4. upsets' \in 0 .. MaxUpsets
  BY <1>1, <1>2, ResolutionAssumption DEF ResolutionTypes
<1>5. gap' \in [Asker -> BOOLEAN] /\ \A c \in Asker : gap'[c] = (gap[c] \/ ~visible')
  BY <1>1, <1>2, <1>3 DEF ResolutionTypes
<1>6. ResolutionTypes'
  BY <1>1, <1>2, <1>3, <1>4, <1>5 DEF ResolutionTypes
<1>7. FilesInv'
  BY <1>1, <1>2, FilesSame
<1>8. \A c \in Asker : Asks(c)'
  BY <1>1, <1>5 DEF ResolutionIInv, Asks, Sees
<1>. QED BY <1>6, <1>7, <1>8 DEF ResolutionIInv

LEMMA ResolutionStep ==
  ASSUME ResolutionIInv, [ResolutionNext]_resolutionVars
  PROVE  ResolutionIInv'
<1>1. ASSUME NEW c \in Asker, Classify(c)
      PROVE  ResolutionIInv'
  BY <1>1, StartKeeps, ReadMetadataKeeps, LoadCachedKeeps, ProbeKeeps, ComposeKeeps,
     OpenKeeps, WriteTextKeeps, ReplaceKeeps DEF Classify
<1>2. ASSUME NEW c \in Asker, Search(c)
      PROVE  ResolutionIInv'
  BY <1>2, AskTreeKeeps, CheckKeeps, AskPageKeeps, AskVisionKeeps, GiveUpKeeps DEF Search
<1>3. CASE UNCHANGED resolutionVars
  <2>1. UNCHANGED <<bundle, appVars, files, pc, seen, probed, profile, asked, fd, gap, upsets>>
    BY <1>3 DEF resolutionVars, callVars
  <2>2. ResolutionTypes'
    BY <2>1 DEF ResolutionIInv, ResolutionTypes, appVars
  <2>3. FilesInv'
    BY <2>1, FilesSame DEF ResolutionIInv
  <2>4. \A c \in Asker : Asks(c)'
    BY <2>1 DEF ResolutionIInv, Asks, appVars
  <2>. QED BY <2>2, <2>3, <2>4 DEF ResolutionIInv
<1>. QED BY <1>1, <1>2, <1>3, EndsKeeps, UpsetKeeps DEF ResolutionNext, Finished

LEMMA ResolutionInvariant == ResolutionSpec => []ResolutionIInv
BY ResolutionInitial, ResolutionStep, PTL DEF ResolutionSpec

LEMMA ResolutionImplies == ResolutionIInv => ProfileInv
<1> SUFFICES ASSUME ResolutionIInv PROVE ProfileInv
  OBVIOUS
<1>1. ResolutionTypes /\ FilesInv
  BY DEF ResolutionIInv
<1>2. ResolutionTypeOK
  <2>1. disk \in Profile \cup {Nothing, Partial} /\ tmp \in Profile \cup {Nothing, Partial}
    BY <1>1 DEF FilesInv, Fit, Good
  <2>2. \A c \in Asker : asked[c] = 0 \/ asked[c] \in 1 .. Len(profile[c].priority)
    BY DEF ResolutionIInv, Asks, Knows
  <2>. QED BY <1>1, <2>1, <2>2 DEF ResolutionTypeOK, ResolutionTypes
<1>3. ServedFits
  <2> SUFFICES ASSUME NEW c \in Asker, pc[c] \in Searching
               PROVE  /\ profile[c].bundled = Bundled(bundle, seen[c].version)
                      /\ ~profile[c].bundled =>
                           ("T3" \in {profile[c].priority[i] : i \in DOMAIN profile[c].priority}
                             <=> seen[c].sdef)
    BY DEF ServedFits, Searching
  <2>1. Good(bundle, profile[c], seen[c])
    BY DEF ResolutionIInv, Asks, Knows, Serving
  <2>. QED BY <2>1 DEF Good, Has
<1>4. SaveFailureHarmless
  BY <1>1 DEF SaveFailureHarmless, FilesInv, Kept, Excused
<1>. QED BY <1>2, <1>3, <1>4 DEF ProfileInv

(* For any calls, processes, releases and probes: a call works with a      *)
(* profile of the release it read, whoever wrote it, and a save that loses *)
(* the race for the temporary file leaves an entry (classify, cache.py).   *)
THEOREM ProfileAlways == ResolutionSpec => []ProfileInv
BY ResolutionInvariant, ResolutionImplies, PTL

LEMMA VisibleImplies ==
  ASSUME {"T4", "T5"} \subseteq Registered, ResolutionIInv
  PROVE  VisibleIsFound
<1> SUFFICES ASSUME NEW c \in Asker, pc[c] = "raised", ~gap[c]
             PROVE  /\ profile[c].bundled
                    /\ \A i \in DOMAIN profile[c].priority :
                         profile[c].priority[i] \notin {"T4", "T5"}
  BY DEF VisibleIsFound
<1>1. Asks(c) /\ asked[c] \in Nat
  BY DEF ResolutionIInv, ResolutionTypes
<1>2. Good(bundle, profile[c], seen[c])
  BY <1>1 DEF Asks, Knows, Serving, Searching
<1>3. DOMAIN profile[c].priority = 1 .. Len(profile[c].priority)
  BY <1>2 DEF Good, Profile
<1>4. \A i \in DOMAIN profile[c].priority : profile[c].priority[i] \notin {"T4", "T5"}
  <2> SUFFICES ASSUME NEW i \in DOMAIN profile[c].priority,
                      profile[c].priority[i] \in {"T4", "T5"}
               PROVE  FALSE
    OBVIOUS
  <2>1. profile[c].priority[i] \in {"T4", "T5"} \cap Registered
    OBVIOUS
  <2>2. asked[c] < i
    BY <1>1, <2>1 DEF Asks, Sees
  <2>3. i <= asked[c]
    BY <1>1, <2>1 DEF Asks, Sees
  <2>. QED BY <1>1, <1>3, <2>2, <2>3
<1>5. profile[c].bundled
  BY <1>2, <1>4 DEF Good, Has
<1>. QED BY <1>4, <1>5

(* With both readers of the screen registered, a label that can be read    *)
(* there throughout the call is found, for any calls, profiles and order,  *)
(* unless the table sends the application to translators without vision.   *)
THEOREM VisibleAlways ==
  ASSUME {"T4", "T5"} \subseteq Registered
  PROVE  ResolutionSpec => []VisibleIsFound
BY ResolutionInvariant, VisibleImplies, PTL
=============================================================================
