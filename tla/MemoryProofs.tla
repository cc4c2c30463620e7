---------------------------- MODULE MemoryProofs ----------------------------
(***************************************************************************)
(* Proofs about Memory, for any agents, processes, steps and crashes: that *)
(* no verified action is duplicated or dropped unnoticed, and that what    *)
(* the files hold can be recalled.                                         *)
(***************************************************************************)
EXTENDS Memory, FiniteSetTheorems, TLAPS

-----------------------------------------------------------------------------
(* The inductive invariant.                                                *)

Metas == UNION {[D -> Agent] : D \in SUBSET (Nat \ {0})}
MemState == [loaded : BOOLEAN, rows : Rows, meta : Metas, fresh : BOOLEAN]
HistState == [verified : SUBSET Action, lost : SUBSET Action, kept : SUBSET Agent,
              stale : BOOLEAN, torn : BOOLEAN, noted : SUBSET Agent, raced : BOOLEAN]

Types ==
  /\ agent \in [Agent -> AgentState]
  /\ buf \in [Process -> Seq(Action)] /\ recipe \in [Agent -> Seq(Action)]
  /\ loop \in [Process -> Agent \cup {None}]
  /\ mem \in [Process -> MemState]
  /\ index \in Rows /\ meta \in {Torn} \cup Metas /\ skill \in SUBSET Agent
  /\ crashes \in 0..MaxCrashes
  /\ hist \in HistState

(* Where each agent is: in its plan, or in a flush and keeping the loop.   *)
Planning == {"plan", "step", "acting", "recovering"}
Flushing == {"loadindex", "loadmeta", "add", "openindex", "saveindex", "openmeta", "savemeta",
             "readskill"}

Flow ==
  /\ \A p \in Process : loop[p] # None => Home[loop[p]] = p
  /\ \A a \in Agent :
       /\ agent[a].pc \in Flushing => Holds(a)
       /\ At(a, "write") /\ KindOf[a] # "lesson" => Holds(a)
       /\ At(a, "look") => KindOf[a] = "lesson"
       /\ At(a, "plan") => agent[a].n = 0
       /\ At(a, "acting") => agent[a].n > 0
       /\ agent[a].n + agent[a].left <= Steps[a]
       /\ agent[a].pc \in Planning => recipe[a] = <<>>

(* The buffers and the recipes are the shelves a verified action is on.    *)
Shelf == ({"buf"} \X Process) \cup ({"recipe"} \X Agent)
Shelves(bf, rc) == [s \in Shelf |-> IF s[1] = "buf" THEN bf[s[2]] ELSE rc[s[2]]]

Stocked(h, verified, lost) ==
  /\ lost \subseteq verified
  /\ \A s \in Shelf : \A i \in 1..Len(h[s]) : h[s][i] \in verified /\ h[s][i] \notin lost
  /\ \A s, t \in Shelf : \A i \in 1..Len(h[s]), j \in 1..Len(h[t]) :
       h[s][i] = h[t][j] => s = t /\ i = j
  /\ \A s \in Shelf : \A i, j \in 1..Len(h[s]) :
       i < j /\ h[s][i][1] = h[s][j][1] => h[s][i][2] < h[s][j][2]
  /\ \A act \in verified : act \notin lost =>
       \E s \in Shelf : \E i \in 1..Len(h[s]) : h[s][i] = act

(* An agent's verified actions are among those it has begun and ended.     *)
Counted(ag, verified) ==
  \A act \in verified :
    /\ act[2] <= ag[act[1]].n
    /\ ag[act[1]].pc = "acting" => act[2] < ag[act[1]].n

Held == Stocked(Shelves(buf, recipe), hist.verified, hist.lost) /\ Counted(agent, hist.verified)

(* A process is up to date when no other has saved since it loaded.        *)
UpToDate(m) == m.fresh /\ m.rows # Torn
Begins(s, t) == Len(s) <= Len(t) /\ \A i \in 1..Len(s) : s[i] = t[i]
Fits(rows, m) == rows # Torn => \A i \in DOMAIN m : i <= Len(rows) => rows[i] = m[i]
Within(m, rows) == \A i \in DOMAIN m : i <= Len(rows)
Saved(m, all) == \A a \in all : \E i \in DOMAIN m : m[i] = a

(* The rows, whether or not a process saved over another. *)
RowsFit(ag, mm, ix) ==
  /\ \A p \in Process : UpToDate(mm[p]) /\ ix # Torn => Begins(ix, mm[p].rows)
  /\ \A a \in Agent :
       LET m == mm[Home[a]] IN
       /\ ag[a].pc \in {"openmeta", "savemeta"} /\ UpToDate(m) => ix = m.rows
       /\ ag[a].pc \in {"loadmeta", "openindex", "saveindex", "openmeta", "savemeta"} =>
            m.rows # Torn

(* The metadata, as long as no process saved over another. *)
MetaFit(ag, mm, ix, mt) ==
  /\ mt # Torn => Fits(ix, mt)
  /\ ix # Torn /\ mt # Torn => Within(mt, ix)
  /\ \A p \in Process :
       /\ Fits(mm[p].rows, mm[p].meta)
       /\ UpToDate(mm[p]) => Within(mm[p].meta, mm[p].rows)
       /\ UpToDate(mm[p]) /\ mt # Torn => Fits(mm[p].rows, mt) /\ Within(mt, mm[p].rows)
  /\ \A a \in Agent : ag[a].pc = "loadmeta" =>
       LET m == mm[Home[a]] IN
       /\ mt # Torn => Fits(m.rows, mt)
       /\ ix # Torn => Begins(m.rows, ix)
       /\ \A q \in Process : UpToDate(mm[q]) => Begins(m.rows, mm[q].rows)

(* What was stored, as long as no process either met torn metadata.        *)
KeptFit(ag, mm, mt, kept) ==
  /\ mt # Torn => Saved(mt, kept)
  /\ \A p \in Process :
       UpToDate(mm[p]) /\ (\A a \in Agent : Home[a] = p => ag[a].pc # "loadmeta") =>
         Saved(mm[p].meta, kept)
  /\ \A a \in Agent : ag[a].pc \in {"openindex", "saveindex", "openmeta", "savemeta"} =>
       Saved(mm[Home[a]].meta, {a})

Filed ==
  /\ RowsFit(agent, mem, index)
  /\ ~hist.stale => MetaFit(agent, mem, index, meta)
  /\ ~hist.stale /\ ~hist.torn => KeptFit(agent, mem, meta, hist.kept)

Noted == ~hist.raced => hist.noted \subseteq skill

MemoryIInv == Types /\ Flow /\ Held /\ Filed /\ Noted

-----------------------------------------------------------------------------
(* Helpers: what an action writes of its agent.                            *)

LEMMA ToSetMember ==
  ASSUME NEW S, NEW s \in Seq(S)
  PROVE  /\ ToSet(s) \subseteq S
         /\ \A x : x \in ToSet(s) <=> \E i \in 1..Len(s) : s[i] = x
BY DEF ToSet

LEMMA GoState ==
  ASSUME NEW q \in AgentState, NEW w \in Pc
  PROVE  /\ [q EXCEPT !.pc = w] \in AgentState
         /\ [q EXCEPT !.pc = w].pc = w
         /\ [q EXCEPT !.pc = w].n = q.n
         /\ [q EXCEPT !.pc = w].left = q.left
BY DEF AgentState

LEMMA OverState ==
  ASSUME NEW q \in AgentState
  PROVE  /\ Over(q) \in AgentState
         /\ Over(q).pc = "done" /\ Over(q).n = q.n /\ Over(q).left = 0
BY DEF AgentState, Over, Pc

LEMMA ReturnedState ==
  ASSUME Types, NEW a \in Agent, NEW ok \in BOOLEAN
  PROVE  /\ Returned(a, ok) \in AgentState
         /\ Returned(a, ok).pc = "step"
         /\ Returned(a, ok).n = agent[a].n
         /\ Returned(a, ok).left = agent[a].left
<1>1. agent[a] \in AgentState
  BY DEF Types
<1>. QED
  BY <1>1 DEF AgentState, Returned, Pc

(* What an agent's step may write of the agent: nothing but its own record,*)
(* a new call being the only one that counts.                              *)
Moves(a, w, n, left) ==
  /\ agent' \in [Agent -> AgentState]
  /\ \A b \in Agent : b # a => agent'[b] = agent[b]
  /\ agent'[a].pc = w /\ agent'[a].n = n /\ agent'[a].left = left

LEMMA SetMoves ==
  ASSUME Types, NEW a \in Agent, NEW q \in AgentState, Set(a, q)
  PROVE  Moves(a, q.pc, q.n, q.left)
<1>1. agent \in [Agent -> AgentState]
  BY DEF Types
<1>2. agent' = [agent EXCEPT ![a] = q]
  BY DEF Set
<1>. QED
  BY <1>1, <1>2 DEF Moves

LEMMA GoMoves ==
  ASSUME Types, NEW a \in Agent, NEW w \in Pc, Go(a, w)
  PROVE  Moves(a, w, agent[a].n, agent[a].left)
<1>1. agent[a] \in AgentState
  BY DEF Types
<1>2. /\ [agent[a] EXCEPT !.pc = w] \in AgentState
      /\ [agent[a] EXCEPT !.pc = w].pc = w
      /\ [agent[a] EXCEPT !.pc = w].n = agent[a].n
      /\ [agent[a] EXCEPT !.pc = w].left = agent[a].left
  BY <1>1, GoState
<1>3. Set(a, [agent[a] EXCEPT !.pc = w])
  BY DEF Go
<1>4. Moves(a, [agent[a] EXCEPT !.pc = w].pc, [agent[a] EXCEPT !.pc = w].n,
            [agent[a] EXCEPT !.pc = w].left)
  BY <1>2, <1>3, SetMoves
<1>. QED
  BY <1>2, <1>4

LEMMA EndMoves ==
  ASSUME Types, NEW a \in Agent, End(a)
  PROVE  Moves(a, "done", agent[a].n, 0)
<1>1. agent[a] \in AgentState
  BY DEF Types
<1>2. /\ Over(agent[a]) \in AgentState
      /\ Over(agent[a]).pc = "done" /\ Over(agent[a]).n = agent[a].n
      /\ Over(agent[a]).left = 0
  BY <1>1, OverState
<1>3. Set(a, Over(agent[a]))
  BY DEF End
<1>4. Moves(a, Over(agent[a]).pc, Over(agent[a]).n, Over(agent[a]).left)
  BY <1>2, <1>3, SetMoves
<1>. QED
  BY <1>2, <1>4

LEMMA ReturnMoves ==
  ASSUME Types, NEW a \in Agent, NEW ok \in BOOLEAN, Set(a, Returned(a, ok))
  PROVE  Moves(a, "step", agent[a].n, agent[a].left)
<1>1. Moves(a, Returned(a, ok).pc, Returned(a, ok).n, Returned(a, ok).left)
  BY ReturnedState, SetMoves
<1>. QED
  BY <1>1, ReturnedState

(* A plan of n steps, a call of tool t, a call of a tool there is not, and *)
(* a look at the skill notes.                                              *)
LEMMA PlanMoves ==
  ASSUME Types, NEW a \in Agent, NEW n \in Nat,
         Set(a, [agent[a] EXCEPT !.pc = "step", !.left = n])
  PROVE  Moves(a, "step", agent[a].n, n)
<1>. DEFINE q == [agent[a] EXCEPT !.pc = "step", !.left = n]
<1>1. agent[a] \in AgentState
  BY DEF Types
<1>2. q \in AgentState /\ q.pc = "step" /\ q.n = agent[a].n /\ q.left = n
  BY <1>1 DEF AgentState, Pc
<1>3. Moves(a, q.pc, q.n, q.left)
  <2>. HIDE DEF q
  <2>1. Set(a, q)
    BY DEF q
  <2>. QED
    BY <1>2, <2>1, SetMoves
<1>. QED
  BY <1>2, <1>3

LEMMA CallMoves ==
  ASSUME Types, NEW a \in Agent, NEW t \in Tool, agent[a].left > 0,
         Set(a, [agent[a] EXCEPT !.pc = "acting", !.left = @ - 1, !.n = @ + 1, !.tool = t])
  PROVE  Moves(a, "acting", agent[a].n + 1, agent[a].left - 1)
<1>. DEFINE q == [agent[a] EXCEPT !.pc = "acting", !.left = @ - 1, !.n = @ + 1, !.tool = t]
<1>1. agent[a] \in AgentState
  BY DEF Types
<1>2. /\ q \in AgentState /\ q.pc = "acting"
      /\ q.n = agent[a].n + 1 /\ q.left = agent[a].left - 1
  <2>1. agent[a].left - 1 \in Nat /\ agent[a].n + 1 \in Nat
    BY <1>1 DEF AgentState
  <2>. QED
    BY <1>1, <2>1 DEF AgentState, Pc
<1>3. Moves(a, q.pc, q.n, q.left)
  <2>. HIDE DEF q
  <2>1. Set(a, q)
    BY DEF q
  <2>. QED
    BY <1>2, <2>1, SetMoves
<1>. QED
  BY <1>2, <1>3

LEMMA MissMoves ==
  ASSUME Types, NEW a \in Agent, agent[a].left > 0,
         Set(a, [agent[a] EXCEPT !.left = @ - 1, !.ok = FALSE])
  PROVE  Moves(a, agent[a].pc, agent[a].n, agent[a].left - 1)
<1>. DEFINE q == [agent[a] EXCEPT !.left = @ - 1, !.ok = FALSE]
<1>1. agent[a] \in AgentState
  BY DEF Types
<1>2. /\ q \in AgentState /\ q.pc = agent[a].pc
      /\ q.n = agent[a].n /\ q.left = agent[a].left - 1
  <2>1. agent[a].left - 1 \in Nat
    BY <1>1 DEF AgentState
  <2>. QED
    BY <1>1, <2>1 DEF AgentState, Pc
<1>3. Moves(a, q.pc, q.n, q.left)
  <2>. HIDE DEF q
  <2>1. Set(a, q)
    BY DEF q
  <2>. QED
    BY <1>2, <2>1, SetMoves
<1>. QED
  BY <1>2, <1>3

LEMMA ReadMoves ==
  ASSUME Types, NEW a \in Agent, Set(a, [agent[a] EXCEPT !.pc = "write", !.seen = skill])
  PROVE  Moves(a, "write", agent[a].n, agent[a].left) /\ agent'[a].seen = skill
<1>. DEFINE q == [agent[a] EXCEPT !.pc = "write", !.seen = skill]
<1>1. agent[a] \in AgentState /\ skill \in SUBSET Agent
  BY DEF Types
<1>2. /\ q \in AgentState /\ q.pc = "write" /\ q.seen = skill
      /\ q.n = agent[a].n /\ q.left = agent[a].left
  BY <1>1 DEF AgentState, Pc
<1>3. Moves(a, q.pc, q.n, q.left) /\ agent'[a] = q
  <2>. HIDE DEF q
  <2>1. Set(a, q)
    BY DEF q
  <2>2. agent'[a] = q
    BY <2>1 DEF Set, Types
  <2>. QED
    BY <1>2, <2>1, <2>2, SetMoves
<1>. QED
  BY <1>2, <1>3

(* The control of an agent's step, whatever it does to the files.          *)
LEMMA FlowMoves ==
  ASSUME Types, Flow, NEW a \in Agent, NEW w, NEW n \in Nat, NEW left \in Nat,
         Moves(a, w, n, left),
         \A p \in Process : p # Home[a] => loop'[p] = loop[p],
         loop'[Home[a]] = loop[Home[a]]
           \/ (loop[Home[a]] \in {a, None} /\ loop'[Home[a]] \in {a, None}),
         \A b \in Agent : b # a => recipe'[b] = recipe[b],
         w \in Flushing \/ (w = "write" /\ KindOf[a] # "lesson") => loop'[Home[a]] = a,
         w = "look" => KindOf[a] = "lesson",
         w = "plan" => n = 0,
         w = "acting" => n > 0,
         n + left <= Steps[a],
         w \in Planning => recipe'[a] = <<>>
  PROVE  Flow'
<1>1. \A b \in Agent : Home[b] \in Process /\ b # None
  BY HomeAssumption, NoneAssumption
<1>2. \A p \in Process : loop'[p] # None => Home[loop'[p]] = p
  BY <1>1 DEF Flow
<1>3. ASSUME NEW b \in Agent
      PROVE  /\ agent'[b].pc \in Flushing => loop'[Home[b]] = b
             /\ agent'[b].pc = "write" /\ KindOf[b] # "lesson" => loop'[Home[b]] = b
             /\ agent'[b].pc = "look" => KindOf[b] = "lesson"
             /\ agent'[b].pc = "plan" => agent'[b].n = 0
             /\ agent'[b].pc = "acting" => agent'[b].n > 0
             /\ agent'[b].n + agent'[b].left <= Steps[b]
             /\ agent'[b].pc \in Planning => recipe'[b] = <<>>
  <2>1. CASE b = a
    BY <2>1, <1>1 DEF Moves
  <2>2. CASE b # a
    <3>1. agent'[b] = agent[b] /\ recipe'[b] = recipe[b]
      BY <2>2 DEF Moves
    <3>2. loop[Home[b]] = b => loop'[Home[b]] = b
      BY <2>2, <1>1
    <3>. QED
      BY <3>1, <3>2 DEF Flow, Holds, At
  <2>. QED
    BY <2>1, <2>2
<1>. QED
  BY <1>2, <1>3 DEF Flow, Holds, At

(* What an action may write of the history. *)
LEMMA HistLost ==
  ASSUME hist \in HistState, NEW S \in SUBSET Action, NEW b \in BOOLEAN,
         hist' = [hist EXCEPT !.lost = @ \cup S, !.torn = @ \/ b]
  PROVE  /\ hist' \in HistState
         /\ hist'.lost = hist.lost \cup S /\ hist'.torn = (hist.torn \/ b)
         /\ hist'.verified = hist.verified /\ hist'.stale = hist.stale
         /\ hist'.kept = hist.kept /\ hist'.noted = hist.noted /\ hist'.raced = hist.raced
BY DEF HistState

LEMMA HistDropped ==
  ASSUME hist \in HistState, NEW S \in SUBSET Action,
         hist' = [hist EXCEPT !.lost = @ \cup S]
  PROVE  /\ hist' \in HistState
         /\ hist'.lost = hist.lost \cup S
         /\ hist'.verified = hist.verified /\ hist'.stale = hist.stale
         /\ hist'.torn = hist.torn
         /\ hist'.kept = hist.kept /\ hist'.noted = hist.noted /\ hist'.raced = hist.raced
BY DEF HistState

LEMMA HistVerified ==
  ASSUME hist \in HistState, NEW act \in Action,
         hist' = [hist EXCEPT !.verified = @ \cup {act}]
  PROVE  /\ hist' \in HistState
         /\ hist'.verified = hist.verified \cup {act}
         /\ hist'.lost = hist.lost /\ hist'.stale = hist.stale /\ hist'.torn = hist.torn
         /\ hist'.kept = hist.kept /\ hist'.noted = hist.noted /\ hist'.raced = hist.raced
BY DEF HistState

LEMMA HistStale ==
  ASSUME hist \in HistState, NEW b \in BOOLEAN, hist' = [hist EXCEPT !.stale = b]
  PROVE  /\ hist' \in HistState
         /\ hist'.stale = b
         /\ hist'.verified = hist.verified /\ hist'.lost = hist.lost /\ hist'.torn = hist.torn
         /\ hist'.kept = hist.kept /\ hist'.noted = hist.noted /\ hist'.raced = hist.raced
BY DEF HistState

LEMMA HistKept ==
  ASSUME hist \in HistState, NEW b \in BOOLEAN, NEW a \in Agent,
         hist' = [hist EXCEPT !.stale = b, !.kept = @ \cup {a}]
  PROVE  /\ hist' \in HistState
         /\ hist'.stale = b /\ hist'.kept = hist.kept \cup {a}
         /\ hist'.verified = hist.verified /\ hist'.lost = hist.lost /\ hist'.torn = hist.torn
         /\ hist'.noted = hist.noted /\ hist'.raced = hist.raced
BY DEF HistState

LEMMA HistNoted ==
  ASSUME hist \in HistState, NEW b \in BOOLEAN, NEW a \in Agent,
         hist' = [hist EXCEPT !.raced = @ \/ b, !.noted = @ \cup {a}]
  PROVE  /\ hist' \in HistState
         /\ hist'.noted = hist.noted \cup {a} /\ hist'.raced = (hist.raced \/ b)
         /\ hist'.verified = hist.verified /\ hist'.lost = hist.lost /\ hist'.torn = hist.torn
         /\ hist'.kept = hist.kept /\ hist'.stale = hist.stale
BY DEF HistState

(* The memory of a process when one of its fields is written.              *)
LEMMA MemStates ==
  ASSUME NEW m \in MemState, NEW rows \in Rows, NEW mt \in Metas, NEW b \in BOOLEAN
  PROVE  /\ [loaded |-> b, rows |-> rows, meta |-> mt, fresh |-> b] \in MemState
         /\ [m EXCEPT !.fresh = b] \in MemState
         /\ [m EXCEPT !.fresh = b].fresh = b
         /\ [m EXCEPT !.fresh = b].rows = m.rows
         /\ [m EXCEPT !.fresh = b].meta = m.meta
         /\ [m EXCEPT !.fresh = b].loaded = m.loaded
         /\ [m EXCEPT !.meta = mt] \in MemState
         /\ [m EXCEPT !.meta = mt].fresh = m.fresh
         /\ [m EXCEPT !.meta = mt].rows = m.rows
         /\ [m EXCEPT !.meta = mt].meta = mt
         /\ [m EXCEPT !.meta = mt].loaded = m.loaded
BY DEF MemState

LEMMA NoMetaType == NoMeta \in Metas
<1>1. NoMeta \in [{} -> Agent]
  BY DEF NoMeta
<1>. QED
  BY <1>1 DEF Metas

LEMMA UnloadedState == Unloaded \in MemState
<1>1. <<>> \in Rows
  BY DEF Rows
<1>2. NoMeta \in Metas
  BY NoMetaType
<1>3. ASSUME NEW rows \in Rows, NEW mt \in Metas
      PROVE  [loaded |-> FALSE, rows |-> rows, meta |-> mt, fresh |-> FALSE] \in MemState
  BY DEF MemState
<1>. QED
  BY <1>1, <1>2, <1>3, Zenon DEF Unloaded

(* A row and its metadata added. *)
Added(m, i, a) == [j \in DOMAIN m \cup {i} |-> IF j = i THEN a ELSE m[j]]

LEMMA AddedMeta ==
  ASSUME NEW m \in Metas, NEW i \in Nat \ {0}, NEW a \in Agent
  PROVE  Added(m, i, a) \in Metas
<1>1. PICK D \in SUBSET (Nat \ {0}) : m \in [D -> Agent]
  BY DEF Metas
<1>2. Added(m, i, a) \in [D \cup {i} -> Agent]
  BY <1>1 DEF Added
<1>3. D \cup {i} \in SUBSET (Nat \ {0})
  BY <1>1
<1>. QED
  BY <1>2, <1>3 DEF Metas

-----------------------------------------------------------------------------
(* Types and control.                                                      *)

LEMMA InitTypes == Init => Types /\ Flow
<1>. SUFFICES ASSUME Init
              PROVE  Types /\ Flow
  OBVIOUS
<1>. DEFINE left(a) == IF KindOf[a] = "host" THEN Steps[a] ELSE 0
<1>. DEFINE start(a) == CASE KindOf[a] = "host" -> "step" [] KindOf[a] = "task" -> "plan"
                          [] KindOf[a] = "lesson" -> "look"
<1>1. \A a \in Agent : /\ agent[a] \in AgentState /\ agent[a].n = 0
                       /\ agent[a].pc = start(a) /\ agent[a].left = left(a)
  <2>1. ASSUME NEW a \in Agent
        PROVE  start(a) \in Pc /\ left(a) \in Nat
    BY KindAssumption, StepsAssumption DEF Pc
  <2>2. ASSUME NEW a \in Agent, NEW w \in Pc, NEW l \in Nat
        PROVE  [pc |-> w, n |-> 0, left |-> l, tool |-> None, ok |-> TRUE, seen |-> {}]
                 \in AgentState
    BY DEF AgentState
  <2>3. agent = [a \in Agent |-> [pc |-> start(a), n |-> 0, left |-> left(a), tool |-> None,
                                  ok |-> TRUE, seen |-> {}]]
    BY DEF Init
  <2>. HIDE DEF start, left
  <2>. QED
    BY <2>1, <2>2, <2>3
<1>2. agent \in [Agent -> AgentState]
  BY <1>1 DEF Init
<1>3. hist \in HistState
  BY DEF Init, HistState
<1>4. mem \in [Process -> MemState] /\ meta \in {Torn} \cup Metas
  BY UnloadedState, NoMetaType DEF Init
<1>5. /\ buf \in [Process -> Seq(Action)] /\ recipe \in [Agent -> Seq(Action)]
      /\ index \in Rows
  BY DEF Init, Rows
<1>6. /\ loop \in [Process -> Agent \cup {None}]
      /\ skill \in SUBSET Agent /\ crashes \in 0..MaxCrashes
  BY StepsAssumption DEF Init
<1>7. Types
  BY <1>2, <1>3, <1>4, <1>5, <1>6 DEF Types
<1>8. Flow
  <2>1. \A p \in Process : loop[p] = None
    BY DEF Init
  <2>2. \A a \in Agent : recipe[a] = <<>>
    BY DEF Init
  <2>3. \A a \in Agent : /\ start(a) \notin Flushing \cup {"write", "acting"}
                         /\ start(a) = "look" => KindOf[a] = "lesson"
                         /\ left(a) \in Nat /\ left(a) <= Steps[a]
    BY KindAssumption, StepsAssumption DEF Flushing
  <2>. HIDE DEF start, left
  <2>. QED
    BY <1>1, <2>1, <2>2, <2>3 DEF Flow, At
<1>. QED
  BY <1>7, <1>8

(* What a step of an agent writes but its own record: nothing, the buffer, *)
(* or the memory and the files.                                            *)
OthersTyped ==
  /\ buf' \in [Process -> Seq(Action)] /\ recipe' \in [Agent -> Seq(Action)]
  /\ loop' \in [Process -> Agent \cup {None}]
  /\ mem' \in [Process -> MemState]
  /\ index' \in Rows /\ meta' \in {Torn} \cup Metas /\ skill' \in SUBSET Agent
  /\ crashes' \in 0..MaxCrashes
  /\ hist' \in HistState

LEMMA TypesMoves ==
  ASSUME NEW a \in Agent, NEW w, NEW n, NEW left, Moves(a, w, n, left), OthersTyped
  PROVE  Types'
BY DEF Moves, OthersTyped, Types

(* The steps that touch the agent only. *)
Quiet == UNCHANGED <<buf, loop, mem, files, recipe, crashes, hist>>

LEMMA QuietFlow ==
  ASSUME Types, Flow, NEW a \in Agent, NEW w, NEW n \in Nat, NEW left \in Nat,
         Moves(a, w, n, left), Quiet,
         w \notin Flushing, w = "write" /\ KindOf[a] # "lesson" => Holds(a),
         w = "look" => KindOf[a] = "lesson", w = "plan" => n = 0, w = "acting" => n > 0,
         n + left <= Steps[a], w \in Planning => recipe[a] = <<>>
  PROVE  Types' /\ Flow'
<1>1. loop' = loop /\ recipe' = recipe
  BY DEF Quiet
<1>2. OthersTyped
  BY DEF Quiet, files, Types, OthersTyped
<1>3. Types'
  BY <1>2, TypesMoves
<1>4. Flow'
  BY <1>1, FlowMoves DEF Holds
<1>. QED
  BY <1>3, <1>4

LEMMA Counters ==
  ASSUME Types, Flow, NEW a \in Agent
  PROVE  /\ agent[a] \in AgentState /\ agent[a].n \in Nat /\ agent[a].left \in Nat
         /\ agent[a].n + agent[a].left <= Steps[a] /\ Steps[a] \in Nat
         /\ Home[a] \in Process
<1>1. agent[a] \in AgentState
  BY DEF Types
<1>2. agent[a].n \in Nat /\ agent[a].left \in Nat
  BY <1>1 DEF AgentState
<1>. QED
  BY <1>1, <1>2, StepsAssumption, HomeAssumption DEF Flow

LEMMA QuietTypes ==
  ASSUME Types, Flow, NEW a \in Agent,
         Plan(a) \/ Call(a) \/ Unverified(a) \/ Recovered(a) \/ GiveUp(a)
           \/ ReadSkill(a) \/ Look(a)
  PROVE  Types' /\ Flow' /\ Quiet
<1>. USE Counters
<1>1. CASE Plan(a)
  <2>1. Quiet /\ agent[a].pc = "plan" /\ agent[a].n = 0 /\ recipe[a] = <<>>
    BY <1>1 DEF Plan, Quiet, Flow, At, Planning
  <2>2. CASE End(a)
    BY <2>1, <2>2, EndMoves, QuietFlow DEF Flushing, Planning
  <2>3. CASE \E n \in 1..Steps[a] : Set(a, [agent[a] EXCEPT !.pc = "step", !.left = n])
    <3>1. PICK n \in 1..Steps[a] : Set(a, [agent[a] EXCEPT !.pc = "step", !.left = n])
      BY <2>3
    <3>2. n \in Nat /\ n <= Steps[a]
      OBVIOUS
    <3>3. Moves(a, "step", agent[a].n, n)
      BY <3>1, <3>2, PlanMoves
    <3>. QED
      BY <2>1, <3>2, <3>3, QuietFlow DEF Flushing, Planning
  <2>. QED
    BY <1>1, <2>2, <2>3 DEF Plan
<1>2. CASE Call(a)
  <2>1. /\ Quiet /\ agent[a].pc = "step" /\ recipe[a] = <<>>
        /\ agent[a].left > 0
    BY <1>2 DEF Call, Quiet, Flow, At, Planning
  <2>2. ASSUME NEW t \in Tool,
               Set(a, [agent[a] EXCEPT !.pc = "acting", !.left = @ - 1, !.n = @ + 1, !.tool = t])
        PROVE  Types' /\ Flow'
    <3>1. Moves(a, "acting", agent[a].n + 1, agent[a].left - 1)
      BY <2>1, <2>2, CallMoves
    <3>. QED
      BY <2>1, <3>1, QuietFlow DEF Flushing, Planning
  <2>3. ASSUME Set(a, [agent[a] EXCEPT !.left = @ - 1, !.ok = FALSE])
        PROVE  Types' /\ Flow'
    <3>1. Moves(a, "step", agent[a].n, agent[a].left - 1)
      BY <2>1, <2>3, MissMoves
    <3>. QED
      BY <2>1, <3>1, QuietFlow DEF Flushing, Planning
  <2>. QED
    BY <1>2, <2>1, <2>2, <2>3 DEF Call
<1>3. CASE Unverified(a)
  <2>1. Quiet /\ agent[a].pc = "acting" /\ recipe[a] = <<>>
    BY <1>3 DEF Unverified, Quiet, Flow, At, Planning
  <2>2. CASE Set(a, Returned(a, FALSE))
    <3>1. Moves(a, "step", agent[a].n, agent[a].left)
      BY <2>2, FALSE \in BOOLEAN, ReturnMoves
    <3>. QED
      BY <2>1, <3>1, QuietFlow DEF Flushing, Planning
  <2>3. CASE Go(a, "recovering")
    <3>1. Moves(a, "recovering", agent[a].n, agent[a].left)
      BY <2>3, GoMoves DEF Pc
    <3>. QED
      BY <2>1, <3>1, QuietFlow DEF Flushing, Planning
  <2>. QED
    BY <1>3, <2>1, <2>2, <2>3 DEF Unverified
<1>4. CASE Recovered(a)
  <2>1. Quiet /\ agent[a].pc = "recovering" /\ recipe[a] = <<>> /\ Set(a, Returned(a, FALSE))
    BY <1>4 DEF Recovered, Quiet, Flow, At, Planning
  <2>2. Moves(a, "step", agent[a].n, agent[a].left)
    BY <2>1, FALSE \in BOOLEAN, ReturnMoves
  <2>. QED
    BY <2>1, <2>2, QuietFlow DEF Flushing, Planning
<1>5. CASE GiveUp(a)
  <2>1. Quiet /\ End(a)
    BY <1>5 DEF GiveUp, Quiet
  <2>. QED
    BY <2>1, EndMoves, QuietFlow DEF Flushing, Planning
<1>6. CASE ReadSkill(a)
  <2>1. Quiet /\ Holds(a) /\ Set(a, [agent[a] EXCEPT !.pc = "write", !.seen = skill])
    BY <1>6 DEF ReadSkill, Read, Quiet
  <2>. QED
    BY <2>1, ReadMoves, QuietFlow DEF Flushing, Planning
<1>7. CASE Look(a)
  <2>1. /\ Quiet /\ KindOf[a] = "lesson"
        /\ Set(a, [agent[a] EXCEPT !.pc = "write", !.seen = skill])
    BY <1>7 DEF Look, Read, Quiet, Flow
  <2>. QED
    BY <2>1, ReadMoves, QuietFlow DEF Flushing, Planning
<1>. QED
  BY <1>1, <1>2, <1>3, <1>4, <1>5, <1>6, <1>7
     DEF Plan, Call, Unverified, Recovered, GiveUp, ReadSkill, Read, Look, Quiet

(* What the larger steps write. *)
LEMMA RecordDoes ==
  ASSUME Types, Flow, NEW a \in Agent, At(a, "acting"), Record(a)
  PROVE  /\ <<a, agent[a].n>> \in Action
         /\ buf' \in [Process -> Seq(Action)]
         /\ buf'[Home[a]] = Append(buf[Home[a]], <<a, agent[a].n>>)
         /\ \A p \in Process : p # Home[a] => buf'[p] = buf[p]
         /\ hist' \in HistState
         /\ hist'.verified = hist.verified \cup {<<a, agent[a].n>>}
         /\ hist'.lost = hist.lost /\ hist'.stale = hist.stale /\ hist'.torn = hist.torn
         /\ hist'.kept = hist.kept /\ hist'.noted = hist.noted /\ hist'.raced = hist.raced
<1>. DEFINE act == <<a, agent[a].n>>
<1>1. act \in Action
  <2>1. agent[a].n \in 1..Steps[a]
    BY Counters DEF Flow
  <2>. QED
    BY <2>1 DEF Action
<1>2. hist \in HistState /\ buf \in [Process -> Seq(Action)] /\ Home[a] \in Process
  BY Counters DEF Types
<1>3. buf' = [buf EXCEPT ![Home[a]] = Append(@, act)]
  BY DEF Record
<1>4. hist' = [hist EXCEPT !.verified = @ \cup {act}]
  BY DEF Record
<1>. HIDE DEF act
<1>5. Append(buf[Home[a]], act) \in Seq(Action)
  BY <1>1, <1>2
<1>6. /\ buf' \in [Process -> Seq(Action)]
      /\ buf'[Home[a]] = Append(buf[Home[a]], act)
      /\ \A p \in Process : p # Home[a] => buf'[p] = buf[p]
  BY <1>2, <1>3, <1>5
<1>7. /\ hist' \in HistState
      /\ hist'.verified = hist.verified \cup {act}
      /\ hist'.lost = hist.lost /\ hist'.stale = hist.stale /\ hist'.torn = hist.torn
      /\ hist'.kept = hist.kept /\ hist'.noted = hist.noted /\ hist'.raced = hist.raced
  BY <1>1, <1>2, <1>4, HistVerified
<1>. QED
  BY <1>1, <1>6, <1>7 DEF act

LEMMA RaiseDoes ==
  ASSUME Types, Flow, NEW a \in Agent, NEW half \in BOOLEAN, Raise(a, half)
  PROVE  /\ Moves(a, "done", agent[a].n, 0)
         /\ loop' \in [Process -> Agent \cup {None}]
         /\ loop'[Home[a]] = None
         /\ \A p \in Process : p # Home[a] => loop'[p] = loop[p]
         /\ recipe' \in [Agent -> Seq(Action)]
         /\ recipe'[a] = <<>>
         /\ \A b \in Agent : b # a => recipe'[b] = recipe[b]
         /\ hist' \in HistState
         /\ hist'.lost = hist.lost \cup ToSet(recipe[a]) /\ hist'.torn = (hist.torn \/ half)
         /\ hist'.verified = hist.verified /\ hist'.stale = hist.stale
         /\ hist'.kept = hist.kept /\ hist'.noted = hist.noted /\ hist'.raced = hist.raced
<1>1. Moves(a, "done", agent[a].n, 0)
  BY EndMoves DEF Raise
<1>2. /\ hist \in HistState /\ recipe \in [Agent -> Seq(Action)] /\ Home[a] \in Process
      /\ loop \in [Process -> Agent \cup {None}]
  BY Counters DEF Types
<1>3. loop' = [loop EXCEPT ![Home[a]] = None] /\ recipe' = [recipe EXCEPT ![a] = <<>>]
  BY DEF Raise
<1>4. ToSet(recipe[a]) \in SUBSET Action
  BY <1>2, ToSetMember
<1>5. hist' = [hist EXCEPT !.lost = @ \cup ToSet(recipe[a]), !.torn = @ \/ half]
  BY DEF Raise
<1>6. /\ hist' \in HistState
      /\ hist'.lost = hist.lost \cup ToSet(recipe[a]) /\ hist'.torn = (hist.torn \/ half)
      /\ hist'.verified = hist.verified /\ hist'.stale = hist.stale
      /\ hist'.kept = hist.kept /\ hist'.noted = hist.noted /\ hist'.raced = hist.raced
  BY <1>2, <1>4, <1>5, HistLost
<1>7. /\ loop' \in [Process -> Agent \cup {None}]
      /\ loop'[Home[a]] = None
      /\ \A p \in Process : p # Home[a] => loop'[p] = loop[p]
  BY <1>2, <1>3
<1>8. /\ recipe' \in [Agent -> Seq(Action)]
      /\ recipe'[a] = <<>>
      /\ \A b \in Agent : b # a => recipe'[b] = recipe[b]
  BY <1>2, <1>3
<1>. QED
  BY <1>1, <1>6, <1>7, <1>8

LEMMA FreeDoes ==
  ASSUME Types, NEW p \in Process, loop' = [loop EXCEPT ![p] = None]
  PROVE  /\ loop' \in [Process -> Agent \cup {None}]
         /\ loop'[p] = None
         /\ \A q \in Process : q # p => loop'[q] = loop[q]
BY DEF Types

LEMMA AddDoes ==
  ASSUME Types, Flow, NEW a \in Agent, Add(a), mem[Home[a]].rows # Torn
  PROVE  /\ Moves(a, "openindex", agent[a].n, agent[a].left)
         /\ mem' \in [Process -> MemState]
         /\ mem[Home[a]].rows \in Seq(Agent)
         /\ mem'[Home[a]].rows = Append(mem[Home[a]].rows, a)
         /\ mem'[Home[a]].meta = Added(mem[Home[a]].meta, Len(mem[Home[a]].rows) + 1, a)
         /\ mem'[Home[a]].fresh = mem[Home[a]].fresh
         /\ \A q \in Process : q # Home[a] => mem'[q] = mem[q]
         /\ UNCHANGED <<buf, loop, files, recipe, crashes, hist>>
<1>. DEFINE p == Home[a]
            rows == mem[p].rows
            mt == Added(mem[p].meta, Len(rows) + 1, a)
<1>1. p \in Process /\ mem \in [Process -> MemState] /\ mem[p] \in MemState
  BY Counters DEF Types
<1>2. rows \in Seq(Agent) /\ mem[p].meta \in Metas
  BY <1>1 DEF MemState, Rows
<1>3. Append(rows, a) \in Rows /\ Len(rows) + 1 \in Nat \ {0}
  BY <1>2 DEF Rows
<1>4. mt \in Metas
  BY <1>2, <1>3, AddedMeta
<1>5. mem' = [mem EXCEPT ![p].rows = Append(@, a), ![p].meta = mt]
  BY DEF Add, Row, Added
<1>6. Go(a, "openindex") /\ UNCHANGED <<buf, loop, files, recipe, crashes, hist>>
  BY DEF Add
<1>7. Moves(a, "openindex", agent[a].n, agent[a].left)
  BY <1>6, GoMoves DEF Pc
<1>8. /\ mem'[p] = [mem[p] EXCEPT !.rows = Append(rows, a), !.meta = mt]
      /\ \A q \in Process : q # p => mem'[q] = mem[q]
      /\ DOMAIN mem' = Process /\ mem' = [q \in Process |-> mem'[q]]
  <2>. HIDE DEF mt
  <2>. QED
    BY <1>1, <1>5
<1>9. /\ mem'[p] \in MemState /\ mem'[p].rows = Append(rows, a)
      /\ mem'[p].meta = mt /\ mem'[p].fresh = mem[p].fresh
  <2>. HIDE DEF mt, p, rows
  <2>. QED
    BY <1>1, <1>3, <1>4, <1>8 DEF MemState
<1>10. mem' \in [Process -> MemState]
  <2>. HIDE DEF mt, p, rows
  <2>. QED
    BY <1>1, <1>8, <1>9
<1>. QED
  BY <1>2, <1>6, <1>7, <1>8, <1>9, <1>10

LEMMA SavingDoes ==
  ASSUME Types, Flow, NEW a \in Agent, NEW from \in Pc, NEW to \in Pc, Saving(a, from, to)
  PROVE  /\ At(a, from) /\ Holds(a)
         /\ Moves(a, to, agent[a].n, agent[a].left)
         /\ mem' \in [Process -> MemState]
         /\ \A p \in Process : /\ mem'[p].rows = mem[p].rows /\ mem'[p].meta = mem[p].meta
                               /\ mem'[p].fresh = (mem[p].fresh /\ p = Home[a])
         /\ Stale(a) \in BOOLEAN
<1>1. Moves(a, to, agent[a].n, agent[a].left)
  BY GoMoves DEF Saving
<1>2. ASSUME NEW p \in Process
      PROVE  /\ mem'[p] \in MemState
             /\ mem'[p].rows = mem[p].rows /\ mem'[p].meta = mem[p].meta
             /\ mem'[p].fresh = (mem[p].fresh /\ p = Home[a])
  <2>1. mem[p] \in MemState
    BY DEF Types
  <2>2. mem'[p] = [mem[p] EXCEPT !.fresh = @ /\ p = Home[a]]
    BY DEF Saving
  <2>. QED
    BY <2>1, <2>2 DEF MemState
<1>3. mem' = [p \in Process |-> mem'[p]]
  BY DEF Saving
<1>4. mem' \in [Process -> MemState]
  BY <1>2, <1>3
<1>5. Stale(a) \in BOOLEAN
  <2>1. hist \in HistState
    BY DEF Types
  <2>2. hist.stale \in BOOLEAN
    BY <2>1 DEF HistState
  <2>. QED
    BY <2>2 DEF Stale
<1>. QED
  BY <1>1, <1>2, <1>4, <1>5 DEF Saving

(* The flush loads the index and the metadata. *)
LEMMA LoadDoes ==
  ASSUME Types, Flow, NEW a \in Agent, NEW m \in MemState,
         mem' = [mem EXCEPT ![Home[a]] = m]
  PROVE  /\ mem' \in [Process -> MemState]
         /\ mem'[Home[a]] = m
         /\ \A q \in Process : q # Home[a] => mem'[q] = mem[q]
BY Counters DEF Types

LEMMA CrashDoes ==
  ASSUME Types, Flow, NEW p \in Process, Crash(p)
  PROVE  /\ agent' \in [Agent -> AgentState]
         /\ \A a \in Agent : Home[a] # p \/ At(a, "done") => agent'[a] = agent[a]
         /\ \A a \in Agent : Home[a] = p /\ ~At(a, "done") =>
              /\ agent'[a].n = agent[a].n
              /\ \/ agent'[a].pc = "done" /\ agent'[a].left = 0
                 \/ /\ agent'[a].pc = "step" /\ agent'[a].left = agent[a].left
                    /\ KindOf[a] = "host" /\ loop[p] # a
         /\ mem' \in [Process -> MemState]
         /\ mem'[p] = Unloaded
         /\ \A q \in Process : q # p => mem'[q] = mem[q]
         /\ loop' \in [Process -> Agent \cup {None}]
         /\ loop'[p] = None
         /\ \A q \in Process : q # p => loop'[q] = loop[q]
         /\ UNCHANGED files /\ crashes' \in 0..MaxCrashes
<1>1. \A a \in Agent : agent[a] \in AgentState
  BY DEF Types
<1>. DEFINE mine == {a \in Agent : Home[a] = p /\ ~At(a, "done")}
<1>2. PICK again \in SUBSET {a \in mine : KindOf[a] = "host" /\ loop[p] # a} :
        agent' = [a \in Agent |->
                    IF a \notin mine THEN agent[a]
                    ELSE IF a \in again THEN [agent[a] EXCEPT !.pc = "step", !.tool = None]
                    ELSE Over(agent[a])]
  BY DEF Crash
<1>3. ASSUME NEW q \in AgentState
      PROVE  /\ [q EXCEPT !.pc = "step", !.tool = None] \in AgentState
             /\ [q EXCEPT !.pc = "step", !.tool = None].pc = "step"
             /\ [q EXCEPT !.pc = "step", !.tool = None].n = q.n
             /\ [q EXCEPT !.pc = "step", !.tool = None].left = q.left
  BY DEF AgentState, Pc
<1>4. ASSUME NEW a \in Agent
      PROVE  /\ agent'[a] \in AgentState
             /\ Home[a] # p \/ At(a, "done") => agent'[a] = agent[a]
             /\ Home[a] = p /\ ~At(a, "done") =>
                  /\ agent'[a].n = agent[a].n
                  /\ \/ agent'[a].pc = "done" /\ agent'[a].left = 0
                     \/ /\ agent'[a].pc = "step" /\ agent'[a].left = agent[a].left
                        /\ KindOf[a] = "host" /\ loop[p] # a
  <2>1. CASE a \notin mine
    <3>1. agent'[a] = agent[a]
      BY <1>2, <2>1
    <3>. QED
      BY <1>1, <2>1, <3>1
  <2>2. CASE a \in again
    <3>1. agent'[a] = [agent[a] EXCEPT !.pc = "step", !.tool = None]
      BY <1>2, <2>2
    <3>2. /\ agent'[a] \in AgentState /\ agent'[a].pc = "step"
          /\ agent'[a].n = agent[a].n /\ agent'[a].left = agent[a].left
      <4>. HIDE <1>2
      <4>1. agent[a] \in AgentState
        BY <1>1
      <4>. QED
        BY <3>1, <4>1 DEF AgentState, Pc
    <3>3. KindOf[a] = "host" /\ loop[p] # a /\ a \in mine
      BY <2>2
    <3>. QED
      BY <3>2, <3>3
  <2>3. CASE a \in mine /\ a \notin again
    <3>1. agent'[a] = Over(agent[a])
      BY <1>2, <2>3
    <3>2. /\ agent'[a] \in AgentState /\ agent'[a].pc = "done"
          /\ agent'[a].n = agent[a].n /\ agent'[a].left = 0
      BY <1>1, <3>1, OverState
    <3>. QED
      BY <2>3, <3>2
  <2>. QED
    BY <2>1, <2>2, <2>3
<1>5. agent' = [a \in Agent |-> agent'[a]]
  BY <1>2
<1>6. agent' \in [Agent -> AgentState]
  BY <1>4, <1>5
<1>7. /\ mem' \in [Process -> MemState] /\ mem'[p] = Unloaded
      /\ \A q \in Process : q # p => mem'[q] = mem[q]
  BY UnloadedState DEF Crash, Types
<1>8. /\ loop' \in [Process -> Agent \cup {None}] /\ loop'[p] = None
      /\ \A q \in Process : q # p => loop'[q] = loop[q]
  BY FreeDoes DEF Crash
<1>9. UNCHANGED files /\ crashes' \in 0..MaxCrashes
  <2>1. UNCHANGED files /\ crashes < MaxCrashes /\ crashes' = crashes + 1
    BY DEF Crash
  <2>2. crashes \in 0..MaxCrashes
    BY DEF Types
  <2>. QED
    BY <2>1, <2>2, StepsAssumption
<1>. QED
  BY <1>4, <1>6, <1>7, <1>8, <1>9

(* What a crash loses: the buffer and the recipes not yet stored. *)
Doomed(a, p) == Home[a] = p /\ ~At(a, "done") /\ a \notin hist.kept

LEMMA CrashLoses ==
  ASSUME Types, Flow, NEW p \in Process, Crash(p)
  PROVE  /\ buf' \in [Process -> Seq(Action)]
         /\ buf'[p] = <<>>
         /\ \A q \in Process : q # p => buf'[q] = buf[q]
         /\ recipe' \in [Agent -> Seq(Action)]
         /\ \A a \in Agent : recipe'[a] = IF Doomed(a, p) THEN <<>> ELSE recipe[a]
         /\ hist' \in HistState
         /\ hist'.lost = hist.lost \cup ToSet(buf[p])
                           \cup UNION {ToSet(recipe[a]) : a \in {b \in Agent : Doomed(b, p)}}
         /\ hist'.verified = hist.verified /\ hist'.stale = hist.stale
         /\ hist'.torn = hist.torn
         /\ hist'.kept = hist.kept /\ hist'.noted = hist.noted /\ hist'.raced = hist.raced
<1>1. hist \in HistState /\ buf[p] \in Seq(Action) /\ \A a \in Agent : recipe[a] \in Seq(Action)
  BY DEF Types
<1>. DEFINE gone == ToSet(buf[p])
                      \cup UNION {ToSet(recipe[a]) : a \in {b \in Agent : Doomed(b, p)}}
<1>2. gone \in SUBSET Action
  BY <1>1, ToSetMember
<1>3. hist' = [hist EXCEPT !.lost = @ \cup gone]
  <2>1. {b \in Agent : Doomed(b, p)}
          = {b \in {a \in Agent : Home[a] = p /\ ~At(a, "done")} : b \notin hist.kept}
    BY DEF Doomed
  <2>. QED
    BY <2>1 DEF Crash
<1>4. /\ hist' \in HistState /\ hist'.lost = hist.lost \cup gone
      /\ hist'.verified = hist.verified /\ hist'.stale = hist.stale
      /\ hist'.torn = hist.torn
      /\ hist'.kept = hist.kept /\ hist'.noted = hist.noted /\ hist'.raced = hist.raced
  <2>. HIDE DEF gone
  <2>. QED
    BY <1>1, <1>2, <1>3, HistDropped
<1>5. /\ buf' \in [Process -> Seq(Action)] /\ buf'[p] = <<>>
      /\ \A q \in Process : q # p => buf'[q] = buf[q]
  <2>1. buf' = [buf EXCEPT ![p] = <<>>] /\ buf \in [Process -> Seq(Action)]
    BY DEF Crash, Types
  <2>. QED
    BY <2>1
<1>6. /\ recipe' = [a \in Agent |-> IF Doomed(a, p) THEN <<>> ELSE recipe[a]]
  BY DEF Crash, Doomed
<1>7. recipe' \in [Agent -> Seq(Action)]
  BY <1>1, <1>6
<1>. QED
  BY <1>4, <1>5, <1>6, <1>7

(* Types and control are kept by every step of an agent... *)
LEMMA TypesStep ==
  ASSUME Types, Flow, NEW a \in Agent, AgentStep(a)
  PROVE  Types' /\ Flow'
<1>. USE Counters
<1>0. /\ buf \in [Process -> Seq(Action)] /\ recipe \in [Agent -> Seq(Action)]
      /\ loop \in [Process -> Agent \cup {None}] /\ mem \in [Process -> MemState]
      /\ index \in Rows /\ meta \in {Torn} \cup Metas /\ skill \in SUBSET Agent
      /\ crashes \in 0..MaxCrashes /\ hist \in HistState
  BY DEF Types
<1>1. CASE Plan(a) \/ Call(a) \/ Unverified(a) \/ Recovered(a) \/ GiveUp(a)
             \/ ReadSkill(a) \/ Look(a)
  BY <1>1, QuietTypes
<1>2. CASE Verified(a) \/ Accepted(a)
  <2>1. /\ At(a, "acting") /\ Set(a, Returned(a, TRUE)) /\ recipe[a] = <<>>
        /\ UNCHANGED <<loop, mem, files, recipe, crashes>>
        /\ Record(a) \/ UNCHANGED <<buf, hist>>
    BY <1>2 DEF Verified, Accepted, Flow, At, Planning
  <2>2. Moves(a, "step", agent[a].n, agent[a].left)
    BY <2>1, TRUE \in BOOLEAN, ReturnMoves
  <2>3. buf' \in [Process -> Seq(Action)] /\ hist' \in HistState
    BY <1>0, <2>1, RecordDoes
  <2>4. OthersTyped
    BY <1>0, <2>1, <2>3 DEF OthersTyped, files
  <2>5. Flow'
    BY <2>1, <2>2, FlowMoves DEF Flushing, Planning
  <2>. QED
    BY <2>2, <2>4, <2>5, TypesMoves
<1>3. CASE Take(a)
  <2>. DEFINE p == Home[a]
  <2>1. /\ Awake(a) /\ buf' = [buf EXCEPT ![p] = <<>>] /\ UNCHANGED <<mem, files, crashes>>
        /\ agent[a].pc = "step" /\ recipe[a] = <<>>
    BY <1>3 DEF Take, Complete, At, Flow, Planning
  <2>2. buf' \in [Process -> Seq(Action)]
    BY <1>0, <2>1
  <2>3. ASSUME End(a), UNCHANGED <<loop, recipe>>, hist' \in HistState
        PROVE  Types' /\ Flow'
    <3>1. Moves(a, "done", agent[a].n, 0)
      BY <2>3, EndMoves
    <3>2. OthersTyped
      BY <1>0, <2>1, <2>2, <2>3 DEF OthersTyped, files
    <3>3. Flow'
      BY <2>3, <3>1, FlowMoves DEF Flushing, Planning
    <3>. QED
      BY <3>1, <3>2, <3>3, TypesMoves
  <2>4. CASE buf[p] = <<>> /\ End(a) /\ UNCHANGED <<loop, recipe, hist>>
    BY <1>0, <2>3, <2>4
  <2>5. CASE /\ recipe' = [recipe EXCEPT ![a] = buf[p]]
             /\ Go(a, IF mem[p].loaded THEN "add" ELSE "loadindex")
             /\ loop' = [loop EXCEPT ![p] = a]
             /\ UNCHANGED hist
    <3>. DEFINE w == IF mem[p].loaded THEN "add" ELSE "loadindex"
    <3>1. w \in Pc /\ w \in Flushing
      BY DEF Pc, Flushing
    <3>2. Moves(a, w, agent[a].n, agent[a].left)
      BY <2>5, <3>1, GoMoves
    <3>3. /\ recipe' \in [Agent -> Seq(Action)]
          /\ \A b \in Agent : b # a => recipe'[b] = recipe[b]
      BY <1>0, <2>5
    <3>4. /\ loop' \in [Process -> Agent \cup {None}] /\ loop'[p] = a
          /\ \A q \in Process : q # p => loop'[q] = loop[q]
      BY <1>0, <2>5
    <3>5. OthersTyped
      BY <1>0, <2>1, <2>2, <2>5, <3>3, <3>4 DEF OthersTyped, files
    <3>6. w \notin Planning \cup {"look", "plan", "acting", "write"}
      BY DEF Planning
    <3>7. Flow'
      <4>. HIDE DEF w
      <4>1. loop[p] = None
        BY <2>1 DEF Awake
      <4>. QED
        BY <3>2, <3>3, <3>4, <3>6, <4>1, FlowMoves
    <3>. QED
      BY <3>2, <3>5, <3>7, TypesMoves
  <2>6. CASE /\ End(a)
             /\ hist' = [hist EXCEPT !.lost = @ \cup ToSet(buf[p])]
             /\ UNCHANGED <<loop, recipe>>
    <3>1. ToSet(buf[p]) \in SUBSET Action
      BY <1>0, ToSetMember
    <3>2. hist' \in HistState
      BY <1>0, <2>6, <3>1, HistDropped
    <3>. QED
      BY <2>3, <2>6, <3>2
  <2>. QED
    BY <1>3, <2>4, <2>5, <2>6 DEF Take
<1>4. ASSUME UNCHANGED <<buf, files, crashes>>, mem' \in [Process -> MemState],
             \E half \in BOOLEAN : Raise(a, half), Holds(a)
      PROVE  Types' /\ Flow'
  <2>1. PICK half \in BOOLEAN : Raise(a, half)
    BY <1>4
  <2>2. /\ Moves(a, "done", agent[a].n, 0)
        /\ loop' \in [Process -> Agent \cup {None}] /\ loop'[Home[a]] = None
        /\ \A p \in Process : p # Home[a] => loop'[p] = loop[p]
        /\ recipe' \in [Agent -> Seq(Action)]
        /\ \A b \in Agent : b # a => recipe'[b] = recipe[b]
        /\ hist' \in HistState
    BY <2>1, RaiseDoes
  <2>3. OthersTyped
    BY <1>0, <1>4, <2>2 DEF OthersTyped, files
  <2>4. loop[Home[a]] = a
    BY <1>4 DEF Holds
  <2>5. Flow'
    <3>1. /\ Moves(a, "done", agent[a].n, 0)
          /\ \A p \in Process : p # Home[a] => loop'[p] = loop[p]
          /\ loop[Home[a]] = a /\ loop'[Home[a]] = None
          /\ \A b \in Agent : b # a => recipe'[b] = recipe[b]
      BY <2>2, <2>4
    <3>. QED
      BY <3>1, FlowMoves DEF Flushing, Planning
  <2>. QED
    BY <2>2, <2>3, <2>5, TypesMoves
<1>5. ASSUME NEW w \in Flushing, Go(a, w), Holds(a),
             UNCHANGED <<buf, loop, recipe, crashes, skill>>, mem' \in [Process -> MemState],
             index' \in Rows, meta' \in {Torn} \cup Metas, hist' \in HistState
      PROVE  Types' /\ Flow'
  <2>1. w \in Pc /\ w \notin Planning \cup {"look", "plan", "acting", "write"}
    BY DEF Flushing, Pc, Planning
  <2>2. Moves(a, w, agent[a].n, agent[a].left)
    BY <1>5, <2>1, GoMoves
  <2>3. OthersTyped
    BY <1>0, <1>5 DEF OthersTyped
  <2>4. Flow'
    BY <1>5, <2>1, <2>2, FlowMoves DEF Holds
  <2>. QED
    BY <2>2, <2>3, <2>4, TypesMoves
<1>6. CASE LoadIndex(a)
  <2>. DEFINE m(rows) == [loaded |-> TRUE, rows |-> rows, meta |-> NoMeta, fresh |-> TRUE]
  <2>1. ASSUME NEW rows \in Rows, mem' = [mem EXCEPT ![Home[a]] = m(rows)]
        PROVE  mem' \in [Process -> MemState]
    <3>1. m(rows) \in MemState
      BY NoMetaType DEF MemState
    <3>. HIDE DEF m
    <3>. QED
      BY <1>0, <2>1, <3>1
  <2>2. mem' \in [Process -> MemState]
    BY <1>0, <1>6, <2>1 DEF LoadIndex, Rows
  <2>3. CASE index = Torn
    <3>1. Raise(a, FALSE) /\ Holds(a) /\ UNCHANGED <<buf, files, crashes>>
      BY <1>6, <2>3 DEF LoadIndex
    <3>. QED
      BY <1>4, <2>2, <3>1
  <2>4. CASE index # Torn
    <3>1. /\ Go(a, "loadmeta") /\ Holds(a) /\ UNCHANGED <<loop, recipe, hist>>
          /\ UNCHANGED <<buf, files, crashes>>
      BY <1>6, <2>4 DEF LoadIndex
    <3>. QED
      BY <1>0, <1>5, <2>2, <3>1 DEF Flushing, files
  <2>. QED
    BY <2>3, <2>4
<1>7. CASE LoadMeta(a)
  <2>1. CASE meta = Torn
    <3>1. Raise(a, TRUE) /\ Holds(a) /\ mem' = mem /\ UNCHANGED <<buf, files, crashes>>
      BY <1>7, <2>1 DEF LoadMeta
    <3>. QED
      BY <1>0, <1>4, <3>1
  <2>2. CASE meta # Torn
    <3>1. /\ Go(a, "loadmeta") \/ Go(a, "add")
          /\ Holds(a) /\ UNCHANGED <<loop, recipe, hist>>
          /\ UNCHANGED <<buf, files, crashes>>
          /\ mem' = [mem EXCEPT ![Home[a]].meta = meta]
      BY <1>7, <2>2 DEF LoadMeta
    <3>2. [mem[Home[a]] EXCEPT !.meta = meta] \in MemState
      <4>1. mem[Home[a]] \in MemState /\ meta \in Metas
        BY <1>0, <2>2
      <4>. QED
        BY <4>1 DEF MemState
    <3>3. mem' \in [Process -> MemState]
      BY <1>0, <3>1, <3>2
    <3>. QED
      BY <1>0, <1>5, <3>1, <3>3 DEF Flushing, files
  <2>. QED
    BY <2>1, <2>2
<1>8. CASE Add(a)
  <2>1. CASE mem[Home[a]].rows = Torn
    <3>1. Raise(a, FALSE) /\ Holds(a) /\ mem' = mem /\ UNCHANGED <<buf, files, crashes>>
      BY <1>8, <2>1 DEF Add
    <3>. QED
      BY <1>0, <1>4, <3>1
  <2>2. CASE mem[Home[a]].rows # Torn
    <3>1. Go(a, "openindex") /\ Holds(a)
      BY <1>8, <2>2 DEF Add
    <3>2. /\ mem' \in [Process -> MemState]
          /\ UNCHANGED <<buf, loop, files, recipe, crashes, hist>>
      BY <1>8, <2>2, AddDoes
    <3>. QED
      BY <1>0, <1>5, <3>1, <3>2 DEF Flushing, files
  <2>. QED
    BY <2>1, <2>2
<1>9. ASSUME NEW from \in Pc, NEW to \in Flushing, Saving(a, from, to)
      PROVE  /\ mem' \in [Process -> MemState] /\ Stale(a) \in BOOLEAN
             /\ Go(a, to) /\ Holds(a)
             /\ mem[Home[a]].rows \in Rows /\ mem[Home[a]].meta \in Metas
  <2>1. to \in Pc
    BY DEF Pc, Flushing
  <2>2. mem[Home[a]] \in MemState
    BY <1>0
  <2>. QED
    BY <1>9, <2>1, <2>2, SavingDoes DEF Saving, MemState
<1>10. CASE OpenIndex(a)
  <2>1. /\ Saving(a, "openindex", "saveindex") /\ index' = Torn
        /\ hist' = [hist EXCEPT !.stale = Stale(a)]
        /\ UNCHANGED <<buf, loop, meta, skill, recipe, crashes>>
    BY <1>10 DEF OpenIndex
  <2>2. "openindex" \in Pc /\ "saveindex" \in Flushing
    BY DEF Pc, Flushing
  <2>3. /\ mem' \in [Process -> MemState] /\ Stale(a) \in BOOLEAN
        /\ Go(a, "saveindex") /\ Holds(a)
    BY <1>9, <2>1, <2>2
  <2>4. hist' \in HistState
    BY <1>0, <2>1, <2>3, HistStale
  <2>. QED
    BY <1>0, <1>5, <2>1, <2>2, <2>3, <2>4 DEF Rows
<1>11. CASE SaveIndex(a)
  <2>1. /\ Saving(a, "saveindex", "openmeta") /\ index' = mem[Home[a]].rows
        /\ hist' = [hist EXCEPT !.stale = Stale(a)]
        /\ UNCHANGED <<buf, loop, meta, skill, recipe, crashes>>
    BY <1>11 DEF SaveIndex
  <2>2. "saveindex" \in Pc /\ "openmeta" \in Flushing
    BY DEF Pc, Flushing
  <2>3. /\ mem' \in [Process -> MemState] /\ Stale(a) \in BOOLEAN
        /\ Go(a, "openmeta") /\ Holds(a) /\ mem[Home[a]].rows \in Rows
    BY <1>9, <2>1, <2>2
  <2>4. hist' \in HistState
    BY <1>0, <2>1, <2>3, HistStale
  <2>. QED
    BY <1>0, <1>5, <2>1, <2>2, <2>3, <2>4
<1>12. CASE OpenMeta(a)
  <2>1. /\ Saving(a, "openmeta", "savemeta") /\ meta' = Torn
        /\ hist' = [hist EXCEPT !.stale = Stale(a)]
        /\ UNCHANGED <<buf, loop, index, skill, recipe, crashes>>
    BY <1>12 DEF OpenMeta
  <2>2. "openmeta" \in Pc /\ "savemeta" \in Flushing
    BY DEF Pc, Flushing
  <2>3. /\ mem' \in [Process -> MemState] /\ Stale(a) \in BOOLEAN
        /\ Go(a, "savemeta") /\ Holds(a)
    BY <1>9, <2>1, <2>2
  <2>4. hist' \in HistState
    BY <1>0, <2>1, <2>3, HistStale
  <2>. QED
    BY <1>0, <1>5, <2>1, <2>2, <2>3, <2>4
<1>13. CASE SaveMeta(a)
  <2>1. /\ Saving(a, "savemeta", "readskill") /\ meta' = mem[Home[a]].meta
        /\ hist' = [hist EXCEPT !.stale = Stale(a), !.kept = @ \cup {a}]
        /\ UNCHANGED <<buf, loop, index, skill, recipe, crashes>>
    BY <1>13 DEF SaveMeta
  <2>2. "savemeta" \in Pc /\ "readskill" \in Flushing
    BY DEF Pc, Flushing
  <2>3. /\ mem' \in [Process -> MemState] /\ Stale(a) \in BOOLEAN
        /\ Go(a, "readskill") /\ Holds(a) /\ mem[Home[a]].meta \in Metas
    BY <1>9, <2>1, <2>2
  <2>4. hist' \in HistState
    BY <1>0, <2>1, <2>3, HistKept
  <2>. QED
    BY <1>0, <1>5, <2>1, <2>2, <2>3, <2>4
<1>14. ASSUME Write(a), \/ Holds(a) /\ loop' = [loop EXCEPT ![Home[a]] = None]
                        \/ UNCHANGED loop
       PROVE  Types' /\ Flow'
  <2>1. /\ skill' = agent[a].seen \cup {a} /\ End(a)
        /\ hist' = [hist EXCEPT !.raced = @ \/ ~(skill \subseteq agent[a].seen),
                                !.noted = @ \cup {a}]
        /\ UNCHANGED <<buf, mem, index, meta, recipe, crashes>>
    BY <1>14 DEF Write
  <2>2. skill' \in SUBSET Agent
    BY <2>1 DEF AgentState
  <2>3. hist' \in HistState
    BY <1>0, <2>1, HistNoted
  <2>4. Moves(a, "done", agent[a].n, 0)
    BY <2>1, EndMoves
  <2>5. /\ loop' \in [Process -> Agent \cup {None}]
        /\ \A p \in Process : p # Home[a] => loop'[p] = loop[p]
        /\ \/ loop'[Home[a]] = loop[Home[a]]
           \/ loop[Home[a]] = a /\ loop'[Home[a]] = None
    BY <1>0, <1>14, FreeDoes DEF Holds
  <2>6. OthersTyped
    BY <1>0, <2>1, <2>2, <2>3, <2>5 DEF OthersTyped
  <2>7. Flow'
    BY <2>1, <2>4, <2>5, FlowMoves DEF Flushing, Planning
  <2>. QED
    BY <2>4, <2>6, <2>7, TypesMoves
<1>15. CASE WriteSkill(a) \/ WriteLesson(a)
  BY <1>14, <1>15 DEF WriteSkill, WriteLesson
<1>16. CASE SkipSkill(a)
  <2>1. /\ Holds(a) /\ End(a) /\ loop' = [loop EXCEPT ![Home[a]] = None]
        /\ UNCHANGED <<buf, mem, files, recipe, crashes, hist>>
    BY <1>16 DEF SkipSkill
  <2>2. Moves(a, "done", agent[a].n, 0)
    BY <2>1, EndMoves
  <2>3. /\ loop' \in [Process -> Agent \cup {None}]
        /\ \A p \in Process : p # Home[a] => loop'[p] = loop[p]
        /\ loop[Home[a]] = a /\ loop'[Home[a]] = None
    BY <2>1, FreeDoes DEF Holds
  <2>4. OthersTyped
    BY <1>0, <2>1, <2>3 DEF OthersTyped, files
  <2>5. Flow'
    BY <2>1, <2>2, <2>3, FlowMoves DEF Flushing, Planning
  <2>. QED
    BY <2>2, <2>4, <2>5, TypesMoves
<1>. QED
  BY <1>1, <1>2, <1>3, <1>6, <1>7, <1>8, <1>10, <1>11, <1>12, <1>13, <1>15, <1>16
     DEF AgentStep, Flush

(* ... and by a crash. *)
LEMMA TypesCrash ==
  ASSUME Types, Flow, NEW p \in Process, Crash(p)
  PROVE  Types' /\ Flow'
<1>1. Types'
  BY CrashDoes, CrashLoses DEF Types, files
<1>2. \A q \in Process : loop'[q] # None => Home[loop'[q]] = q
  BY CrashDoes DEF Flow
<1>3. ASSUME NEW b \in Agent
      PROVE  /\ agent'[b].pc \in Flushing => loop'[Home[b]] = b
             /\ agent'[b].pc = "write" /\ KindOf[b] # "lesson" => loop'[Home[b]] = b
             /\ agent'[b].pc = "look" => KindOf[b] = "lesson"
             /\ agent'[b].pc = "plan" => agent'[b].n = 0
             /\ agent'[b].pc = "acting" => agent'[b].n > 0
             /\ agent'[b].n + agent'[b].left <= Steps[b]
             /\ agent'[b].pc \in Planning => recipe'[b] = <<>>
  <2>1. CASE Home[b] # p
    <3>1. agent'[b] = agent[b] /\ recipe'[b] = recipe[b] /\ loop'[Home[b]] = loop[Home[b]]
      BY <2>1, Counters, CrashDoes, CrashLoses DEF Doomed
    <3>. QED
      BY <3>1 DEF Flow, Holds, At
  <2>2. CASE At(b, "done")
    <3>1. agent'[b] = agent[b]
      BY <2>2, CrashDoes
    <3>. QED
      BY <2>2, <3>1 DEF Flow, At, Flushing, Planning
  <2>3. CASE Home[b] = p /\ ~At(b, "done")
    <3>1. CASE agent'[b].pc = "done" /\ agent'[b].left = 0
      <4>1. agent'[b].n = agent[b].n
        BY <2>3, CrashDoes
      <4>. QED
        BY <3>1, <4>1, Counters DEF Flushing, Planning
    <3>2. CASE /\ agent'[b].pc = "step" /\ agent'[b].left = agent[b].left
               /\ KindOf[b] = "host" /\ loop[p] # b
      <4>1. agent'[b].n = agent[b].n
        BY <2>3, CrashDoes
      <4>2. recipe[b] = <<>>
        <5>1. agent[b].pc \in Pc
          BY Counters DEF AgentState
        <5>2. agent[b].pc \notin Flushing \cup {"write", "look", "done"}
          BY <2>3, <3>2 DEF Flow, Holds, At
        <5>. QED
          BY <5>1, <5>2 DEF Flow, Pc, Flushing, Planning
      <4>3. recipe'[b] = <<>>
        BY <4>2, CrashLoses
      <4>. QED
        BY <3>2, <4>1, <4>3, Counters DEF Flushing
    <3>. QED
      BY <2>3, <3>1, <3>2, CrashDoes
  <2>. QED
    BY <2>1, <2>2, <2>3
<1>4. Flow'
  BY <1>2, <1>3 DEF Flow, Holds, At
<1>. QED
  BY <1>1, <1>4

-----------------------------------------------------------------------------
(* A verified action is on one shelf, and once. *)

LEMMA ShelfAt ==
  ASSUME NEW bf, NEW rc
  PROVE  /\ \A p \in Process : <<"buf", p>> \in Shelf /\ Shelves(bf, rc)[<<"buf", p>>] = bf[p]
         /\ \A a \in Agent : /\ <<"recipe", a>> \in Shelf
                             /\ Shelves(bf, rc)[<<"recipe", a>>] = rc[a]
         /\ \A s \in Shelf : \/ \E p \in Process : s = <<"buf", p>>
                             \/ \E a \in Agent : s = <<"recipe", a>>
BY DEF Shelf, Shelves

LEMMA ShelfSeq ==
  ASSUME NEW bf \in [Process -> Seq(Action)], NEW rc \in [Agent -> Seq(Action)], NEW s \in Shelf
  PROVE  Shelves(bf, rc)[s] \in Seq(Action)
<1>1. \/ \E p \in Process : s = <<"buf", p>>
      \/ \E a \in Agent : s = <<"recipe", a>>
  BY DEF Shelf
<1>2. CASE \E p \in Process : s = <<"buf", p>>
  BY <1>2, ShelfAt
<1>3. CASE \E a \in Agent : s = <<"recipe", a>>
  BY <1>3, ShelfAt
<1>. QED
  BY <1>1, <1>2, <1>3

(* A new action is put on a shelf, behind those of its agent. *)
LEMMA StockAppend ==
  ASSUME NEW h, NEW h2, NEW verified, NEW lost, NEW act \in Action, NEW s0 \in Shelf,
         Stocked(h, verified, lost), act \notin verified,
         h[s0] \in Seq(Action),
         h2[s0] = Append(h[s0], act),
         \A s \in Shelf : s # s0 => h2[s] = h[s],
         \A i \in 1..Len(h[s0]) : h[s0][i][1] = act[1] => h[s0][i][2] < act[2]
  PROVE  Stocked(h2, verified \cup {act}, lost)
<1>1. /\ Len(h2[s0]) = Len(h[s0]) + 1 /\ Len(h[s0]) \in Nat
      /\ \A i \in 1..Len(h[s0]) : h2[s0][i] = h[s0][i]
      /\ h2[s0][Len(h[s0]) + 1] = act
  BY DEF Action
<1>2. lost \subseteq verified \cup {act}
  BY DEF Stocked
<1>3. ASSUME NEW s \in Shelf, NEW i \in 1..Len(h2[s])
      PROVE  \/ i \in 1..Len(h[s]) /\ h2[s][i] = h[s][i]
             \/ s = s0 /\ i = Len(h[s0]) + 1 /\ h2[s][i] = act
  BY <1>1
<1>4. \A s \in Shelf : \A i \in 1..Len(h2[s]) :
        h2[s][i] \in verified \cup {act} /\ h2[s][i] \notin lost
  BY <1>3 DEF Stocked
<1>5. ASSUME NEW s \in Shelf, NEW t \in Shelf, NEW i \in 1..Len(h2[s]), NEW j \in 1..Len(h2[t]),
             h2[s][i] = h2[t][j]
      PROVE  s = t /\ i = j
  BY <1>3, <1>5 DEF Stocked
<1>6. ASSUME NEW s \in Shelf, NEW i \in 1..Len(h2[s]), NEW j \in 1..Len(h2[s]),
             i < j, h2[s][i][1] = h2[s][j][1]
      PROVE  h2[s][i][2] < h2[s][j][2]
  <2>1. CASE s # s0
    BY <1>6, <2>1 DEF Stocked
  <2>2. CASE s = s0
    <3>0. \A m, k \in 1..Len(h[s0]) :
            m < k /\ h[s0][m][1] = h[s0][k][1] => h[s0][m][2] < h[s0][k][2]
      BY DEF Stocked
    <3>1. i \in 1..Len(h[s0]) /\ h2[s][i] = h[s0][i]
      <4>1. i \in 1..Len(h2[s0]) /\ j \in 1..Len(h2[s0]) /\ i < j
        BY <1>6, <2>2
      <4>2. i \in 1..Len(h[s0])
        BY <1>1, <4>1
      <4>. QED
        BY <1>1, <2>2, <4>2
    <3>2. CASE j \in 1..Len(h[s0])
      <4>1. h2[s][j] = h[s0][j]
        BY <1>1, <2>2, <3>2
      <4>. QED
        BY <1>6, <3>0, <3>1, <3>2, <4>1
    <3>3. CASE j = Len(h[s0]) + 1
      <4>1. h2[s][j] = act
        BY <1>1, <2>2, <3>3
      <4>2. i \in 1..Len(h[s0]) /\ h[s0][i][1] = act[1]
        BY <1>6, <2>2, <3>1, <4>1
      <4>3. h[s0][i][2] < act[2]
        BY <4>2
      <4>. QED
        BY <3>1, <4>1, <4>3
    <3>. QED
      BY <1>3, <2>2, <3>2, <3>3
  <2>. QED
    BY <2>1, <2>2
<1>7. ASSUME NEW x \in verified \cup {act}, x \notin lost
      PROVE  \E s \in Shelf : \E i \in 1..Len(h2[s]) : h2[s][i] = x
  <2>1. CASE x = act
    BY <1>1, <2>1
  <2>2. CASE x \in verified
    <3>1. PICK s \in Shelf : \E i \in 1..Len(h[s]) : h[s][i] = x
      BY <1>7, <2>2 DEF Stocked
    <3>2. PICK i \in 1..Len(h[s]) : h[s][i] = x
      BY <3>1
    <3>3. CASE s = s0
      <4>1. i \in 1..Len(h2[s0]) /\ h2[s0][i] = x
        BY <1>1, <3>2, <3>3
      <4>. QED
        BY <4>1
    <3>4. CASE s # s0
      BY <3>2, <3>4
    <3>. QED
      BY <3>3, <3>4
  <2>. QED
    BY <2>1, <2>2
<1>. QED
  BY <1>2, <1>4, <1>5, <1>6, <1>7 DEF Stocked

(* All that is on a shelf is put on an empty one. *)
LEMMA StockMove ==
  ASSUME NEW h, NEW h2, NEW verified, NEW lost, NEW s0 \in Shelf, NEW t0 \in Shelf,
         Stocked(h, verified, lost), s0 # t0, h[t0] = <<>>,
         h2[s0] = <<>>, h2[t0] = h[s0],
         \A s \in Shelf : s # s0 /\ s # t0 => h2[s] = h[s]
  PROVE  Stocked(h2, verified, lost)
<1>. DEFINE from(s) == IF s = t0 THEN s0 ELSE s
<1>1. ASSUME NEW s \in Shelf, NEW i \in 1..Len(h2[s])
      PROVE  from(s) \in Shelf /\ h2[s] = h[from(s)] /\ s # s0
  BY <1>1
<1>2. lost \subseteq verified
  BY DEF Stocked
<1>3. \A s \in Shelf : \A i \in 1..Len(h2[s]) : h2[s][i] \in verified /\ h2[s][i] \notin lost
  BY <1>1 DEF Stocked
<1>4. ASSUME NEW s \in Shelf, NEW t \in Shelf, NEW i \in 1..Len(h2[s]), NEW j \in 1..Len(h2[t]),
             h2[s][i] = h2[t][j]
      PROVE  s = t /\ i = j
  <2>1. /\ from(s) \in Shelf /\ from(t) \in Shelf
        /\ h2[s] = h[from(s)] /\ h2[t] = h[from(t)] /\ s # s0 /\ t # s0
    BY <1>1
  <2>2. from(s) = from(t) /\ i = j
    <3>. HIDE DEF from
    <3>. QED
      BY <1>4, <2>1 DEF Stocked
  <2>. QED
    BY <2>1, <2>2
<1>5. ASSUME NEW s \in Shelf, NEW i \in 1..Len(h2[s]), NEW j \in 1..Len(h2[s]),
             i < j, h2[s][i][1] = h2[s][j][1]
      PROVE  h2[s][i][2] < h2[s][j][2]
  <2>1. from(s) \in Shelf /\ h2[s] = h[from(s)]
    BY <1>1
  <2>. HIDE DEF from
  <2>. QED
    BY <1>5, <2>1 DEF Stocked
<1>6. ASSUME NEW x \in verified, x \notin lost
      PROVE  \E s \in Shelf : \E i \in 1..Len(h2[s]) : h2[s][i] = x
  <2>1. PICK s \in Shelf : \E i \in 1..Len(h[s]) : h[s][i] = x
    BY <1>6 DEF Stocked
  <2>2. s # t0
    BY <2>1
  <2>3. CASE s = s0
    BY <2>1, <2>3
  <2>4. CASE s # s0
    BY <2>1, <2>2, <2>4
  <2>. QED
    BY <2>3, <2>4
<1>. QED
  BY <1>2, <1>3, <1>4, <1>5, <1>6 DEF Stocked

(* Some shelves are emptied, and what was on them is lost. *)
LEMMA StockClear ==
  ASSUME NEW h, NEW h2, NEW verified, NEW lost, NEW lost2, NEW T \in SUBSET Shelf,
         Stocked(h, verified, lost),
         \A s \in T : h2[s] = <<>>,
         \A s \in Shelf : s \notin T => h2[s] = h[s],
         \A x : x \in lost2 <=> x \in lost \/ \E s \in T : \E i \in 1..Len(h[s]) : h[s][i] = x
  PROVE  Stocked(h2, verified, lost2)
<1>1. ASSUME NEW s \in Shelf, NEW i \in 1..Len(h2[s])
      PROVE  s \notin T /\ h2[s] = h[s]
  BY <1>1
<1>2. lost2 \subseteq verified
  BY DEF Stocked
<1>3. ASSUME NEW s \in Shelf, NEW i \in 1..Len(h2[s])
      PROVE  h2[s][i] \in verified /\ h2[s][i] \notin lost2
  <2>1. s \notin T /\ h2[s] = h[s] /\ i \in 1..Len(h[s])
    BY <1>1
  <2>2. h[s][i] \in verified /\ h[s][i] \notin lost
    BY <2>1 DEF Stocked
  <2>3. \A t \in T : \A j \in 1..Len(h[t]) : h[t][j] # h[s][i]
    BY <2>1 DEF Stocked
  <2>. QED
    BY <2>1, <2>2, <2>3
<1>4. \A s, t \in Shelf : \A i \in 1..Len(h2[s]), j \in 1..Len(h2[t]) :
        h2[s][i] = h2[t][j] => s = t /\ i = j
  BY <1>1 DEF Stocked
<1>5. \A s \in Shelf : \A i, j \in 1..Len(h2[s]) :
        i < j /\ h2[s][i][1] = h2[s][j][1] => h2[s][i][2] < h2[s][j][2]
  BY <1>1 DEF Stocked
<1>6. ASSUME NEW x \in verified, x \notin lost2
      PROVE  \E s \in Shelf : \E i \in 1..Len(h2[s]) : h2[s][i] = x
  <2>1. PICK s \in Shelf : \E i \in 1..Len(h[s]) : h[s][i] = x
    BY <1>6 DEF Stocked
  <2>2. s \notin T
    BY <1>6, <2>1
  <2>. QED
    BY <2>1, <2>2
<1>. QED
  BY <1>2, <1>3, <1>4, <1>5, <1>6 DEF Stocked

(* The calls an agent has made only grow, and one it makes is new. *)
Grows == \A b \in Agent :
  /\ agent'[b].n >= agent[b].n
  /\ agent'[b].pc = "acting" => agent'[b].n > agent[b].n \/ agent'[b] = agent[b]

LEMMA MovesGrow ==
  ASSUME Types, Flow, NEW a \in Agent, NEW w, NEW n \in Nat, NEW left, Moves(a, w, n, left),
         n >= agent[a].n, w = "acting" => n > agent[a].n
  PROVE  Grows
<1>1. ASSUME NEW b \in Agent
      PROVE  /\ agent'[b].n >= agent[b].n
             /\ agent'[b].pc = "acting" => agent'[b].n > agent[b].n \/ agent'[b] = agent[b]
  <2>1. agent[b].n \in Nat
    BY Counters
  <2>. QED
    BY <2>1 DEF Moves
<1>. QED
  BY <1>1 DEF Grows

LEMMA GrowsCounted ==
  ASSUME Types, Types', Flow, Grows, Counted(agent, hist.verified),
         hist'.verified = hist.verified
  PROVE  Counted(agent', hist'.verified)
<1>1. hist.verified \in SUBSET Action
  BY DEF Types, HistState
<1>2. ASSUME NEW act \in hist.verified
      PROVE  /\ act[2] <= agent'[act[1]].n
             /\ agent'[act[1]].pc = "acting" => act[2] < agent'[act[1]].n
  <2>1. act[1] \in Agent /\ act[2] \in Nat
    BY <1>1 DEF Action
  <2>2. agent[act[1]].n \in Nat /\ agent'[act[1]].n \in Nat
    BY <2>1 DEF Types, AgentState
  <2>3. /\ act[2] <= agent[act[1]].n
        /\ agent[act[1]].pc = "acting" => act[2] < agent[act[1]].n
    BY DEF Counted
  <2>. QED
    BY <2>1, <2>2, <2>3 DEF Grows
<1>. QED
  BY <1>2 DEF Counted

LEMMA HeldSame ==
  ASSUME Types, Types', Flow, Held, Grows, UNCHANGED <<buf, recipe>>,
         hist'.verified = hist.verified, hist'.lost = hist.lost
  PROVE  Held'
<1>1. Counted(agent', hist'.verified)
  BY GrowsCounted DEF Held
<1>. QED
  BY <1>1 DEF Held

LEMMA QuietGrows ==
  ASSUME Types, Flow, NEW a \in Agent,
         Plan(a) \/ Call(a) \/ Unverified(a) \/ Recovered(a) \/ GiveUp(a)
           \/ ReadSkill(a) \/ Look(a)
  PROVE  Grows
<1>. USE Counters
<1>1. ASSUME NEW w, NEW left, Moves(a, w, agent[a].n, left), w # "acting"
      PROVE  Grows
  BY <1>1, MovesGrow
<1>2. CASE Plan(a)
  <2>1. CASE End(a)
    BY <1>1, <2>1, EndMoves
  <2>2. ASSUME NEW n \in 1..Steps[a], Set(a, [agent[a] EXCEPT !.pc = "step", !.left = n])
        PROVE  Grows
    <3>1. n \in Nat
      OBVIOUS
    <3>2. Moves(a, "step", agent[a].n, n)
      BY <2>2, <3>1, PlanMoves
    <3>. QED
      BY <1>1, <3>2
  <2>. QED
    BY <1>2, <2>1, <2>2 DEF Plan
<1>3. CASE Call(a)
  <2>1. agent[a].left > 0 /\ agent[a].pc = "step"
    BY <1>3 DEF Call, At
  <2>2. ASSUME NEW t \in Tool,
               Set(a, [agent[a] EXCEPT !.pc = "acting", !.left = @ - 1, !.n = @ + 1, !.tool = t])
        PROVE  Grows
    <3>1. Moves(a, "acting", agent[a].n + 1, agent[a].left - 1)
      BY <2>1, <2>2, CallMoves
    <3>. QED
      BY <3>1, MovesGrow
  <2>3. ASSUME Set(a, [agent[a] EXCEPT !.left = @ - 1, !.ok = FALSE])
        PROVE  Grows
    <3>1. Moves(a, "step", agent[a].n, agent[a].left - 1)
      BY <2>1, <2>3, MissMoves
    <3>. QED
      BY <1>1, <3>1
  <2>. QED
    BY <1>3, <2>2, <2>3 DEF Call
<1>4. CASE Unverified(a) \/ Recovered(a)
  <2>1. CASE Set(a, Returned(a, FALSE))
    <3>1. Moves(a, "step", agent[a].n, agent[a].left)
      BY <2>1, FALSE \in BOOLEAN, ReturnMoves
    <3>. QED
      BY <1>1, <3>1
  <2>2. CASE Go(a, "recovering")
    <3>1. Moves(a, "recovering", agent[a].n, agent[a].left)
      BY <2>2, GoMoves DEF Pc
    <3>. QED
      BY <1>1, <3>1
  <2>. QED
    BY <1>4, <2>1, <2>2 DEF Unverified, Recovered
<1>5. CASE GiveUp(a)
  BY <1>1, <1>5, EndMoves DEF GiveUp
<1>6. CASE ReadSkill(a) \/ Look(a)
  <2>1. Set(a, [agent[a] EXCEPT !.pc = "write", !.seen = skill])
    BY <1>6 DEF ReadSkill, Look, Read
  <2>2. Moves(a, "write", agent[a].n, agent[a].left)
    BY <2>1, ReadMoves
  <2>. QED
    BY <1>1, <2>2
<1>. QED
  BY <1>2, <1>3, <1>4, <1>5, <1>6

(* The verified action is put on the shelf of its process. *)
LEMMA RecordHeld ==
  ASSUME Types, Types', Flow, Held, NEW a \in Agent, At(a, "acting"), Record(a),
         UNCHANGED recipe, Moves(a, "step", agent[a].n, agent[a].left)
  PROVE  Held'
<1>. DEFINE act == <<a, agent[a].n>>
            s0 == <<"buf", Home[a]>>
            h == Shelves(buf, recipe)
            h2 == Shelves(buf', recipe')
<1>1. /\ act \in Action
      /\ buf'[Home[a]] = Append(buf[Home[a]], act)
      /\ \A p \in Process : p # Home[a] => buf'[p] = buf[p]
      /\ hist'.verified = hist.verified \cup {act} /\ hist'.lost = hist.lost
  BY RecordDoes
<1>2. /\ Home[a] \in Process /\ s0 \in Shelf /\ hist.verified \in SUBSET Action
      /\ \A s \in Shelf : h[s] \in Seq(Action)
  BY Counters, ShelfAt, ShelfSeq DEF Types, HistState
<1>3. /\ Stocked(h, hist.verified, hist.lost) /\ Counted(agent, hist.verified)
  BY DEF Held
<1>4. /\ h[s0] = buf[Home[a]] /\ h2[s0] = Append(h[s0], act)
  <2>1. h[s0] = buf[Home[a]]
    BY <1>2, ShelfAt
  <2>2. h2[s0] = buf'[Home[a]]
    BY <1>2, ShelfAt
  <2>. QED
    BY <1>1, <2>1, <2>2
<1>5. ASSUME NEW s \in Shelf, s # s0
      PROVE  h2[s] = h[s]
  <2>1. CASE \E p \in Process : s = <<"buf", p>>
    <3>1. PICK p \in Process : s = <<"buf", p>>
      BY <2>1
    <3>2. p # Home[a]
      BY <1>5, <3>1
    <3>. QED
      BY <1>1, <3>1, <3>2, ShelfAt
  <2>2. CASE \E b \in Agent : s = <<"recipe", b>>
    BY <2>2, ShelfAt
  <2>. QED
    BY <2>1, <2>2 DEF Shelf
<1>6. ASSUME NEW x \in hist.verified, x[1] = a
      PROVE  x[2] < agent[a].n
  <2>1. x[2] < agent[x[1]].n
    BY <1>3, <1>6 DEF Counted, At
  <2>. QED
    BY <1>6, <2>1
<1>7. act \notin hist.verified
  <2>1. act[1] = a /\ act[2] = agent[a].n /\ agent[a].n \in Nat
    BY Counters
  <2>. HIDE DEF act
  <2>. QED
    BY <1>6, <2>1
<1>8. \A i \in 1..Len(h[s0]) : h[s0][i][1] = act[1] => h[s0][i][2] < act[2]
  <2>1. \A i \in 1..Len(h[s0]) : h[s0][i] \in hist.verified
    <3>. HIDE DEF h, s0
    <3>. QED
      BY <1>2, <1>3 DEF Stocked
  <2>. QED
    BY <1>6, <2>1
<1>9. Stocked(h2, hist.verified \cup {act}, hist.lost)
  <2>1. act \in Action /\ s0 \in Shelf /\ h[s0] \in Seq(Action) /\ h2[s0] = Append(h[s0], act)
    BY <1>1, <1>2, <1>4
  <2>2. \A s \in Shelf : s # s0 => h2[s] = h[s]
    BY <1>5
  <2>. HIDE DEF h, h2, act, s0
  <2>. QED
    BY <1>3, <1>7, <1>8, <2>1, <2>2, StockAppend
<1>10. Counted(agent', hist.verified \cup {act})
  <2>1. ASSUME NEW x \in hist.verified \cup {act}
        PROVE  /\ x[2] <= agent'[x[1]].n
               /\ agent'[x[1]].pc # "acting" \/ x[2] < agent'[x[1]].n
    <3>1. agent'[a].n = agent[a].n /\ agent'[a].pc = "step" /\ agent[a].n \in Nat
          /\ \A b \in Agent : b # a => agent'[b] = agent[b]
      BY Counters DEF Moves
    <3>2. CASE x = act
      BY <3>1, <3>2
    <3>3. CASE x \in hist.verified
      <4>1. x[1] \in Agent /\ x[2] <= agent[x[1]].n
            /\ (agent[x[1]].pc = "acting" => x[2] < agent[x[1]].n)
        BY <1>2, <1>3, <3>3 DEF Counted, Action
      <4>. QED
        BY <3>1, <4>1
    <3>. QED
      BY <3>2, <3>3
  <2>. HIDE DEF act
  <2>. QED
    BY <2>1 DEF Counted
<1>. QED
  <2>. HIDE DEF act
  <2>. QED
    BY <1>1, <1>9, <1>10 DEF Held

(* What a step takes off the shelves is lost. *)
LEMMA ClearHeld ==
  ASSUME Types, Types', Flow, Held, Grows, hist'.verified = hist.verified,
         NEW P \in SUBSET Process, NEW A \in SUBSET Agent,
         \A p \in Process : buf'[p] = IF p \in P THEN <<>> ELSE buf[p],
         \A a \in Agent : recipe'[a] = IF a \in A THEN <<>> ELSE recipe[a],
         \A x : x \in hist'.lost <=> \/ x \in hist.lost
                                     \/ \E p \in P : x \in ToSet(buf[p])
                                     \/ \E a \in A : x \in ToSet(recipe[a])
  PROVE  Held'
<1>. DEFINE T == {s \in Shelf : (s[1] = "buf" /\ s[2] \in P) \/ (s[1] = "recipe" /\ s[2] \in A)}
            h == Shelves(buf, recipe)
            h2 == Shelves(buf', recipe')
<1>1. \A p \in Process : <<"buf", p>> \in Shelf /\ (<<"buf", p>> \in T <=> p \in P)
  BY DEF Shelf
<1>2. \A a \in Agent : <<"recipe", a>> \in Shelf /\ (<<"recipe", a>> \in T <=> a \in A)
  BY DEF Shelf
<1>3. ASSUME NEW s \in Shelf
      PROVE  \/ \E p \in Process : s = <<"buf", p>>
             \/ \E a \in Agent : s = <<"recipe", a>>
  BY DEF Shelf
<1>4. /\ \A p \in Process : h[<<"buf", p>>] = buf[p]
      /\ \A a \in Agent : h[<<"recipe", a>>] = recipe[a]
  BY ShelfAt
<1>5. /\ \A p \in Process : h2[<<"buf", p>>] = buf'[p]
      /\ \A a \in Agent : h2[<<"recipe", a>>] = recipe'[a]
  BY ShelfAt
<1>6. T \in SUBSET Shelf
  OBVIOUS
<1>. HIDE DEF T, h, h2
<1>7. ASSUME NEW s \in Shelf
      PROVE  h2[s] = IF s \in T THEN <<>> ELSE h[s]
  BY <1>1, <1>2, <1>3, <1>4, <1>5
<1>8. /\ \A p \in Process : \A x : x \in ToSet(buf[p]) <=> \E i \in 1..Len(buf[p]) : buf[p][i] = x
      /\ \A a \in Agent :
           \A x : x \in ToSet(recipe[a]) <=> \E i \in 1..Len(recipe[a]) : recipe[a][i] = x
  <2>1. /\ \A p \in Process : buf[p] \in Seq(Action)
        /\ \A a \in Agent : recipe[a] \in Seq(Action)
    BY DEF Types
  <2>. QED
    BY <2>1, ToSetMember
<1>9. ASSUME NEW x
      PROVE  x \in hist'.lost
               <=> x \in hist.lost \/ \E s \in T : \E i \in 1..Len(h[s]) : h[s][i] = x
  <2>1. x \in hist'.lost <=> \/ x \in hist.lost
                             \/ \E p \in P : x \in ToSet(buf[p])
                             \/ \E a \in A : x \in ToSet(recipe[a])
    OBVIOUS
  <2>2. ASSUME NEW p \in P
        PROVE  /\ <<"buf", p>> \in T
               /\ x \in ToSet(buf[p]) <=>
                    \E i \in 1..Len(h[<<"buf", p>>]) : h[<<"buf", p>>][i] = x
    <3>1. p \in Process /\ h[<<"buf", p>>] = buf[p] /\ <<"buf", p>> \in T
      BY <1>1, <1>4
    <3>2. x \in ToSet(buf[p]) <=> \E i \in 1..Len(buf[p]) : buf[p][i] = x
      BY <1>8, <3>1
    <3>. QED
      BY <3>1, <3>2
  <2>3. ASSUME NEW a \in A
        PROVE  /\ <<"recipe", a>> \in T
               /\ x \in ToSet(recipe[a]) <=>
                    \E i \in 1..Len(h[<<"recipe", a>>]) : h[<<"recipe", a>>][i] = x
    <3>1. a \in Agent /\ h[<<"recipe", a>>] = recipe[a] /\ <<"recipe", a>> \in T
      BY <1>2, <1>4
    <3>2. x \in ToSet(recipe[a]) <=> \E i \in 1..Len(recipe[a]) : recipe[a][i] = x
      BY <1>8, <3>1
    <3>. QED
      BY <3>1, <3>2
  <2>4. ASSUME NEW s \in T
        PROVE  (\E p \in P : s = <<"buf", p>>) \/ (\E a \in A : s = <<"recipe", a>>)
    BY <1>1, <1>2, <1>3, <1>6
  <2>5. ASSUME x \in hist'.lost
        PROVE  x \in hist.lost \/ \E s \in T : \E i \in 1..Len(h[s]) : h[s][i] = x
    BY <2>1, <2>2, <2>3, <2>5
  <2>6. ASSUME NEW s \in T, \E i \in 1..Len(h[s]) : h[s][i] = x
        PROVE  x \in hist'.lost
    BY <2>1, <2>2, <2>3, <2>4, <2>6
  <2>. QED
    BY <2>1, <2>5, <2>6
<1>10. Stocked(h, hist.verified, hist.lost)
  BY DEF Held, h
<1>11. Stocked(h2, hist.verified, hist'.lost)
  <2>1. /\ \A s \in T : h2[s] = <<>>
        /\ \A s \in Shelf : s \notin T => h2[s] = h[s]
    BY <1>6, <1>7
  <2>2. \A x : x \in hist'.lost
                 <=> x \in hist.lost \/ \E s \in T : \E i \in 1..Len(h[s]) : h[s][i] = x
    BY <1>9
  <2>. QED
    <3>1. \A h3, v, l, l2 :
            /\ Stocked(h, v, l)
            /\ \A s \in T : h3[s] = <<>>
            /\ \A s \in Shelf : s \notin T => h3[s] = h[s]
            /\ \A x : x \in l2 <=> x \in l \/ \E s \in T : \E i \in 1..Len(h[s]) : h[s][i] = x
            => Stocked(h3, v, l2)
      BY <1>6, StockClear
    <3>. QED
      BY <1>10, <2>1, <2>2, <3>1
<1>12. Counted(agent', hist'.verified)
  BY GrowsCounted DEF Held
<1>. QED
  BY <1>11, <1>12 DEF Held, h2

(* The flush takes the buffer of its process as the recipe of its agent.   *)
LEMMA TakeHeld ==
  ASSUME Types, Types', Flow, Held, NEW a \in Agent, Take(a)
  PROVE  Held'
<1>. DEFINE p == Home[a]
<1>1. /\ buf' = [buf EXCEPT ![p] = <<>>] /\ recipe[a] = <<>>
      /\ p \in Process /\ buf \in [Process -> Seq(Action)] /\ recipe \in [Agent -> Seq(Action)]
  BY Counters DEF Take, Complete, At, Flow, Planning, Types
<1>2. /\ buf'[p] = <<>>
      /\ \A q \in Process : q # p => buf'[q] = buf[q]
  BY <1>1
<1>3. ASSUME NEW w, NEW left, Moves(a, w, agent[a].n, left), w # "acting"
      PROVE  Grows
  BY <1>3, Counters, MovesGrow
<1>4. ASSUME End(a), UNCHANGED recipe, hist'.verified = hist.verified,
             hist'.lost = hist.lost \cup ToSet(buf[p])
      PROVE  Held'
  <2>1. Grows
    BY <1>3, <1>4, EndMoves
  <2>2. /\ \A q \in Process : buf'[q] = IF q \in {p} THEN <<>> ELSE buf[q]
        /\ \A b \in Agent : recipe'[b] = IF b \in {} THEN <<>> ELSE recipe[b]
    BY <1>2, <1>4
  <2>3. \A x : x \in hist'.lost <=> \/ x \in hist.lost
                                     \/ \E q \in {p} : x \in ToSet(buf[q])
                                     \/ \E b \in {} : x \in ToSet(recipe[b])
    BY <1>4
  <2>4. {p} \in SUBSET Process /\ {} \in SUBSET Agent
    BY <1>1
  <2>. QED
    BY <1>4, <2>1, <2>2, <2>3, <2>4, ClearHeld
<1>5. CASE buf[p] = <<>> /\ End(a) /\ UNCHANGED <<loop, recipe, hist>>
  <2>1. ToSet(buf[p]) = {}
    BY <1>1, <1>5, ToSetMember
  <2>. QED
    BY <1>4, <1>5, <2>1
<1>6. CASE /\ buf[p] # <<>>
           /\ End(a)
           /\ hist' = [hist EXCEPT !.lost = @ \cup ToSet(buf[p])]
           /\ UNCHANGED <<loop, recipe>>
  <2>1. hist \in HistState /\ ToSet(buf[p]) \in SUBSET Action
    BY <1>1, ToSetMember DEF Types
  <2>2. hist'.verified = hist.verified /\ hist'.lost = hist.lost \cup ToSet(buf[p])
    BY <1>6, <2>1, HistDropped
  <2>. QED
    BY <1>4, <1>6, <2>2
<1>7. CASE /\ recipe' = [recipe EXCEPT ![a] = buf[p]]
           /\ Go(a, IF mem[p].loaded THEN "add" ELSE "loadindex")
           /\ loop' = [loop EXCEPT ![p] = a]
           /\ UNCHANGED hist
  <2>. DEFINE h == Shelves(buf, recipe)
              h2 == Shelves(buf', recipe')
              s0 == <<"buf", p>>
              t0 == <<"recipe", a>>
  <2>1. recipe'[a] = buf[p] /\ \A b \in Agent : b # a => recipe'[b] = recipe[b]
    BY <1>1, <1>7
  <2>2. s0 \in Shelf /\ t0 \in Shelf /\ s0 # t0
    BY <1>1 DEF Shelf
  <2>3. h[s0] = buf[p] /\ h[t0] = <<>>
    BY <1>1, ShelfAt
  <2>4. h2[s0] = buf'[p]
    BY <1>1, ShelfAt
  <2>5. h2[t0] = recipe'[a]
    BY <1>1, ShelfAt
  <2>6. h2[s0] = <<>> /\ h2[t0] = h[s0]
    BY <1>2, <2>1, <2>3, <2>4, <2>5
  <2>7. ASSUME NEW s \in Shelf, s # s0, s # t0
        PROVE  h2[s] = h[s]
    <3>1. CASE \E q \in Process : s = <<"buf", q>>
      <4>1. PICK q \in Process : s = <<"buf", q>>
        BY <3>1
      <4>2. buf'[q] = buf[q]
        BY <1>2, <2>7, <4>1
      <4>. QED
        BY <4>1, <4>2, ShelfAt
    <3>2. CASE \E b \in Agent : s = <<"recipe", b>>
      <4>1. PICK b \in Agent : s = <<"recipe", b>>
        BY <3>2
      <4>2. recipe'[b] = recipe[b]
        BY <2>1, <2>7, <4>1
      <4>. QED
        BY <4>1, <4>2, ShelfAt
    <3>. QED
      BY <3>1, <3>2 DEF Shelf
  <2>8. Stocked(h2, hist.verified, hist.lost)
    <3>1. Stocked(h, hist.verified, hist.lost)
      BY DEF Held
    <3>2. \A s \in Shelf : s # s0 /\ s # t0 => h2[s] = h[s]
      BY <2>7
    <3>. HIDE DEF h, h2, s0, t0
    <3>. QED
      BY <2>2, <2>3, <2>6, <3>1, <3>2, StockMove
  <2>9. Grows
    <3>. DEFINE w == IF mem[p].loaded THEN "add" ELSE "loadindex"
    <3>1. w \in Pc /\ w # "acting"
      BY DEF Pc
    <3>2. Moves(a, w, agent[a].n, agent[a].left)
      BY <1>7, <3>1, GoMoves
    <3>. HIDE DEF w
    <3>. QED
      BY <1>3, <3>1, <3>2
  <2>10. Counted(agent', hist'.verified)
    BY <1>7, <2>9, GrowsCounted DEF Held
  <2>. QED
    BY <1>7, <2>8, <2>10 DEF Held
<1>. QED
  BY <1>5, <1>6, <1>7 DEF Take

LEMMA RaiseHeld ==
  ASSUME Types, Types', Flow, Held, NEW a \in Agent, NEW half \in BOOLEAN, Raise(a, half),
         UNCHANGED buf
  PROVE  Held'
<1>1. Grows
  <2>1. Moves(a, "done", agent[a].n, 0)
    BY RaiseDoes
  <2>. QED
    BY <2>1, Counters, MovesGrow
<1>2. /\ \A q \in Process : buf'[q] = IF q \in {} THEN <<>> ELSE buf[q]
      /\ \A b \in Agent : recipe'[b] = IF b \in {a} THEN <<>> ELSE recipe[b]
  BY RaiseDoes
<1>3. /\ hist'.verified = hist.verified
      /\ \A x : x \in hist'.lost <=> \/ x \in hist.lost
                                     \/ \E q \in {} : x \in ToSet(buf[q])
                                     \/ \E b \in {a} : x \in ToSet(recipe[b])
  <2>1. hist'.verified = hist.verified /\ hist'.lost = hist.lost \cup ToSet(recipe[a])
    BY RaiseDoes
  <2>. QED
    BY <2>1
<1>4. {} \in SUBSET Process /\ {a} \in SUBSET Agent
  OBVIOUS
<1>. QED
  BY <1>1, <1>2, <1>3, <1>4, ClearHeld

LEMMA CrashHeld ==
  ASSUME Types, Types', Flow, Held, NEW p \in Process, Crash(p)
  PROVE  Held'
<1>1. Grows
  <2>1. ASSUME NEW b \in Agent
        PROVE  /\ agent'[b].n >= agent[b].n
               /\ agent'[b].pc = "acting" => agent'[b].n > agent[b].n \/ agent'[b] = agent[b]
    <3>1. agent[b].n \in Nat
      BY Counters
    <3>2. agent'[b] = agent[b] \/ (agent'[b].n = agent[b].n /\ agent'[b].pc # "acting")
      BY CrashDoes
    <3>. QED
      BY <3>1, <3>2
  <2>. QED
    BY <2>1 DEF Grows
<1>. DEFINE A == {b \in Agent : Doomed(b, p)}
<1>2. /\ \A q \in Process : buf'[q] = IF q \in {p} THEN <<>> ELSE buf[q]
      /\ \A b \in Agent : recipe'[b] = IF b \in A THEN <<>> ELSE recipe[b]
  BY CrashLoses
<1>3. /\ hist'.verified = hist.verified
      /\ \A x : x \in hist'.lost <=> \/ x \in hist.lost
                                     \/ \E q \in {p} : x \in ToSet(buf[q])
                                     \/ \E b \in A : x \in ToSet(recipe[b])
  <2>1. /\ hist'.verified = hist.verified
        /\ hist'.lost = hist.lost \cup ToSet(buf[p]) \cup UNION {ToSet(recipe[b]) : b \in A}
    BY CrashLoses
  <2>2. \A x : x \in UNION {ToSet(recipe[b]) : b \in A} <=> \E b \in A : x \in ToSet(recipe[b])
    BY Zenon
  <2>. HIDE DEF A
  <2>. QED
    BY <2>1, <2>2
<1>4. {p} \in SUBSET Process /\ A \in SUBSET Agent
  OBVIOUS
<1>. HIDE DEF A
<1>. QED
  BY <1>1, <1>2, <1>3, <1>4, ClearHeld

LEMMA HeldStep ==
  ASSUME Types, Types', Flow, Held, NEW a \in Agent, AgentStep(a)
  PROVE  Held'
<1>. USE Counters
<1>1. CASE Plan(a) \/ Call(a) \/ Unverified(a) \/ Recovered(a) \/ GiveUp(a)
             \/ ReadSkill(a) \/ Look(a)
  <2>1. Quiet /\ Grows
    BY <1>1, QuietTypes, QuietGrows
  <2>. QED
    BY <2>1, HeldSame DEF Quiet
<1>2. ASSUME NEW w, NEW left, Moves(a, w, agent[a].n, left), w # "acting"
      PROVE  Grows
  BY <1>2, MovesGrow
<1>3. CASE Verified(a) \/ Accepted(a)
  <2>1. /\ At(a, "acting") /\ Set(a, Returned(a, TRUE)) /\ UNCHANGED recipe
        /\ Record(a) \/ UNCHANGED <<buf, hist>>
    BY <1>3 DEF Verified, Accepted
  <2>2. Moves(a, "step", agent[a].n, agent[a].left)
    BY <2>1, TRUE \in BOOLEAN, ReturnMoves
  <2>3. CASE Record(a)
    BY <2>1, <2>2, <2>3, RecordHeld
  <2>4. CASE UNCHANGED <<buf, hist>>
    BY <1>2, <2>1, <2>2, <2>4, HeldSame
  <2>. QED
    BY <2>1, <2>3, <2>4
<1>4. CASE Take(a)
  BY <1>4, TakeHeld
<1>5. CASE \E half \in BOOLEAN : Raise(a, half) /\ UNCHANGED buf
  BY <1>5, RaiseHeld
<1>6. ASSUME NEW w \in Pc, w # "acting", Go(a, w), UNCHANGED <<buf, recipe>>,
             hist'.verified = hist.verified, hist'.lost = hist.lost
      PROVE  Held'
  <2>1. Grows
    BY <1>2, <1>6, GoMoves
  <2>. QED
    BY <1>6, <2>1, HeldSame
<1>7. CASE LoadIndex(a) \/ LoadMeta(a) \/ Add(a)
  <2>1. CASE \E half \in BOOLEAN : Raise(a, half) /\ UNCHANGED buf
    BY <1>5, <2>1
  <2>2. CASE \E w \in {"loadmeta", "add", "openindex"} : Go(a, w) /\ UNCHANGED <<buf, recipe, hist>>
    <3>1. PICK w \in {"loadmeta", "add", "openindex"} :
            Go(a, w) /\ UNCHANGED <<buf, recipe, hist>>
      BY <2>2
    <3>2. w \in Pc /\ w # "acting"
      BY DEF Pc
    <3>. QED
      BY <1>6, <3>1, <3>2
  <2>3. TRUE \in BOOLEAN /\ FALSE \in BOOLEAN
    OBVIOUS
  <2>. QED
    BY <1>7, <2>1, <2>2, <2>3 DEF LoadIndex, LoadMeta, Add
<1>8. hist \in HistState
  BY DEF Types
<1>9. CASE OpenIndex(a) \/ SaveIndex(a) \/ OpenMeta(a)
  <2>1. /\ \E w \in {"saveindex", "openmeta", "savemeta"} : Go(a, w)
        /\ hist' = [hist EXCEPT !.stale = Stale(a)] /\ UNCHANGED <<buf, recipe>>
    BY <1>9 DEF OpenIndex, SaveIndex, OpenMeta, Saving
  <2>2. hist'.verified = hist.verified /\ hist'.lost = hist.lost
    BY <1>8, <2>1 DEF HistState
  <2>3. PICK w \in {"saveindex", "openmeta", "savemeta"} : Go(a, w)
    BY <2>1
  <2>4. w \in Pc /\ w # "acting"
    BY DEF Pc
  <2>. QED
    BY <1>6, <2>1, <2>2, <2>3, <2>4
<1>10. CASE SaveMeta(a)
  <2>1. /\ Go(a, "readskill") /\ UNCHANGED <<buf, recipe>>
        /\ hist' = [hist EXCEPT !.stale = Stale(a), !.kept = @ \cup {a}]
    BY <1>10 DEF SaveMeta, Saving
  <2>2. hist'.verified = hist.verified /\ hist'.lost = hist.lost
    BY <1>8, <2>1 DEF HistState
  <2>3. "readskill" \in Pc
    BY DEF Pc
  <2>. QED
    BY <1>6, <2>1, <2>2, <2>3
<1>11. CASE WriteSkill(a) \/ WriteLesson(a)
  <2>1. /\ End(a) /\ UNCHANGED <<buf, recipe>>
        /\ hist' = [hist EXCEPT !.raced = @ \/ ~(skill \subseteq agent[a].seen),
                                !.noted = @ \cup {a}]
    BY <1>11 DEF WriteSkill, WriteLesson, Write
  <2>2. hist'.verified = hist.verified /\ hist'.lost = hist.lost
    BY <1>8, <2>1, HistNoted
  <2>3. Grows
    BY <1>2, <2>1, EndMoves
  <2>. QED
    BY <2>1, <2>2, <2>3, HeldSame
<1>12. CASE SkipSkill(a)
  <2>1. End(a) /\ UNCHANGED <<buf, recipe, hist>>
    BY <1>12 DEF SkipSkill
  <2>2. Grows
    BY <1>2, <2>1, EndMoves
  <2>. QED
    BY <2>1, <2>2, HeldSame
<1>. QED
  BY <1>1, <1>3, <1>4, <1>7, <1>9, <1>10, <1>11, <1>12 DEF AgentStep, Flush

LEMMA InitHeld == Init => Held
<1>. SUFFICES ASSUME Init
              PROVE  Held
  OBVIOUS
<1>. DEFINE h == Shelves(buf, recipe)
<1>1. hist.verified = {} /\ hist.lost = {}
  BY DEF Init
<1>2. ASSUME NEW s \in Shelf
      PROVE  h[s] = <<>>
  <2>1. /\ \A p \in Process : buf[p] = <<>>
        /\ \A a \in Agent : recipe[a] = <<>>
    BY DEF Init
  <2>2. \/ \E p \in Process : s = <<"buf", p>>
        \/ \E a \in Agent : s = <<"recipe", a>>
    BY DEF Shelf
  <2>. QED
    BY <2>1, <2>2, ShelfAt
<1>3. Stocked(h, {}, {})
  <2>. HIDE DEF h
  <2>. QED
    BY <1>2 DEF Stocked
<1>4. Counted(agent, {})
  BY DEF Counted
<1>. QED
  BY <1>1, <1>3, <1>4 DEF Held

(* The property of the runs. *)
LEMMA HeldConserved == Types /\ Held => Conserved
<1>. SUFFICES ASSUME Types, Held
              PROVE  Conserved
  OBVIOUS
<1>. DEFINE h == Shelves(buf, recipe)
<1>1. Stocked(h, hist.verified, hist.lost)
  BY DEF Held
<1>2. /\ \A p \in Process : <<"buf", p>> \in Shelf /\ h[<<"buf", p>>] = buf[p]
      /\ \A a \in Agent : <<"recipe", a>> \in Shelf /\ h[<<"recipe", a>>] = recipe[a]
      /\ \A s \in Shelf : \/ \E p \in Process : s = <<"buf", p>>
                          \/ \E a \in Agent : s = <<"recipe", a>>
  BY ShelfAt
<1>. HIDE DEF h
<1>3. ASSUME NEW act
      PROVE  \A x : x \in Places(act) <=>
               \/ \E p \in Process : \E i \in 1..Len(buf[p]) : x = <<p, i>> /\ buf[p][i] = act
               \/ \E a \in Agent : \E i \in 1..Len(recipe[a]) : x = <<a, i>> /\ recipe[a][i] = act
  <2>1. ASSUME NEW x
        PROVE  /\ x \in UNION {{p} \X {i \in 1..Len(buf[p]) : buf[p][i] = act} : p \in Process}
                    <=> \E p \in Process : \E i \in 1..Len(buf[p]) : x = <<p, i>> /\ buf[p][i] = act
               /\ x \in UNION {{a} \X {i \in 1..Len(recipe[a]) : recipe[a][i] = act} : a \in Agent}
                    <=> \E a \in Agent : \E i \in 1..Len(recipe[a]) :
                          x = <<a, i>> /\ recipe[a][i] = act
    OBVIOUS
  <2>2. ASSUME NEW x
        PROVE  x \in Places(act) <=>
                 \/ x \in UNION {{p} \X {i \in 1..Len(buf[p]) : buf[p][i] = act} : p \in Process}
                 \/ x \in UNION {{a} \X {i \in 1..Len(recipe[a]) : recipe[a][i] = act} :
                                     a \in Agent}
    BY Zenon DEF Places
  <2>. QED
    BY <2>1, <2>2, Zenon
<1>4. ASSUME NEW act \in hist.verified, act \in hist.lost
      PROVE  Cardinality(Places(act)) = 0
  <2>1. \A s \in Shelf : \A i \in 1..Len(h[s]) : h[s][i] # act
    BY <1>1, <1>4 DEF Stocked
  <2>2. /\ \A p \in Process : \A i \in 1..Len(buf[p]) : buf[p][i] # act
        /\ \A a \in Agent : \A i \in 1..Len(recipe[a]) : recipe[a][i] # act
    <3>1. ASSUME NEW p \in Process
          PROVE  \A i \in 1..Len(buf[p]) : buf[p][i] # act
      <4>1. <<"buf", p>> \in Shelf /\ h[<<"buf", p>>] = buf[p]
        BY <1>2
      <4>. QED
        BY <2>1, <4>1
    <3>2. ASSUME NEW a \in Agent
          PROVE  \A i \in 1..Len(recipe[a]) : recipe[a][i] # act
      <4>1. <<"recipe", a>> \in Shelf /\ h[<<"recipe", a>>] = recipe[a]
        BY <1>2
      <4>. QED
        BY <2>1, <4>1
    <3>. QED
      BY <3>1, <3>2
  <2>3. Places(act) = {}
    BY <1>3, <2>2
  <2>. QED
    BY <2>3, FS_EmptySet
<1>5. ASSUME NEW act \in hist.verified, act \notin hist.lost
      PROVE  Cardinality(Places(act)) = 1
  <2>1. PICK s \in Shelf : \E i \in 1..Len(h[s]) : h[s][i] = act
    BY <1>1, <1>5 DEF Stocked
  <2>2. PICK i \in 1..Len(h[s]) : h[s][i] = act
    BY <2>1
  <2>3. \A t \in Shelf : \A j \in 1..Len(h[t]) : h[t][j] = act => t = s /\ j = i
    BY <1>1, <2>2 DEF Stocked
  <2>4. \E x : Places(act) = {x}
    <3>1. CASE \E p \in Process : s = <<"buf", p>>
      <4>1. PICK p \in Process : s = <<"buf", p>>
        BY <3>1
      <4>2. <<p, i>> \in Places(act)
        BY <1>2, <1>3, <2>2, <4>1
      <4>3. ASSUME NEW x \in Places(act)
            PROVE  x = <<p, i>>
        <5>1. ASSUME NEW q \in Process, NEW j \in 1..Len(buf[q]), buf[q][j] = act, x = <<q, j>>
              PROVE  x = <<p, i>>
          <6>1. <<"buf", q>> = s /\ j = i
            <7>1. <<"buf", q>> \in Shelf /\ h[<<"buf", q>>] = buf[q]
              BY <1>2
            <7>2. j \in 1..Len(h[<<"buf", q>>]) /\ h[<<"buf", q>>][j] = act
              BY <5>1, <7>1
            <7>. QED
              BY <2>3, <7>1, <7>2
          <6>. QED
            BY <4>1, <5>1, <6>1
        <5>2. ASSUME NEW a \in Agent, NEW j \in 1..Len(recipe[a]), recipe[a][j] = act
              PROVE  FALSE
          <6>1. <<"recipe", a>> = s
            <7>1. <<"recipe", a>> \in Shelf /\ h[<<"recipe", a>>] = recipe[a]
              BY <1>2
            <7>2. j \in 1..Len(h[<<"recipe", a>>]) /\ h[<<"recipe", a>>][j] = act
              BY <5>2, <7>1
            <7>. QED
              BY <2>3, <7>1, <7>2
          <6>. QED
            BY <4>1, <6>1
        <5>. QED
          BY <1>3, <5>1, <5>2
      <4>. QED
        BY <4>2, <4>3
    <3>2. CASE \E a \in Agent : s = <<"recipe", a>>
      <4>1. PICK a \in Agent : s = <<"recipe", a>>
        BY <3>2
      <4>2. <<a, i>> \in Places(act)
        BY <1>2, <1>3, <2>2, <4>1
      <4>3. ASSUME NEW x \in Places(act)
            PROVE  x = <<a, i>>
        <5>1. ASSUME NEW b \in Agent, NEW j \in 1..Len(recipe[b]), recipe[b][j] = act, x = <<b, j>>
              PROVE  x = <<a, i>>
          <6>1. <<"recipe", b>> = s /\ j = i
            <7>1. <<"recipe", b>> \in Shelf /\ h[<<"recipe", b>>] = recipe[b]
              BY <1>2
            <7>2. j \in 1..Len(h[<<"recipe", b>>]) /\ h[<<"recipe", b>>][j] = act
              BY <5>1, <7>1
            <7>. QED
              BY <2>3, <7>1, <7>2
          <6>. QED
            BY <4>1, <5>1, <6>1
        <5>2. ASSUME NEW p \in Process, NEW j \in 1..Len(buf[p]), buf[p][j] = act
              PROVE  FALSE
          <6>1. <<"buf", p>> = s
            <7>1. <<"buf", p>> \in Shelf /\ h[<<"buf", p>>] = buf[p]
              BY <1>2
            <7>2. j \in 1..Len(h[<<"buf", p>>]) /\ h[<<"buf", p>>][j] = act
              BY <5>2, <7>1
            <7>. QED
              BY <2>3, <7>1, <7>2
          <6>. QED
            BY <4>1, <6>1
        <5>. QED
          BY <1>3, <5>1, <5>2
      <4>. QED
        BY <4>2, <4>3
    <3>. QED
      BY <1>2, <3>1, <3>2
  <2>. QED
    BY <2>4, FS_Singleton
<1>6. \A a \in Agent : \A i, j \in 1..Len(recipe[a]) :
        i < j /\ recipe[a][i][1] = recipe[a][j][1] => recipe[a][i][2] < recipe[a][j][2]
  <2>1. ASSUME NEW a \in Agent
        PROVE  \A i, j \in 1..Len(recipe[a]) :
                 i < j /\ recipe[a][i][1] = recipe[a][j][1] => recipe[a][i][2] < recipe[a][j][2]
    <3>1. <<"recipe", a>> \in Shelf /\ h[<<"recipe", a>>] = recipe[a]
      BY <1>2
    <3>2. \A i, j \in 1..Len(h[<<"recipe", a>>]) :
            i < j /\ h[<<"recipe", a>>][i][1] = h[<<"recipe", a>>][j][1]
              => h[<<"recipe", a>>][i][2] < h[<<"recipe", a>>][j][2]
      BY <1>1, <3>1 DEF Stocked
    <3>. QED
      BY <3>1, <3>2
  <2>. QED
    BY <2>1
<1>. QED
  BY <1>4, <1>5, <1>6 DEF Conserved

-----------------------------------------------------------------------------
(* The files and the memories fit.                                         *)

LEMMA FitsMatch ==
  ASSUME NEW rows, NEW m, m # Torn => Fits(rows, m)
  PROVE  Match(rows, m)
<1>1. ASSUME rows # Torn, m # Torn, NEW i \in DOMAIN m \cap 1..Len(rows)
      PROVE  rows[i] = m[i]
  BY <1>1 DEF Fits
<1>. QED
  BY <1>1 DEF Match, Hits

LEMMA NoMetaFits ==
  ASSUME NEW rows
  PROVE  Fits(rows, NoMeta) /\ Within(NoMeta, rows)
BY DEF Fits, NoMeta, Within

LEMMA BeginsRefl ==
  ASSUME NEW s \in Seq(Agent)
  PROVE  Begins(s, s)
BY DEF Begins

LEMMA BeginsFits ==
  ASSUME NEW s \in Seq(Agent), NEW t \in Seq(Agent), NEW m \in Metas,
         Begins(s, t), Fits(t, m)
  PROVE  Fits(s, m)
<1>1. DOMAIN m \subseteq Nat \ {0}
  BY DEF Metas
<1>2. t # Torn
  BY TornAssumption
<1>. QED
  BY <1>1, <1>2 DEF Begins, Fits

(* A row and its metadata added to rows and metadata that fit.             *)
LEMMA AddFits ==
  ASSUME NEW rows \in Seq(Agent), NEW m \in Metas, NEW a \in Agent
  PROVE  LET rows2 == Append(rows, a)
             m2 == Added(m, Len(rows) + 1, a) IN
         /\ Fits(rows, m) => Fits(rows2, m2)
         /\ Within(m, rows) => Within(m2, rows2)
         /\ Saved(m2, {a})
         /\ \A all : Within(m, rows) /\ Saved(m, all) => Saved(m2, all)
         /\ \A s \in Seq(Agent) : Begins(s, rows) => Begins(s, rows2)
         /\ \A t \in Metas : Fits(rows, t) /\ Within(t, rows) =>
              Fits(rows2, t) /\ Within(t, rows2)
<1>. DEFINE n == Len(rows) + 1
            rows2 == Append(rows, a)
            m2 == Added(m, n, a)
<1>1. /\ rows2 \in Seq(Agent) /\ Len(rows2) = n /\ rows2[n] = a /\ n \in Nat \ {0}
      /\ \A i \in 1..Len(rows) : rows2[i] = rows[i]
  OBVIOUS
<1>2. /\ DOMAIN m2 = DOMAIN m \cup {n} /\ m2[n] = a
      /\ \A i \in DOMAIN m : i # n => m2[i] = m[i]
  BY DEF Added
<1>3. m2 \in Metas /\ DOMAIN m \subseteq Nat \ {0}
  BY <1>1, AddedMeta DEF Metas
<1>4. Len(rows) \in Nat /\ n = Len(rows) + 1
  OBVIOUS
<1>. HIDE DEF n, rows2, m2
<1>5. ASSUME Fits(rows, m)
      PROVE  Fits(rows2, m2)
  <2>1. \A i \in DOMAIN m : i <= Len(rows) => rows[i] = m[i]
    BY <1>5, TornAssumption DEF Fits
  <2>2. \A i \in DOMAIN m2 : i <= Len(rows2) => rows2[i] = m2[i]
    BY <1>1, <1>2, <1>3, <1>4, <2>1
  <2>. QED
    BY <2>2 DEF Fits
<1>6. Within(m, rows) => Within(m2, rows2)
  BY <1>1, <1>2, <1>3, <1>4 DEF Within
<1>7. Saved(m2, {a})
  BY <1>2 DEF Saved
<1>8. ASSUME NEW all, Within(m, rows), Saved(m, all)
      PROVE  Saved(m2, all)
  BY <1>2, <1>3, <1>4, <1>8 DEF Within, Saved
<1>9. ASSUME NEW s \in Seq(Agent), Begins(s, rows)
      PROVE  Begins(s, rows2)
  BY <1>1, <1>4, <1>9 DEF Begins
<1>10. ASSUME NEW t \in Metas, Fits(rows, t), Within(t, rows)
       PROVE  Fits(rows2, t) /\ Within(t, rows2)
  <2>1. DOMAIN t \subseteq Nat \ {0}
    BY DEF Metas
  <2>2. \A i \in DOMAIN t : i <= Len(rows) /\ rows[i] = t[i]
    BY <1>10, TornAssumption DEF Within, Fits
  <2>3. \A i \in DOMAIN t : i <= Len(rows2) /\ rows2[i] = t[i]
    BY <1>1, <1>4, <2>1, <2>2
  <2>. QED
    BY <2>3 DEF Within, Fits
<1>. QED
  BY <1>5, <1>6, <1>7, <1>8, <1>9, <1>10 DEF n, rows2, m2

(* The types of what the lemmas below compare.                             *)
LEMMA MemTypes ==
  ASSUME Types, NEW p \in Process
  PROVE  /\ mem[p] \in MemState /\ mem[p].meta \in Metas
         /\ mem[p].rows # Torn => mem[p].rows \in Seq(Agent)
         /\ index # Torn => index \in Seq(Agent)
         /\ meta # Torn => meta \in Metas
BY DEF Types, MemState, Rows

(* Who keeps the loop is alone in a flush.                                 *)
LEMMA Apart ==
  ASSUME Types, Flow, NEW a \in Agent, Holds(a)
  PROVE  \A b \in Agent : b # a /\ agent[b].pc \in Flushing => Home[b] # Home[a]
BY DEF Flow, Holds

Filing == {"loadmeta", "openindex", "saveindex", "openmeta", "savemeta"}

(* Steps of an agent that is not in the midst of loading or saving.        *)
LEMMA FiledSame ==
  ASSUME Types, Filed, UNCHANGED <<mem, index, meta>>,
         \A b \in Agent : agent[b].pc \in Filing \/ agent'[b].pc \in Filing =>
                            agent'[b].pc = agent[b].pc,
         hist'.stale = hist.stale, hist'.torn = hist.torn, hist'.kept = hist.kept
  PROVE  Filed'
<1>1. RowsFit(agent', mem', index')
  BY DEF Filed, RowsFit, Filing
<1>2. ASSUME ~hist.stale
      PROVE  MetaFit(agent', mem', index', meta')
  BY <1>2 DEF Filed, MetaFit, Filing
<1>3. ASSUME ~hist.stale, ~hist.torn
      PROVE  KeptFit(agent', mem', meta', hist'.kept)
  BY <1>3 DEF Filed, KeptFit, Filing
<1>. QED
  BY <1>1, <1>2, <1>3 DEF Filed

LEMMA MovesFiled ==
  ASSUME Types, Filed, NEW a \in Agent, NEW w, NEW n, NEW left, Moves(a, w, n, left),
         agent[a].pc \notin Filing, w \notin Filing,
         UNCHANGED <<mem, index, meta>>,
         hist'.stale = hist.stale, hist'.torn = hist.torn, hist'.kept = hist.kept
  PROVE  Filed'
<1>1. \A b \in Agent : agent[b].pc \in Filing \/ agent'[b].pc \in Filing =>
                         agent'[b].pc = agent[b].pc
  BY DEF Moves
<1>. QED
  BY <1>1, FiledSame

LEMMA CrashFiled ==
  ASSUME Types, Flow, Filed, NEW p \in Process, Crash(p)
  PROVE  Filed'
<1>1. /\ mem'[p] = Unloaded /\ (\A q \in Process : q # p => mem'[q] = mem[q])
      /\ index' = index /\ meta' = meta
      /\ hist'.stale = hist.stale /\ hist'.torn = hist.torn /\ hist'.kept = hist.kept
  BY CrashDoes, CrashLoses DEF files
<1>2. /\ ~UpToDate(mem'[p]) /\ Fits(mem'[p].rows, mem'[p].meta)
  BY <1>1, NoMetaFits DEF Unloaded, UpToDate
<1>3. ASSUME NEW b \in Agent
      PROVE  /\ Home[b] # p => agent'[b] = agent[b]
             /\ agent'[b].pc \in Filing => Home[b] # p
  <2>1. CASE Home[b] # p
    BY <2>1, CrashDoes
  <2>2. CASE Home[b] = p /\ At(b, "done")
    BY <2>2, CrashDoes DEF At, Filing
  <2>3. CASE Home[b] = p /\ ~At(b, "done")
    BY <2>3, CrashDoes DEF Filing
  <2>. QED
    BY <2>1, <2>2, <2>3
<1>4. \A b \in Agent : Home[b] \in Process
  BY HomeAssumption
<1>5. RowsFit(agent', mem', index')
  BY <1>1, <1>2, <1>3, <1>4 DEF Filed, RowsFit, Filing
<1>6. ASSUME ~hist.stale
      PROVE  MetaFit(agent', mem', index', meta')
  BY <1>1, <1>2, <1>3, <1>4, <1>6 DEF Filed, MetaFit, Filing
<1>7. ASSUME ~hist.stale, ~hist.torn
      PROVE  KeptFit(agent', mem', meta', hist'.kept)
  BY <1>1, <1>2, <1>3, <1>4, <1>7 DEF Filed, KeptFit, Filing
<1>. QED
  BY <1>1, <1>5, <1>6, <1>7 DEF Filed

(* The index is loaded. *)
LEMMA LoadIndexFiled ==
  ASSUME Types, Flow, Filed, NEW a \in Agent, LoadIndex(a)
  PROVE  Filed'
<1>. DEFINE p == Home[a]
<1>1. /\ At(a, "loadindex") /\ Holds(a) /\ p \in Process /\ index' = index /\ meta' = meta
      /\ mem \in [Process -> MemState]
  BY Counters DEF LoadIndex, files, Types
<1>2. \A b \in Agent : /\ Home[b] \in Process
                       /\ b # a /\ agent[b].pc \in Flushing => Home[b] # p
  BY <1>1, Apart, HomeAssumption
<1>3. CASE index = Torn
  <2>1. /\ Raise(a, FALSE) /\ mem' = [mem EXCEPT ![p] =
             [loaded |-> TRUE, rows |-> Torn, meta |-> NoMeta, fresh |-> TRUE]]
    BY <1>3 DEF LoadIndex
  <2>2. /\ mem'[p].rows = Torn /\ mem'[p].meta = NoMeta
        /\ \A q \in Process : q # p => mem'[q] = mem[q]
    BY <1>1, <2>1
  <2>3. /\ Moves(a, "done", agent[a].n, 0)
        /\ hist'.stale = hist.stale /\ hist'.torn = (hist.torn \/ FALSE)
        /\ hist'.kept = hist.kept
    BY <2>1, FALSE \in BOOLEAN, RaiseDoes
  <2>4. ~UpToDate(mem'[p]) /\ Fits(mem'[p].rows, mem'[p].meta)
    BY <2>2, NoMetaFits DEF UpToDate
  <2>5. ASSUME NEW b \in Agent, agent'[b].pc \in Filing
        PROVE  b # a /\ agent'[b] = agent[b] /\ Home[b] # p
    BY <1>2, <2>3, <2>5 DEF Moves, Filing, Flushing
  <2>6. \A b \in Agent : Home[b] # p => agent'[b] = agent[b]
    BY <2>3 DEF Moves
  <2>7. RowsFit(agent', mem', index')
    BY <1>1, <1>2, <2>2, <2>4, <2>5 DEF Filed, RowsFit, Filing
  <2>8. ASSUME ~hist.stale
        PROVE  MetaFit(agent', mem', index', meta')
    BY <1>1, <1>2, <2>2, <2>4, <2>5, <2>8 DEF Filed, MetaFit, Filing
  <2>9. ASSUME ~hist.stale, ~hist.torn
        PROVE  KeptFit(agent', mem', meta', hist'.kept)
    BY <1>1, <1>2, <2>2, <2>3, <2>4, <2>5, <2>6, <2>9 DEF Filed, KeptFit, Filing
  <2>. QED
    BY <2>3, <2>7, <2>8, <2>9 DEF Filed
<1>4. CASE index # Torn
  <2>1. /\ Go(a, "loadmeta") /\ hist' = hist
        /\ mem' = [mem EXCEPT ![p] =
             [loaded |-> TRUE, rows |-> index, meta |-> NoMeta, fresh |-> TRUE]]
    BY <1>4 DEF LoadIndex
  <2>2. /\ mem'[p].rows = index /\ mem'[p].meta = NoMeta
        /\ \A q \in Process : q # p => mem'[q] = mem[q]
    BY <1>1, <2>1
  <2>3. Moves(a, "loadmeta", agent[a].n, agent[a].left)
    BY <2>1, GoMoves DEF Pc
  <2>4. /\ agent'[a].pc = "loadmeta"
        /\ \A b \in Agent : Home[b] # p => agent'[b] = agent[b]
        /\ \A b \in Agent : b # a => agent'[b] = agent[b]
    BY <2>3 DEF Moves
  <2>5. ASSUME NEW b \in Agent, agent'[b].pc \in Filing, b # a
        PROVE  agent'[b] = agent[b] /\ Home[b] # p
    BY <1>2, <2>4, <2>5 DEF Filing, Flushing
  <2>6. index \in Seq(Agent) /\ Begins(index, index)
    BY <1>1, <1>4, MemTypes, BeginsRefl
  <2>7. RowsFit(agent', mem', index')
    <3>1. ASSUME NEW q \in Process, UpToDate(mem'[q])
          PROVE  Begins(index, mem'[q].rows)
      BY <1>4, <2>2, <2>6, <3>1 DEF Filed, RowsFit
    <3>2. ASSUME NEW b \in Agent, b # a
          PROVE  /\ agent'[b].pc \in {"openmeta", "savemeta"} /\ UpToDate(mem'[Home[b]]) =>
                      index = mem'[Home[b]].rows
                 /\ agent'[b].pc \in {"loadmeta", "openindex", "saveindex", "openmeta", "savemeta"}
                      => mem'[Home[b]].rows # Torn
      BY <1>2, <2>2, <2>5, <3>2 DEF Filed, RowsFit, Filing
    <3>. QED
      BY <1>1, <1>4, <2>2, <2>4, <3>1, <3>2 DEF RowsFit
  <2>8. ASSUME ~hist.stale
        PROVE  MetaFit(agent', mem', index', meta')
    <3>1. MetaFit(agent, mem, index, meta)
      BY <2>8 DEF Filed
    <3>2. ASSUME NEW q \in Process
          PROVE  /\ Fits(mem'[q].rows, mem'[q].meta)
                 /\ UpToDate(mem'[q]) => Within(mem'[q].meta, mem'[q].rows)
                 /\ UpToDate(mem'[q]) /\ meta # Torn =>
                      Fits(mem'[q].rows, meta) /\ Within(meta, mem'[q].rows)
      BY <1>4, <2>2, <3>1, NoMetaFits DEF MetaFit
    <3>3. ASSUME NEW b \in Agent, agent'[b].pc = "loadmeta"
          PROVE  /\ meta # Torn => Fits(mem'[Home[b]].rows, meta)
                 /\ Begins(mem'[Home[b]].rows, index)
                 /\ \A q \in Process : UpToDate(mem'[q]) => Begins(mem'[Home[b]].rows, mem'[q].rows)
      <4>1. CASE b = a
        BY <1>1, <1>4, <2>2, <2>6, <3>1, <4>1 DEF Filed, RowsFit, MetaFit
      <4>2. CASE b # a
        BY <1>2, <1>4, <2>2, <2>5, <3>1, <3>3, <4>2 DEF MetaFit, Filing
      <4>. QED
        BY <4>1, <4>2
    <3>. QED
      BY <1>1, <3>1, <3>2, <3>3 DEF MetaFit
  <2>9. ASSUME ~hist.stale, ~hist.torn
        PROVE  KeptFit(agent', mem', meta', hist'.kept)
    <3>1. KeptFit(agent, mem, meta, hist.kept)
      BY <2>9 DEF Filed
    <3>2. ASSUME NEW q \in Process, UpToDate(mem'[q]),
                 \A b \in Agent : Home[b] = q => agent'[b].pc # "loadmeta"
          PROVE  Saved(mem'[q].meta, hist.kept)
      <4>1. q # p
        BY <2>4, <3>2
      <4>2. mem'[q] = mem[q] /\ \A b \in Agent : Home[b] = q => agent[b].pc # "loadmeta"
        BY <2>2, <2>4, <3>2, <4>1
      <4>. QED
        BY <3>1, <3>2, <4>2 DEF KeptFit
    <3>3. ASSUME NEW b \in Agent,
                 agent'[b].pc \in {"openindex", "saveindex", "openmeta", "savemeta"}
          PROVE  Saved(mem'[Home[b]].meta, {b})
      <4>1. b # a
        BY <2>4, <3>3
      <4>2. agent'[b] = agent[b] /\ mem'[Home[b]] = mem[Home[b]]
        BY <1>2, <2>2, <2>5, <3>3, <4>1 DEF Filing
      <4>. QED
        BY <3>1, <3>3, <4>2 DEF KeptFit
    <3>. QED
      BY <1>1, <2>1, <3>1, <3>2, <3>3 DEF KeptFit
  <2>. QED
    BY <2>1, <2>7, <2>8, <2>9 DEF Filed
<1>. QED
  BY <1>3, <1>4

(* The metadata are loaded. *)
LEMMA LoadMetaFiled ==
  ASSUME Types, Flow, Filed, NEW a \in Agent, LoadMeta(a)
  PROVE  Filed'
<1>. DEFINE p == Home[a]
<1>1. /\ At(a, "loadmeta") /\ Holds(a) /\ p \in Process /\ index' = index /\ meta' = meta
      /\ mem \in [Process -> MemState]
  BY Counters DEF LoadMeta, files, Types
<1>2. \A b \in Agent : /\ Home[b] \in Process
                       /\ b # a /\ agent[b].pc \in Flushing => Home[b] # p
  BY <1>1, Apart, HomeAssumption
<1>3. CASE meta = Torn
  <2>1. Raise(a, TRUE) /\ mem' = mem
    BY <1>3 DEF LoadMeta
  <2>2. /\ Moves(a, "done", agent[a].n, 0)
        /\ hist'.stale = hist.stale /\ hist'.torn = (hist.torn \/ TRUE)
    BY <2>1, TRUE \in BOOLEAN, RaiseDoes
  <2>3. ASSUME NEW b \in Agent, agent'[b].pc \in Filing
        PROVE  agent'[b] = agent[b]
    BY <2>2, <2>3 DEF Moves, Filing
  <2>4. RowsFit(agent', mem', index')
    BY <1>1, <2>1, <2>3 DEF Filed, RowsFit, Filing
  <2>5. ASSUME ~hist.stale
        PROVE  MetaFit(agent', mem', index', meta')
    BY <1>1, <2>1, <2>3, <2>5 DEF Filed, MetaFit, Filing
  <2>. QED
    BY <2>2, <2>4, <2>5 DEF Filed
<1>4. CASE meta # Torn
  <2>1. Go(a, "add") /\ hist' = hist /\ mem' = [mem EXCEPT ![p].meta = meta]
    BY <1>4 DEF LoadMeta
  <2>2. /\ mem'[p].rows = mem[p].rows /\ mem'[p].meta = meta /\ mem'[p].fresh = mem[p].fresh
        /\ \A q \in Process : q # p => mem'[q] = mem[q]
    <3>1. mem'[p] = [mem[p] EXCEPT !.meta = meta] /\ \A q \in Process : q # p => mem'[q] = mem[q]
      BY <1>1, <2>1
    <3>2. mem[p] \in MemState
      BY <1>1
    <3>. QED
      BY <3>1, <3>2 DEF MemState
  <2>3. /\ \A q \in Process : mem'[q].rows = mem[q].rows /\ (UpToDate(mem'[q]) <=> UpToDate(mem[q]))
    BY <2>2 DEF UpToDate
  <2>4. Moves(a, "add", agent[a].n, agent[a].left)
    BY <2>1, GoMoves DEF Pc
  <2>5. /\ agent'[a].pc = "add" /\ \A b \in Agent : b # a => agent'[b] = agent[b]
    BY <2>4 DEF Moves
  <2>6. ASSUME NEW b \in Agent, agent'[b].pc \in Filing
        PROVE  b # a /\ agent'[b] = agent[b] /\ Home[b] # p
    BY <1>2, <2>5, <2>6 DEF Filing, Flushing
  <2>7. RowsFit(agent', mem', index')
    BY <1>1, <1>2, <2>3, <2>6 DEF Filed, RowsFit, Filing
  <2>8. ASSUME ~hist.stale
        PROVE  MetaFit(agent', mem', index', meta')
    <3>1. MetaFit(agent, mem, index, meta)
      BY <2>8 DEF Filed
    <3>2. ASSUME NEW q \in Process
          PROVE  /\ Fits(mem'[q].rows, mem'[q].meta)
                 /\ UpToDate(mem'[q]) => Within(mem'[q].meta, mem'[q].rows)
      <4>1. CASE q = p
        BY <1>1, <1>4, <2>2, <2>3, <3>1, <4>1 DEF MetaFit, At
      <4>2. CASE q # p
        BY <2>2, <3>1, <4>2 DEF MetaFit
      <4>. QED
        BY <4>1, <4>2
    <3>3. ASSUME NEW b \in Agent, agent'[b].pc = "loadmeta"
          PROVE  agent[b].pc = "loadmeta"
      BY <2>6, <3>3 DEF Filing
    <3>. QED
      BY <1>1, <1>2, <2>3, <3>1, <3>2, <3>3 DEF MetaFit
  <2>9. ASSUME ~hist.stale, ~hist.torn
        PROVE  KeptFit(agent', mem', meta', hist'.kept)
    <3>1. KeptFit(agent, mem, meta, hist.kept)
      BY <2>9 DEF Filed
    <3>2. ASSUME NEW q \in Process, UpToDate(mem'[q]),
                 \A b \in Agent : Home[b] = q => agent'[b].pc # "loadmeta"
          PROVE  Saved(mem'[q].meta, hist.kept)
      <4>1. CASE q = p
        BY <1>4, <2>2, <3>1, <4>1 DEF KeptFit
      <4>2. CASE q # p
        BY <1>1, <2>2, <2>3, <2>5, <3>1, <3>2, <4>2 DEF KeptFit
      <4>. QED
        BY <4>1, <4>2
    <3>3. ASSUME NEW b \in Agent,
                 agent'[b].pc \in {"openindex", "saveindex", "openmeta", "savemeta"}
          PROVE  Saved(mem'[Home[b]].meta, {b})
      BY <1>2, <2>2, <2>6, <3>1, <3>3 DEF KeptFit, Filing
    <3>. QED
      BY <1>1, <2>1, <3>1, <3>2, <3>3 DEF KeptFit
  <2>. QED
    BY <2>1, <2>7, <2>8, <2>9 DEF Filed
<1>. QED
  BY <1>3, <1>4

(* A row is added, in memory. *)
LEMMA AddFiled ==
  ASSUME Types, Flow, Filed, NEW a \in Agent, Add(a)
  PROVE  Filed'
<1>. DEFINE p == Home[a]
<1>1. At(a, "add") /\ Holds(a) /\ p \in Process /\ index' = index /\ meta' = meta
  BY Counters DEF Add, files
<1>2. \A b \in Agent : /\ Home[b] \in Process
                       /\ b # a /\ agent[b].pc \in Flushing => Home[b] # p
  BY <1>1, Apart, HomeAssumption
<1>3. CASE mem[p].rows = Torn
  <2>1. Raise(a, FALSE) /\ mem' = mem
    BY <1>3 DEF Add
  <2>2. /\ Moves(a, "done", agent[a].n, 0)
        /\ hist'.stale = hist.stale /\ hist'.torn = (hist.torn \/ FALSE)
        /\ hist'.kept = hist.kept
    BY <2>1, FALSE \in BOOLEAN, RaiseDoes
  <2>3. hist'.torn = hist.torn
    BY <2>2 DEF Types, HistState
  <2>. QED
    BY <1>1, <2>1, <2>2, <2>3, MovesFiled DEF At, Filing
<1>4. CASE mem[p].rows # Torn
  <2>. DEFINE rows == mem[p].rows
              m == mem[p].meta
              rows2 == Append(rows, a)
              m2 == Added(m, Len(rows) + 1, a)
  <2>1. /\ Moves(a, "openindex", agent[a].n, agent[a].left)
        /\ rows \in Seq(Agent)
        /\ mem'[p].rows = rows2 /\ mem'[p].meta = m2 /\ mem'[p].fresh = mem[p].fresh
        /\ \A q \in Process : q # p => mem'[q] = mem[q]
        /\ hist' = hist
    BY <1>4, AddDoes
  <2>2. /\ agent'[a].pc = "openindex" /\ \A b \in Agent : b # a => agent'[b] = agent[b]
    BY <2>1 DEF Moves
  <2>3. ASSUME NEW b \in Agent, agent'[b].pc \in Filing, b # a
        PROVE  agent'[b] = agent[b] /\ Home[b] # p
    BY <1>2, <2>2, <2>3 DEF Filing, Flushing
  <2>4. m \in Metas /\ (index # Torn => index \in Seq(Agent)) /\ (meta # Torn => meta \in Metas)
    BY <1>1, MemTypes
  <2>5. /\ Fits(rows, m) => Fits(rows2, m2)
        /\ Within(m, rows) => Within(m2, rows2)
        /\ Saved(m2, {a})
        /\ \A all : Within(m, rows) /\ Saved(m, all) => Saved(m2, all)
        /\ \A s \in Seq(Agent) : Begins(s, rows) => Begins(s, rows2)
        /\ \A t \in Metas : Fits(rows, t) /\ Within(t, rows) =>
             Fits(rows2, t) /\ Within(t, rows2)
    BY <2>1, <2>4, AddFits
  <2>6. rows2 # Torn
    <3>1. rows2 \in Seq(Agent)
      BY <2>1
    <3>. QED
      BY <3>1, TornAssumption
  <2>7. \A q \in Process : UpToDate(mem'[q]) <=> UpToDate(mem[q])
    BY <1>4, <2>1, <2>6 DEF UpToDate
  <2>8. RowsFit(agent', mem', index')
    <3>1. ASSUME NEW q \in Process, UpToDate(mem'[q]), index # Torn
          PROVE  Begins(index, mem'[q].rows)
      <4>1. Begins(index, mem[q].rows)
        BY <2>7, <3>1 DEF Filed, RowsFit
      <4>. HIDE DEF rows2, m2
      <4>. QED
        BY <2>1, <2>4, <2>5, <3>1, <4>1
    <3>2. ASSUME NEW b \in Agent, b # a
          PROVE  /\ agent'[b].pc \in {"openmeta", "savemeta"} /\ UpToDate(mem'[Home[b]]) =>
                      index = mem'[Home[b]].rows
                 /\ agent'[b].pc \in {"loadmeta", "openindex", "saveindex", "openmeta", "savemeta"}
                      => mem'[Home[b]].rows # Torn
      BY <1>2, <2>1, <2>3, <3>2 DEF Filed, RowsFit, Filing
    <3>. HIDE DEF rows2, m2
    <3>. QED
      BY <1>1, <2>1, <2>2, <2>6, <3>1, <3>2 DEF RowsFit
  <2>9. ASSUME ~hist.stale
        PROVE  MetaFit(agent', mem', index', meta')
    <3>1. MetaFit(agent, mem, index, meta)
      BY <2>9 DEF Filed
    <3>. HIDE DEF rows2, m2
    <3>2. ASSUME NEW q \in Process
          PROVE  /\ Fits(mem'[q].rows, mem'[q].meta)
                 /\ UpToDate(mem'[q]) => Within(mem'[q].meta, mem'[q].rows)
                 /\ UpToDate(mem'[q]) /\ meta # Torn =>
                      Fits(mem'[q].rows, meta) /\ Within(meta, mem'[q].rows)
      <4>1. CASE q = p
        BY <1>1, <2>1, <2>4, <2>5, <2>7, <3>1, <4>1 DEF MetaFit
      <4>2. CASE q # p
        BY <2>1, <3>1, <4>2 DEF MetaFit
      <4>. QED
        BY <4>1, <4>2
    <3>3. ASSUME NEW b \in Agent, agent'[b].pc = "loadmeta"
          PROVE  /\ meta # Torn => Fits(mem'[Home[b]].rows, meta)
                 /\ index # Torn => Begins(mem'[Home[b]].rows, index)
                 /\ \A q \in Process : UpToDate(mem'[q]) => Begins(mem'[Home[b]].rows, mem'[q].rows)
      <4>1. b # a
        BY <2>2, <3>3
      <4>2. agent[b].pc = "loadmeta" /\ mem'[Home[b]] = mem[Home[b]] /\ Home[b] \in Process
        BY <1>2, <2>1, <2>3, <3>3, <4>1 DEF Filing
      <4>3. mem[Home[b]].rows \in Seq(Agent)
        BY <4>2, MemTypes DEF Filed, RowsFit
      <4>4. ASSUME NEW q \in Process, UpToDate(mem'[q])
            PROVE  Begins(mem[Home[b]].rows, mem'[q].rows)
        <5>1. Begins(mem[Home[b]].rows, mem[q].rows)
          BY <2>7, <3>1, <4>2, <4>4 DEF MetaFit
        <5>. QED
          BY <2>1, <2>5, <4>3, <5>1
      <4>. QED
        BY <3>1, <4>2, <4>4 DEF MetaFit
    <3>. QED
      BY <1>1, <3>1, <3>2, <3>3 DEF MetaFit
  <2>10. ASSUME ~hist.stale, ~hist.torn
         PROVE  KeptFit(agent', mem', meta', hist'.kept)
    <3>1. KeptFit(agent, mem, meta, hist.kept) /\ MetaFit(agent, mem, index, meta)
      BY <2>10 DEF Filed
    <3>. HIDE DEF rows2, m2
    <3>2. ASSUME NEW q \in Process, UpToDate(mem'[q]),
                 \A b \in Agent : Home[b] = q => agent'[b].pc # "loadmeta"
          PROVE  Saved(mem'[q].meta, hist.kept)
      <4>1. UpToDate(mem[q]) /\ \A b \in Agent : Home[b] = q => agent[b].pc # "loadmeta"
        BY <1>1, <2>2, <2>7, <3>2 DEF At
      <4>2. Saved(mem[q].meta, hist.kept) /\ Within(mem[q].meta, mem[q].rows)
        BY <3>1, <4>1 DEF KeptFit, MetaFit
      <4>. QED
        BY <2>1, <2>5, <4>2
    <3>3. ASSUME NEW b \in Agent,
                 agent'[b].pc \in {"openindex", "saveindex", "openmeta", "savemeta"}
          PROVE  Saved(mem'[Home[b]].meta, {b})
      <4>1. CASE b = a
        BY <2>1, <2>5, <4>1
      <4>2. CASE b # a
        BY <1>2, <2>1, <2>3, <3>1, <3>3, <4>2 DEF KeptFit, Filing
      <4>. QED
        BY <4>1, <4>2
    <3>. QED
      BY <1>1, <2>1, <3>1, <3>2, <3>3 DEF KeptFit
  <2>. QED
    BY <2>1, <2>8, <2>9, <2>10 DEF Filed
<1>. QED
  BY <1>3, <1>4

(* What the four steps of a save have in common. *)
LEMMA SavingFrame ==
  ASSUME Types, Flow, Filed, NEW a \in Agent, NEW from \in Flushing, NEW to \in Flushing,
         Saving(a, from, to)
  PROVE  /\ Home[a] \in Process
         /\ agent[a].pc = from /\ agent'[a].pc = to
         /\ \A b \in Agent : b # a => agent'[b] = agent[b]
         /\ \A b \in Agent : b # a /\ agent'[b].pc \in Flushing =>
              Home[b] \in Process /\ Home[b] # Home[a]
         /\ \A q \in Process : /\ mem'[q].rows = mem[q].rows /\ mem'[q].meta = mem[q].meta
                               /\ UpToDate(mem'[q]) <=> UpToDate(mem[q]) /\ q = Home[a]
<1>1. from \in Pc /\ to \in Pc
  BY DEF Pc, Flushing
<1>2. /\ At(a, from) /\ Holds(a)
      /\ Moves(a, to, agent[a].n, agent[a].left)
      /\ \A p \in Process : /\ mem'[p].rows = mem[p].rows /\ mem'[p].meta = mem[p].meta
                            /\ mem'[p].fresh = (mem[p].fresh /\ p = Home[a])
  BY <1>1, SavingDoes
<1>3. \A b \in Agent : b # a /\ agent[b].pc \in Flushing => Home[b] # Home[a]
  BY <1>2, Apart
<1>. QED
  BY <1>2, <1>3, HomeAssumption DEF Moves, At, UpToDate

(* The history that a save writes. *)
LEMMA StaleDoes ==
  ASSUME Types, Flow, NEW a \in Agent,
         hist' = [hist EXCEPT !.stale = Stale(a)]
           \/ hist' = [hist EXCEPT !.stale = Stale(a), !.kept = @ \cup {a}]
  PROVE  /\ ~hist'.stale => ~hist.stale /\ mem[Home[a]].fresh
         /\ hist'.torn = hist.torn
         /\ hist' = [hist EXCEPT !.stale = Stale(a)] => hist'.kept = hist.kept
         /\ hist' = [hist EXCEPT !.stale = Stale(a), !.kept = @ \cup {a}] =>
              hist'.kept = hist.kept \cup {a}
<1>1. hist \in HistState
  BY DEF Types
<1>2. /\ hist'.stale = Stale(a) /\ hist'.torn = hist.torn
      /\ hist' = [hist EXCEPT !.stale = Stale(a)] => hist'.kept = hist.kept
      /\ hist' = [hist EXCEPT !.stale = Stale(a), !.kept = @ \cup {a}] =>
           hist'.kept = hist.kept \cup {a}
  BY <1>1 DEF HistState
<1>. QED
  BY <1>2 DEF Stale

(* What was stored stays, until the metadata are written. *)
LEMMA SavingKept ==
  ASSUME Types, Flow, Filed, NEW a \in Agent,
         NEW from \in {"openindex", "saveindex", "openmeta"},
         NEW to \in {"saveindex", "openmeta", "savemeta"},
         Saving(a, from, to), meta' = meta \/ meta' = Torn,
         KeptFit(agent, mem, meta, hist.kept)
  PROVE  KeptFit(agent', mem', meta', hist.kept)
<1>. DEFINE p == Home[a]
<1>1. from \in Flushing /\ to \in Flushing
  BY DEF Flushing
<1>2. /\ p \in Process /\ agent[a].pc = from /\ agent'[a].pc = to
      /\ \A b \in Agent : b # a => agent'[b] = agent[b]
      /\ \A b \in Agent : b # a /\ agent'[b].pc \in Flushing => Home[b] \in Process /\ Home[b] # p
      /\ \A q \in Process : /\ mem'[q].rows = mem[q].rows /\ mem'[q].meta = mem[q].meta
                            /\ UpToDate(mem'[q]) <=> UpToDate(mem[q]) /\ q = p
  BY <1>1, SavingFrame
<1>3. meta' # Torn => Saved(meta', hist.kept)
  BY DEF KeptFit
<1>4. ASSUME NEW q \in Process, UpToDate(mem'[q]),
             \A b \in Agent : Home[b] = q => agent'[b].pc # "loadmeta"
      PROVE  Saved(mem'[q].meta, hist.kept)
  <2>1. \A b \in Agent : Home[b] = q => agent[b].pc # "loadmeta"
    BY <1>2, <1>4
  <2>2. UpToDate(mem[q]) /\ mem'[q].meta = mem[q].meta
    BY <1>2, <1>4
  <2>. QED
    BY <2>1, <2>2 DEF KeptFit
<1>5. ASSUME NEW b \in Agent,
             agent'[b].pc \in {"openindex", "saveindex", "openmeta", "savemeta"}
      PROVE  Saved(mem'[Home[b]].meta, {b})
  <2>1. agent[b].pc \in {"openindex", "saveindex", "openmeta", "savemeta"}
    BY <1>2, <1>5
  <2>2. Home[b] \in Process
    BY HomeAssumption
  <2>3. mem'[Home[b]].meta = mem[Home[b]].meta
    BY <1>2, <2>2
  <2>. QED
    BY <2>1, <2>3 DEF KeptFit
<1>. QED
  BY <1>3, <1>4, <1>5 DEF KeptFit

(* Opening a file for writing leaves nothing of it. *)
LEMMA OpenIndexFiled ==
  ASSUME Types, Flow, Filed, NEW a \in Agent, OpenIndex(a)
  PROVE  Filed'
<1>. DEFINE p == Home[a]
<1>1. /\ Saving(a, "openindex", "saveindex") /\ index' = Torn /\ meta' = meta
      /\ hist' = [hist EXCEPT !.stale = Stale(a)]
  BY DEF OpenIndex
<1>2. "openindex" \in Flushing /\ "saveindex" \in Flushing
  BY DEF Flushing
<1>3. /\ p \in Process /\ agent[a].pc = "openindex" /\ agent'[a].pc = "saveindex"
      /\ \A b \in Agent : b # a => agent'[b] = agent[b]
      /\ \A b \in Agent : b # a /\ agent'[b].pc \in Flushing => Home[b] \in Process /\ Home[b] # p
      /\ \A q \in Process : /\ mem'[q].rows = mem[q].rows /\ mem'[q].meta = mem[q].meta
                            /\ UpToDate(mem'[q]) <=> UpToDate(mem[q]) /\ q = p
  BY <1>1, <1>2, SavingFrame
<1>4. /\ ~hist'.stale => ~hist.stale
      /\ hist'.torn = hist.torn /\ hist'.kept = hist.kept
  BY <1>1, StaleDoes
<1>5. \A b \in Agent : agent'[b].pc \in Filing => Home[b] \in Process /\ (b # a => Home[b] # p)
  BY <1>3 DEF Filing, Flushing
<1>6. RowsFit(agent', mem', index')
  BY <1>1, <1>3, <1>5 DEF Filed, RowsFit, Filing
<1>7. ASSUME ~hist'.stale
      PROVE  MetaFit(agent', mem', index', meta')
  <2>1. MetaFit(agent, mem, index, meta)
    BY <1>4, <1>7 DEF Filed
  <2>2. ASSUME NEW b \in Agent, agent'[b].pc = "loadmeta"
        PROVE  agent[b].pc = "loadmeta" /\ Home[b] \in Process
    BY <1>3, <1>5, <2>2 DEF Filing
  <2>3. ASSUME NEW q \in Process
        PROVE  /\ Fits(mem'[q].rows, mem'[q].meta)
               /\ UpToDate(mem'[q]) => Within(mem'[q].meta, mem'[q].rows)
               /\ UpToDate(mem'[q]) /\ meta # Torn =>
                    Fits(mem'[q].rows, meta) /\ Within(meta, mem'[q].rows)
    BY <1>3, <2>1 DEF MetaFit
  <2>4. ASSUME NEW b \in Agent, agent'[b].pc = "loadmeta"
        PROVE  /\ meta # Torn => Fits(mem'[Home[b]].rows, meta)
               /\ \A q \in Process : UpToDate(mem'[q]) => Begins(mem'[Home[b]].rows, mem'[q].rows)
    <3>1. mem'[Home[b]].rows = mem[Home[b]].rows
      BY <1>3, <2>2, <2>4
    <3>. QED
      BY <1>3, <2>1, <2>2, <2>4, <3>1 DEF MetaFit
  <2>5. index' = Torn /\ meta' = meta /\ Fits(Torn, meta)
    BY <1>1 DEF Fits
  <2>. QED
    BY <2>3, <2>4, <2>5 DEF MetaFit
<1>8. ASSUME ~hist'.stale, ~hist'.torn
      PROVE  KeptFit(agent', mem', meta', hist'.kept)
  BY <1>1, <1>4, <1>8, SavingKept DEF Filed
<1>. QED
  BY <1>6, <1>7, <1>8 DEF Filed

LEMMA OpenMetaFiled ==
  ASSUME Types, Flow, Filed, NEW a \in Agent, OpenMeta(a)
  PROVE  Filed'
<1>. DEFINE p == Home[a]
<1>1. /\ Saving(a, "openmeta", "savemeta") /\ index' = index /\ meta' = Torn
      /\ hist' = [hist EXCEPT !.stale = Stale(a)]
  BY DEF OpenMeta
<1>2. "openmeta" \in Flushing /\ "savemeta" \in Flushing
  BY DEF Flushing
<1>3. /\ p \in Process /\ agent[a].pc = "openmeta" /\ agent'[a].pc = "savemeta"
      /\ \A b \in Agent : b # a => agent'[b] = agent[b]
      /\ \A b \in Agent : b # a /\ agent'[b].pc \in Flushing => Home[b] \in Process /\ Home[b] # p
      /\ \A q \in Process : /\ mem'[q].rows = mem[q].rows /\ mem'[q].meta = mem[q].meta
                            /\ UpToDate(mem'[q]) <=> UpToDate(mem[q]) /\ q = p
  BY <1>1, <1>2, SavingFrame
<1>4. /\ ~hist'.stale => ~hist.stale
      /\ hist'.torn = hist.torn /\ hist'.kept = hist.kept
  BY <1>1, StaleDoes
<1>5. \A b \in Agent : agent'[b].pc \in Filing => Home[b] \in Process /\ (b # a => Home[b] # p)
  BY <1>3 DEF Filing, Flushing
<1>6. RowsFit(agent', mem', index')
  BY <1>1, <1>3, <1>5 DEF Filed, RowsFit, Filing
<1>7. ASSUME ~hist'.stale
      PROVE  MetaFit(agent', mem', index', meta')
  BY <1>1, <1>3, <1>4, <1>5, <1>7 DEF Filed, MetaFit, Filing
<1>8. ASSUME ~hist'.stale, ~hist'.torn
      PROVE  KeptFit(agent', mem', meta', hist'.kept)
  BY <1>1, <1>4, <1>8, SavingKept DEF Filed
<1>. QED
  BY <1>6, <1>7, <1>8 DEF Filed

(* The index becomes the rows of the one process that is up to date.       *)
LEMMA SaveIndexFiled ==
  ASSUME Types, Flow, Filed, NEW a \in Agent, SaveIndex(a)
  PROVE  Filed'
<1>. DEFINE p == Home[a]
<1>1. /\ Saving(a, "saveindex", "openmeta") /\ index' = mem[p].rows /\ meta' = meta
      /\ hist' = [hist EXCEPT !.stale = Stale(a)]
  BY DEF SaveIndex
<1>2. "saveindex" \in Flushing /\ "openmeta" \in Flushing
  BY DEF Flushing
<1>3. /\ p \in Process /\ agent[a].pc = "saveindex" /\ agent'[a].pc = "openmeta"
      /\ \A b \in Agent : b # a => agent'[b] = agent[b]
      /\ \A b \in Agent : b # a /\ agent'[b].pc \in Flushing => Home[b] \in Process /\ Home[b] # p
      /\ \A q \in Process : /\ mem'[q].rows = mem[q].rows /\ mem'[q].meta = mem[q].meta
                            /\ UpToDate(mem'[q]) <=> UpToDate(mem[q]) /\ q = p
  BY <1>1, <1>2, SavingFrame
<1>4. /\ ~hist'.stale => ~hist.stale /\ mem[p].fresh
      /\ hist'.torn = hist.torn /\ hist'.kept = hist.kept
  BY <1>1, StaleDoes
<1>5. \A b \in Agent : agent'[b].pc \in Filing => Home[b] \in Process /\ (b # a => Home[b] # p)
  BY <1>3 DEF Filing, Flushing
<1>6. mem[p].rows # Torn /\ mem[p].rows \in Seq(Agent) /\ Begins(mem[p].rows, mem[p].rows)
  <2>1. mem[p].rows # Torn
    BY <1>3 DEF Filed, RowsFit
  <2>. QED
    BY <1>3, <2>1, MemTypes, BeginsRefl
<1>7. RowsFit(agent', mem', index')
  BY <1>1, <1>3, <1>5, <1>6 DEF Filed, RowsFit, Filing
<1>8. ASSUME ~hist'.stale
      PROVE  MetaFit(agent', mem', index', meta')
  <2>1. MetaFit(agent, mem, index, meta) /\ UpToDate(mem[p])
    BY <1>4, <1>6, <1>8 DEF Filed, UpToDate
  <2>. QED
    BY <1>1, <1>3, <1>5, <1>6, <2>1 DEF MetaFit, Filing
<1>9. ASSUME ~hist'.stale, ~hist'.torn
      PROVE  KeptFit(agent', mem', meta', hist'.kept)
  BY <1>1, <1>4, <1>9, SavingKept DEF Filed
<1>. QED
  BY <1>7, <1>8, <1>9 DEF Filed

(* The metadata become those of the one process that is up to date.        *)
LEMMA SaveMetaFiled ==
  ASSUME Types, Flow, Filed, NEW a \in Agent, SaveMeta(a)
  PROVE  Filed'
<1>. DEFINE p == Home[a]
<1>1. /\ Saving(a, "savemeta", "readskill") /\ index' = index /\ meta' = mem[p].meta
      /\ hist' = [hist EXCEPT !.stale = Stale(a), !.kept = @ \cup {a}]
  BY DEF SaveMeta
<1>2. "savemeta" \in Flushing /\ "readskill" \in Flushing
  BY DEF Flushing
<1>3. /\ p \in Process /\ agent[a].pc = "savemeta" /\ agent'[a].pc = "readskill"
      /\ \A b \in Agent : b # a => agent'[b] = agent[b]
      /\ \A b \in Agent : b # a /\ agent'[b].pc \in Flushing => Home[b] \in Process /\ Home[b] # p
      /\ \A q \in Process : /\ mem'[q].rows = mem[q].rows /\ mem'[q].meta = mem[q].meta
                            /\ UpToDate(mem'[q]) <=> UpToDate(mem[q]) /\ q = p
  BY <1>1, <1>2, SavingFrame
<1>4. /\ ~hist'.stale => ~hist.stale /\ mem[p].fresh
      /\ hist'.torn = hist.torn /\ hist'.kept = hist.kept \cup {a}
  BY <1>1, StaleDoes
<1>5. \A b \in Agent : agent'[b].pc \in Filing => Home[b] \in Process /\ b # a /\ Home[b] # p
  BY <1>3 DEF Filing, Flushing
<1>6. mem[p].rows # Torn /\ mem[p].rows \in Seq(Agent) /\ mem[p].meta \in Metas
  <2>1. mem[p].rows # Torn
    BY <1>3 DEF Filed, RowsFit
  <2>. QED
    BY <1>3, <2>1, MemTypes
<1>7. RowsFit(agent', mem', index')
  BY <1>1, <1>3, <1>5 DEF Filed, RowsFit, Filing
<1>8. ASSUME ~hist'.stale
      PROVE  MetaFit(agent', mem', index', meta')
  <2>1. MetaFit(agent, mem, index, meta) /\ UpToDate(mem[p]) /\ index = mem[p].rows
    BY <1>3, <1>4, <1>6, <1>8 DEF Filed, RowsFit, UpToDate
  <2>2. Fits(mem[p].rows, mem[p].meta) /\ Within(mem[p].meta, mem[p].rows)
    BY <1>3, <2>1 DEF MetaFit
  <2>3. ASSUME NEW b \in Agent, agent'[b].pc = "loadmeta"
        PROVE  /\ Fits(mem'[Home[b]].rows, mem[p].meta)
               /\ index # Torn => Begins(mem'[Home[b]].rows, index)
               /\ \A q \in Process : UpToDate(mem'[q]) => Begins(mem'[Home[b]].rows, mem'[q].rows)
    <3>1. Home[b] \in Process /\ b # a /\ agent[b].pc = "loadmeta"
      BY <1>3, <1>5, <2>3 DEF Filing
    <3>2. mem[Home[b]].rows # Torn
      BY <3>1 DEF Filed, RowsFit
    <3>3. mem[Home[b]].rows \in Seq(Agent)
      BY <3>1, <3>2, MemTypes
    <3>4. Begins(mem[Home[b]].rows, mem[p].rows)
      BY <1>3, <2>1, <3>1 DEF MetaFit
    <3>5. Fits(mem[Home[b]].rows, mem[p].meta)
      BY <1>6, <2>2, <3>3, <3>4, BeginsFits
    <3>. QED
      BY <1>3, <2>1, <3>1, <3>4, <3>5
  <2>4. ASSUME NEW q \in Process
        PROVE  /\ Fits(mem'[q].rows, mem'[q].meta)
               /\ UpToDate(mem'[q]) =>
                    /\ Within(mem'[q].meta, mem'[q].rows)
                    /\ Fits(mem'[q].rows, mem[p].meta)
                    /\ Within(mem[p].meta, mem'[q].rows)
    BY <1>3, <2>1, <2>2 DEF MetaFit
  <2>. QED
    BY <1>1, <2>1, <2>2, <2>3, <2>4 DEF MetaFit
<1>9. ASSUME ~hist'.stale, ~hist'.torn
      PROVE  KeptFit(agent', mem', meta', hist'.kept)
  <2>1. KeptFit(agent, mem, meta, hist.kept) /\ UpToDate(mem[p])
    BY <1>4, <1>6, <1>9 DEF Filed, UpToDate
  <2>2. Saved(mem[p].meta, hist.kept)
    <3>1. \A b \in Agent : Home[b] = p => agent[b].pc # "loadmeta"
      BY <1>3 DEF Flushing
    <3>. QED
      BY <1>3, <2>1, <3>1 DEF KeptFit
  <2>3. Saved(mem[p].meta, {a})
    BY <1>3, <2>1 DEF KeptFit
  <2>4. Saved(mem[p].meta, hist.kept \cup {a})
    BY <2>2, <2>3 DEF Saved
  <2>5. ASSUME NEW q \in Process, UpToDate(mem'[q])
        PROVE  Saved(mem'[q].meta, hist.kept \cup {a})
    BY <1>3, <2>4, <2>5
  <2>6. ASSUME NEW b \in Agent, agent'[b].pc \in {"openindex", "saveindex", "openmeta", "savemeta"}
        PROVE  Saved(mem'[Home[b]].meta, {b})
    <3>1. Home[b] \in Process /\ b # a /\ agent'[b] = agent[b]
      BY <1>3, <1>5, <2>6 DEF Filing
    <3>. QED
      BY <1>3, <2>1, <2>6, <3>1 DEF KeptFit
  <2>. QED
    BY <1>1, <1>4, <2>4, <2>5, <2>6 DEF KeptFit
<1>. QED
  BY <1>7, <1>8, <1>9 DEF Filed

LEMMA FiledStep ==
  ASSUME Types, Flow, Filed, NEW a \in Agent, AgentStep(a)
  PROVE  Filed'
<1>. USE Counters
<1>1. CASE Plan(a) \/ Call(a) \/ Unverified(a) \/ Recovered(a) \/ GiveUp(a)
             \/ ReadSkill(a) \/ Look(a)
  <2>1. Quiet
    BY <1>1, QuietTypes
  <2>. DEFINE Away == \E w, n, left : Moves(a, w, n, left) /\ w \notin Filing
  <2>2. Away
    <3>0. /\ \A w, n, left : Moves(a, w, n, left) /\ w \notin Filing => Away
          /\ {"done", "step", "acting", "recovering", "write"} \cap Filing = {}
      BY DEF Filing
    <3>a. \A w, n, left : Moves(a, w, n, left)
            /\ w \in {"done", "step", "acting", "recovering", "write"} => Away
      BY <3>0
    <3>. HIDE DEF Away
    <3>1. CASE Plan(a)
      <4>1. CASE End(a)
        BY <3>a, <4>1, EndMoves
      <4>2. ASSUME NEW n \in 1..Steps[a], Set(a, [agent[a] EXCEPT !.pc = "step", !.left = n])
            PROVE  Away
        <5>1. n \in Nat
          OBVIOUS
        <5>2. Moves(a, "step", agent[a].n, n)
          BY <4>2, <5>1, PlanMoves
        <5>. QED
          BY <3>a, <5>2
      <4>. QED
        BY <3>1, <4>1, <4>2 DEF Plan
    <3>2. CASE Call(a)
      <4>1. agent[a].left > 0 /\ agent[a].pc = "step"
        BY <3>2 DEF Call, At
      <4>2. ASSUME NEW t \in Tool,
                   Set(a, [agent[a] EXCEPT !.pc = "acting", !.left = @ - 1, !.n = @ + 1,
                                           !.tool = t])
            PROVE  Away
        <5>1. Moves(a, "acting", agent[a].n + 1, agent[a].left - 1)
          BY <4>1, <4>2, CallMoves
        <5>. QED
          BY <3>a, <5>1
      <4>3. ASSUME Set(a, [agent[a] EXCEPT !.left = @ - 1, !.ok = FALSE])
            PROVE  Away
        <5>1. Moves(a, "step", agent[a].n, agent[a].left - 1)
          BY <4>1, <4>3, MissMoves
        <5>. QED
          BY <3>a, <5>1
      <4>. QED
        BY <3>2, <4>2, <4>3 DEF Call
    <3>3. CASE Set(a, Returned(a, FALSE))
      <4>1. Moves(a, "step", agent[a].n, agent[a].left)
        BY <3>3, FALSE \in BOOLEAN, ReturnMoves
      <4>. QED
        BY <3>a, <4>1
    <3>4. CASE Go(a, "recovering")
      <4>1. Moves(a, "recovering", agent[a].n, agent[a].left)
        BY <3>4, GoMoves DEF Pc
      <4>. QED
        BY <3>a, <4>1
    <3>5. CASE GiveUp(a)
      <4>1. Moves(a, "done", agent[a].n, 0)
        BY <3>5, EndMoves DEF GiveUp
      <4>. QED
        BY <3>a, <4>1
    <3>6. CASE Set(a, [agent[a] EXCEPT !.pc = "write", !.seen = skill])
      <4>1. Moves(a, "write", agent[a].n, agent[a].left)
        BY <3>6, ReadMoves
      <4>. QED
        BY <3>a, <4>1
    <3>. QED
      BY <1>1, <3>1, <3>2, <3>3, <3>4, <3>5, <3>6 DEF Unverified, Recovered, ReadSkill, Look, Read
  <2>3. agent[a].pc \notin Filing
    BY <1>1 DEF Plan, Call, Unverified, Recovered, GiveUp, Complete, ReadSkill, Look, At, Filing
  <2>4. PICK w, n, left : Moves(a, w, n, left) /\ w \notin Filing
    BY <2>2
  <2>. QED
    BY <2>1, <2>3, <2>4, MovesFiled DEF Quiet, files
<1>2. hist \in HistState
  BY DEF Types
<1>3. CASE Verified(a) \/ Accepted(a)
  <2>1. /\ At(a, "acting") /\ Set(a, Returned(a, TRUE)) /\ UNCHANGED <<mem, files>>
        /\ Record(a) \/ UNCHANGED <<buf, hist>>
    BY <1>3 DEF Verified, Accepted
  <2>2. Moves(a, "step", agent[a].n, agent[a].left)
    BY <2>1, TRUE \in BOOLEAN, ReturnMoves
  <2>3. hist'.stale = hist.stale /\ hist'.torn = hist.torn /\ hist'.kept = hist.kept
    BY <2>1, RecordDoes
  <2>. QED
    BY <2>1, <2>2, <2>3, MovesFiled DEF At, Filing, files
<1>4. CASE Take(a)
  <2>. DEFINE p == Home[a]
              w == IF mem[p].loaded THEN "add" ELSE "loadindex"
  <2>1. At(a, "step") /\ UNCHANGED <<mem, files>>
    BY <1>4 DEF Take, Complete
  <2>2. w \in Pc /\ w \notin Filing
    BY DEF Pc, Filing
  <2>3. \/ UNCHANGED hist
        \/ hist' = [hist EXCEPT !.lost = @ \cup ToSet(buf[p])]
    BY <1>4 DEF Take
  <2>4. hist'.stale = hist.stale /\ hist'.torn = hist.torn /\ hist'.kept = hist.kept
    BY <1>2, <2>3 DEF HistState
  <2>5. CASE End(a)
    <3>1. Moves(a, "done", agent[a].n, 0)
      BY <2>5, EndMoves
    <3>. QED
      BY <2>1, <2>4, <3>1, MovesFiled DEF At, Filing, files
  <2>6. CASE Go(a, w)
    <3>1. Moves(a, w, agent[a].n, agent[a].left)
      BY <2>2, <2>6, GoMoves
    <3>. HIDE DEF w
    <3>. QED
      BY <2>1, <2>2, <2>4, <3>1, MovesFiled DEF At, Filing, files
  <2>. QED
    BY <1>4, <2>5, <2>6 DEF Take
<1>5. CASE WriteSkill(a) \/ WriteLesson(a) \/ SkipSkill(a)
  <2>1. /\ End(a) /\ UNCHANGED <<mem, index, meta>>
        /\ \/ hist' = hist
           \/ hist' = [hist EXCEPT !.raced = @ \/ ~(skill \subseteq agent[a].seen),
                                   !.noted = @ \cup {a}]
        /\ agent[a].pc \notin Filing
    BY <1>5 DEF WriteSkill, WriteLesson, SkipSkill, Write, files, At, Filing
  <2>2. hist'.stale = hist.stale /\ hist'.torn = hist.torn /\ hist'.kept = hist.kept
    BY <1>2, <2>1, HistNoted
  <2>3. Moves(a, "done", agent[a].n, 0)
    BY <2>1, EndMoves
  <2>. QED
    BY <2>1, <2>2, <2>3, MovesFiled DEF Filing
<1>. QED
  BY <1>1, <1>3, <1>4, <1>5, LoadIndexFiled, LoadMetaFiled, AddFiled, OpenIndexFiled,
     SaveIndexFiled, OpenMetaFiled, SaveMetaFiled DEF AgentStep, Flush

LEMMA InitFiled == Init => Filed /\ Noted
<1>. SUFFICES ASSUME Init
              PROVE  Filed /\ Noted
  OBVIOUS
<1>1. \A p \in Process : mem[p] = Unloaded
  BY DEF Init
<1>2. \A p \in Process : ~UpToDate(mem[p]) /\ Fits(mem[p].rows, mem[p].meta)
  BY <1>1, NoMetaFits DEF Unloaded, UpToDate
<1>3. \A a \in Agent : agent[a].pc \notin Filing
  BY KindAssumption DEF Init, Filing
<1>4. index = <<>> /\ meta = NoMeta /\ hist.kept = {} /\ hist.noted = {}
  BY DEF Init
<1>5. RowsFit(agent, mem, index)
  BY <1>2, <1>3 DEF RowsFit, Filing
<1>6. MetaFit(agent, mem, index, meta)
  BY <1>2, <1>3, <1>4, NoMetaFits DEF MetaFit, Filing
<1>7. KeptFit(agent, mem, meta, hist.kept)
  BY <1>2, <1>3, <1>4 DEF KeptFit, Filing, Saved
<1>. QED
  BY <1>4, <1>5, <1>6, <1>7 DEF Filed, Noted

(* A block of the notes stays while every writer had read it.              *)
LEMMA NotedStep ==
  ASSUME Types, Flow, Noted, NEW a \in Agent, AgentStep(a)
  PROVE  Noted'
<1>1. hist \in HistState
  BY DEF Types
<1>2. ASSUME Write(a)
      PROVE  Noted'
  <2>1. /\ skill' = agent[a].seen \cup {a}
        /\ hist' = [hist EXCEPT !.raced = @ \/ ~(skill \subseteq agent[a].seen),
                                !.noted = @ \cup {a}]
    BY <1>2 DEF Write
  <2>2. /\ hist'.noted = hist.noted \cup {a}
        /\ hist'.raced = (hist.raced \/ ~(skill \subseteq agent[a].seen))
    BY <1>1, <2>1 DEF HistState
  <2>. QED
    BY <2>1, <2>2 DEF Noted
<1>3. ASSUME UNCHANGED skill, hist'.noted = hist.noted, hist'.raced = hist.raced
      PROVE  Noted'
  BY <1>3 DEF Noted
<1>4. CASE Plan(a) \/ Call(a) \/ Unverified(a) \/ Recovered(a) \/ GiveUp(a)
             \/ ReadSkill(a) \/ Look(a) \/ SkipSkill(a)
  BY <1>3, <1>4, QuietTypes DEF Quiet, SkipSkill, files
<1>5. CASE Verified(a) \/ Accepted(a)
  <2>1. At(a, "acting") /\ UNCHANGED files /\ (Record(a) \/ UNCHANGED <<buf, hist>>)
    BY <1>5 DEF Verified, Accepted
  <2>2. hist'.noted = hist.noted /\ hist'.raced = hist.raced
    BY <2>1, RecordDoes
  <2>. QED
    BY <1>3, <2>1, <2>2 DEF files
<1>6. CASE Take(a)
  <2>1. /\ UNCHANGED files
        /\ UNCHANGED hist \/ hist' = [hist EXCEPT !.lost = @ \cup ToSet(buf[Home[a]])]
    BY <1>6 DEF Take
  <2>2. hist'.noted = hist.noted /\ hist'.raced = hist.raced
    BY <1>1, <2>1 DEF HistState
  <2>. QED
    BY <1>3, <2>1, <2>2 DEF files
<1>7. CASE LoadIndex(a) \/ LoadMeta(a) \/ Add(a)
  <2>1. UNCHANGED files /\ (UNCHANGED hist \/ \E half \in BOOLEAN : Raise(a, half))
    BY <1>7, TRUE \in BOOLEAN, FALSE \in BOOLEAN DEF LoadIndex, LoadMeta, Add
  <2>2. hist'.noted = hist.noted /\ hist'.raced = hist.raced
    BY <2>1, RaiseDoes
  <2>. QED
    BY <1>3, <2>1, <2>2 DEF files
<1>8. CASE OpenIndex(a) \/ SaveIndex(a) \/ OpenMeta(a) \/ SaveMeta(a)
  <2>1. /\ UNCHANGED skill
        /\ \/ hist' = [hist EXCEPT !.stale = Stale(a)]
           \/ hist' = [hist EXCEPT !.stale = Stale(a), !.kept = @ \cup {a}]
    BY <1>8 DEF OpenIndex, SaveIndex, OpenMeta, SaveMeta
  <2>2. hist'.noted = hist.noted /\ hist'.raced = hist.raced
    BY <1>1, <2>1 DEF HistState
  <2>. QED
    BY <1>3, <2>1, <2>2
<1>9. CASE WriteSkill(a) \/ WriteLesson(a)
  BY <1>2, <1>9 DEF WriteSkill, WriteLesson
<1>. QED
  BY <1>4, <1>5, <1>6, <1>7, <1>8, <1>9 DEF AgentStep, Flush

-----------------------------------------------------------------------------
(* The results. *)

LEMMA MemoryInit == Init => MemoryIInv
BY InitTypes, InitHeld, InitFiled DEF MemoryIInv

LEMMA MemoryStep == MemoryIInv /\ [Next]_vars => MemoryIInv'
<1>. SUFFICES ASSUME MemoryIInv, [Next]_vars
              PROVE  MemoryIInv'
  OBVIOUS
<1>1. ASSUME NEW a \in Agent, AgentStep(a)
      PROVE  MemoryIInv'
  <2>1. Types' /\ Flow'
    BY <1>1, TypesStep DEF MemoryIInv
  <2>. QED
    BY <1>1, <2>1, HeldStep, FiledStep, NotedStep DEF MemoryIInv
<1>2. ASSUME NEW p \in Process, Crash(p)
      PROVE  MemoryIInv'
  <2>1. Types' /\ Flow'
    BY <1>2, TypesCrash DEF MemoryIInv
  <2>2. Noted'
    BY <1>2, CrashDoes, CrashLoses DEF MemoryIInv, Noted, files
  <2>. QED
    BY <1>2, <2>1, <2>2, CrashHeld, CrashFiled DEF MemoryIInv
<1>3. CASE UNCHANGED vars
  BY <1>3 DEF vars, files, MemoryIInv, Types, Flow, Held, Filed, Noted, Holds, At
<1>. QED
  BY <1>1, <1>2, <1>3 DEF Next

LEMMA MemoryTypes == MemoryIInv => TypeOK
<1>. SUFFICES ASSUME MemoryIInv
              PROVE  TypeOK
  OBVIOUS
<1>. USE DEF MemoryIInv
<1>1. hist.verified \subseteq Action /\ crashes \in 0..MaxCrashes
  BY DEF Types, HistState
<1>2. ASSUME NEW a \in Agent
      PROVE  /\ agent[a].left \in 0..Steps[a] /\ agent[a].n \in 0..Steps[a]
             /\ recipe[a] \in Seq(hist.verified)
  <2>1. agent[a].left \in 0..Steps[a] /\ agent[a].n \in 0..Steps[a]
    BY Counters
  <2>2. \A i \in 1..Len(recipe[a]) : recipe[a][i] \in hist.verified
    <3>1. <<"recipe", a>> \in Shelf /\ Shelves(buf, recipe)[<<"recipe", a>>] = recipe[a]
      BY ShelfAt
    <3>. QED
      BY <3>1 DEF Held, Stocked
  <2>3. recipe[a] \in Seq(Action)
    BY DEF Types
  <2>. QED
    BY <2>1, <2>2, <2>3
<1>3. ASSUME NEW p \in Process
      PROVE  /\ buf[p] \in Seq(hist.verified)
             /\ loop[p] \in {None} \cup {a \in Agent : Home[a] = p}
             /\ mem[p].rows \in Rows
  <2>1. \A i \in 1..Len(buf[p]) : buf[p][i] \in hist.verified
    <3>1. <<"buf", p>> \in Shelf /\ Shelves(buf, recipe)[<<"buf", p>>] = buf[p]
      BY ShelfAt
    <3>. QED
      BY <3>1 DEF Held, Stocked
  <2>2. buf[p] \in Seq(Action)
    BY DEF Types
  <2>3. loop[p] \in {None} \cup {a \in Agent : Home[a] = p}
    BY DEF Types, Flow
  <2>4. mem[p].rows \in Rows
    BY DEF Types, MemState
  <2>. QED
    BY <2>1, <2>2, <2>3, <2>4
<1>4. agent \in [Agent -> AgentState] /\ index \in Rows
  BY DEF Types
<1>. QED
  BY <1>1, <1>2, <1>3, <1>4 DEF TypeOK

LEMMA MemoryRecall == MemoryIInv => RecallInv
<1>. SUFFICES ASSUME MemoryIInv
              PROVE  RecallInv
  OBVIOUS
<1>1. FoundIsIndexed
  <2>. SUFFICES ASSUME ~hist.stale
                PROVE  /\ Match(index, meta)
                       /\ \A p \in Process : Match(mem[p].rows, mem[p].meta)
    BY DEF FoundIsIndexed
  <2>1. MetaFit(agent, mem, index, meta)
    BY DEF MemoryIInv, Filed
  <2>. QED
    BY <2>1, FitsMatch DEF MetaFit
<1>2. ASSUME ~hist.stale, ~hist.torn, index # Torn, meta # Torn, NEW a \in hist.kept
      PROVE  \E hit \in Hits(index, meta) : hit[2] = a
  <2>1. Saved(meta, hist.kept) /\ Within(meta, index)
    BY <1>2 DEF MemoryIInv, Filed, MetaFit, KeptFit
  <2>2. PICK i \in DOMAIN meta : meta[i] = a
    BY <2>1 DEF Saved
  <2>3. i \in Nat \ {0} /\ i <= Len(index)
    BY <1>2, <2>1 DEF MemoryIInv, Types, Metas, Within
  <2>4. index \in Seq(Agent)
    BY <1>2 DEF MemoryIInv, Types, Rows
  <2>5. i \in DOMAIN meta \cap 1..Len(index)
    BY <2>3, <2>4
  <2>6. <<i, meta[i]>> \in Hits(index, meta)
    BY <2>5 DEF Hits
  <2>. QED
    BY <2>2, <2>6
<1>3. StoredStays
  BY <1>2 DEF StoredStays, MemoryIInv, Noted
<1>. QED
  BY <1>1, <1>3, MemoryTypes DEF RecallInv

(* No verified action is dropped unnoticed, and none is in two recipes or  *)
(* twice in one: of any tasks in any processes, each verified action is in *)
(* its buffer, in one recipe or among those a raising flush or a crash has *)
(* lost, and a recipe keeps the order of an agent's steps                  *)
(* (LearningLoop.record_action, flush_to_recipe).                          *)
THEOREM ConservedAlways == Spec => []Conserved
<1>1. MemoryIInv => Conserved
  BY HeldConserved DEF MemoryIInv
<1>. QED
  BY <1>1, MemoryInit, MemoryStep, PTL DEF Spec

(* What a lookup finds for a row is the metadata of the recipe the row is  *)
(* of, and a recipe reported as stored is found, whatever crashes and torn *)
(* files there were, unless a process saved over what another had saved or *)
(* met the metadata half written; and a block of the skill notes stays,    *)
(* unless a writer had read them before (EpisodicMemory, skill notes).     *)
THEOREM RecallAlways == Spec => []RecallInv
BY MemoryInit, MemoryStep, MemoryRecall, PTL DEF Spec
=============================================================================
