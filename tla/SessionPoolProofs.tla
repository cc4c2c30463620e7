------------------------- MODULE SessionPoolProofs -------------------------
(***************************************************************************)
(* Proofs about SessionPool, for any calls, sessions, computers and sizes. *)
(***************************************************************************)
EXTENDS SessionPool, FiniteSetTheorems, TLAPS

CallState == [kind : Kind, s : Session, computer : Computer \cup {None},
              pc : {"start", "acquire", "register", "work", "unregister", "leave",
                    "force", "done"}, failed : BOOLEAN]

(* The pool and the sessions' computers. *)
Counted == PoolExact /\ IsFiniteSet(avail \cup inuse)

(* Who is registered works for the session, or was cancelled on its way out. *)
Registered ==
  /\ TasksWork
  /\ \A c \in Call : call[c].pc \in {"register", "unregister"} => call[c].kind = "task"

(* A call that waits for a computer keeps the lock, so that nobody begins the
   session in the meantime; so does a cleanup that waits for itself. *)
Waiting ==
  \A c \in Call :
    /\ call[c].pc \in {"acquire", "force"} => lock = c
    /\ call[c].pc = "acquire" => call[c].s \notin Live

(* A call is on its session's computer, unless the session was removed. *)
OnSession(c) ==
  call[c].s \in Live /\ sess[call[c].s].computer = call[c].computer

Placed ==
  main.pc # "exit" => \A c \in Call : Using(c) /\ c \notin evicted => OnSession(c)

Kept == Counted /\ Registered /\ Waiting /\ Placed

-----------------------------------------------------------------------------
(* Types. *)

LEMMA SessionTypes ==
  ASSUME NEW k \in SessionState
  PROVE  /\ \A b \in BOOLEAN : [k EXCEPT !.idle = b] \in SessionState
         /\ \A b \in BOOLEAN : [k EXCEPT !.closing = b] \in SessionState
         /\ \A t \in SUBSET Call : [k EXCEPT !.tasks = t] \in SessionState
         /\ k # None
BY NoneAssumption DEF SessionState

(* A session is aged or renewed or marked as closing: it stays where it is. *)
LEMMA SameSession ==
  ASSUME TypeOK, NEW s \in Live, NEW b \in BOOLEAN,
         \/ sess' = [sess EXCEPT ![s].idle = b]
         \/ sess' = [sess EXCEPT ![s].closing = b]
  PROVE  /\ \A t \in Session : sess'[t] = None <=> sess[t] = None
         /\ \A t \in Live : sess'[t].computer = sess[t].computer
                            /\ sess'[t].tasks = sess[t].tasks
<1>1. /\ sess \in [Session -> {None} \cup SessionState]
      /\ s \in Session /\ sess[s] \in SessionState
  BY DEF TypeOK, Live
<1>2. PICK k \in SessionState :
        /\ k.computer = sess[s].computer /\ k.tasks = sess[s].tasks
        /\ sess' = [sess EXCEPT ![s] = k]
  <2>1. CASE sess' = [sess EXCEPT ![s].idle = b]
    <3>1. /\ [sess[s] EXCEPT !.idle = b] \in SessionState
          /\ [sess[s] EXCEPT !.idle = b].computer = sess[s].computer
          /\ [sess[s] EXCEPT !.idle = b].tasks = sess[s].tasks
      BY <1>1 DEF SessionState
    <3>. QED BY <2>1, <3>1
  <2>2. CASE sess' = [sess EXCEPT ![s].closing = b]
    <3>1. /\ [sess[s] EXCEPT !.closing = b] \in SessionState
          /\ [sess[s] EXCEPT !.closing = b].computer = sess[s].computer
          /\ [sess[s] EXCEPT !.closing = b].tasks = sess[s].tasks
      BY <1>1 DEF SessionState
    <3>. QED BY <2>2, <3>1
  <2>. QED BY <2>1, <2>2
<1>3. sess'[s] = k /\ k # None /\ \A t \in Session \ {s} : sess'[t] = sess[t]
  BY <1>1, <1>2, NoneAssumption
<1>. QED BY <1>1, <1>2, <1>3, NoneAssumption DEF Live

LEMMA InitTypes == Init => TypeOK
<1>. SUFFICES ASSUME Init PROVE TypeOK
  OBVIOUS
<1>1. PICK ask \in Asks :
        call = [c \in Call |-> [kind |-> ask[c][1], s |-> ask[c][2], pc |-> "start",
                                computer |-> None, failed |-> FALSE]]
  BY DEF Init
<1>2. call \in [Call -> CallState]
  BY <1>1, AsksAssumption DEF CallState
<1>. QED BY <1>2 DEF Init, TypeOK, CallState

(* The step of a call leaves it with a record again. *)
LEMMA CallMade ==
  ASSUME TypeOK, NEW c \in Call, CallStep(c) \/ Cancel(c)
  PROVE  call' \in [Call -> CallState] /\ \A d \in Call \ {c} : call'[d] = call[d]
<1>1. call \in [Call -> CallState] /\ call[c] \in CallState
  BY DEF TypeOK, CallState
<1>. DEFINE Made == \E r \in CallState : Set(c, r)
<1>2. ASSUME Fail(c) PROVE Made
  <2>1. /\ [call[c] EXCEPT !.kind = "screenshot", !.pc = "start",
                          !.computer = None, !.failed = FALSE] \in CallState
        /\ [call[c] EXCEPT !.pc = "done", !.computer = None, !.failed = FALSE] \in CallState
    BY <1>1 DEF CallState, Kind
  <2>. QED BY <1>2, <2>1 DEF Fail
<1>3. ASSUME NEW m \in Computer, Use(c, m) PROVE Made
  <2>1. \E p \in {"register", "work"} :
          Set(c, [call[c] EXCEPT !.computer = m, !.pc = p])
    BY <1>3 DEF Use
  <2>2. \A p \in {"register", "work"} :
          [call[c] EXCEPT !.computer = m, !.pc = p] \in CallState
    BY <1>1 DEF CallState
  <2>. QED BY <2>1, <2>2
<1>4. ASSUME NEW p \in {"acquire", "work", "leave", "force", "done"}, Go(c, p) PROVE Made
  <2>1. [call[c] EXCEPT !.pc = p] \in CallState
    BY <1>1 DEF CallState
  <2>. QED BY <1>4, <2>1 DEF Go
<1>5. ASSUME Enter(c) PROVE Made
  <2>1. call[c].s \in Live => sess[call[c].s].computer \in Computer
    BY <1>1 DEF TypeOK, Live, CallState, SessionState
  <2>2. \/ Use(c, sess[call[c].s].computer) /\ call[c].s \in Live
        \/ Fail(c) \/ Go(c, "acquire")
    BY <1>5 DEF Enter
  <2>. QED BY <1>2, <1>3, <1>4, <2>1, <2>2
<1>6. ASSUME Acquire(c) PROVE Made
  <2>1. \A m \in IF avail # {} THEN avail ELSE Computer \ inuse : m \in Computer
    BY DEF TypeOK
  <2>. QED BY <1>2, <1>3, <1>6, <2>1 DEF Acquire, Begin
<1>7. ASSUME Work(c) PROVE Made
  <2>1. PICK f \in BOOLEAN :
          \E p \in {"unregister", "leave"} : Set(c, [call[c] EXCEPT !.failed = f, !.pc = p])
    BY <1>7 DEF Work
  <2>2. \A p \in {"unregister", "leave"} : [call[c] EXCEPT !.failed = f, !.pc = p] \in CallState
    BY <1>1 DEF CallState
  <2>. QED BY <2>1, <2>2
<1>8. ASSUME Leave(c) PROVE Made
  <2>1. [call[c] EXCEPT !.pc = "done", !.computer = None] \in CallState
    BY <1>1 DEF CallState
  <2>. QED BY <1>2, <1>8, <2>1 DEF Leave
<1>9. ASSUME Register(c) \/ Unregister(c) \/ Cleanup(c) PROVE Made
  BY <1>4, <1>9 DEF Register, Unregister, Cleanup
<1>10. ASSUME Stats(c) PROVE call' = call
  BY <1>10 DEF Stats
<1>11. ASSUME Cancel(c) PROVE Made
  <2>1. \A p \in {"leave", "done"} :
          /\ [call[c] EXCEPT !.pc = p, !.failed = FALSE] \in CallState
          /\ [call[c] EXCEPT !.pc = p, !.computer = None, !.failed = FALSE] \in CallState
    BY <1>1 DEF CallState
  <2>2. CASE Quit(c)
    BY <2>1, <2>2 DEF Quit
  <2>3. CASE Set(c, [call[c] EXCEPT !.pc = "leave", !.failed = FALSE])
    BY <2>1, <2>3
  <2>4. CASE \E p \in {"unregister", "leave"} : Go(c, p)
    <3>1. \A p \in {"unregister", "leave"} : [call[c] EXCEPT !.pc = p] \in CallState
      BY <1>1 DEF CallState
    <3>. QED BY <2>4, <3>1 DEF Go
  <2>. QED BY <1>11, <2>2, <2>3, <2>4 DEF Cancel
<1>12. Made \/ call' = call
  BY <1>5, <1>6, <1>7, <1>8, <1>9, <1>10, <1>11 DEF CallStep
<1>. QED BY <1>1, <1>12 DEF Set

LEMMA TypesKept == TypeOK /\ [Next]_vars => TypeOK'
<1>. SUFFICES ASSUME TypeOK, [Next]_vars PROVE TypeOK'
  OBVIOUS
<1>t. /\ sess \in [Session -> {None} \cup SessionState]
      /\ call \in [Call -> CallState]
  BY DEF TypeOK, CallState
<1>. DEFINE SessTyped == sess' \in [Session -> {None} \cup SessionState]
<1>l. ASSUME NEW s \in Live PROVE s \in Session /\ sess[s] \in SessionState
  BY <1>t DEF Live
<1>1. ASSUME NEW c \in Call, CallStep(c) PROVE TypeOK'
  <2>0. call' \in [Call -> CallState] /\ call[c].s \in Session
    BY <1>t, <1>1, CallMade DEF CallState
  <2>1. ASSUME Enter(c) PROVE TypeOK'
    <3>1. call[c].s \in Live => [sess[call[c].s] EXCEPT !.idle = FALSE] \in SessionState
      BY <1>l, SessionTypes
    <3>2. \/ sess' = sess
          \/ \E k \in SessionState : sess' = [sess EXCEPT ![call[c].s] = k]
      BY <2>1, <3>1 DEF Enter
    <3>3. SessTyped
      BY <1>t, <3>2
    <3>. QED BY <2>0, <2>1, <3>3 DEF Enter, TypeOK, CallState, pool
  <2>2. ASSUME Acquire(c) PROVE TypeOK'
    <3>1. CASE UNCHANGED <<pool, sess>>
      BY <2>0, <2>2, <3>1 DEF Acquire, TypeOK, CallState, pool
    <3>2. ASSUME NEW m \in IF avail # {} THEN avail ELSE Computer \ inuse, Begin(c, m)
          PROVE  TypeOK'
      <4>1. m \in Computer
        BY DEF TypeOK
      <4>2. [computer |-> m, tasks |-> {}, closing |-> FALSE, idle |-> FALSE] \in SessionState
        BY <4>1 DEF SessionState
      <4>. QED BY <2>0, <2>2, <3>2, <4>1, <4>2 DEF Acquire, Begin, TypeOK, CallState
    <3>. QED BY <2>2, <3>1, <3>2 DEF Acquire
  <2>3. ASSUME Register(c) \/ Unregister(c) \/ Leave(c) \/ Cleanup(c) PROVE TypeOK'
    <3>1. call[c].s \in Live =>
            /\ sess[call[c].s].tasks \cup {c} \in SUBSET Call
            /\ sess[call[c].s].tasks \ {c} \in SUBSET Call
      BY <1>l DEF SessionState
    <3>2. call[c].s \in Live =>
            /\ [sess[call[c].s] EXCEPT !.tasks = @ \cup {c}] \in SessionState
            /\ [sess[call[c].s] EXCEPT !.tasks = @ \ {c}] \in SessionState
            /\ [sess[call[c].s] EXCEPT !.idle = FALSE] \in SessionState
            /\ [sess[call[c].s] EXCEPT !.closing = TRUE] \in SessionState
      BY <1>l, <3>1, SessionTypes
    <3>3. \/ sess' = sess
          \/ \E k \in SessionState : sess' = [sess EXCEPT ![call[c].s] = k]
      BY <2>3, <3>2 DEF Register, Unregister, Leave, Cleanup
    <3>4. SessTyped
      BY <1>t, <3>3
    <3>. QED BY <2>0, <2>3, <3>4
             DEF Register, Unregister, Leave, Cleanup, TypeOK, CallState, pool
  <2>4. ASSUME Work(c) \/ Stats(c) PROVE TypeOK'
    BY <2>0, <2>4 DEF Work, Stats, TypeOK, CallState, pool
  <2>. QED BY <1>1, <2>1, <2>2, <2>3, <2>4 DEF CallStep
<1>c. ASSUME NEW c \in Call, Cancel(c) PROVE TypeOK'
  <2>1. call' \in [Call -> CallState]
    BY <1>c, CallMade
  <2>2. lock' \in Call \cup {None} /\ lost' \subseteq Call
    BY <1>c DEF Cancel, TypeOK
  <2>. QED BY <1>c, <2>1, <2>2 DEF Cancel, TypeOK, CallState, pool
<1>2. ASSUME NEW s \in Session, Age(s) PROVE TypeOK'
  <2>1. SessTyped
    BY <1>t, <1>l, <1>2, SessionTypes DEF Age
  <2>. QED BY <1>2, <2>1 DEF Age, TypeOK, pool
<1>3. ASSUME NEW s, Remove(s), idle' \subseteq Session, UNCHANGED call,
             main' \in [pc : {"run", "list", "remove", "exit"}, left : SUBSET Session]
      PROVE  TypeOK'
  <2>1. SessTyped
    BY <1>t, <1>3 DEF Remove
  <2>2. avail' \subseteq Computer /\ inuse' \subseteq Computer /\ evicted' \subseteq Call
    BY <1>l, <1>3 DEF Remove, TypeOK, SessionState, pool
  <2>. QED BY <1>3, <2>1, <2>2 DEF Remove, TypeOK
<1>4. CASE Look
  BY <1>4 DEF Look, TypeOK, pool, Live
<1>5. CASE Reclaim
  <2>1. PICK s \in idle : Remove(s) /\ idle' = idle \ {s}
    BY <1>5 DEF Reclaim
  <2>. QED BY <1>3, <1>5, <2>1 DEF Reclaim, Remove, TypeOK
<1>6. CASE ListAll
  BY <1>6 DEF ListAll, TypeOK, pool, Live
<1>7. CASE RemoveAll
  <2>1. PICK s \in main.left : Remove(s) /\ main' = [main EXCEPT !.left = @ \ {s}]
    BY <1>7 DEF RemoveAll
  <2>2. main' \in [pc : {"run", "list", "remove", "exit"}, left : SUBSET Session]
    BY <2>1 DEF TypeOK
  <2>3. idle' \subseteq Session
    BY <1>7 DEF RemoveAll, TypeOK
  <2>. QED BY <1>3, <2>1, <2>2, <2>3 DEF Remove
<1>8. CASE Shutdown
  BY <1>8 DEF Shutdown, TypeOK
<1>9. CASE Stop
  BY <1>9 DEF Stop, TypeOK, pool
<1>10. CASE UNCHANGED vars
  BY <1>10 DEF vars, TypeOK
<1>. QED
  BY <1>1, <1>c, <1>2, <1>4, <1>5, <1>6, <1>7, <1>8, <1>9, <1>10 DEF Next, ServerStep

-----------------------------------------------------------------------------
(* What happens to the record of the call that moves. *)

LEMMA FailFacts ==
  ASSUME TypeOK, NEW c \in Call, Fail(c)
  PROVE  call'[c].s = call[c].s /\ call'[c].pc \in {"start", "done"}
<1>1. call[c] \in CallState /\ call \in [Call -> CallState]
  BY DEF TypeOK, CallState
<1>. DEFINE again == [call[c] EXCEPT !.kind = "screenshot", !.pc = "start",
                                    !.computer = None, !.failed = FALSE]
            done == [call[c] EXCEPT !.pc = "done", !.computer = None, !.failed = FALSE]
<1>2. again.s = call[c].s /\ again.pc = "start"
  BY <1>1 DEF CallState
<1>3. done.s = call[c].s /\ done.pc = "done"
  BY <1>1 DEF CallState
<1>4. Set(c, again) \/ Set(c, done)
  BY DEF Fail
<1>. HIDE DEF again, done
<1>. QED BY <1>1, <1>2, <1>3, <1>4 DEF Set

LEMMA UseFacts ==
  ASSUME TypeOK, NEW c \in Call, NEW m \in Computer, Use(c, m)
  PROVE  /\ call'[c].s = call[c].s /\ call'[c].kind = call[c].kind
         /\ call'[c].computer = m
         /\ call'[c].pc = IF call[c].kind = "task" THEN "register" ELSE "work"
BY DEF TypeOK, Use, Set

LEMMA GoFacts ==
  ASSUME TypeOK, NEW c \in Call, NEW p, Go(c, p)
  PROVE  /\ call'[c].s = call[c].s /\ call'[c].kind = call[c].kind
         /\ call'[c].computer = call[c].computer /\ call'[c].pc = p
BY DEF TypeOK, Go, Set

(* A call moves, and nobody gets or loses a computer. *)
LEMMA CallKeeps ==
  ASSUME TypeOK, TypeOK', Kept, NEW c \in Call,
         \A d \in Call \ {c} : call'[d] = call[d],
         call'[c].s = call[c].s,
         UNCHANGED <<avail, inuse, main>>,
         \A s \in Session : sess'[s] = None <=> sess[s] = None,
         \A s \in Live :
           /\ sess'[s].computer = sess[s].computer
           /\ \A d \in Call \ {c} : d \in sess'[s].tasks => d \in sess[s].tasks
           /\ c \in sess'[s].tasks =>
                /\ s = call[c].s
                /\ c \in lost' \/ (call'[c].kind = "task" /\ call'[c].pc \in {"work", "unregister"}),
         lost \subseteq lost',
         \A d \in Call \ {c} : d \in evicted => d \in evicted',
         call'[c].pc \in {"register", "unregister"} => call'[c].kind = "task",
         call'[c].pc \in {"acquire", "force"} => lock' = c,
         call'[c].pc = "acquire" => call[c].s \notin Live,
         lock' = lock \/ \A d \in Call \ {c} : call[d].pc \notin {"acquire", "force"},
         main.pc # "exit" /\ Using(c)' /\ c \notin evicted' =>
           call[c].s \in Live /\ sess[call[c].s].computer = call'[c].computer
  PROVE  Kept'
<1>1. Live' = Live
  BY DEF Live
<1>2. Counted'
  <2>1. {sess'[s].computer : s \in Live'} = {sess[s].computer : s \in Live}
    BY <1>1
  <2>. QED BY <1>1, <2>1 DEF Kept, Counted, PoolExact
<1>3. Registered'
  <2>1. ASSUME NEW s \in Live', NEW d \in sess'[s].tasks
        PROVE  /\ call'[d].s = s
               /\ d \in lost' \/ (call'[d].kind = "task" /\ call'[d].pc \in {"work", "unregister"})
    <3>1. d \in Call
      BY <2>1 DEF TypeOK, Live, SessionState
    <3>. QED BY <1>1, <2>1, <3>1 DEF Kept, Registered, TasksWork
  <2>. QED BY <2>1 DEF Kept, Registered, TasksWork
<1>4. Waiting'
  BY <1>1 DEF Kept, Waiting
<1>5. Placed'
  <2>1. ASSUME main.pc # "exit", NEW d \in Call, Using(d)', d \notin evicted'
        PROVE  OnSession(d)'
    <3>1. CASE d = c
      BY <1>1, <2>1, <3>1 DEF OnSession
    <3>2. CASE d # c
      BY <1>1, <2>1, <3>2 DEF Kept, Placed, OnSession, Using
    <3>. QED BY <3>1, <3>2
  <2>. QED BY <2>1 DEF Placed
<1>. QED BY <1>2, <1>3, <1>4, <1>5 DEF Kept

(* A call begins its session on a computer that no session has. *)
LEMMA BeginKeeps ==
  ASSUME TypeOK, TypeOK', Kept, NEW c \in Call, Acquire(c),
         NEW m \in IF avail # {} THEN avail ELSE Computer \ inuse, Begin(c, m)
  PROVE  Kept'
<1>. DEFINE s == call[c].s
<1>1. /\ call[c].pc = "acquire" /\ ~Full /\ lock' = None
      /\ UNCHANGED <<idle, main, frozen, evicted, lost>>
      /\ lock = c /\ s \notin Live /\ s \in Session
  BY DEF Acquire, Kept, Waiting, TypeOK
<1>2. m \in Computer /\ m \notin inuse
  BY DEF TypeOK, Kept, Counted, PoolExact
<1>3. /\ call'[c].s = s /\ call'[c].kind = call[c].kind /\ call'[c].computer = m
      /\ call'[c].pc = IF call[c].kind = "task" THEN "register" ELSE "work"
      /\ \A d \in Call \ {c} : call'[d] = call[d]
  BY <1>2, UseFacts, CallMade DEF Begin, CallStep
<1>4. /\ avail' = avail \ {m} /\ inuse' = inuse \cup {m}
      /\ sess'[s] = [computer |-> m, tasks |-> {}, closing |-> FALSE, idle |-> FALSE]
      /\ \A t \in Session \ {s} : sess'[t] = sess[t]
  BY <1>1 DEF Begin, TypeOK
<1>5. sess'[s] # None /\ sess'[s].computer = m /\ sess'[s].tasks = {}
  <2>1. [computer |-> m, tasks |-> {}, closing |-> FALSE, idle |-> FALSE] \in SessionState
    BY <1>2 DEF SessionState
  <2>2. sess'[s] \in SessionState
    BY <1>4, <2>1
  <2>3. sess'[s].computer = m /\ sess'[s].tasks = {}
    BY <1>4
  <2>. QED BY <2>2, <2>3, NoneAssumption
<1>6. Live' = Live \cup {s}
  BY <1>1, <1>4, <1>5 DEF Live
<1>. HIDE DEF s
<1>7. Counted'
  <2>1. inuse' = {sess'[t].computer : t \in Live'}
    BY <1>1, <1>4, <1>5, <1>6 DEF Kept, Counted, PoolExact, Live
  <2>2. \A t \in Live : sess[t].computer \in inuse /\ sess'[t] = sess[t]
    BY <1>1, <1>4 DEF Kept, Counted, PoolExact, Live
  <2>3. \A t, u \in Live' : sess'[t].computer = sess'[u].computer => t = u
    BY <1>2, <1>5, <1>6, <2>2 DEF Kept, Counted, PoolExact
  <2>4. avail' \cap inuse' = {}
    BY <1>4 DEF Kept, Counted, PoolExact
  <2>5. IsFiniteSet(avail' \cup inuse') /\ Cardinality(avail' \cup inuse') <= PoolSize
    <3>1. CASE avail # {}
      <4>1. avail' \cup inuse' = avail \cup inuse
        BY <1>4, <3>1
      <4>. QED BY <4>1 DEF Kept, Counted, PoolExact
    <3>2. CASE avail = {}
      <4>1. avail' \cup inuse' = inuse \cup {m} /\ avail \cup inuse = inuse
        BY <1>4, <3>2
      <4>2. IsFiniteSet(inuse) /\ Cardinality(inuse) \in Nat /\ Cardinality(inuse) < PoolSize
        BY <1>1, <3>2, <4>1, FS_CardinalityType, PoolAssumption DEF Full, Kept, Counted
      <4>3. IsFiniteSet(inuse \cup {m}) /\ Cardinality(inuse \cup {m}) = Cardinality(inuse) + 1
        BY <1>2, <4>2, FS_AddElement
      <4>. QED BY <4>1, <4>2, <4>3, PoolAssumption
    <3>. QED BY <3>1, <3>2
  <2>. QED BY <2>1, <2>3, <2>4, <2>5 DEF Counted, PoolExact
<1>8. Registered'
  <2>1. ASSUME NEW t \in Live', NEW d \in sess'[t].tasks
        PROVE  /\ call'[d].s = t
               /\ d \in lost' \/ (call'[d].kind = "task" /\ call'[d].pc \in {"work", "unregister"})
    <3>1. d \in Call /\ t \in Live /\ d \in sess[t].tasks
      BY <1>1, <1>4, <1>5, <1>6, <2>1 DEF TypeOK, Live, SessionState
    <3>2. d # c
      BY <1>1, <3>1 DEF s, Kept, Registered, TasksWork
    <3>. QED BY <1>1, <1>3, <3>1, <3>2 DEF Kept, Registered, TasksWork
  <2>2. \A d \in Call : call'[d].pc \in {"register", "unregister"} => call'[d].kind = "task"
    BY <1>3 DEF Kept, Registered
  <2>. QED BY <2>1, <2>2 DEF Registered, TasksWork
<1>9. Waiting'
  BY <1>1, <1>3 DEF Kept, Waiting
<1>10. Placed'
  <2>1. ASSUME main.pc # "exit", NEW d \in Call, Using(d)', d \notin evicted'
        PROVE  OnSession(d)'
    <3>1. CASE d = c
      BY <1>3, <1>5, <1>6, <3>1 DEF OnSession
    <3>2. CASE d # c
      BY <1>1, <1>3, <1>4, <1>6, <2>1, <3>2 DEF Kept, Placed, OnSession, Using, Live
    <3>. QED BY <3>1, <3>2
  <2>. QED BY <1>1, <2>1 DEF Placed
<1>. QED BY <1>7, <1>8, <1>9, <1>10 DEF Kept

(* A session is removed, whoever is using it. *)
LEMMA RemoveKeeps ==
  ASSUME TypeOK, TypeOK', Kept, NEW s, Remove(s), UNCHANGED call, main'.pc = main.pc
  PROVE  Kept'
<1>1. CASE s \notin Live
  <2>1. UNCHANGED <<sess, avail, inuse, evicted, call, lock, lost>>
    BY <1>1 DEF Remove, pool
  <2>. QED BY <2>1 DEF Kept, Counted, PoolExact, Registered, TasksWork, Waiting, Placed,
                       OnSession, Using, Live
<1>2. CASE s \in Live
  <2>1. /\ avail' = avail \cup {sess[s].computer}
        /\ inuse' = inuse \ {sess[s].computer}
        /\ sess' = [sess EXCEPT ![s] = None]
        /\ evicted' = evicted \cup {c \in Call : Using(c) /\ call[c].s = s}
        /\ UNCHANGED <<lock, lost>>
    BY <1>2 DEF Remove
  <2>2. /\ Live' = Live \ {s}
        /\ \A t \in Live' : sess'[t] = sess[t]
    BY <1>2, <2>1 DEF Live, TypeOK
  <2>3. sess[s].computer \in inuse
    BY <1>2 DEF Kept, Counted, PoolExact
  <2>4. Counted'
    <3>1. inuse' = {sess'[t].computer : t \in Live'}
      BY <1>2, <2>1, <2>2 DEF Kept, Counted, PoolExact
    <3>2. avail' \cup inuse' = avail \cup inuse /\ avail' \cap inuse' = {}
      BY <2>1, <2>3 DEF Kept, Counted, PoolExact
    <3>. QED BY <2>2, <3>1, <3>2 DEF Kept, Counted, PoolExact
  <2>5. Registered' /\ Waiting'
    BY <2>1, <2>2 DEF Kept, Registered, TasksWork, Waiting
  <2>6. Placed'
    <3>1. ASSUME main.pc # "exit", NEW d \in Call, Using(d)', d \notin evicted'
          PROVE  OnSession(d)'
      <4>1. Using(d) /\ d \notin evicted /\ call[d].s # s
        BY <2>1, <3>1 DEF Using
      <4>. QED BY <2>2, <3>1, <4>1 DEF Kept, Placed, OnSession
    <3>. QED BY <3>1 DEF Placed
  <2>. QED BY <2>4, <2>5, <2>6 DEF Kept
<1>. QED BY <1>1, <1>2

-----------------------------------------------------------------------------
LEMMA InitKept == Init => Kept
<1>. SUFFICES ASSUME Init PROVE Kept
  OBVIOUS
<1>1. Live = {} /\ avail = {} /\ inuse = {} /\ \A c \in Call : call[c].pc = "start"
  BY DEF Init, Live
<1>2. Counted
  <2>1. avail \cup inuse = {} /\ Cardinality({}) = 0 /\ IsFiniteSet({})
    BY <1>1, FS_EmptySet
  <2>. QED BY <1>1, <2>1, PoolAssumption DEF Counted, PoolExact
<1>. QED BY <1>1, <1>2 DEF Kept, Registered, TasksWork, Waiting, Placed, Using

LEMMA CallStepKept ==
  ASSUME TypeOK, TypeOK', Kept, NEW c \in Call, CallStep(c)
  PROVE  Kept'
<1>t. /\ sess \in [Session -> {None} \cup SessionState]
      /\ call[c].s \in Session
      /\ \A d \in Call \ {c} : call'[d] = call[d]
      /\ UNCHANGED lost
  <2>1. UNCHANGED lost
    BY DEF CallStep, Enter, Acquire, Register, Work, Unregister, Leave, Cleanup, Stats
  <2>2. \A d \in Call \ {c} : call'[d] = call[d]
    BY CallMade
  <2>3. sess \in [Session -> {None} \cup SessionState]
    BY DEF TypeOK
  <2>4. call[c].s \in Session
    BY DEF TypeOK, CallState
  <2>. QED BY <2>1, <2>2, <2>3, <2>4, Zenon
<1>f. Free => \A d \in Call : call[d].pc \notin {"acquire", "force"}
  BY NoneAssumption DEF Free, Kept, Waiting
<1>l. ASSUME NEW s \in Live PROVE s \in Session /\ sess[s] \in SessionState /\ sess[s] # None
  BY <1>t DEF Live
<1>w. \A s \in Live : c \in sess[s].tasks =>
        /\ s = call[c].s
        /\ c \in lost \/ (call[c].kind = "task" /\ call[c].pc \in {"work", "unregister"})
  BY DEF Kept, Registered, TasksWork
<1>p. main.pc # "exit" /\ Using(c) /\ c \notin evicted =>
        call[c].s \in Live /\ sess[call[c].s].computer = call[c].computer
  BY DEF Kept, Placed, OnSession
<1>r. call[c].pc \in {"register", "unregister"} => call[c].kind = "task"
  BY DEF Kept, Registered
<1>1. CASE Enter(c)
  <2>1. /\ Free /\ call[c].pc = "start" /\ UNCHANGED <<avail, inuse, main, evicted>>
    BY <1>1 DEF Enter, pool
  <2>2. CASE call[c].s \in Live /\ Use(c, sess[call[c].s].computer)
             /\ sess' = [sess EXCEPT ![call[c].s].idle = FALSE]
    <3>1. sess[call[c].s].computer \in Computer
      BY <1>l, <2>2 DEF SessionState
    <3>2. /\ call'[c].s = call[c].s /\ call'[c].kind = call[c].kind
          /\ call'[c].computer = sess[call[c].s].computer
          /\ call'[c].pc = IF call[c].kind = "task" THEN "register" ELSE "work"
      BY <2>2, <3>1, UseFacts
    <3>3. /\ \A s \in Session : sess'[s] = None <=> sess[s] = None
          /\ \A s \in Live : sess'[s].computer = sess[s].computer
                             /\ sess'[s].tasks = sess[s].tasks
      BY <2>2, SameSession
    <3>4. \A s \in Live : c \in sess[s].tasks => c \in lost /\ s = call[c].s
      BY <1>w, <2>1
    <3>. QED BY <1>t, <1>f, <2>1, <2>2, <3>2, <3>3, <3>4, CallKeeps
  <2>3. CASE Fail(c) /\ UNCHANGED <<lock, sess>>
    <3>1. call'[c].s = call[c].s /\ call'[c].pc \in {"start", "done"}
      BY <2>3, FailFacts
    <3>2. ~Using(c)'
      BY <3>1 DEF Using
    <3>3. \A s \in Live : c \in sess[s].tasks => c \in lost /\ s = call[c].s
      BY <1>w, <2>1
    <3>. QED BY <1>t, <2>1, <2>3, <3>1, <3>2, <3>3, CallKeeps
  <2>4. CASE call[c].s \notin Live /\ Go(c, "acquire") /\ lock' = c /\ UNCHANGED sess
    <3>1. call'[c].s = call[c].s /\ call'[c].pc = "acquire"
      BY <2>4, GoFacts
    <3>2. ~Using(c)'
      BY <3>1 DEF Using
    <3>3. \A s \in Live : c \in sess[s].tasks => c \in lost /\ s = call[c].s
      BY <1>w, <2>1
    <3>. QED BY <1>t, <1>f, <2>1, <2>4, <3>1, <3>2, <3>3, CallKeeps
  <2>. QED BY <1>1, <2>2, <2>3, <2>4 DEF Enter
<1>2. CASE Acquire(c)
  <2>1. ASSUME NEW m \in IF avail # {} THEN avail ELSE Computer \ inuse, Begin(c, m)
        PROVE  Kept'
    BY <1>2, <2>1, BeginKeeps
  <2>2. CASE Fail(c) /\ UNCHANGED <<pool, sess>>
    <3>1. call'[c].s = call[c].s /\ call'[c].pc \in {"start", "done"}
      BY <2>2, FailFacts
    <3>2. ~Using(c)'
      BY <3>1 DEF Using
    <3>3. /\ call[c].pc = "acquire" /\ UNCHANGED <<avail, inuse, sess, main, evicted>>
      BY <1>2, <2>2 DEF Acquire, pool
    <3>4. \A s \in Live : c \in sess[s].tasks => c \in lost /\ s = call[c].s
      BY <1>w, <3>3
    <3>5. \A d \in Call \ {c} : call[d].pc \notin {"acquire", "force"}
      BY <3>3 DEF Kept, Waiting
    <3>. QED BY <1>t, <3>1, <3>2, <3>3, <3>4, <3>5, CallKeeps
  <2>. QED BY <1>2, <2>1, <2>2 DEF Acquire
<1>3. CASE Register(c)
  <2>1. /\ call[c].pc = "register" /\ call[c].kind = "task"
        /\ call'[c].s = call[c].s /\ call'[c].kind = call[c].kind
        /\ call'[c].computer = call[c].computer /\ call'[c].pc = "work"
        /\ UNCHANGED <<lock, avail, inuse, main, evicted>>
    BY <1>3, <1>r, GoFacts DEF Register, pool
  <2>2. /\ \A s \in Session : sess'[s] = None <=> sess[s] = None
        /\ \A s \in Live : sess'[s].computer = sess[s].computer
             /\ \A d \in Call : d \in sess'[s].tasks =>
                  d \in sess[s].tasks \/ (d = c /\ s = call[c].s)
    BY <1>3, <1>t, <1>l, SessionTypes DEF Register, SessionState
  <2>3. Using(c)
    BY <2>1 DEF Using
  <2>. QED BY <1>t, <1>w, <1>p, <2>1, <2>2, <2>3, CallKeeps
<1>4. CASE Work(c)
  <2>1. /\ call[c].pc = "work"
        /\ call'[c].s = call[c].s /\ call'[c].kind = call[c].kind
        /\ call'[c].computer = call[c].computer
        /\ call'[c].pc = IF call[c].kind = "task" THEN "unregister" ELSE "leave"
        /\ UNCHANGED <<lock, avail, inuse, main, evicted, sess>>
    BY <1>4 DEF Work, pool, Set, TypeOK
  <2>2. Using(c)
    BY <2>1 DEF Using
  <2>. QED BY <1>t, <1>w, <1>p, <2>1, <2>2, CallKeeps
<1>5. CASE Unregister(c)
  <2>1. /\ call[c].pc = "unregister"
        /\ call'[c].s = call[c].s /\ call'[c].computer = call[c].computer
        /\ call'[c].pc = "leave"
        /\ UNCHANGED <<lock, avail, inuse, main, evicted>>
    BY <1>5, GoFacts DEF Unregister, pool
  <2>2. /\ \A s \in Session : sess'[s] = None <=> sess[s] = None
        /\ \A s \in Live : sess'[s].computer = sess[s].computer
             /\ \A d \in Call : d \in sess'[s].tasks =>
                  d \in sess[s].tasks /\ (d = c => s # call[c].s)
    BY <1>5, <1>t, <1>l, SessionTypes DEF Unregister, SessionState
  <2>3. Using(c)
    BY <2>1 DEF Using
  <2>4. \A s \in Live : c \in sess'[s].tasks => c \in lost /\ s = call[c].s
    BY <1>w, <2>2
  <2>. QED BY <1>t, <1>p, <2>1, <2>2, <2>3, <2>4, CallKeeps
<1>6. CASE Leave(c)
  <2>1. /\ call[c].pc = "leave"
        /\ UNCHANGED <<lock, avail, inuse, main>>
        /\ evicted' = evicted \ {c}
    BY <1>6 DEF Leave, pool
  <2>2. call'[c].s = call[c].s /\ call'[c].pc \in {"start", "done"}
    <3>1. CASE Fail(c)
      BY <3>1, FailFacts
    <3>2. CASE Set(c, [call[c] EXCEPT !.pc = "done", !.computer = None])
      BY <3>2 DEF Set, TypeOK
    <3>. QED BY <1>6, <3>1, <3>2 DEF Leave
  <2>3. /\ \A s \in Session : sess'[s] = None <=> sess[s] = None
        /\ \A s \in Live : sess'[s].computer = sess[s].computer
                           /\ sess'[s].tasks = sess[s].tasks
    BY <1>6, SameSession DEF Leave
  <2>4. ~Using(c)' /\ \A s \in Live : c \in sess[s].tasks => c \in lost /\ s = call[c].s
    BY <1>w, <2>1, <2>2 DEF Using
  <2>. QED BY <1>t, <2>1, <2>2, <2>3, <2>4, CallKeeps
<1>7. CASE Cleanup(c)
  <2>1. /\ Free /\ call[c].pc = "start"
        /\ UNCHANGED <<avail, inuse, main, evicted>>
    BY <1>7 DEF Cleanup, pool
  <2>2. /\ call'[c].s = call[c].s /\ call'[c].pc \in {"force", "done"}
        /\ call'[c].pc = "force" => lock' = c
    BY <1>7, GoFacts DEF Cleanup
  <2>3. /\ \A s \in Session : sess'[s] = None <=> sess[s] = None
        /\ \A s \in Live : sess'[s].computer = sess[s].computer
                           /\ sess'[s].tasks = sess[s].tasks
    BY <1>7, SameSession DEF Cleanup
  <2>4. ~Using(c)' /\ \A s \in Live : c \in sess[s].tasks => c \in lost /\ s = call[c].s
    BY <1>w, <2>1, <2>2 DEF Using
  <2>. QED BY <1>t, <1>f, <2>1, <2>2, <2>3, <2>4, CallKeeps
<1>8. CASE Stats(c)
  <2>1. UNCHANGED <<lock, sess, avail, inuse, call, main, evicted, lost>>
    BY <1>8 DEF Stats, pool
  <2>. QED BY <2>1 DEF Kept, Counted, PoolExact, Registered, TasksWork, Waiting, Placed,
                       OnSession, Using, Live
<1>. QED BY <1>1, <1>2, <1>3, <1>4, <1>5, <1>6, <1>7, <1>8 DEF CallStep

(* A call that is cancelled loses its computer and the lock, or goes on to *)
(* what remains of it; a task cut off there is among the lost.             *)
LEMMA CancelKept ==
  ASSUME TypeOK, TypeOK', Kept, NEW c \in Call, Cancel(c)
  PROVE  Kept'
<1>t. /\ sess \in [Session -> {None} \cup SessionState]
      /\ call \in [Call -> CallState] /\ call[c].s \in Session
      /\ \A d \in Call \ {c} : call'[d] = call[d]
      /\ UNCHANGED <<avail, inuse, main, evicted, sess>>
  <2>1. UNCHANGED <<avail, inuse, main, evicted, sess>>
    BY DEF Cancel, pool
  <2>. QED BY <2>1, CallMade DEF TypeOK, CallState
<1>k. lost \subseteq lost' /\ (lost' = lost \/ c \in lost')
  BY DEF Cancel
<1>w. \A s \in Live : c \in sess[s].tasks =>
        /\ s = call[c].s
        /\ c \in lost \/ (call[c].kind = "task" /\ call[c].pc \in {"work", "unregister"})
  BY DEF Kept, Registered, TasksWork
<1>p. main.pc # "exit" /\ Using(c) /\ c \notin evicted =>
        call[c].s \in Live /\ sess[call[c].s].computer = call[c].computer
  BY DEF Kept, Placed, OnSession
<1>1. CASE /\ Quit(c)
           /\ call[c].pc \in {"acquire", "force", "start", "leave"}
           /\ lock' = lock \/ call[c].pc \in {"acquire", "force"}
  <2>1. call'[c].s = call[c].s /\ call'[c].pc = "done"
    BY <1>1, <1>t DEF Quit, Set, CallState
  <2>2. ~Using(c)'
    BY <2>1 DEF Using
  <2>3. lock' = lock \/ \A d \in Call \ {c} : call[d].pc \notin {"acquire", "force"}
    BY <1>1 DEF Kept, Waiting
  <2>4. \A s \in Live : c \in sess[s].tasks => c \in lost /\ s = call[c].s
    BY <1>1, <1>w
  <2>. QED BY <1>t, <1>k, <2>1, <2>2, <2>3, <2>4, CallKeeps
<1>2. CASE /\ call[c].pc = "work" /\ UNCHANGED <<lock, lost>>
           /\ Go(c, IF call[c].kind = "task" THEN "unregister" ELSE "leave")
  <2>1. /\ call'[c].s = call[c].s /\ call'[c].kind = call[c].kind
        /\ call'[c].computer = call[c].computer
        /\ call'[c].pc = IF call[c].kind = "task" THEN "unregister" ELSE "leave"
    BY <1>2, <1>t DEF Go, Set, CallState
  <2>2. Using(c)
    BY <1>2 DEF Using
  <2>. QED BY <1>2, <1>t, <1>w, <1>p, <2>1, <2>2, CallKeeps
<1>3. CASE /\ call[c].pc \in {"register", "unregister"} /\ UNCHANGED lock
           /\ Set(c, [call[c] EXCEPT !.pc = "leave", !.failed = FALSE])
           /\ lost' = IF call[c].pc = "unregister" THEN lost \cup {c} ELSE lost
  <2>1. /\ call'[c].s = call[c].s /\ call'[c].computer = call[c].computer
        /\ call'[c].pc = "leave"
    BY <1>3, <1>t DEF Set, CallState
  <2>2. Using(c)
    BY <1>3 DEF Using
  <2>3. \A s \in Live : c \in sess[s].tasks => c \in lost' /\ s = call[c].s
    BY <1>3, <1>w
  <2>. QED BY <1>3, <1>t, <1>k, <1>p, <2>1, <2>2, <2>3, CallKeeps
<1>. QED BY <1>1, <1>2, <1>3 DEF Cancel

LEMMA KeptNext == TypeOK /\ Kept /\ [Next]_vars => Kept'
<1>. SUFFICES ASSUME TypeOK, Kept, [Next]_vars PROVE Kept'
  OBVIOUS
<1>t. TypeOK'
  BY TypesKept
<1>1. ASSUME NEW c \in Call, CallStep(c) PROVE Kept'
  BY <1>t, <1>1, CallStepKept
<1>c. ASSUME NEW c \in Call, Cancel(c) PROVE Kept'
  BY <1>t, <1>c, CancelKept
<1>2. ASSUME NEW s \in Session, Age(s) PROVE Kept'
  <2>1. /\ sess' = [sess EXCEPT ![s].idle = TRUE] /\ s \in Live
        /\ UNCHANGED <<lock, avail, inuse, call, main, evicted, lost>>
    BY <1>2 DEF Age, pool
  <2>2. /\ Live' = Live
        /\ \A t \in Live : sess'[t].computer = sess[t].computer /\ sess'[t].tasks = sess[t].tasks
    BY <2>1, SameSession DEF Live
  <2>3. {sess'[t].computer : t \in Live'} = {sess[t].computer : t \in Live}
    BY <2>2
  <2>4. Counted'
    BY <2>1, <2>2, <2>3 DEF Kept, Counted, PoolExact
  <2>5. Registered' /\ Waiting' /\ Placed'
    BY <2>1, <2>2 DEF Kept, Registered, TasksWork, Waiting, Placed, OnSession, Using
  <2>. QED BY <2>4, <2>5 DEF Kept
<1>3. ASSUME NEW s, Remove(s), main'.pc = main.pc PROVE Kept'
  BY <1>t, <1>3, RemoveKeeps DEF Remove
<1>4. CASE Reclaim
  BY <1>3, <1>4 DEF Reclaim
<1>5. CASE RemoveAll
  <2>1. PICK s \in main.left : Remove(s) /\ main' = [main EXCEPT !.left = @ \ {s}]
    BY <1>5 DEF RemoveAll
  <2>2. main'.pc = main.pc
    BY <2>1 DEF TypeOK
  <2>. QED BY <1>3, <2>1, <2>2
<1>6. CASE Shutdown
  <2>1. /\ avail' = {} /\ inuse' = {} /\ Live' = {} /\ main'.pc = "exit"
        /\ UNCHANGED <<lock, call, lost>>
    BY <1>6 DEF Shutdown, Live
  <2>2. Counted'
    <3>1. avail' \cup inuse' = {} /\ Cardinality({}) = 0 /\ IsFiniteSet({})
      BY <2>1, FS_EmptySet
    <3>. QED BY <2>1, <3>1, PoolAssumption DEF Counted, PoolExact
  <2>. QED BY <2>1, <2>2 DEF Kept, Registered, TasksWork, Waiting, Placed
<1>7. CASE Look \/ ListAll \/ Stop \/ UNCHANGED vars
  <2>1. UNCHANGED <<lock, sess, avail, inuse, call, evicted, lost>>
    BY <1>7 DEF Look, ListAll, Stop, vars, pool
  <2>2. main'.pc # "exit" => main.pc # "exit"
    BY <1>7 DEF Look, ListAll, Stop, vars
  <2>. QED BY <2>1, <2>2 DEF Kept, Counted, PoolExact, Registered, TasksWork, Waiting, Placed,
                             OnSession, Using, Live
<1>. QED BY <1>1, <1>c, <1>2, <1>4, <1>5, <1>6, <1>7 DEF Next, ServerStep

-----------------------------------------------------------------------------
(* While the server runs, calls on one computer are on one session. *)
LEMMA RunningApart ==
  ASSUME Kept, main.pc # "exit"
  PROVE  OwnComputer
BY DEF Kept, Counted, PoolExact, Placed, OnSession, OwnComputer

(* Once it has stopped nobody moves. *)
LEMMA ApartNext ==
  ASSUME TypeOK, Kept, OwnComputer, [Next]_vars
  PROVE  OwnComputer'
<1>1. Kept'
  BY KeptNext
<1>2. CASE main'.pc # "exit"
  <2>1. Kept' /\ main'.pc # "exit" => OwnComputer'
    BY DEF Kept, Counted, PoolExact, Placed, OnSession, OwnComputer
  <2>. QED BY <1>1, <1>2, <2>1
<1>3. CASE main'.pc = "exit"
  <2>1. CASE main.pc # "exit"
    <3>1. ~(\E c \in Call : CallStep(c) \/ Cancel(c)) /\ ~(\E s \in Session : Age(s)) /\ ~Look /\ ~Reclaim
      BY <1>3, <2>1, ZenonT(60) DEF CallStep, Enter, Acquire, Register, Work, Unregister, Leave,
         Cleanup, Stats, Cancel, Age, Look, Reclaim
    <3>2. ~ListAll /\ ~RemoveAll /\ ~Stop /\ ~UNCHANGED vars
      BY <1>3, <2>1 DEF ListAll, RemoveAll, Stop, vars, TypeOK
    <3>3. Shutdown
      BY <3>1, <3>2 DEF Next, ServerStep
    <3>4. call' = call /\ evicted' = evicted
      BY <3>3 DEF Shutdown
    <3>. QED BY <3>4, Zenon DEF OwnComputer, Using
  <2>2. CASE main.pc = "exit"
    <3>1. ~Running /\ ~Free
      BY <2>2 DEF Running, Free
    <3>2. UNCHANGED vars
      BY <3>1, ZenonT(60) DEF Next, ServerStep, CallStep, Enter, Acquire, Register, Work, Unregister, Leave,
         Cleanup, Stats, Cancel, Age, Look, Reclaim, ListAll, RemoveAll, Shutdown, Stop, Remove
    <3>. QED BY <3>2 DEF vars, OwnComputer, Using
  <2>. QED BY <2>1, <2>2
<1>. QED BY <1>2, <1>3

LEMMA InitApart == Init => OwnComputer
BY DEF Init, OwnComputer, Using

(* The invariants that hold together. *)
THEOREM PoolReasons == Spec => [](TypeOK /\ Kept /\ OwnComputer)
<1>1. Init => TypeOK /\ Kept /\ OwnComputer
  BY InitTypes, InitKept, InitApart
<1>2. TypeOK /\ Kept /\ OwnComputer /\ [Next]_vars => (TypeOK /\ Kept /\ OwnComputer)'
  BY TypesKept, KeptNext, ApartNext
<1>. QED BY <1>1, <1>2, PTL DEF Spec

(* The pool counts exactly the computers that sessions have, each session its
   own, and never more than it may hold; and who is registered with a session
   works for it, unless it was cancelled while it waited to leave. *)
THEOREM PoolAlways == Spec => []PoolInv
<1>1. TypeOK /\ Kept /\ OwnComputer => PoolInv
  BY DEF Kept, Counted, Registered, PoolInv
<1>. QED BY <1>1, PoolReasons, PTL

(* Two calls of different sessions are on one computer only after one of their
   sessions was removed. *)
THEOREM OwnComputerAlways == Spec => []OwnComputer
<1>. QED BY PoolReasons, PTL
=============================================================================
