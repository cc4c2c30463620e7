---------------------------- MODULE SessionPool ----------------------------
(***************************************************************************)
(* Sessions of the agent server and the computers they run on              *)
(* (libs/python/mcp-server: session_manager.py and server.py).             *)
(*                                                                         *)
(* Tool calls are tasks of one event loop.  A session has a computer,      *)
(* taken from a pool and given back when the session is removed: by the    *)
(* cleanup tool, by the loop that looks for idle sessions, or at the end   *)
(* of the server.  One lock, which is not reentrant, guards the sessions,  *)
(* and whoever takes a computer for a new session holds it meanwhile.      *)
(***************************************************************************)
EXTENDS Naturals, FiniteSets

CONSTANTS
  Call,        \* tool calls
  Session,     \* session ids; a call that names none names one of its own
  Computer,    \* computers
  None,        \* no call, no session, no computer
  Asks,        \* what the calls may ask for: each a kind and a session
  PoolSize,    \* computers in use at most (max_size)
  MaxSessions  \* max_concurrent_sessions

Kind == {"task", "screenshot", "cleanup", "stats"}

(* What there is of a session. *)
SessionState ==
  [computer : Computer, tasks : SUBSET Call, closing : BOOLEAN, idle : BOOLEAN]

ASSUME PoolAssumption == PoolSize \in Nat /\ MaxSessions \in Nat
ASSUME NoneAssumption == None \notin Call \cup Session \cup Computer \cup SessionState
ASSUME AsksAssumption == Asks \subseteq [Call -> Kind \X Session]

VARIABLES
  lock,     \* the call that keeps the lock over an await
  sess,     \* the sessions there are
  avail,    \* computers nobody uses
  inuse,    \* computers of sessions
  call,     \* what each call is doing
  idle,     \* what the idle loop found and has not yet removed
  main,     \* the server: running, stopping, and the sessions left to remove
  frozen,   \* the event loop waits for itself
  evicted,  \* history: calls whose session was removed under them
  lost      \* history: tasks cancelled while they waited to leave their session

vars == <<lock, sess, avail, inuse, call, idle, main, frozen, evicted, lost>>
pool == <<avail, inuse>>

Init ==
  /\ lock = None
  /\ sess = [s \in Session |-> None]
  /\ avail = {} /\ inuse = {} /\ idle = {} /\ evicted = {} /\ lost = {}
  /\ main = [pc |-> "run", left |-> {}]
  /\ frozen = FALSE
  /\ \E ask \in Asks :
       call = [c \in Call |-> [kind |-> ask[c][1], s |-> ask[c][2], pc |-> "start",
                               computer |-> None, failed |-> FALSE]]

Live == {s \in Session : sess[s] # None}
Using(c) == call[c].pc \in {"register", "work", "unregister", "leave"}

(* The loop runs, and nobody holds the lock. *)
Running == ~frozen /\ main.pc # "exit"
Free == Running /\ lock = None

Set(c, r) == call' = [call EXCEPT ![c] = r]
Go(c, where) == Set(c, [call[c] EXCEPT !.pc = where])

(* A task that failed tries a screenshot of its session instead. *)
Fail(c) ==
  IF call[c].kind = "task"
  THEN Set(c, [call[c] EXCEPT !.kind = "screenshot", !.pc = "start",
                              !.computer = None, !.failed = FALSE])
  ELSE Set(c, [call[c] EXCEPT !.pc = "done", !.computer = None, !.failed = FALSE])

Use(c, m) ==
  Set(c, [call[c] EXCEPT !.computer = m,
                         !.pc = IF call[c].kind = "task" THEN "register" ELSE "work"])

-----------------------------------------------------------------------------
(* get_session: a session that is there is used, unless it is closing; a   *)
(* new one needs a computer, and the lock is kept until it has one.        *)
Enter(c) ==
  LET s == call[c].s IN
  /\ Free /\ call[c].pc = "start" /\ call[c].kind \in {"task", "screenshot"}
  /\ IF s \in Live /\ ~sess[s].closing
     THEN /\ Use(c, sess[s].computer)
          /\ sess' = [sess EXCEPT ![s].idle = FALSE]
          /\ UNCHANGED lock
     ELSE /\ IF s \in Live \/ Cardinality(Live) >= MaxSessions
             THEN Fail(c) /\ UNCHANGED lock
             ELSE Go(c, "acquire") /\ lock' = c
          /\ UNCHANGED sess
  /\ UNCHANGED <<pool, idle, main, frozen, evicted, lost>>

(* acquire: a computer of the pool, or a new one as long as there may be   *)
(* one more, which may fail to start; otherwise the call waits for one to  *)
(* become available.                                                       *)
Full == avail = {} /\ Cardinality(inuse) >= PoolSize

(* A session begins on computer m. *)
Begin(c, m) ==
  /\ avail' = avail \ {m}
  /\ inuse' = inuse \cup {m}
  /\ sess' = [sess EXCEPT ![call[c].s] =
                [computer |-> m, tasks |-> {}, closing |-> FALSE, idle |-> FALSE]]
  /\ Use(c, m)

(* Variant of Acquire: a start that fails keeps the lock. *)
AcquireKeeping(c) ==
  /\ Running /\ call[c].pc = "acquire" /\ ~Full
  /\ \/ /\ \E m \in IF avail # {} THEN avail ELSE Computer \ inuse : Begin(c, m)
        /\ lock' = None
     \/ avail = {} /\ Fail(c) /\ UNCHANGED <<pool, sess, lock>>
  /\ UNCHANGED <<idle, main, frozen, evicted, lost>>

Acquire(c) ==
  /\ Running /\ call[c].pc = "acquire" /\ ~Full
  /\ \/ \E m \in IF avail # {} THEN avail ELSE Computer \ inuse : Begin(c, m)
     \/ avail = {} /\ Fail(c) /\ UNCHANGED <<pool, sess>>
  /\ lock' = None
  /\ UNCHANGED <<idle, main, frozen, evicted, lost>>

Register(c) ==
  LET s == call[c].s IN
  /\ Free /\ call[c].pc = "register"
  /\ sess' = IF s \in Live THEN [sess EXCEPT ![s].tasks = @ \cup {c}] ELSE sess
  /\ Go(c, "work")
  /\ UNCHANGED <<lock, pool, idle, main, frozen, evicted, lost>>

(* Variant of Work: a task that fails does not unregister. *)
WorkLeaving(c) ==
  /\ Running /\ call[c].pc = "work"
  /\ \E failed \in BOOLEAN :
       Set(c, [call[c] EXCEPT !.failed = failed,
                 !.pc = IF call[c].kind = "task" /\ ~failed THEN "unregister" ELSE "leave"])
  /\ UNCHANGED <<lock, sess, pool, idle, main, frozen, evicted, lost>>

(* The agent's work, or the screenshot. *)
Work(c) ==
  /\ Running /\ call[c].pc = "work"
  /\ \E failed \in BOOLEAN :
       Set(c, [call[c] EXCEPT !.failed = failed,
                 !.pc = IF call[c].kind = "task" THEN "unregister" ELSE "leave"])
  /\ UNCHANGED <<lock, sess, pool, idle, main, frozen, evicted, lost>>

Unregister(c) ==
  LET s == call[c].s IN
  /\ Free /\ call[c].pc = "unregister"
  /\ sess' = IF s \in Live THEN [sess EXCEPT ![s].tasks = @ \ {c}] ELSE sess
  /\ Go(c, "leave")
  /\ UNCHANGED <<lock, pool, idle, main, frozen, evicted, lost>>

(* The end of get_session's block. *)
Leave(c) ==
  LET s == call[c].s IN
  /\ Free /\ call[c].pc = "leave"
  /\ sess' = IF s \in Live THEN [sess EXCEPT ![s].idle = FALSE] ELSE sess
  /\ IF call[c].failed THEN Fail(c)
     ELSE Set(c, [call[c] EXCEPT !.pc = "done", !.computer = None])
  /\ evicted' = evicted \ {c}
  /\ UNCHANGED <<lock, pool, idle, main, frozen, lost>>

Quit(c) == Set(c, [call[c] EXCEPT !.pc = "done", !.computer = None, !.failed = FALSE])

(* The client cancels a call, where it works or waits: for a computer, or  *)
(* for the lock somebody keeps.  What remains of it, the ends of the task  *)
(* and of the block, waits for the lock as usual, and may be cancelled in  *)
(* its turn: a task cancelled on its way out of the session stays there.   *)
Cancel(c) ==
  /\ Running
  /\ \/ /\ call[c].pc \in {"acquire", "force"}
        /\ Quit(c)
        /\ lock' = None /\ UNCHANGED lost
     \/ /\ call[c].pc = "work"
        /\ Go(c, IF call[c].kind = "task" THEN "unregister" ELSE "leave")
        /\ UNCHANGED <<lock, lost>>
     \/ /\ lock # None /\ call[c].pc \in {"start", "leave"}
        /\ Quit(c)
        /\ UNCHANGED <<lock, lost>>
     \/ /\ lock # None /\ call[c].pc \in {"register", "unregister"}
        /\ Set(c, [call[c] EXCEPT !.pc = "leave", !.failed = FALSE])
        /\ lost' = IF call[c].pc = "unregister" THEN lost \cup {c} ELSE lost
        /\ UNCHANGED lock
  /\ UNCHANGED <<sess, pool, idle, main, frozen, evicted>>

(* cleanup_session: a session with tasks is marked; one without is removed *)
(* by a function that takes the lock, which the call holds already.        *)
Cleanup(c) ==
  LET s == call[c].s IN
  /\ Free /\ call[c].pc = "start" /\ call[c].kind = "cleanup"
  /\ IF s \in Live /\ sess[s].tasks = {}
     THEN lock' = c /\ Go(c, "force") /\ UNCHANGED sess
     ELSE /\ sess' = IF s \in Live THEN [sess EXCEPT ![s].closing = TRUE] ELSE sess
          /\ Go(c, "done")
          /\ UNCHANGED lock
  /\ UNCHANGED <<pool, idle, main, frozen, evicted, lost>>

(* get_session_stats: the loop's thread waits for a task of the loop. *)
Stats(c) ==
  /\ Running /\ call[c].pc = "start" /\ call[c].kind = "stats"
  /\ frozen' = TRUE
  /\ UNCHANGED <<lock, sess, pool, call, idle, main, evicted, lost>>

-----------------------------------------------------------------------------

(* Variant of Remove: the session stays. *)
RemoveComputerOnly(s) ==
  /\ Free
  /\ IF s \in Live
     THEN /\ avail' = avail \cup {sess[s].computer}
          /\ inuse' = inuse \ {sess[s].computer}
          /\ evicted' = evicted \cup {c \in Call : Using(c) /\ call[c].s = s}
     ELSE UNCHANGED <<pool, evicted>>
  /\ UNCHANGED <<lock, sess, call, frozen, lost>>

(* _force_cleanup_session, whatever the session is doing by now. *)
Remove(s) ==
  /\ Free
  /\ IF s \in Live
     THEN /\ avail' = avail \cup {sess[s].computer}
          /\ inuse' = inuse \ {sess[s].computer}
          /\ sess' = [sess EXCEPT ![s] = None]
          /\ evicted' = evicted \cup {c \in Call : Using(c) /\ call[c].s = s}
     ELSE UNCHANGED <<pool, sess, evicted>>
  /\ UNCHANGED <<lock, call, frozen, lost>>

(* Ten minutes without the beginning or the end of a call. *)
Age(s) ==
  /\ Running /\ main.pc = "run" /\ s \in Live /\ ~sess[s].idle
  /\ sess' = [sess EXCEPT ![s].idle = TRUE]
  /\ UNCHANGED <<lock, pool, call, idle, main, frozen, evicted, lost>>

(* The idle loop notes the sessions that are idle and then removes them. *)
Look ==
  /\ Free /\ main.pc = "run" /\ idle = {}
  /\ idle' = {s \in Live : sess[s].idle /\ ~sess[s].closing /\ sess[s].tasks = {}}
  /\ idle' # {}
  /\ UNCHANGED <<lock, sess, pool, call, main, frozen, evicted, lost>>

Reclaim ==
  /\ \E s \in idle : Remove(s) /\ idle' = idle \ {s}
  /\ UNCHANGED main

(* The server stops: the idle loop is cancelled, every session removed and *)
(* the pool closed.                                                        *)
Stop ==
  /\ Running /\ main.pc = "run"
  /\ main' = [main EXCEPT !.pc = "list"] /\ idle' = {}
  /\ UNCHANGED <<lock, sess, pool, call, frozen, evicted, lost>>

ListAll ==
  /\ Free /\ main.pc = "list"
  /\ main' = [pc |-> "remove", left |-> Live]
  /\ UNCHANGED <<lock, sess, pool, call, idle, frozen, evicted, lost>>

RemoveAll ==
  /\ main.pc = "remove"
  /\ \E s \in main.left : Remove(s) /\ main' = [main EXCEPT !.left = @ \ {s}]
  /\ UNCHANGED idle

Shutdown ==
  /\ Running /\ main.pc = "remove" /\ main.left = {}
  /\ main' = [pc |-> "exit", left |-> {}]
  /\ avail' = {} /\ inuse' = {} /\ sess' = [s \in Session |-> None]
  /\ UNCHANGED <<lock, call, idle, frozen, evicted, lost>>

CallStep(c) ==
  \/ Enter(c) \/ Acquire(c) \/ Register(c) \/ Work(c) \/ Unregister(c) \/ Leave(c)
  \/ Cleanup(c) \/ Stats(c)
ServerStep == Look \/ Reclaim \/ ListAll \/ RemoveAll \/ Shutdown

Next ==
  \/ \E c \in Call : CallStep(c) \/ Cancel(c)
  \/ \E s \in Session : Age(s)
  \/ ServerStep \/ Stop

Spec == Init /\ [][Next]_vars

FairSpec ==
  /\ Spec
  /\ \A c \in Call : SF_vars(CallStep(c))
  /\ WF_vars(ServerStep)

-----------------------------------------------------------------------------
TypeOK ==
  /\ lock \in Call \cup {None}
  /\ sess \in [Session -> {None} \cup SessionState]
  /\ avail \subseteq Computer /\ inuse \subseteq Computer /\ idle \subseteq Session
  /\ call \in [Call -> [kind : Kind, s : Session, computer : Computer \cup {None},
                        pc : {"start", "acquire", "register", "work", "unregister",
                              "leave", "force", "done"}, failed : BOOLEAN]]
  /\ main \in [pc : {"run", "list", "remove", "exit"}, left : SUBSET Session]
  /\ frozen \in BOOLEAN /\ evicted \subseteq Call /\ lost \subseteq Call

(* The pool counts exactly the computers that sessions have, each session  *)
(* its own, and there are never more than the pool may hold.               *)
PoolExact ==
  /\ inuse = {sess[s].computer : s \in Live}
  /\ \A s, t \in Live : sess[s].computer = sess[t].computer => s = t
  /\ avail \cap inuse = {}
  /\ Cardinality(avail \cup inuse) <= PoolSize

(* session_manager.py: "concurrent client sessions with proper resource    *)
(* isolation".  Two calls of different sessions are on one computer only   *)
(* if a session was removed while one of them was using it.                *)
OwnComputer ==
  \A c, d \in Call :
    Using(c) /\ Using(d) /\ call[c].computer = call[d].computer =>
      call[c].s = call[d].s \/ {c, d} \cap evicted # {}

(* A session's tasks are calls that are working for it, so that it can be  *)
(* removed after they end; but for a task that was cancelled while another *)
(* call kept the lock for a computer: it ends and stays registered, and    *)
(* its session is never idle again.                                        *)
TasksWork ==
  \A s \in Live : \A c \in sess[s].tasks :
    /\ call[c].s = s
    /\ c \in lost \/ (call[c].kind = "task" /\ call[c].pc \in {"work", "unregister"})

(* Computers and tasks are accounted for.                                  *)
PoolInv == TypeOK /\ PoolExact /\ TasksWork

(* Three things may hang the server: the statistics, the removal of a      *)
(* session by the cleanup tool, and a session that waits for a computer    *)
(* while it keeps the lock that those who have one need to give it back.   *)
Hung ==
  \/ frozen
  \/ \E c \in Call : call[c].pc = "force" \/ (call[c].pc = "acquire" /\ Full)

Ended(c) == call[c].pc = "done" \/ main.pc = "exit"

(* Otherwise every call ends. *)
EndsUnlessHung == <>(Hung \/ \A c \in Call : Ended(c))
=============================================================================
