--------------------------- MODULE BrowserDaemon ---------------------------
(***************************************************************************)
(* The process that holds the browser's debugger connection for the        *)
(* browser tool: who starts it, who stops it, and how a tool call heals    *)
(* (browser/daemon.py, browser/admin.py, browser/_ipc.py and               *)
(* mcp_server/browser_tool.py).                                            *)
(*                                                                         *)
(* Tool calls run in threads and share nothing but two files: the socket   *)
(* path, which leads to the daemon that bound it last, and the pid file.   *)
(* A daemon looks for another one before it connects to the browser and    *)
(* binds the path long after; whoever stops a daemon, and every daemon     *)
(* that ends, removes both files, whosever they are by then.               *)
(***************************************************************************)
EXTENDS Naturals, FiniteSets

CONSTANTS
  Tool,        \* calls of the browser tool
  Kinds,       \* what each call may be: "click" or "restart_daemon"
  Proc,        \* process numbers, used again once nobody remembers them
  Nobody,      \* no process
  MaxRestarts  \* bound: how often the browser goes down or comes up

ASSUME ProcAssumption == Nobody \notin Proc /\ MaxRestarts \in Nat
ASSUME KindAssumption == Kinds \in [Tool -> SUBSET {"click", "restart_daemon"}]

VARIABLES
  up,        \* the browser runs and allows debugging
  restarts,  \* how often that changed
  proc,      \* state of a daemon process
  ws,        \* its connection to the browser is live
  sock,      \* the daemon the socket path leads to
  pidfile,   \* the daemon the pid file names
  call,      \* what each tool call is doing
  blamed,    \* history: calls with an excuse for failing
  raced      \* history: a daemon was started while another one was on its way,
             \* or a call that stopped one removed the path of its successor

daemonVars == <<up, restarts, proc, ws, sock, pidfile, call, blamed, raced>>

(* ensure_daemon: alive, probe, spawn, wait; restart_daemon: shut, gone;   *)
(* the click: press, release.                                              *)
Places == {"start", "alive", "probe", "spawn", "wait", "shut", "gone",
          "press", "release", "done"}

(* The state of a call: where; whether ensure_daemon or restart_daemon     *)
(* runs for the tool itself, for its healing or within ensure_daemon;      *)
(* their attempt; the attempt of the action; the process waited for.       *)
Fresh == [kind |-> "click", pc |-> "start", for |-> "tool", attempt |-> 0, heals |-> 0,
         waits |-> Nobody, status |-> "running"]

(* There is no browser yet; or an earlier run of the program has left a    *)
(* daemon, which may have lost the browser that runs now.                  *)
Left == {"nothing", "daemon", "orphan"}

DaemonInit ==
  /\ restarts = 0
  /\ \E left \in Left, d \in Proc :
       /\ \A e \in Proc : d <= e
       /\ up = (left # "nothing")
       /\ proc = [e \in Proc |-> IF up /\ e = d THEN "listening" ELSE "none"]
       /\ ws = [e \in Proc |-> left = "daemon" /\ e = d]
       /\ sock = IF up THEN d ELSE Nobody
       /\ pidfile = sock
  /\ \E kind \in [Tool -> {"click", "restart_daemon"}] :
       /\ \A c \in Tool : kind[c] \in Kinds[c]
       /\ call = [c \in Tool |-> [Fresh EXCEPT !.kind = kind[c]]]
  /\ blamed = {} /\ raced = FALSE

(* ipc.ping: the path leads to a daemon that answers. *)
Alive == sock # Nobody /\ proc[sock] = "listening"

Running(d) == proc[d] \in {"checking", "starting", "listening", "leaving"}

Becomes(c, r) == call' = [call EXCEPT ![c] = r]
Go(c, where) == Becomes(c, [call[c] EXCEPT !.pc = where])

End(c, status) == Becomes(c, [Fresh EXCEPT !.pc = "done", !.status = status])

(* No daemon comes or goes, and the files name the one there is, if any. *)
Settled == \A d \in Proc : Running(d) => proc[d] = "listening" /\ sock = d /\ pidfile = d

(* Calls on their way, other than c. *)
Others(c) == {b \in Tool \ {c} : call[b].pc \notin {"start", "done"}}

browser == <<up, restarts>>
files == <<sock, pidfile>>
history == <<blamed, raced>>

-----------------------------------------------------------------------------
(* The tool looks whether there is a daemon, and starts one if not. *)
Begin(c) ==
  /\ call[c].pc = "start"
  /\ IF call[c].kind = "restart_daemon" THEN Go(c, "shut")
     ELSE Go(c, IF Alive THEN "press" ELSE "alive")
  /\ blamed' = IF up /\ Settled THEN blamed ELSE blamed \cup {c}
  /\ UNCHANGED <<raced, browser, proc, ws, files>>

(* ensure_daemon: a daemon that answers is asked for the browser's targets. *)
EnsureAlive(c) ==
  /\ call[c].pc = "alive"
  /\ Becomes(c, [call[c] EXCEPT !.pc = IF Alive THEN "probe" ELSE "spawn", !.attempt = 0])
  /\ UNCHANGED <<history, browser, proc, ws, files>>

(* ensure_daemon is over: the tool goes on, or the healing has worked and  *)
(* the action is tried again.                                              *)
Ensured(c) == Becomes(c, [call[c] EXCEPT !.pc = "press", !.for = "tool", !.waits = Nobody])

Probe(c) ==
  /\ call[c].pc = "probe"
  /\ IF Alive /\ ws[sock] THEN Ensured(c) ELSE Go(c, "shut")
  /\ UNCHANGED <<history, browser, proc, ws, files>>

(* A process number nobody remembers. *)
Free(d) == /\ proc[d] = "none" /\ d # sock /\ d # pidfile
           /\ \A c \in Tool : call[c].waits # d

Spawn(c) ==
  /\ call[c].pc = "spawn"
  /\ \E d \in Proc :
       /\ Free(d) /\ \A e \in Proc : Free(e) => d <= e
       /\ proc' = [proc EXCEPT ![d] = "checking"]
       /\ ws' = [ws EXCEPT ![d] = FALSE]
       /\ Becomes(c, [call[c] EXCEPT !.pc = "wait", !.waits = d])
  /\ raced' = (raced \/ \E e \in Proc : proc[e] \in {"checking", "starting"})
  /\ UNCHANGED <<blamed, browser, files>>

(* Variant of Wait: no time limit. *)
WaitForever(c) ==
  /\ call[c].pc = "wait"
  /\ Alive /\ Ensured(c)
  /\ UNCHANGED <<history, browser, proc, ws, files>>

(* The wait ends when some daemon answers; or, when the new one ended or   *)
(* the time is up, the user is shown the inspect page and there is one     *)
(* more attempt, or the call fails.                                        *)
Wait(c) ==
  /\ call[c].pc = "wait"
  /\ \/ Alive /\ Ensured(c)
     \/ /\ ~Alive /\ proc[call[c].waits] # "checking"
        /\ \/ /\ call[c].attempt = 0
              /\ Becomes(c, [call[c] EXCEPT !.pc = "shut", !.attempt = 1, !.waits = Nobody])
           \/ End(c, "error")
  /\ blamed' = IF Alive THEN blamed ELSE blamed \cup {c}
  /\ UNCHANGED <<raced, browser, proc, ws, files>>

(* restart_daemon: whoever answers is told to shut down, and removes the   *)
(* path as soon as it has answered; the process the pid file names then is *)
(* waited for ...                                                          *)
Shut(c) ==
  /\ call[c].pc = "shut"
  /\ IF Alive THEN proc' = [proc EXCEPT ![sock] = "leaving"] /\ sock' = Nobody
     ELSE UNCHANGED <<proc, sock>>
  /\ Becomes(c, [call[c] EXCEPT !.waits = pidfile, !.pc = "gone"])
  /\ blamed' = blamed \cup Others(c)
  /\ UNCHANGED <<raced, browser, ws, pidfile>>

(* ... and killed after a while, if it does not end; and both files are    *)
(* removed.                                                                *)
Gone(c) ==
  LET d == call[c].waits IN
  /\ call[c].pc = "gone"
  /\ proc' = IF d # Nobody THEN [proc EXCEPT ![d] = "none"] ELSE proc
  /\ ws' = IF d # Nobody THEN [ws EXCEPT ![d] = FALSE] ELSE ws
  /\ sock' = Nobody /\ pidfile' = Nobody
  /\ IF call[c].kind = "restart_daemon" THEN End(c, "ok")
     ELSE IF call[c].for = "heal"
     THEN Becomes(c, [call[c] EXCEPT !.pc = "alive", !.for = "healed", !.waits = Nobody])
     ELSE Becomes(c, [call[c] EXCEPT !.pc = "spawn", !.waits = Nobody])
  /\ blamed' = (blamed \ (IF call'[c].status = "ok" THEN {c} ELSE {})) \cup Others(c)
  /\ raced' = (raced \/ \E e \in Proc \ {d} : sock = e /\ proc[e] = "listening")
  /\ UNCHANGED browser

(* Variant of Deliver: an error of a dead connection is passed on. *)
DeliverUnhealed(c) ==
  /\ call[c].pc \in {"press", "release"}
  /\ IF Alive /\ ws[sock]
     THEN IF call[c].pc = "press" THEN Go(c, "release") ELSE End(c, "ok")
     ELSE End(c, "error")
  /\ UNCHANGED <<history, browser, proc, ws, files>>

(* One mouse event through the daemon.  An error of a dead connection is   *)
(* healed once, if its message is one the tool knows: the daemon is        *)
(* stopped, started and the action repeated.                               *)
Deliver(c) ==
  /\ call[c].pc \in {"press", "release"}
  /\ \/ /\ Alive /\ ws[sock]
        /\ IF call[c].pc = "press"
           THEN Go(c, "release")
           ELSE End(c, "ok")
     \/ /\ Alive /\ ~ws[sock] /\ call[c].heals = 0
        /\ Becomes(c, [call[c] EXCEPT !.pc = "shut", !.heals = 1, !.for = "heal"])
     \/ ~(Alive /\ ws[sock]) /\ End(c, "error")
  /\ blamed' =
       IF call'[c].status = "ok" THEN blamed \ {c}
       ELSE IF call'[c].status = "error" /\ Alive /\ call[c].heals = 0 THEN blamed \cup {c}
       ELSE blamed
  /\ UNCHANGED <<raced, browser, proc, ws, files>>

-----------------------------------------------------------------------------

(* A daemon that finds another one answering gives up. *)
Check(d) ==
  /\ proc[d] = "checking"
  /\ IF Alive
     THEN proc' = [proc EXCEPT ![d] = "none"] /\ UNCHANGED pidfile
     ELSE proc' = [proc EXCEPT ![d] = "starting"] /\ pidfile' = d
  /\ UNCHANGED <<history, browser, ws, sock, call>>

(* It connects, attaches to a page and binds the path, whoever bound it    *)
(* before; without a browser it ends, and takes the pid file with it.      *)
StartUp(d) ==
  /\ proc[d] = "starting"
  /\ \/ /\ up
        /\ proc' = [proc EXCEPT ![d] = "listening"]
        /\ ws' = [ws EXCEPT ![d] = TRUE]
        /\ sock' = d
        /\ UNCHANGED pidfile
     \/ /\ ~up
        /\ proc' = [proc EXCEPT ![d] = "none"]
        /\ pidfile' = Nobody
        /\ UNCHANGED <<ws, sock>>
  /\ UNCHANGED <<browser, call, history>>

(* Told to stop, it removes the pid file when it ends. *)
Exit(d) ==
  /\ proc[d] = "leaving"
  /\ proc' = [proc EXCEPT ![d] = "none"]
  /\ ws' = [ws EXCEPT ![d] = FALSE]
  /\ pidfile' = Nobody
  /\ UNCHANGED <<history, browser, sock, call>>

(* The browser goes away, with every connection to it, or comes up. *)
Browser ==
  /\ restarts < MaxRestarts
  /\ restarts' = restarts + 1
  /\ up' = ~up
  /\ ws' = [d \in Proc |-> FALSE]
  /\ blamed' = blamed \cup {c \in Tool : call[c].pc \notin {"start", "done"}}
  /\ UNCHANGED <<raced, proc, files, call>>

CallStep(c) ==
  \/ Begin(c) \/ EnsureAlive(c) \/ Probe(c) \/ Spawn(c) \/ Wait(c)
  \/ Shut(c) \/ Gone(c) \/ Deliver(c)
ProcStep(d) == Check(d) \/ StartUp(d) \/ Exit(d)

DaemonNext ==
  \/ \E c \in Tool : CallStep(c)
  \/ \E d \in Proc : ProcStep(d)
  \/ Browser

DaemonSpec ==
  /\ DaemonInit /\ [][DaemonNext]_daemonVars
  /\ \A c \in Tool : WF_daemonVars(CallStep(c))
  /\ \A d \in Proc : WF_daemonVars(ProcStep(d))

-----------------------------------------------------------------------------
DaemonTypeOK ==
  /\ up \in BOOLEAN /\ restarts \in Nat
  /\ proc \in [Proc -> {"none", "checking", "starting", "listening", "leaving"}]
  /\ ws \in [Proc -> BOOLEAN] /\ blamed \subseteq Tool /\ raced \in BOOLEAN
  /\ sock \in Proc \cup {Nobody} /\ pidfile \in Proc \cup {Nobody}
  /\ call \in [Tool -> [kind : {"click", "restart_daemon"}, pc : Places,
                        for : {"tool", "heal", "healed"}, attempt : 0..1, heals : 0..1,
                        waits : Proc \cup {Nobody}, status : {"running", "ok", "error"}]]

(* A tool call that fails has an excuse: the browser was down or went away *)
(* meanwhile, somebody else stopped the daemon, a wait took too long,      *)
(* daemons were already coming and going when it began, or the message of  *)
(* its first error is none it knows.  Otherwise it heals whatever it       *)
(* finds: no daemon, a dead socket path, a stale pid file, a daemon whose  *)
(* connection to the browser has died.                                     *)
FailsWithCause == \A c \in Tool : call[c].status = "error" => c \in blamed

(* daemon.py: "One daemon per CUA_BROWSER_NAME." *)
OneDaemon == \A d, e \in Proc : proc[d] = "listening" /\ proc[e] = "listening" => d = e

(* There is one, as long as no daemon is started while another one is      *)
(* still on its way, and nobody removes the path of one that answers.      *)
OneDaemonUnlessRaced == raced \/ OneDaemon

(* The daemon heals itself: failures have a cause outside of it, and only  *)
(* overlapping starts leave two of it.                                     *)
DaemonInv == DaemonTypeOK /\ FailsWithCause /\ OneDaemonUnlessRaced

(* Every tool call ends. *)
CallsEnd == \A c \in Tool : <>(call[c].pc = "done")
=============================================================================
