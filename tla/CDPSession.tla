----------------------------- MODULE CDPSession -----------------------------
(***************************************************************************)
(* The one debugger connection all actions on a browser share:             *)
(* CDPDaemon and its cache (translators/cdp_daemon.py), with the two       *)
(* clients that use it, T2 (translators/t2_cdp.py), which resolves a       *)
(* target in several round trips, and C5 (channels/c5_cdp_input.py),       *)
(* which clicks where T2 found it.                                         *)
(*                                                                         *)
(* A daemon is attached to one page at a time; sessions of earlier         *)
(* attachments stay usable while their page and the socket are open.  A    *)
(* call on the daemon's own session that has gone attaches the daemon to   *)
(* the first real page and tries again there, so a call may land on        *)
(* another page than it was meant for.  Between two round trips of one     *)
(* action pages open and close, other actions attach the daemon somewhere  *)
(* else, and the idle loop closes it.                                      *)
(*                                                                         *)
(* The clock only serves the idle loop, and ticks once an idle period.     *)
(***************************************************************************)
EXTENDS Naturals, Sequences, FiniteSets

CONSTANTS
  Action,      \* the actions that use T2 and C5
  Page,        \* page targets of the browser
  Workspace,   \* pages the filter of the application accepts
  Internal,    \* pages with an internal URL, which is no real page
  None,        \* no page, no holder of the lock
  Idle,        \* _IDLE_EVICT_SEC in time units
  MaxTime      \* bound: the clock stops here

ASSUME PageAssumption ==
  /\ Workspace \subseteq Page /\ Internal \subseteq Page
  /\ Workspace \cap Internal = {}
  /\ None \notin Page /\ None \notin Action
ASSUME TimeAssumption == Idle \in Nat /\ MaxTime \in Nat

VARIABLES
  now,       \* time.monotonic_ns
  page,      \* page targets: not created yet, open or closed
  filtered,  \* the application has a workspace filter
  cache,     \* _DAEMONS at the key of this browser: a daemon, or 0
  lock,      \* who holds _LOCK
  daemons,   \* every daemon made
  sessions,  \* every session: its page, its daemon, whether its document was asked for
  act        \* what each action is doing

vars == <<now, page, filtered, cache, lock, daemons, sessions, act>>

(* T2.resolve: open, list, (reattach, enable,) document, query, box; the   *)
(* target is resolved; C5.fire: press, release; then done.  "connect" is   *)
(* CDPDaemon.connect, under the lock, on the way to list or to press.      *)
Call == {"document", "query", "box", "press", "release"}
Where == Call \cup {"open", "connect", "list", "reattach", "enable", "resolved", "done"}

(* Where a round trip on a session is: "send" it; "lost" when the browser  *)
(* knows no such session; then look for a page, attach and enable, retry.  *)
Stage == {"send", "lost", "look", "attach", "enable", "retry"}

Daemon == [sess : Nat, at : Page \cup {None}, last : Nat,
           sock : {"open", "closed"}, shut : BOOLEAN]

Session == [page : Page, d : Nat \ {0}, doc : BOOLEAN]

(* The state of an action: where, stage of the current call, whether it    *)
(* fires already, its daemon, its cdp_session_id, the page picked from a   *)
(* list, where its box was measured and where its mouse events landed.     *)
ActionState == [pc : Where, stage : Stage, fires : BOOLEAN, d : Nat, sid : Nat,
                pick : Page \cup {None}, at : Page \cup {None},
                pressed : Page \cup {None}, released : Page \cup {None},
                status : {"running", "resolved", "no_target", "errored", "fired"}]

Start == [pc |-> "open", stage |-> "send", fires |-> FALSE, d |-> 0,
          sid |-> 0, pick |-> None, at |-> None, pressed |-> None,
          released |-> None, status |-> "running"]

Init ==
  /\ now = 0
  /\ page \in [Page -> {"unborn", "open"}]
  /\ filtered \in BOOLEAN
  /\ cache = 0 /\ lock = None
  /\ daemons = <<>> /\ sessions = <<>>
  /\ act = [a \in Action |-> Start]

Open(p) == page[p] = "open"

(* The candidates of _attach_real_page. *)
Real == {p \in Page \ Internal : Open(p)}

(* The browser finds the session: its page is there, on this connection. *)
Live(s, d) ==
  /\ s \in 1..Len(sessions)
  /\ sessions[s].d = d
  /\ Open(sessions[s].page)

Usable(d) == daemons[d].sock = "open"

Set(a, r) == act' = [act EXCEPT ![a] = r]

(* resolve answers None; fire answers that it errored. *)
Ended(a) ==
  [act[a] EXCEPT !.pc = "done", !.stage = "send", !.d = 0, !.sid = 0, !.pick = None,
                 !.status = IF act[a].fires THEN "errored" ELSE "no_target"]

-----------------------------------------------------------------------------
(* Variant of Raise: the lock is not freed when connecting fails. *)
RaiseKeepingLock(a) == Set(a, Ended(a)) /\ UNCHANGED lock

(* An exception: resolve and fire both swallow it; async with frees the lock. *)
Raise(a) ==
  /\ Set(a, Ended(a))
  /\ lock' = IF lock = a THEN None ELSE lock

(* resolve finds no endpoint to open. *)
Undiscovered(a) ==
  /\ act[a].pc = "open"
  /\ Set(a, Ended(a))
  /\ UNCHANGED <<now, page, filtered, cache, lock, daemons, sessions>>

(* The first step of resolve, and of fire once there is a target. *)
Opens(a) == act[a].pc \in {"open", "resolved"}
Firing(a) == act[a].fires \/ act[a].pc = "resolved"
Opened(a) == IF Firing(a) THEN "press" ELSE "list"

(* get_or_create finds a daemon in the cache. *)
Reuse(a) ==
  /\ Opens(a)
  /\ lock = None
  /\ cache # 0 /\ ~daemons[cache].shut
  /\ daemons' = [daemons EXCEPT ![cache].last = now]
  /\ Set(a, [act[a] EXCEPT !.d = cache, !.pc = Opened(a), !.fires = Firing(a)])
  /\ UNCHANGED <<now, page, filtered, cache, lock, sessions>>

(* get_or_create connects, and holds the lock meanwhile. *)
Connect(a) ==
  /\ Opens(a)
  /\ lock = None
  /\ cache # 0 => daemons[cache].shut
  /\ \/ /\ daemons' = Append(daemons, [sess |-> 0, at |-> None, last |-> now,
                                       sock |-> "open", shut |-> FALSE])
        /\ lock' = a
        /\ Set(a, [act[a] EXCEPT !.pc = "connect", !.stage = "look",
                                  !.d = Len(daemons) + 1, !.fires = Firing(a)])
     \/ /\ Set(a, [Ended(a) EXCEPT !.status = IF Firing(a) THEN "errored" ELSE "no_target"])
        /\ UNCHANGED <<daemons, lock>>
  /\ UNCHANGED <<now, page, filtered, cache, sessions>>

(* The connected daemon goes into the cache. *)
Connected(a) ==
  /\ act[a].pc = "connect" /\ act[a].stage = "retry"
  /\ cache' = act[a].d
  /\ lock' = None
  /\ Set(a, [act[a] EXCEPT !.stage = "send", !.pc = Opened(a)])
  /\ UNCHANGED <<now, page, filtered, daemons, sessions>>

(* Target.getTargets and the workspace filter: a page of the workspace the *)
(* daemon is not yet attached to is attached first.                        *)
ListTargets(a) ==
  LET d == act[a].d
      Use == Set(a, [act[a] EXCEPT !.pc = "document", !.sid = daemons[d].sess])
  IN
  /\ act[a].pc = "list"
  /\ \/ /\ ~Usable(d) /\ Raise(a) /\ UNCHANGED daemons
     \/ /\ Usable(d)
        /\ daemons' = [daemons EXCEPT ![d].last = now]
        /\ \/ ~filtered /\ Use
           \/ /\ filtered /\ \A p \in Workspace : ~Open(p)
              /\ Set(a, Ended(a))
           \/ \E p \in Workspace :
                /\ filtered /\ Open(p)
                /\ IF daemons[d].at = p THEN Use
                   ELSE Set(a, [act[a] EXCEPT !.pc = "reattach", !.pick = p])
        /\ UNCHANGED lock
  /\ UNCHANGED <<now, page, filtered, cache, sessions>>

(* Target.attachToTarget: the daemon's own session is the new one at once. *)
AttachTo(a, p) ==
  LET d == act[a].d IN
  /\ sessions' = Append(sessions, [page |-> p, d |-> d, doc |-> FALSE])
  /\ daemons' = [daemons EXCEPT ![d].sess = Len(sessions) + 1]

Reattach(a) ==
  /\ act[a].pc = "reattach"
  /\ \/ /\ Usable(act[a].d) /\ Open(act[a].pick)
        /\ AttachTo(a, act[a].pick)
        /\ Set(a, [act[a] EXCEPT !.pc = "enable"])
        /\ UNCHANGED lock
     \/ /\ ~(Usable(act[a].d) /\ Open(act[a].pick))
        /\ Raise(a) /\ UNCHANGED <<daemons, sessions>>
  /\ UNCHANGED <<now, page, filtered, cache>>

(* After the domain enables, which may fail: the daemon notes the page and *)
(* the action reads the session that is the daemon's by then.              *)
Enable(a) ==
  /\ act[a].pc = "enable"
  /\ daemons' = [daemons EXCEPT ![act[a].d].at = act[a].pick]
  /\ Set(a, [act[a] EXCEPT !.pc = "document", !.pick = None,
                           !.sid = daemons[act[a].d].sess])
  /\ UNCHANGED <<now, page, filtered, cache, lock, sessions>>

-----------------------------------------------------------------------------
(* One round trip on a session, CDPDaemon.call, which the lookups of T2    *)
(* and the two mouse events of C5 are.                                     *)

(* A call lands on session s.  Node numbers are the session's own: asked   *)
(* for one before its document was, the browser knows none, and even then  *)
(* a selector or a box may miss.                                           *)
Land(a, s) ==
  LET p == sessions[s].page
      next == [document |-> "query", query |-> "box", box |-> "resolved",
               press |-> "release", release |-> "done"]
      on == [act[a] EXCEPT !.pc = next[act[a].pc], !.stage = "send"]
      Answered == CASE act[a].pc = "box"     -> [on EXCEPT !.at = p, !.d = 0, !.status = "resolved"]
                    [] act[a].pc = "press"   -> [on EXCEPT !.pressed = p]
                    [] act[a].pc = "release" -> [on EXCEPT !.released = p, !.d = 0, !.sid = 0,
                                                           !.status = "fired"]
                    [] OTHER                 -> on
  IN
  /\ \/ (act[a].pc \in {"query", "box"} => sessions[s].doc) /\ Set(a, Answered)
     \/ act[a].pc \in {"query", "box"} /\ Set(a, Ended(a))
  /\ sessions' = [sessions EXCEPT ![s].doc = @ \/ act[a].pc = "document"]
  /\ UNCHANGED lock

(* The request reaches the browser, on the session the caller passed. *)
Send(a) ==
  LET d == act[a].d  s == act[a].sid IN
  /\ act[a].pc \in Call /\ act[a].stage = "send"
  /\ daemons' = [daemons EXCEPT ![d].last = now]
  /\ \/ ~Usable(d) /\ Raise(a) /\ UNCHANGED sessions
     \/ /\ Usable(d) /\ Live(s, d) /\ Land(a, s)
     \/ /\ Usable(d) /\ ~Live(s, d)
        /\ Set(a, [act[a] EXCEPT !.stage = "lost"]) /\ UNCHANGED <<lock, sessions>>
  /\ UNCHANGED <<now, page, filtered, cache>>

(* Variant of Lost: whatever session was lost. *)
LostAny(a) ==
  /\ act[a].pc \in Call /\ act[a].stage = "lost"
  /\ Set(a, [act[a] EXCEPT !.stage = "look"])
  /\ UNCHANGED <<now, page, filtered, cache, lock, daemons, sessions>>

(* The handler of a lost session: only the daemon's own is attached anew. *)
Lost(a) ==
  /\ act[a].pc \in Call /\ act[a].stage = "lost"
  /\ IF act[a].sid = daemons[act[a].d].sess
     THEN Set(a, [act[a] EXCEPT !.stage = "look"]) /\ UNCHANGED lock
     ELSE Raise(a)
  /\ UNCHANGED <<now, page, filtered, cache, daemons, sessions>>

(* The first real page, or a blank one, if the browser can make one. *)
Look(a) ==
  /\ act[a].stage = "look"
  /\ \/ (~Usable(act[a].d) \/ Real = {}) /\ Raise(a) /\ UNCHANGED page
     \/ /\ Usable(act[a].d)
        /\ \E p \in Page \ Internal :
             /\ IF Real = {} THEN page[p] = "unborn" ELSE p \in Real
             /\ page' = [page EXCEPT ![p] = "open"]
             /\ Set(a, [act[a] EXCEPT !.stage = "attach", !.pick = p])
        /\ UNCHANGED lock
  /\ UNCHANGED <<now, filtered, cache, daemons, sessions>>

Attach(a) ==
  /\ act[a].stage = "attach"
  /\ \/ /\ Usable(act[a].d) /\ Open(act[a].pick)
        /\ AttachTo(a, act[a].pick)
        /\ Set(a, [act[a] EXCEPT !.stage = "enable", !.pick = None])
        /\ UNCHANGED lock
     \/ /\ ~(Usable(act[a].d) /\ Open(act[a].pick))
        /\ Raise(a) /\ UNCHANGED <<daemons, sessions>>
  /\ UNCHANGED <<now, page, filtered, cache>>

EnableDomains(a) ==
  /\ act[a].stage = "enable"
  /\ Set(a, [act[a] EXCEPT !.stage = "retry"])
  /\ UNCHANGED <<now, page, filtered, cache, lock, daemons, sessions>>

(* The same request again, on the session that is the daemon's by now. *)
Retry(a) ==
  LET d == act[a].d  s == daemons[d].sess IN
  /\ act[a].pc \in Call /\ act[a].stage = "retry"
  /\ \/ Usable(d) /\ Live(s, d) /\ Land(a, s)
     \/ ~(Usable(d) /\ Live(s, d)) /\ Raise(a) /\ UNCHANGED sessions
  /\ UNCHANGED <<now, page, filtered, cache, daemons>>

-----------------------------------------------------------------------------
(* The idle loop closes what was not called for Idle. *)
Evict ==
  /\ lock = None
  /\ cache # 0
  /\ daemons[cache].last + Idle < now
  /\ daemons' = [daemons EXCEPT ![cache].sock = "closed", ![cache].shut = TRUE]
  /\ cache' = 0
  /\ UNCHANGED <<now, page, filtered, lock, sessions, act>>

ClosePage(p) ==
  /\ Open(p)
  /\ page' = [page EXCEPT ![p] = "closed"]
  /\ UNCHANGED <<now, filtered, cache, lock, daemons, sessions, act>>

OpenPage(p) ==
  /\ page[p] = "unborn"
  /\ page' = [page EXCEPT ![p] = "open"]
  /\ UNCHANGED <<now, filtered, cache, lock, daemons, sessions, act>>

Tick ==
  /\ now < MaxTime
  /\ now' = now + 1
  /\ UNCHANGED <<page, filtered, cache, lock, daemons, sessions, act>>

Step(a) ==
  \/ Undiscovered(a) \/ Reuse(a) \/ Connect(a) \/ Connected(a)
  \/ ListTargets(a) \/ Reattach(a) \/ Enable(a)
  \/ Send(a) \/ Lost(a) \/ Look(a) \/ Attach(a) \/ EnableDomains(a) \/ Retry(a)

Next ==
  \/ \E a \in Action : Step(a)
  \/ Evict \/ Tick
  \/ \E p \in Page : ClosePage(p) \/ OpenPage(p)

Spec == Init /\ [][Next]_vars

(* Each action is a task of one event loop, every wait of which has an end: *)
(* the socket answers, fails or is closed.                                  *)
FairSpec == Spec /\ \A a \in Action : WF_vars(Step(a))

-----------------------------------------------------------------------------
TypeOK ==
  /\ now \in Nat
  /\ page \in [Page -> {"unborn", "open", "closed"}]
  /\ filtered \in BOOLEAN
  /\ cache \in 0..Len(daemons)
  /\ lock \in Action \cup {None}
  /\ daemons \in Seq(Daemon)
  /\ sessions \in Seq(Session)
  /\ act \in [Action -> ActionState]

(* A click that is reported fired was pressed on the page its position was *)
(* measured on, whatever pages closed and whoever attached the daemon      *)
(* elsewhere on the way: a press that lands on another page loses the      *)
(* session that the release needs.  The button was released there too,     *)
(* unless that page closed in between: then the daemon attaches to another *)
(* page, releases the button there, and the click still counts as fired.   *)
FiredWhereMeasured ==
  \A a \in Action :
    act[a].status = "fired" =>
      /\ act[a].pressed = act[a].at
      /\ act[a].released = act[a].at \/ page[act[a].at] = "closed"

(* A daemon in use by two actions is one: nobody holds an open daemon that *)
(* is neither in the cache nor being connected.                            *)
Shared ==
  \A a, b \in Action :
    /\ {act[a].pc, act[b].pc} \cap {"connect", "done"} = {}
    /\ act[a].d # 0 /\ act[b].d # 0
    /\ Usable(act[a].d) /\ Usable(act[b].d)
    => act[a].d = act[b].d

(* Daemons and sessions are shared without harm: typed, one daemon for those *)
(* who use one at a time, and both halves of a click where it belongs.     *)
SessionInv == TypeOK /\ Shared /\ FiredWhereMeasured

(* Every action ends, also when pages and connections go away under it. *)
EveryActionEnds == \A a \in Action : <>(act[a].pc = "done")
=============================================================================
