------------------------------ MODULE Observers ------------------------------
(***************************************************************************)
(* How an action learns from accessibility notifications that it worked:   *)
(* AXEventBridge (ax/observer.py), AXObserverManager                       *)
(* (verifier/axobserver.py) and the part L0Push plays in it                *)
(* (verifier/ensemble/l0_push.py).                                         *)
(*                                                                         *)
(* An action subscribes at the root element of its application before it   *)
(* acts, to one notification after the other.  macOS keeps one             *)
(* registration per element and notification, so the latest subscriber's   *)
(* tag (the refcon) replaces the earlier one.  Subscribing holds the event *)
(* loop; the run-loop thread, the channels' threads and the applications   *)
(* go on meanwhile.                                                        *)
(* When the interface changes, notifications travel to the run-loop        *)
(* thread, are stamped there, queued, and offered by the dispatcher to     *)
(* every waiter; a waiter takes an event that carries its tag and is at    *)
(* least Guard younger than its subscription.                              *)
(*                                                                         *)
(* The time unit is a fraction of the guard's five milliseconds.           *)
(***************************************************************************)
EXTENDS Naturals, Sequences

CONSTANTS
  Action,      \* the actions (each subscribes once)
  Root,        \* root elements, one per application process
  RootOf,      \* the application an action is about
  App,         \* whoever changes the interface without being an action
  None,        \* no action, no tag
  Guard,       \* _GUARD_NS
  Warmup,      \* the orchestrator's sleep between subscribing and acting
  MaxDelay,    \* how long a notification travels to the run-loop thread
  Horizon,     \* bound: the clock stops here
  MaxChanges,  \* bound: changes of the interface
  MaxFaults    \* bound: calls of the accessibility interface that fail

ASSUME ActionAssumption ==
  /\ RootOf \in [Action -> Root]
  /\ App \notin Action /\ None \notin Action

ASSUME TimeAssumption ==
  /\ Guard \in Nat /\ Warmup \in Nat /\ MaxDelay \in Nat
  /\ Horizon \in Nat /\ MaxChanges \in Nat /\ MaxFaults \in Nat

(* The notifications subscribed to, in this order: AXValueChanged and
   AXFocusedUIElementChanged. *)
Notifs == <<"value", "focus">>
Kind == {"value", "focus"}

VARIABLES
  now,        \* time.monotonic_ns
  phase,      \* where the action is
  subTs,      \* subscription_ts_ns
  calls,      \* the notifications the subscription in progress has to register
  removed,    \* the first of them has been removed (or that has failed)
  faults,     \* calls of the accessibility interface that failed
  ready,      \* when the subscription was complete
  late,       \* actions that subscribed in verify only, after they had acted
  torn,       \* actions that left another's tag because its removal failed
  fut,        \* the state of the waiter's future
  got,        \* the event the future was resolved with
  waiters,    \* the actions in the manager's table
  observers,  \* roots whose process has an AXObserver
  slot,       \* the tag registered at a root for a notification
  changes,    \* what happened to the interfaces: by whom, where, when
  air,        \* notifications on their way to the run-loop thread
  queue       \* the bridge's queue

stepVars == <<calls, removed, faults>>
subVars == <<subTs, ready, late, torn>>
clientVars == <<phase, stepVars, subVars, fut, got>>
tableVars == <<waiters, observers, slot>>
eventVars == <<changes, air, queue>>
vars == <<now, clientVars, tableVars, eventVars>>

Over == {"verified", "silent", "cancelled", "raised"}
Registering == {"subscribing", "expecting"}
Phase == {"idle", "before", "after", "awaiting"} \cup Registering \cup Over
FutState == {"absent", "pending", "resolved", "cancelled"}

Notice == [n : Nat, kind : Kind, tag : Action]
Event == [n : Nat, tag : Action \cup {None}, ts : Nat]
NoEvent == [n |-> 0, tag |-> None, ts |-> 0]

Init ==
  /\ now = 0
  /\ phase = [a \in Action |-> "idle"]
  /\ subTs = [a \in Action |-> 0]
  /\ calls = <<>>
  /\ removed = FALSE
  /\ faults = 0
  /\ ready = [a \in Action |-> 0]
  /\ late = {}
  /\ torn = {}
  /\ fut = [a \in Action |-> "absent"]
  /\ got = [a \in Action |-> NoEvent]
  /\ waiters = {}
  /\ observers = {}
  /\ slot = [r \in Root |-> [k \in Kind |-> None]]
  /\ changes = <<>>
  /\ air = {}
  /\ queue = <<>>

(* One of the accessibility calls of a subscription fails. *)
Fails ==
  /\ faults < MaxFaults
  /\ faults' = faults + 1

SetPhase(a, p) == phase' = [phase EXCEPT ![a] = p]

-----------------------------------------------------------------------------
(* Subscribing. *)

(* subscribe() begins: it notes the time and makes sure that the process has an
   AXObserver.  From here to the last Add the loop is held. *)
Register(a) ==
  /\ subTs' = [subTs EXCEPT ![a] = now]
  /\ observers' = observers \cup {RootOf[a]}
  /\ calls' = Notifs
  /\ UNCHANGED <<removed, faults, ready, torn, fut, waiters, slot>>

(* Before the channels.  Without an AXObserver for the process one has to be
   created; if that fails the action goes on without a waiter. *)
Subscribe(a) ==
  /\ phase[a] = "idle"
  /\ \/ Register(a) /\ SetPhase(a, "subscribing")
     \/ /\ RootOf[a] \notin observers /\ Fails
        /\ SetPhase(a, "before")
        /\ UNCHANGED <<calls, removed, subTs, ready, torn, fut, tableVars>>
  /\ UNCHANGED <<now, late, got, eventVars>>

(* expect(), in verify: the same once more when there is no waiter.  This time
   the failure reaches the caller. *)
Expect(a) ==
  /\ phase[a] = "after"
  /\ fut[a] = "absent"
  /\ \/ Register(a) /\ SetPhase(a, "expecting") /\ late' = late \cup {a}
     \/ /\ RootOf[a] \notin observers /\ Fails
        /\ SetPhase(a, "raised")
        /\ UNCHANGED <<calls, removed, subVars, fut, tableVars>>
  /\ UNCHANGED <<now, got, eventVars>>

(* AXObserverRemoveNotification: its return code is not looked at. *)
RemoveNotification(a) ==
  /\ phase[a] \in Registering
  /\ ~removed
  /\ removed' = TRUE
  /\ \/ /\ slot' = [slot EXCEPT ![RootOf[a]][Head(calls)] = None]
        /\ UNCHANGED <<torn, faults>>
     \/ /\ slot[RootOf[a]][Head(calls)] # None /\ Fails
        /\ torn' = torn \cup {a}
        /\ UNCHANGED slot
  /\ UNCHANGED <<now, phase, calls, subTs, ready, late, fut, got, waiters, observers,
                 eventVars>>

(* AXObserverAddNotification.  "Already registered" leaves the old tag and is
   taken for success; another error is logged.  After the last one the waiter
   enters the table, whatever was registered, and the loop is let go. *)
AddNotification(a) ==
  /\ phase[a] \in Registering
  /\ removed
  /\ removed' = FALSE
  /\ calls' = Tail(calls)
  /\ \/ /\ slot[RootOf[a]][Head(calls)] = None
        /\ slot' = [slot EXCEPT ![RootOf[a]][Head(calls)] = a]
        /\ UNCHANGED faults
     \/ slot[RootOf[a]][Head(calls)] = None /\ Fails /\ UNCHANGED slot
     \/ slot[RootOf[a]][Head(calls)] # None /\ UNCHANGED <<slot, faults>>
  /\ IF Tail(calls) = <<>>
       THEN /\ SetPhase(a, IF phase[a] = "subscribing" THEN "before" ELSE "awaiting")
            /\ ready' = [ready EXCEPT ![a] = now]
            /\ fut' = [fut EXCEPT ![a] = "pending"]
            /\ waiters' = waiters \cup {a}
       ELSE UNCHANGED <<phase, ready, fut, waiters>>
  /\ UNCHANGED <<now, subTs, late, torn, got, observers, eventVars>>

-----------------------------------------------------------------------------
(* What happens to the interface, and the way of the news. *)

(* Somebody changes the interface of r, and one or both of the notifications
   are sent, those somebody is registered for, each with the tag it has now. *)
Change(by, r) ==
  /\ Len(changes) < MaxChanges
  /\ changes' = Append(changes, [by |-> by, root |-> r, at |-> now])
  /\ \E kinds \in SUBSET {k \in Kind : slot[r][k] # None} \ {{}} :
       air' = air \cup {[n |-> Len(changes) + 1, kind |-> k, tag |-> slot[r][k]] :
                           k \in kinds}

(* Variant of Act: no pause between subscribing and acting. *)
ActAtOnce(a) ==
  /\ phase[a] = "before"
  /\ SetPhase(a, "after")
  /\ UNCHANGED <<now, stepVars, subVars, fut, got, tableVars, eventVars>>

(* The channels act: fifty milliseconds after the subscription, if any. *)
Act(a) ==
  /\ phase[a] = "before"
  /\ fut[a] # "absent" => now >= ready[a] + Warmup
  /\ SetPhase(a, "after")
  /\ UNCHANGED <<now, stepVars, subVars, fut, got, tableVars, eventVars>>

(* What the channels' threads do shows in the interface, then or later.  (Once
   the action is over it counts as the application's own doing; what nobody is
   notified of is not recorded.) *)
Effect(a) ==
  /\ phase[a] \in {"after", "expecting", "awaiting"}
  /\ Change(a, RootOf[a])
  /\ UNCHANGED <<now, clientVars, tableVars, queue>>

(* The application changes by itself, or the user does it. *)
Stir(r) ==
  /\ Change(App, r)
  /\ UNCHANGED <<now, clientVars, tableVars, queue>>

(* The callback on the run-loop thread stamps the event and hands it to the
   queue.  Whether the tag is the one of the sending or the one registered by
   now is the system's affair. *)
Deliver(x) ==
  /\ x \in air
  /\ air' = air \ {x}
  /\ \E tag \in {x.tag, slot[changes[x.n].root][x.kind]} :
       queue' = Append(queue, [n |-> x.n, tag |-> tag, ts |-> now])
  /\ UNCHANGED <<now, clientVars, tableVars, changes>>

(* Variant of Passes: the age of the event does not matter. *)
PassesAnyAge(e, a) == e.tag = a /\ changes[e.n].root = RootOf[a]

(* _passes_filter.  An action waits for both kinds of notification. *)
Passes(e, a) ==
  /\ e.ts >= subTs[a] + Guard
  /\ e.tag = a
  /\ changes[e.n].root = RootOf[a]

(* The dispatcher offers the next event to every pending waiter. *)
Dispatch ==
  LET taken == {a \in waiters : fut[a] = "pending" /\ Passes(Head(queue), a)}
  IN  /\ queue # <<>>
      /\ queue' = Tail(queue)
      /\ fut' = [a \in Action |-> IF a \in taken THEN "resolved" ELSE fut[a]]
      /\ got' = [a \in Action |-> IF a \in taken THEN Head(queue) ELSE got[a]]
      /\ waiters' = waiters \ taken
      /\ UNCHANGED <<now, phase, stepVars, subVars, observers, slot, changes, air>>

-----------------------------------------------------------------------------
(* Awaiting. *)

(* await_future starts to wait. *)
Await(a) ==
  /\ phase[a] = "after"
  /\ fut[a] # "absent"
  /\ SetPhase(a, "awaiting")
  /\ UNCHANGED <<now, stepVars, subVars, fut, got, tableVars, eventVars>>

Resume(a) ==
  /\ phase[a] = "awaiting"
  /\ fut[a] = "resolved"
  /\ SetPhase(a, "verified")
  /\ UNCHANGED <<now, stepVars, subVars, fut, got, tableVars, eventVars>>

(* wait_for cancels the future and its waiter is dropped.  The timer also wins
   against an answer that came in the same turn of the loop. *)
Timeout(a) ==
  /\ phase[a] = "awaiting"
  /\ fut[a] \in {"pending", "resolved"}
  /\ fut' = [fut EXCEPT ![a] = IF @ = "pending" THEN "cancelled" ELSE @]
  /\ waiters' = waiters \ {a}
  /\ SetPhase(a, "silent")
  /\ UNCHANGED <<now, stepVars, subVars, got, observers, slot, eventVars>>

(* The caller is cancelled.  Only one that waits takes its future along, and
   the waiter stays in the table in either case. *)
CallerCancel(a) ==
  /\ phase[a] \in {"before", "after", "awaiting"}
  /\ fut' = [fut EXCEPT ![a] =
               IF @ = "pending" /\ phase[a] = "awaiting" THEN "cancelled" ELSE @]
  /\ SetPhase(a, "cancelled")
  /\ UNCHANGED <<now, stepVars, subVars, got, tableVars, eventVars>>

(* Variant of Stop: the table is cleared and the callers are forgotten. *)
StopForgetting ==
  /\ waiters' = {}
  /\ UNCHANGED <<now, clientVars, observers, slot, eventVars>>

(* stop(): outstanding futures are cancelled and the dispatcher ends.  (Until
   start(), if there is one, the queue waits, as it does when the dispatcher
   is slow.) *)
Stop ==
  /\ fut' = [a \in Action |->
               IF a \in waiters /\ fut[a] = "pending" THEN "cancelled" ELSE fut[a]]
  /\ waiters' = {}
  /\ UNCHANGED <<now, phase, stepVars, subVars, got, observers, slot, eventVars>>

(* The await of a future that stop() cancelled. *)
AwaitCancelled(a) ==
  /\ phase[a] = "awaiting"
  /\ fut[a] = "cancelled"
  /\ SetPhase(a, "cancelled")
  /\ UNCHANGED <<now, stepVars, subVars, fut, got, tableVars, eventVars>>

(* A notification on its way arrives within MaxDelay. *)
Tick ==
  /\ now < Horizon
  /\ \A x \in air : now < changes[x.n].at + MaxDelay
  /\ now' = now + 1
  /\ UNCHANGED <<clientVars, tableVars, eventVars>>

(* What runs on the event loop waits for a subscription in progress. *)
LoopFree == \A a \in Action : phase[a] \notin Registering

OnLoop ==
  \/ \E a \in Action :
       \/ Subscribe(a) \/ Act(a) \/ Await(a) \/ Expect(a)
       \/ Resume(a) \/ Timeout(a) \/ CallerCancel(a) \/ AwaitCancelled(a)
  \/ Dispatch \/ Stop

Next ==
  \/ LoopFree /\ OnLoop
  \/ \E a \in Action : RemoveNotification(a) \/ AddNotification(a) \/ Effect(a)
  \/ \E r \in Root : Stir(r)
  \/ \E x \in air : Deliver(x)
  \/ Tick

Spec == Init /\ [][Next]_vars

-----------------------------------------------------------------------------
(* Properties. *)

TypeOK ==
  /\ now \in Nat
  /\ phase \in [Action -> Phase]
  /\ subTs \in [Action -> Nat]
  /\ calls \in {Notifs, Tail(Notifs), <<>>}
  /\ removed \in BOOLEAN
  /\ faults \in Nat
  /\ ready \in [Action -> Nat]
  /\ late \subseteq Action
  /\ torn \subseteq Action
  /\ fut \in [Action -> FutState]
  /\ got \in [Action -> Event]
  /\ waiters \subseteq Action
  /\ observers \subseteq Root
  /\ slot \in [Root -> [Kind -> Action \cup {None}]]
  /\ changes \in Seq([by : Action \cup {App}, root : Root, at : Nat])
  /\ air \subseteq Notice
  /\ queue \in Seq(Event)

Credited(a) == got[a] # NoEvent

(* If notifications travel for less than the guard, the change that verified
   an action happened after the action had subscribed: an earlier change never
   passes the filter, however the deliveries and the dispatcher lag. *)
FreshCredit ==
  MaxDelay < Guard =>
    \A a \in Action : Credited(a) => changes[got[a].n].at > subTs[a]

(* Under the same condition one change verifies one action, although it sends
   two notifications and the tags may be taken over between them.  The code
   leaves two exceptions: a change that came in the middle of a subscription,
   when one notification had its tag already and the other had not, and a
   subscription that left another's tag because its removal had failed. *)
CreditedOnce ==
  MaxDelay < Guard =>
    \A a, b \in Action :
      Credited(a) /\ Credited(b) /\ got[a].n = got[b].n =>
        \/ a = b
        \/ \E c \in {a, b} :
             \/ changes[got[c].n].at \in (subTs[c] + 1)..ready[c]
             \/ c \in torn

(* An action that subscribed before it acted has waited long enough for the
   guard: its own event, when it comes back with its tag, is never dropped as
   too old. *)
GuardSparesOwn ==
  Warmup >= Guard =>
    \A i \in 1..Len(queue) :
      LET e == queue[i]
      IN  /\ e.tag \in Action
          /\ changes[e.n].by = e.tag
          /\ e.tag \notin late
          => Passes(e, e.tag)

(* What the warm-up and the guard are for: nothing of an action's own is lost. *)
SparingInv == TypeOK /\ GuardSparesOwn

(* Whoever waits is in the table, else no event could reach it, and nobody
   else is but callers that were cancelled. *)
WaitersExact ==
  \A a \in Action :
    /\ phase[a] \in {"before", "after", "awaiting"} =>
         (a \in waiters <=> fut[a] = "pending")
    /\ phase[a] \in {"idle", "verified", "silent", "raised"} \cup Registering =>
         a \notin waiters

(* Why: an invariant that every step keeps.  An event is stamped within
   MaxDelay of its change, and an action is credited with what passes its
   filter only.  A complete subscription that removed what it found has left no
   other's tag at its root, so of all the tags that the notifications of one
   change carry, or may still pick up there, one at most belongs to an action
   whose subscription was complete before the change. *)
Timely(e) ==
  /\ e.n \in 1..Len(changes)
  /\ changes[e.n].at <= e.ts
  /\ e.ts <= changes[e.n].at + MaxDelay

TravelInv ==
  /\ \A n \in 1..Len(changes) : changes[n].at <= now
  /\ \A x \in air : /\ x.n \in 1..Len(changes)
                    /\ now <= changes[x.n].at + MaxDelay
  /\ \A i \in 1..Len(queue) : Timely(queue[i])
  /\ \A a \in Action : Credited(a) => Timely(got[a]) /\ Passes(got[a], a)

(* Nobody has a future before its subscription is complete, and nobody
   registers twice or while another does. *)
FutureInv ==
  /\ \A a \in Action :
       /\ phase[a] \in {"idle"} \cup Registering => fut[a] = "absent"
       /\ fut[a] = "absent" => ~Credited(a)
       /\ ready[a] <= now
  /\ \A a, b \in Action : phase[a] \in Registering /\ phase[b] \in Registering => a = b
  /\ calls = <<>> <=> LoopFree
  /\ removed => calls # <<>>

Held(r, tag) == \E k \in Kind : slot[r][k] = tag

(* Tags are at their own root, and where a has registered there is no other. *)
SlotInv ==
  /\ \A r \in Root : \A a \in Action : Held(r, a) => RootOf[a] = r
  /\ \A a \in Action : phase[a] \in Registering /\ a \notin torn =>
       \A k \in Kind :
         (k = "value" /\ calls = Tail(Notifs)) \/ (removed /\ k = Head(calls)) =>
           slot[RootOf[a]][k] \in {a, None}

Settled(a) == fut[a] # "absent" /\ a \notin torn

Carries(n, tag) ==
  \/ \E x \in air : x.n = n /\ x.tag = tag
  \/ \E i \in 1..Len(queue) : queue[i].n = n /\ queue[i].tag = tag
  \/ \E a \in Action : Credited(a) /\ got[a].n = n /\ got[a].tag = tag
  \/ Held(changes[n].root, tag)

OneHolder ==
  \A r \in Root : \A a, b \in Action :
    Held(r, a) /\ Settled(a) /\ Held(r, b) /\ Settled(b) => a = b

TagInv ==
  \A n \in 1..Len(changes) : \A a, b \in Action :
    /\ Carries(n, a) /\ Settled(a) /\ ready[a] < changes[n].at
    /\ Carries(n, b) /\ Settled(b) /\ ready[b] < changes[n].at
    => a = b

CreditInv == TravelInv /\ FutureInv /\ SlotInv /\ OneHolder /\ TagInv
=============================================================================
