----------------------------- MODULE ActionRace -----------------------------
(***************************************************************************)
(* RaceOrchestrator.execute (basicctrl/actions/race_orchestrator.py): the  *)
(* life of one action from the call to its return, with the idempotency    *)
(* store (idempotency.py) and the five channels (channels/c1..c5) it fires *)
(* one or several of.                                                      *)
(*                                                                         *)
(* An action is resolved to a target by the first translator that can,     *)
(* subscribes to accessibility notifications, fires its candidate channels *)
(* (all of them for a race, the first one otherwise), verifies and logs.   *)
(* A channel claims the action's token before it acts; whoever fails to    *)
(* claim skips.  The claim, the check of the cancel event, the check of    *)
(* the target's handles and the hand-over of the system call to a thread   *)
(* have no suspension point between them (the store's lock is never held   *)
(* over an await), so they are one step.                                   *)
(*                                                                         *)
(* The caller may be cancelled at every await of execute.                  *)
(***************************************************************************)
EXTENDS RaceSelection

CONSTANTS
  Action,              \* the actions, one per call of execute (uuid4 ids)
  Priorities,          \* the translator priorities of application profiles
  ActionTypes,         \* the action types callers ask for
  RegisteredTiers,     \* tiers with a translator in the registry
  Registries,          \* channels that may be in the registry of a process
  FifoStart            \* TRUE: child tasks first run in the order they were
                       \* created (asyncio); FALSE: in any order, which is all
                       \* that the task group interface promises

ASSUME ProfileAssumption ==
  /\ Priorities \subseteq Seq(Tier)
  /\ ActionTypes \subseteq ActionType

ASSUME RegistryAssumption ==
  /\ RegisteredTiers \subseteq Tier
  /\ Registries \subseteq SUBSET Channel

ASSUME FifoAssumption == FifoStart \in BOOLEAN

VARIABLES
  pc,          \* where execute is
  plan,        \* profile priority, action type, effective policy, registry
  tried,       \* translators of the priority already asked
  target,      \* the tier whose translator made the target, or "none"
  waiter,      \* this action's entry in the observer manager's waiter table
  chan,        \* state of each channel's coroutine
  claims,      \* the store: which channel holds the action's token
  cancelEvent, \* the race's cancel_event
  winner,      \* the channel at winner_idx, or "none"
  os,          \* the system call a channel handed over
  effects,     \* how often the application was acted on, per channel
  retried,     \* has the AppleScript call been retried
  receipts,    \* actions recorded in the duplicate-receipt buffer
  log,         \* the race telemetry written for the action
  result       \* channel and tier filled into the returned action

callVars == <<plan, tried, target>>
raceVars == <<chan, claims, cancelEvent, winner, os, effects, retried>>
endVars == <<receipts, log, result>>
vars == <<pc, callVars, waiter, raceVars, endVars>>

Ended == {"returned", "raised", "cancelled"}
PcState == {"idle", "resolving", "subscribing", "selecting", "racing",
            "verifying", "closing", "cancelling"} \cup Ended

(* "cancelled" saw the event before acting, "aborted" was cancelled by the
   task group while it waited. *)
Settled == {"fired", "skipped", "errored", "cancelled", "aborted"}
ChanState == {"absent", "queued", "sleeping", "inflight"} \cup Settled
WaiterState == {"absent", "pending", "done"}
OsState == {"idle", "submitted", "done", "refused", "dropped"}

NoType == [verb |-> "", combo |-> ""]
NoPlan == [priority |-> <<>>, type |-> NoType, effective |-> "single_channel",
           registered |-> {}]
NoResult == [channel |-> "none", tier |-> "none"]

Candidates(a) == {c \in Channel : chan[a][c] # "absent"}

(* One candidate alone is awaited directly, without task group or event. *)
IsRace(a) == plan[a].effective = "race" /\ \E c, d \in Candidates(a) : c # d

(* The scope around a's channels is cancelled: by the first winner, or with
   the caller. *)
ScopeCancelled(a) ==
  pc[a] = "cancelling" \/ (IsRace(a) /\ winner[a] # "none")

Init ==
  /\ pc = [a \in Action |-> "idle"]
  /\ plan = [a \in Action |-> NoPlan]
  /\ tried = [a \in Action |-> 0]
  /\ target = [a \in Action |-> "none"]
  /\ waiter = [a \in Action |-> "absent"]
  /\ chan = [a \in Action |-> [c \in Channel |-> "absent"]]
  /\ claims = [a \in Action |-> "none"]
  /\ cancelEvent = [a \in Action |-> FALSE]
  /\ winner = [a \in Action |-> "none"]
  /\ os = [a \in Action |-> [c \in Channel |-> "idle"]]
  /\ effects = [a \in Action |-> [c \in Channel |-> 0]]
  /\ retried = [a \in Action |-> FALSE]
  /\ receipts = {}
  /\ log = [a \in Action |-> {}]
  /\ result = [a \in Action |-> NoResult]

-----------------------------------------------------------------------------
(* Before the channels. *)

(* execute is called: policy and profile are settled. *)
Begin(a) ==
  /\ pc[a] = "idle"
  /\ \E priority \in Priorities, type \in ActionTypes, policy \in Policy,
        registered \in Registries :
       plan' = [plan EXCEPT ![a] =
                  [priority |-> priority, type |-> type,
                   effective |-> ResolvePolicy(policy, type),
                   registered |-> registered]]
  /\ pc' = [pc EXCEPT ![a] = "resolving"]
  /\ UNCHANGED <<tried, target, waiter, raceVars, endVars>>

(* The next translator of the priority finds and validates the target. *)
Resolve(a) ==
  /\ pc[a] = "resolving"
  /\ tried[a] < Len(plan[a].priority)
  /\ plan[a].priority[tried[a] + 1] \in RegisteredTiers
  /\ target' = [target EXCEPT ![a] = plan[a].priority[tried[a] + 1]]
  /\ tried' = [tried EXCEPT ![a] = @ + 1]
  /\ pc' = [pc EXCEPT ![a] = "subscribing"]
  /\ UNCHANGED <<plan, waiter, raceVars, endVars>>

(* It is unregistered, finds nothing, or its target is no longer valid. *)
TryNext(a) ==
  /\ pc[a] = "resolving"
  /\ tried[a] < Len(plan[a].priority)
  /\ tried' = [tried EXCEPT ![a] = @ + 1]
  /\ UNCHANGED <<pc, plan, target, waiter, raceVars, endVars>>

(* NoTargetResolvable: every translator was asked. *)
RaiseNoTarget(a) ==
  /\ pc[a] = "resolving"
  /\ tried[a] = Len(plan[a].priority)
  /\ pc' = [pc EXCEPT ![a] = "raised"]
  /\ UNCHANGED <<callVars, waiter, raceVars, endVars>>

(* subscribe_pending registers the waiter, or fails and is ignored. *)
Subscribe(a) ==
  /\ pc[a] = "subscribing"
  /\ \E w \in {"absent", "pending"} : waiter' = [waiter EXCEPT ![a] = w]
  /\ pc' = [pc EXCEPT ![a] = "selecting"]
  /\ UNCHANGED <<callVars, raceVars, endVars>>

(* After the warm-up and the snapshots, the candidates are picked from the
   profile's priority and their coroutines built. *)
SelectChannels(a) ==
  LET candidates == Select(plan[a].priority, plan[a].effective, plan[a].registered)
  IN  /\ pc[a] = "selecting"
      /\ candidates # {}
      /\ chan' = [chan EXCEPT ![a] =
                    [c \in Channel |-> IF c \in candidates THEN "queued" ELSE "absent"]]
      /\ pc' = [pc EXCEPT ![a] = "racing"]
      /\ UNCHANGED <<callVars, waiter, claims, cancelEvent, winner, os, effects,
                     retried, endVars>>

(* NoTargetResolvable again, this time with the waiter registered. *)
RaiseNoChannel(a) ==
  /\ pc[a] = "selecting"
  /\ Select(plan[a].priority, plan[a].effective, plan[a].registered) = {}
  /\ pc' = [pc EXCEPT ![a] = "raised"]
  /\ UNCHANGED <<callVars, waiter, raceVars, endVars>>

-----------------------------------------------------------------------------
(* The channels. *)

ChannelsRun(a) == pc[a] \in {"racing", "cancelling"}

SetChan(a, c, s) == chan' = [chan EXCEPT ![a][c] = s]

(* Variant of Fire: the claim is taken without looking whether one exists. *)
FireUnchecked(a, c) ==
  /\ claims' = [claims EXCEPT ![a] = c]
  /\ SetChan(a, c, "inflight")
  /\ os' = [os EXCEPT ![a][c] = "submitted"]

(* The common start of every fire(): claim, peek at the cancel event, check
   the handles, hand the system call over. *)
Fire(a, c) ==
  \/ /\ claims[a] # "none"
     /\ SetChan(a, c, "skipped")
     /\ UNCHANGED <<claims, os>>
  \/ /\ claims[a] = "none"
     /\ claims' = [claims EXCEPT ![a] = c]
     /\ \/ /\ cancelEvent[a]
           /\ SetChan(a, c, "cancelled")
           /\ UNCHANGED os
        \/ /\ ~cancelEvent[a]
           /\ c \notin ReadyFor(target[a])
           /\ SetChan(a, c, "errored")
           /\ UNCHANGED os
        \/ /\ ~cancelEvent[a]
           /\ c \in ReadyFor(target[a])
           /\ SetChan(a, c, "inflight")
           /\ os' = [os EXCEPT ![a][c] = "submitted"]

(* Variant of StartChannel: no stagger for C4. *)
StartUnstaggered(a, c) ==
  /\ ChannelsRun(a)
  /\ chan[a][c] = "queued"
  /\ FifoStart => \A d \in Channel \ {c} :
                    Before(plan[a].priority, d, c) => chan[a][d] # "queued"
  /\ Fire(a, c)
  /\ UNCHANGED <<pc, callVars, waiter, cancelEvent, winner, effects, retried, endVars>>

(* A child task runs for the first time.  C4 is staggered: no translator sets
   the extra (as_class) that would spare it the sleep. *)
StartChannel(a, c) ==
  /\ ChannelsRun(a)
  /\ chan[a][c] = "queued"
  /\ FifoStart => \A d \in Channel \ {c} :
                    Before(plan[a].priority, d, c) => chan[a][d] # "queued"
  /\ \/ /\ c = "C4"
        /\ SetChan(a, c, "sleeping")
        /\ UNCHANGED <<claims, os>>
     \/ c # "C4" /\ Fire(a, c)
  /\ UNCHANGED <<pc, callVars, waiter, cancelEvent, winner, effects, retried, endVars>>

(* Variant of Wake: C4 waits for the event, not for the time to pass. *)
WakeOnEvent(a) ==
  /\ ChannelsRun(a)
  /\ chan[a]["C4"] = "sleeping"
  /\ cancelEvent[a]
  /\ SetChan(a, "C4", "cancelled")
  /\ UNCHANGED <<pc, callVars, waiter, claims, os, cancelEvent, winner, effects,
                 retried, endVars>>

(* The stagger has passed, half a second in which every task created with it
   has run: look at the event, then fire. *)
Wake(a) ==
  /\ ChannelsRun(a)
  /\ chan[a]["C4"] = "sleeping"
  /\ FifoStart => \A d \in Channel : chan[a][d] # "queued"
  /\ \/ /\ cancelEvent[a]
        /\ SetChan(a, "C4", "cancelled")
        /\ UNCHANGED <<claims, os>>
     \/ ~cancelEvent[a] /\ Fire(a, "C4")
  /\ UNCHANGED <<pc, callVars, waiter, cancelEvent, winner, effects, retried, endVars>>

(* The system call reaches the application. *)
OsPerform(a, c) ==
  /\ os[a][c] = "submitted"
  /\ os' = [os EXCEPT ![a][c] = "done"]
  /\ effects' = [effects EXCEPT ![a][c] = @ + 1]
  /\ UNCHANGED <<pc, callVars, waiter, chan, claims, cancelEvent, winner, retried, endVars>>

(* The system call fails without any effect. *)
OsRefuse(a, c) ==
  /\ os[a][c] = "submitted"
  /\ os' = [os EXCEPT ![a][c] = "refused"]
  /\ UNCHANGED <<pc, callVars, waiter, chan, claims, cancelEvent, winner, effects,
                 retried, endVars>>

(* Its coroutine is gone and no thread had picked the call up yet. *)
OsDrop(a, c) ==
  /\ os[a][c] = "submitted"
  /\ chan[a][c] # "inflight"
  /\ os' = [os EXCEPT ![a][c] = "dropped"]
  /\ UNCHANGED <<pc, callVars, waiter, chan, claims, cancelEvent, winner, effects,
                 retried, endVars>>

(* fire() returns "fired": the first to do so wins the race and cancels it. *)
ReplyFired(a, c) ==
  /\ ChannelsRun(a)
  /\ chan[a][c] = "inflight"
  /\ os[a][c] = "done"
  /\ SetChan(a, c, "fired")
  /\ winner' = [winner EXCEPT ![a] = IF @ = "none" THEN c ELSE @]
  /\ cancelEvent' = [cancelEvent EXCEPT ![a] = @ \/ IsRace(a)]
  /\ UNCHANGED <<pc, callVars, waiter, claims, os, effects, retried, endVars>>

(* fire() returns "errored"; the call may have had its effect all the same. *)
ReplyErrored(a, c) ==
  /\ ChannelsRun(a)
  /\ chan[a][c] = "inflight"
  /\ os[a][c] \in {"done", "refused"}
  /\ SetChan(a, c, "errored")
  /\ UNCHANGED <<pc, callVars, waiter, claims, cancelEvent, winner, os, effects,
                 retried, endVars>>

(* Variant of RetryScript: retried for as long as the error is transient. *)
RetryAlways(a) ==
  /\ ChannelsRun(a)
  /\ chan[a]["C4"] = "inflight"
  /\ os[a]["C4"] \in {"done", "refused"}
  /\ os' = [os EXCEPT ![a]["C4"] = "submitted"]
  /\ UNCHANGED <<pc, callVars, waiter, chan, claims, cancelEvent, winner, effects,
                 retried, endVars>>

(* An AppleEvent error code counts as transient: the script runs once more.
   -1712 is the AppleEvent's own timeout, so the first run may have acted. *)
RetryScript(a) ==
  /\ ChannelsRun(a)
  /\ chan[a]["C4"] = "inflight"
  /\ os[a]["C4"] \in {"done", "refused"}
  /\ ~retried[a]
  /\ retried' = [retried EXCEPT ![a] = TRUE]
  /\ os' = [os EXCEPT ![a]["C4"] = "submitted"]
  /\ UNCHANGED <<pc, callVars, waiter, chan, claims, cancelEvent, winner, effects, endVars>>

(* The 8 s budget of an attempt is over: errored, while the thread runs on. *)
ScriptTimeout(a) ==
  /\ ChannelsRun(a)
  /\ chan[a]["C4"] = "inflight"
  /\ os[a]["C4"] = "submitted"
  /\ SetChan(a, "C4", "errored")
  /\ UNCHANGED <<pc, callVars, waiter, claims, cancelEvent, winner, os, effects,
                 retried, endVars>>

(* The cancelled scope reaches a waiting channel. *)
AbortChannel(a, c) ==
  /\ ChannelsRun(a)
  /\ ScopeCancelled(a)
  /\ chan[a][c] \in {"sleeping", "inflight"}
  /\ SetChan(a, c, "aborted")
  /\ UNCHANGED <<pc, callVars, waiter, claims, cancelEvent, winner, os, effects,
                 retried, endVars>>

-----------------------------------------------------------------------------
(* After the channels. *)

AllSettled(a) == \A c \in Candidates(a) : chan[a][c] \in Settled

(* Variant of EndRace: FIRST_COMPLETED taken literally. *)
EndOnFirstOutcome(a) ==
  /\ pc[a] = "racing"
  /\ \E c \in Candidates(a) : chan[a][c] \in Settled
  /\ pc' = [pc EXCEPT ![a] = "verifying"]
  /\ UNCHANGED <<callVars, waiter, raceVars, endVars>>

EndRace(a) ==
  /\ pc[a] = "racing"
  /\ AllSettled(a)
  /\ pc' = [pc EXCEPT ![a] = "verifying"]
  /\ UNCHANGED <<callVars, waiter, raceVars, endVars>>

(* The dispatcher resolves the waiter's future with an event and removes it. *)
Dispatch(a) ==
  /\ waiter[a] = "pending"
  /\ waiter' = [waiter EXCEPT ![a] = "done"]
  /\ UNCHANGED <<pc, callVars, raceVars, endVars>>

(* Without a pre-fire future verify subscribes only now, through expect. *)
Expect(a) ==
  /\ pc[a] = "verifying"
  /\ waiter[a] = "absent"
  /\ waiter' = [waiter EXCEPT ![a] = "pending"]
  /\ UNCHANGED <<pc, callVars, raceVars, endVars>>

(* That subscription fails as well, and nobody catches it: execute raises,
   after the channels have acted. *)
RaiseNoObserver(a) ==
  /\ pc[a] = "verifying"
  /\ waiter[a] = "absent"
  /\ pc' = [pc EXCEPT ![a] = "raised"]
  /\ UNCHANGED <<callVars, waiter, raceVars, endVars>>

(* verify awaits the future; a timeout takes the waiter out of the table. *)
Verify(a) ==
  /\ pc[a] = "verifying"
  /\ waiter[a] # "absent"
  /\ waiter' = [waiter EXCEPT ![a] = "done"]
  /\ pc' = [pc EXCEPT ![a] = "closing"]
  /\ UNCHANGED <<callVars, raceVars, endVars>>

(* The channel an outcome names: the task group's own cancellation puts the
   placeholder C1 there. *)
OutcomeChannel(a, c) == IF chan[a][c] = "aborted" THEN "C1" ELSE c

OutcomeStatus(a, c) == IF chan[a][c] = "aborted" THEN "cancelled" ELSE chan[a][c]

(* _log_race puts the candidate's name back for a cancelled outcome. *)
LoggedChannel(a, c) ==
  IF OutcomeStatus(a, c) = "cancelled" /\ OutcomeChannel(a, c) # c
  THEN c
  ELSE OutcomeChannel(a, c)

RaceLog(a) ==
  {[event |-> IF c = winner[a] THEN "race_winner" ELSE "race_loser",
    channel |-> LoggedChannel(a, c),
    status |-> OutcomeStatus(a, c)] : c \in Candidates(a)}

(* Variant of Finish: tier and channel are filled in the wrong way round. *)
FinishSwapped(a) ==
  /\ pc[a] = "closing"
  /\ receipts' = receipts \cup {a}
  /\ result' = [result EXCEPT ![a] =
                  [channel |-> TierOf(winner[a]), tier |-> winner[a]]]
  /\ log' = [log EXCEPT ![a] = RaceLog(a)]
  /\ pc' = [pc EXCEPT ![a] = "returned"]
  /\ UNCHANGED <<callVars, waiter, raceVars>>

(* Receipt, filled-in tier and channel, telemetry, return. *)
Finish(a) ==
  /\ pc[a] = "closing"
  /\ receipts' = receipts \cup {a}
  /\ result' = [result EXCEPT ![a] =
                  [channel |-> winner[a], tier |-> TierOf(winner[a])]]
  /\ log' = [log EXCEPT ![a] = RaceLog(a)]
  /\ pc' = [pc EXCEPT ![a] = "returned"]
  /\ UNCHANGED <<callVars, waiter, raceVars>>

(* The caller is cancelled at an await.  While channels run, the cancellation
   goes to them first and execute ends with them. *)
CallerCancel(a) ==
  /\ \/ /\ pc[a] \in {"resolving", "selecting", "verifying", "closing"}
        /\ pc' = [pc EXCEPT ![a] = "cancelled"]
     \/ /\ pc[a] = "racing"
        /\ pc' = [pc EXCEPT ![a] = "cancelling"]
  /\ UNCHANGED <<callVars, waiter, raceVars, endVars>>

EndCancelled(a) ==
  /\ pc[a] = "cancelling"
  /\ AllSettled(a)
  /\ pc' = [pc EXCEPT ![a] = "cancelled"]
  /\ UNCHANGED <<callVars, waiter, raceVars, endVars>>

-----------------------------------------------------------------------------
(* What the event loop and the thread pools do of their own accord. *)
ChannelStep(a, c) ==
  \/ StartChannel(a, c)
  \/ ReplyFired(a, c)
  \/ ReplyErrored(a, c)
  \/ AbortChannel(a, c)

OsStep(a, c) == OsPerform(a, c) \/ OsRefuse(a, c)

Progress(a) ==
  \/ Resolve(a) \/ TryNext(a) \/ RaiseNoTarget(a)
  \/ Subscribe(a) \/ SelectChannels(a) \/ RaiseNoChannel(a)
  \/ \E c \in Channel : ChannelStep(a, c)
  \/ Wake(a) \/ RetryScript(a) \/ ScriptTimeout(a)
  \/ EndRace(a) \/ Expect(a) \/ RaiseNoObserver(a) \/ Verify(a) \/ Finish(a)
  \/ EndCancelled(a)

Next ==
  \E a \in Action :
    \/ Begin(a)
    \/ Progress(a)
    \/ \E c \in Channel : OsStep(a, c) \/ OsDrop(a, c)
    \/ Dispatch(a)
    \/ CallerCancel(a)

(* The loop keeps running a call's steps, and system calls return. *)
Fairness ==
  \A a \in Action :
    /\ WF_vars(Progress(a))
    /\ \A c \in Channel : WF_vars(OsStep(a, c))

Spec == Init /\ [][Next]_vars

FairSpec == Spec /\ Fairness

-----------------------------------------------------------------------------
(* Properties. *)

TypeOK ==
  /\ pc \in [Action -> PcState]
  /\ plan \in [Action -> [priority : Seq(Tier), type : ActionTypes \cup {NoType},
                          effective : Effective, registered : SUBSET Channel]]
  /\ tried \in [Action -> Nat]
  /\ target \in [Action -> Tier \cup {"none"}]
  /\ waiter \in [Action -> WaiterState]
  /\ chan \in [Action -> [Channel -> ChanState]]
  /\ claims \in [Action -> Channel \cup {"none"}]
  /\ cancelEvent \in [Action -> BOOLEAN]
  /\ winner \in [Action -> Channel \cup {"none"}]
  /\ os \in [Action -> [Channel -> OsState]]
  /\ effects \in [Action -> [Channel -> Nat]]
  /\ retried \in [Action -> BOOLEAN]
  /\ receipts \subseteq Action
  /\ log \in [Action -> SUBSET [event : {"race_winner", "race_loser"},
                                channel : Channel, status : ChanState]]
  /\ result \in [Action -> [channel : Channel \cup {"none"},
                            tier : Tier \cup {"none"}]]

(* Once a channel holds an action's token, in whatever way the race, its
   retries and its cancellation go on, no other channel ever gets it and it is
   never given back (idempotency.py: the first writer of the dict wins). *)
ClaimsFinal ==
  [][\A a \in Action : claims[a] # "none" => claims'[a] = claims[a]]_vars

(* Only the channel that holds the token has a system call under way or has
   acted on the application, however the channels interleave. *)
OnlyClaimerActs ==
  \A a \in Action, c \in Channel :
    (os[a][c] # "idle" \/ effects[a][c] > 0) => claims[a] = c

(* The application is acted on at most once for an action, or twice when the
   one transient retry of AppleScript runs a script that had already acted. *)
MaxEffects == [c \in Channel |-> IF c = "C4" THEN 2 ELSE 1]

EffectsBounded ==
  \A a \in Action, c \in Channel :
    /\ effects[a][c] <= MaxEffects[c]
    /\ effects[a][c] = 2 => retried[a]

(* The channel reported as the winner holds the token and did act. *)
WinnerActed ==
  \A a \in Action :
    winner[a] # "none" =>
      /\ claims[a] = winner[a]
      /\ effects[a][winner[a]] > 0
      /\ chan[a][winner[a]] = "fired"

(* An action whose repetition corrupts state is handed to one channel at most,
   even when the caller asks for a race. *)
DestructiveNeverRaced ==
  \A a \in Action :
    Destructive(plan[a].type) => \A c, d \in Candidates(a) : c = d

(* When execute returns, the race was decided by the token: somebody holds it,
   everybody else skipped or was cancelled, and there is a winner exactly when
   the holder fired. *)
TokenDecidesRace ==
  \A a \in Action :
    pc[a] \in {"verifying", "closing", "returned"} =>
      /\ claims[a] \in Candidates(a)
      /\ \A c \in Candidates(a) \ {claims[a]} :
           chan[a][c] \in {"skipped", "cancelled", "aborted"}
      /\ (winner[a] = claims[a]) <=> (chan[a][claims[a]] = "fired")

(* After execute returned, the application is not acted on any more for the
   action, unless a script that ran into its timeout is still running. *)
QuietAfterReturn ==
  [][\A a \in Action :
       pc[a] = "returned" /\ claims[a] # "C4" => effects'[a] = effects[a]]_vars

(* The telemetry of a returned action names every candidate once, under its
   own name, and marks the channel filled into the result as the one winner. *)
LogFaithful ==
  \A a \in Action :
    pc[a] = "returned" =>
      /\ {e.channel : e \in log[a]} = Candidates(a)
      /\ \A e, f \in log[a] : e.channel = f.channel => e = f
      /\ \A e \in log[a] :
           (e.event = "race_winner") <=> (e.channel = result[a].channel)

(* An action that returns leaves nothing in the waiter table. *)
ReturnReleasesWaiter ==
  \A a \in Action : pc[a] \in {"closing", "returned"} => waiter[a] # "pending"

(* What execute leaves behind is the outcome of the race: the token decided
   it, the telemetry tells it, and nobody goes on waiting for it. *)
OutcomeInv == TokenDecidesRace /\ LogFaithful /\ ReturnReleasesWaiter

(* D-15: the staggered AppleScript channel takes the token only when it is
   alone, if child tasks first run in the order of their creation. *)
ScriptYields ==
  \A a \in Action :
    FifoStart /\ claims[a] = "C4" => Candidates(a) = {"C4"}

(* Every call of execute ends, whatever the channels, the retries and the
   cancellation do. *)
EveryCallEnds ==
  \A a \in Action : (pc[a] = "resolving") ~> (pc[a] \in Ended)

(* Why the promise holds, as an invariant that every step keeps.  What is in
   flight belongs to the holder of the token; a system call is counted against
   the channel's allowance from the moment it is handed over; the winner's
   system call was carried out; and channels are what select() gave. *)
Allowance(a, c) == IF c = "C4" /\ retried[a] THEN 2 ELSE 1

BeforeRace == {"idle", "resolving", "subscribing", "selecting"}

FlightInv ==
  \A a \in Action, c \in Channel :
    /\ chan[a][c] = "inflight" => os[a][c] # "idle"
    /\ os[a][c] = "done" => effects[a][c] > 0

AllowanceInv ==
  \A a \in Action, c \in Channel :
    /\ os[a][c] = "submitted" => effects[a][c] < Allowance(a, c)
    /\ effects[a][c] <= Allowance(a, c)

CandidateInv ==
  \A a \in Action :
    /\ Destructive(plan[a].type) => plan[a].effective = "single_channel"
    /\ pc[a] \in BeforeRace => Candidates(a) = {}
    /\ Candidates(a) \subseteq
         Select(plan[a].priority, plan[a].effective, plan[a].registered)

RaceInv ==
  OnlyClaimerActs /\ FlightInv /\ AllowanceInv /\ WinnerActed /\ CandidateInv

(* The promise of SingleDelivery. *)
Delivery == INSTANCE SingleDelivery WITH
  None <- "none", Limit <- MaxEffects, owner <- claims, performed <- effects

ImplementsDelivery == Delivery!Spec
=============================================================================
