------------------------------ MODULE Branches ------------------------------
(***************************************************************************)
(* What the five recovery branches do (basicctrl/recovery/branches/) while *)
(* RecoveryOrchestrator races them over an action that was not verified:   *)
(* module Recovery leaves a branch to its reply, this one computes it.     *)
(*                                                                         *)
(* The branches share the action's idempotency token with the race of      *)
(* channels that went before, so what matters is who holds the token.  A   *)
(* branch claims it in the name of its channel and then fires the channel, *)
(* which claims it again.  B3 and B4 claim under names the token does not  *)
(* admit, so that their claim of a free token raises; nothing they would   *)
(* do after it is reached.                                                 *)
(***************************************************************************)
EXTENDS Naturals, FiniteSets

CONSTANTS
  Action,       \* the actions recovered, one attempt each
  Fans,         \* sets of branches a failure class may race
  Contexts,     \* what callers put into the failure context
  MaxCycles     \* cycles per attempt

Branch == {"B1", "B2", "B3", "B4", "B5"}
Channel == {"C1", "C2", "C3", "C4", "C5"}
None == "none"

(* Which optional parts the failure context has, and whether B3 and B4 are
   the real ones (stubs stand in for them without cognition). *)
Context == [pid : BOOLEAN, cognition : BOOLEAN]

ASSUME BranchesAssumption ==
  /\ Fans \subseteq SUBSET Branch
  /\ Contexts \subseteq Context
  /\ MaxCycles \in Nat \ {0}

VARIABLES
  owner,      \* the channel in whose name the action's token is held
  performed,  \* effects of each channel for the action
  context,    \* the failure context of the attempt
  fan,        \* the branches of its class
  phase,      \* "racing", "cancelling" or how the attempt ended
  cycle,      \* cycles begun
  at,         \* where each branch is
  reply       \* how each branch of this cycle ended

vars == <<owner, performed, context, fan, phase, cycle, at, reply>>

Place == {"off", "start", "walk", "resolve", "sleep", "claim", "registry", "fire", "done"}
Reply == {"none", "fired", "failed", "skipped", "raised", "aborted"}
Over == {"recovered", "given_up", "cancelled"}

(* The channel a branch fires, in whose name it claims. *)
ChannelOf == [B1 |-> "C2", B2 |-> "C3", B5 |-> "C4"]
Firing == DOMAIN ChannelOf

Launched(f) == [b \in Branch |-> IF b \in f THEN "start" ELSE "off"]
NoReply == [b \in Branch |-> "none"]

(* The race of channels is over: its winner, if any, holds the token and may
   have acted. *)
Init ==
  /\ owner \in [Action -> Channel \cup {None}]
  /\ \E acted \in SUBSET {a \in Action : owner[a] # None} :
       performed = [a \in Action |-> [c \in Channel |->
                      IF a \in acted /\ owner[a] = c THEN 1 ELSE 0]]
  /\ context \in [Action -> Contexts]
  /\ fan \in [Action -> Fans]
  /\ phase = [a \in Action |-> "racing"]
  /\ cycle = [a \in Action |-> 1]
  /\ at = [a \in Action |-> Launched(fan[a])]
  /\ reply = [a \in Action |-> NoReply]

-----------------------------------------------------------------------------
(* Steps of one branch. *)

Cancelled(a) ==
  phase[a] = "cancelling" \/ \E b \in Branch : reply[a][b] = "fired"

GoTo(a, b, place) ==
  /\ at' = [at EXCEPT ![a][b] = place]
  /\ UNCHANGED reply

End(a, b, how) ==
  /\ at' = [at EXCEPT ![a][b] = "done"]
  /\ reply' = [reply EXCEPT ![a][b] = how]

Unmoved == UNCHANGED <<performed, context, fan, phase, cycle>>

Try(a, b, known, place) ==
  /\ IF known THEN GoTo(a, b, place) ELSE End(a, b, "failed")
  /\ UNCHANGED owner /\ Unmoved

(* The target was found, or not, or looking for it raised. *)
Find(a, b, place) ==
  /\ \E found \in BOOLEAN : IF found THEN GoTo(a, b, place) ELSE End(a, b, "failed")
  /\ UNCHANGED owner /\ Unmoved

(* Variant of TryClaim: the branch goes on without the token. *)
TryClaimUnchecked(a, b, place) ==
  /\ owner' = [owner EXCEPT ![a] = IF @ = None THEN ChannelOf[b] ELSE @]
  /\ GoTo(a, b, place)
  /\ Unmoved

(* Variant of TryClaim: the last who asks gets the token. *)
TryClaimLast(a, b, place) ==
  /\ owner' = [owner EXCEPT ![a] = ChannelOf[b]]
  /\ GoTo(a, b, place)
  /\ Unmoved

(* try_claim in the name of the branch's channel. *)
TryClaim(a, b, place) ==
  /\ owner' = [owner EXCEPT ![a] = IF @ = None THEN ChannelOf[b] ELSE @]
  /\ IF owner[a] = None THEN GoTo(a, b, place) ELSE End(a, b, "failed")
  /\ Unmoved

(* channel.fire claims the token, and is skipped if it is taken: as the
   branch itself holds it, it always is. *)
ChannelFire(a, b) ==
  /\ at[a][b] = "fire"
  /\ LET free == owner[a] = None
     IN  /\ owner' = [owner EXCEPT ![a] = IF free THEN ChannelOf[b] ELSE @]
         /\ performed' = [performed EXCEPT ![a][ChannelOf[b]] =
                            IF free THEN @ + 1 ELSE @]
         /\ End(a, b, IF free THEN "fired" ELSE "skipped")
  /\ UNCHANGED <<context, fan, phase, cycle>>

(* B1 walks the application's elements, if it knows the process.  The walk
   the server hands in takes other arguments and always raises; the
   constructor takes any. *)
B1Start(a) ==
  /\ at[a]["B1"] = "start"
  /\ Try(a, "B1", context[a].pid, "walk")

B1Walk(a) ==
  /\ at[a]["B1"] = "walk"
  /\ Find(a, "B1", "claim")

B1Claim(a) ==
  /\ at[a]["B1"] = "claim"
  /\ TryClaim(a, "B1", "registry")

(* A translator or a channel that is not registered ends the branch, which
   keeps the token. *)
B1Registry(a) ==
  /\ at[a]["B1"] = "registry"
  /\ Find(a, "B1", "fire")

(* What C2 answers is the branch's answer, verified or not. *)
B1Fire(a) == ChannelFire(a, "B1")

(* B2 has T4 ground the target anew. *)
B2Start(a) ==
  /\ at[a]["B2"] = "start"
  /\ Try(a, "B2", context[a].pid, "resolve")

B2Resolve(a) ==
  /\ at[a]["B2"] = "resolve"
  /\ Find(a, "B2", "claim")

B2Claim(a) ==
  /\ at[a]["B2"] = "claim"
  /\ TryClaim(a, "B2", "fire")

B2Fire(a) == ChannelFire(a, "B2")

(* B5 claims first of all. *)
B5Claim(a) ==
  /\ at[a]["B5"] = "start"
  /\ TryClaim(a, "B5", "sleep")

(* Variant of B5Stagger: a cancelled wait starts over. *)
B5StaggerAgain(a) ==
  /\ at[a]["B5"] = "sleep"
  /\ IF Cancelled(a)
     THEN GoTo(a, "B5", "sleep") /\ UNCHANGED owner /\ Unmoved
     ELSE Try(a, "B5", owner[a] # None /\ context[a].pid, "resolve")

(* B5 has waited out its stagger, in which it may be cancelled: then it ends
   as if it had failed. *)
B5Stagger(a) ==
  /\ at[a]["B5"] = "sleep"
  /\ Try(a, "B5", ~Cancelled(a) /\ owner[a] # None /\ context[a].pid, "resolve")

B5Resolve(a) ==
  /\ at[a]["B5"] = "resolve"
  /\ Find(a, "B5", "fire")

B5Fire(a) == ChannelFire(a, "B5")

(* A free token refuses to be claimed under the name of B3 or B4: the claim
   raises, and nobody in the branch catches it. *)
ClaimAsPlanner(a, b) ==
  /\ End(a, b, IF owner[a] = None THEN "raised" ELSE "failed")
  /\ UNCHANGED owner /\ Unmoved

B3Replan(a) ==
  /\ at[a]["B3"] = "start"
  /\ context[a].cognition
  /\ ClaimAsPlanner(a, "B3")

B4Replan(a) ==
  /\ at[a]["B4"] = "start"
  /\ context[a].cognition
  /\ ClaimAsPlanner(a, "B4")

(* Without cognition stubs stand in for them. *)
Stub(a, b) ==
  /\ b \in {"B3", "B4"}
  /\ at[a][b] = "start"
  /\ ~context[a].cognition
  /\ End(a, b, "failed")
  /\ UNCHANGED owner /\ Unmoved

(* The cancelled scope reaches a branch where it waits; not where it catches
   the cancellation. *)
Abort(a, b) ==
  /\ Cancelled(a)
  /\ at[a][b] \in {"start", "walk", "resolve"}
  /\ End(a, b, "aborted")
  /\ UNCHANGED owner /\ Unmoved

-----------------------------------------------------------------------------
(* The orchestrator. *)

BranchesDone(a) == \A b \in Branch : at[a][b] \in {"off", "done"}

(* The race ends: in a recovery if a branch fired, else the next cycle races
   the same branches, or the attempt gives up. *)
EndCycle(a) ==
  /\ phase[a] = "racing"
  /\ BranchesDone(a)
  /\ LET won == \E b \in Branch : reply[a][b] = "fired"
         again == ~won /\ cycle[a] < MaxCycles
     IN  /\ phase' = [phase EXCEPT ![a] =
                        IF won THEN "recovered" ELSE IF again THEN @ ELSE "given_up"]
         /\ cycle' = [cycle EXCEPT ![a] = IF again THEN @ + 1 ELSE @]
         /\ at' = [at EXCEPT ![a] = IF again THEN Launched(fan[a]) ELSE @]
         /\ reply' = [reply EXCEPT ![a] = IF again THEN NoReply ELSE @]
  /\ UNCHANGED <<owner, performed, context, fan>>

(* The tool call is cancelled. *)
Cancel(a) ==
  /\ phase[a] = "racing"
  /\ phase' = [phase EXCEPT ![a] = "cancelling"]
  /\ UNCHANGED <<owner, performed, context, fan, cycle, at, reply>>

EndCancelled(a) ==
  /\ phase[a] = "cancelling"
  /\ BranchesDone(a)
  /\ phase' = [phase EXCEPT ![a] = "cancelled"]
  /\ UNCHANGED <<owner, performed, context, fan, cycle, at, reply>>

BranchStep(a) ==
  \/ B1Start(a) \/ B1Walk(a) \/ B1Claim(a) \/ B1Registry(a) \/ B1Fire(a)
  \/ B2Start(a) \/ B2Resolve(a) \/ B2Claim(a) \/ B2Fire(a)
  \/ B3Replan(a) \/ B4Replan(a)
  \/ B5Claim(a) \/ B5Stagger(a) \/ B5Resolve(a) \/ B5Fire(a)
  \/ \E b \in Branch : Stub(a, b) \/ Abort(a, b)

Progress(a) == BranchStep(a) \/ EndCycle(a) \/ EndCancelled(a)

Next == \E a \in Action : Progress(a) \/ Cancel(a)

(* The event loop runs whatever can go on; walks and translators answer. *)
Fairness == \A a \in Action : WF_vars(Progress(a))

Spec == Init /\ [][Next]_vars

FairSpec == Spec /\ Fairness

-----------------------------------------------------------------------------
(* Properties. *)

TypeOK ==
  /\ owner \in [Action -> Channel \cup {None}]
  /\ performed \in [Action -> [Channel -> Nat]]
  /\ context \in [Action -> Contexts]
  /\ fan \in [Action -> Fans]
  /\ phase \in [Action -> {"racing", "cancelling"} \cup Over]
  /\ cycle \in [Action -> 1..MaxCycles]
  /\ at \in [Action -> [Branch -> Place]]
  /\ reply \in [Action -> [Branch -> Reply]]

(* The branches between their claim and the end of their fire. *)
Acting(a) ==
  {b \in Firing : at[a][b] \in {"registry", "fire"}} \cup
  {b \in {"B5"} : at[a][b] \in {"sleep", "resolve"}}

(* Past its claim a branch holds the token in the name of its channel, so that
   of the branches of an action one at most is on its way to its channel, and
   none is when the race of channels left the token taken (T-3-05). *)
OneActs ==
  \A a \in Action :
    /\ Cardinality(Acting(a)) <= 1
    /\ \A b \in Acting(a) : owner[a] = ChannelOf[b] /\ \A c \in Channel : performed[a][c] = 0

(* The branches' part of the promise, as an invariant that every step keeps. *)
BranchInv == TypeOK /\ OneActs

(* Race and recovery together keep the promise of the race alone: the action
   has one owner for good, and only its owner acts, once. *)
Delivery == INSTANCE SingleDelivery WITH Limit <- [c \in Channel |-> 1]

ImplementsDelivery == [][Delivery!Next]_(Delivery!vars)

(* Every attempt ends, though B5 swallows a cancellation. *)
EveryAttemptEnds == <>(\A a \in Action : phase[a] \in Over)
=============================================================================
