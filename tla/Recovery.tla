------------------------------ MODULE Recovery ------------------------------
(***************************************************************************)
(* RecoveryOrchestrator.attempt (basicctrl/recovery/orchestrator.py) over  *)
(* the CircuitBreaker: what happens after an action was not verified.  An  *)
(* attempt runs at most MaxCycles cycles; each consults the breaker and    *)
(* the heal budget, classifies the failure (classifier.py), races the      *)
(* branches of its class, and records the failure if none of them fired.   *)
(*                                                                         *)
(* Attempts run concurrently, one per tool call.  From the end of one      *)
(* branch race to the start of the next there is no suspension point (the  *)
(* locks on the way are never contended), so EndLost and the first half of *)
(* the next cycle are one step.  What a branch does is left to its outcome.*)
(***************************************************************************)
EXTENDS CircuitBreaker, SequencesExt

CONSTANTS
  Attempt,         \* the attempts, one per call
  Contexts,        \* failure contexts callers hand in
  Registered,      \* the registered branches, in order
  Replies,         \* how branch.attempt() may end
  OverBudget,      \* may the heal ratio exceed its budget
  MaxCycles        \* cycles per attempt

Class == {"PERCEPTUAL", "COGNITIVE", "ACTUATION", "ENVIRONMENTAL", "RESOURCE", "LOOP"}

Branch == {"B1_RESCROLL", "B2_OCR_REGROUND", "B3_WORLD_REPLAN",
           "B4_PLANNER_REPLAN", "B5_APPLESCRIPT_FALLBACK"}

(* Where the confidence lies between the thresholds of classify: 0.70 itself
   is outside of both its neighbours. *)
Band == {"<.10", ".10-.30", ".30-.50", ".50-.70", ".70", ">.70"}

(* The pattern found in the lower-cased error message. *)
Error == {"kaxerror", "cdp ws closed", "timed out", "unexpected state", "other"}

FailureCtx == [band : Band, error : Error, prev : Nat]

Reply == {"fired", "failed", "raised"}

ASSUME RecoveryAssumption ==
  /\ Contexts \subseteq FailureCtx
  /\ Registered \in Seq(Branch)
  /\ Replies \subseteq Reply
  /\ OverBudget \subseteq BOOLEAN
  /\ MaxCycles \in Nat \ {0}

VARIABLES
  phase,      \* where the attempt is
  key,        \* its target
  context,    \* its failure context; prev grows with each lost cycle
  cycle,      \* cycles begun
  branch,     \* state of each branch in the current race
  first,      \* the branch at winner_idx, or "none"
  escalated   \* reasons escalated to the user

attemptVars == <<phase, key, context, cycle, branch, first, escalated>>
recoveryVars == <<cbVars, attemptVars>>

Over == {"recovered", "given_up", "cancelled"}
Reason == {"circuit_breaker_tripped", "heal_budget_exceeded",
           "no_branches_available", "max_cycles_exhausted"}

NoContext == [band |-> "<.10", error |-> "other", prev |-> 0]

-----------------------------------------------------------------------------
(* The classifier. *)

Classify(ctx) ==
  CASE ctx.band = ".10-.30" /\ ctx.error = "kaxerror" -> "ACTUATION"
    [] ctx.band = ".30-.50" /\ ctx.error = "cdp ws closed" -> "ENVIRONMENTAL"
    [] ctx.band = ".30-.50" /\ ctx.error = "timed out" -> "RESOURCE"
    [] ctx.band = ".50-.70" /\ ctx.error = "unexpected state" -> "COGNITIVE"
    [] ctx.band = ">.70" /\ ctx.prev >= 3 -> "LOOP"
    [] OTHER -> "PERCEPTUAL"

(* The branch names the dispatch table lists; some of them nobody has. *)
FailureClassToBranches(class) ==
  CASE class = "PERCEPTUAL" -> {"B1_RESCROLL", "B2_OCR_REGROUND", "B4_PLANNER"}
    [] class = "COGNITIVE" -> {"B3_WORLD_REPLAN", "B4_PLANNER"}
    [] class = "ACTUATION" -> {"B1_RESCROLL", "B2_OCR_REGROUND", "B5_APPLESCRIPT"}
    [] class = "ENVIRONMENTAL" -> {"B5_APPLESCRIPT", "B4_PLANNER"}
    [] class = "RESOURCE" -> {"B2_OCR_REGROUND", "B1_RESCROLL"}
    [] class = "LOOP" -> {"B5_APPLESCRIPT"}

(* branches_to_try, in the order they are registered. *)
BranchesFor(ctx) ==
  SelectSeq(Registered, LAMBDA b : b \in FailureClassToBranches(Classify(ctx)))

-----------------------------------------------------------------------------
Init ==
  /\ CBInit
  /\ phase = [a \in Attempt |-> "idle"]
  /\ key \in [Attempt -> Key]
  /\ context = [a \in Attempt |-> NoContext]
  /\ cycle = [a \in Attempt |-> 0]
  /\ branch = [a \in Attempt |-> [b \in Branch |-> "absent"]]
  /\ first = [a \in Attempt |-> "none"]
  /\ escalated = [a \in Attempt |-> <<>>]

(* Variant of Escalate: attempt goes on to its end, where it escalates again. *)
EscalateAgain(a, reason) ==
  /\ escalated' = [escalated EXCEPT ![a] = @ \o <<reason, "max_cycles_exhausted">>]
  /\ phase' = [phase EXCEPT ![a] = "given_up"]

Escalate(a, reason) ==
  /\ escalated' = [escalated EXCEPT ![a] = Append(@, reason)]
  /\ phase' = [phase EXCEPT ![a] = "given_up"]

(* The branches of the class start to run. *)
FanOut(a, ctx) ==
  /\ branch' = [branch EXCEPT ![a] =
       [b \in Branch |-> IF b \in ToSet(BranchesFor(ctx)) THEN "running" ELSE "absent"]]
  /\ phase' = [phase EXCEPT ![a] = "racing"]
  /\ cycle' = [cycle EXCEPT ![a] = @ + 1]

(* Variant of StartCycle: the breaker is consulted before the first cycle. *)
StartCycleOnce(a, ctx, st) ==
  LET tripped == cycle[a] = 0 /\ Tripped(st, now)
  IN  \/ /\ tripped
         /\ Escalate(a, "circuit_breaker_tripped")
         /\ UNCHANGED <<cycle, branch>>
      \/ /\ ~tripped /\ BranchesFor(ctx) = <<>>
         /\ Escalate(a, "no_branches_available")
         /\ UNCHANGED <<cycle, branch>>
      \/ /\ ~tripped /\ BranchesFor(ctx) # <<>>
         /\ FanOut(a, ctx)
         /\ UNCHANGED escalated

(* A cycle up to the branch race, with the breaker in state st. *)
StartCycle(a, ctx, st) ==
  \E over \in OverBudget :
    \/ /\ Tripped(st, now)
       /\ Escalate(a, "circuit_breaker_tripped")
       /\ UNCHANGED <<cycle, branch>>
    \/ /\ ~Tripped(st, now) /\ over
       /\ Escalate(a, "heal_budget_exceeded")
       /\ UNCHANGED <<cycle, branch>>
    \/ /\ ~Tripped(st, now) /\ ~over /\ BranchesFor(ctx) = <<>>
       /\ Escalate(a, "no_branches_available")
       /\ UNCHANGED <<cycle, branch>>
    \/ /\ ~Tripped(st, now) /\ ~over /\ BranchesFor(ctx) # <<>>
       /\ FanOut(a, ctx)
       /\ UNCHANGED escalated

(* attempt is called after an action on the target was not verified. *)
Begin(a) ==
  /\ phase[a] = "idle"
  /\ \E ctx \in Contexts :
       /\ context' = [context EXCEPT ![a] = ctx]
       /\ StartCycle(a, ctx, breaker[key[a]])
  /\ UNCHANGED <<cbVars, key, first>>

-----------------------------------------------------------------------------
(* The race of the branches. *)

BranchesRun(a) == phase[a] \in {"racing", "cancelling"}

(* Variant of Running: a branch that raised never counts as done. *)
RunningOrRaised(a) == {b \in Branch : branch[a][b] \in {"running", "raised"}}

Running(a) == {b \in Branch : branch[a][b] = "running"}

(* branch.attempt ends; the first that fired wins and cancels the others. *)
BranchReply(a, b) ==
  /\ BranchesRun(a)
  /\ branch[a][b] = "running"
  /\ \E reply \in Replies :
       /\ branch' = [branch EXCEPT ![a][b] = reply]
       /\ first' = [first EXCEPT ![a] =
                      IF @ = "none" /\ reply = "fired" THEN b ELSE @]
  /\ UNCHANGED <<cbVars, phase, key, context, cycle, escalated>>

(* The cancelled scope reaches a branch that waits. *)
BranchAbort(a, b) ==
  /\ BranchesRun(a)
  /\ first[a] # "none" \/ phase[a] = "cancelling"
  /\ branch[a][b] = "running"
  /\ branch' = [branch EXCEPT ![a][b] = "aborted"]
  /\ UNCHANGED <<cbVars, phase, key, context, cycle, first, escalated>>

(* Variant of EndWon: a success clears the count, not the trip. *)
EndWonForgiving(a) ==
  /\ phase[a] = "racing"
  /\ Running(a) = {}
  /\ first[a] # "none"
  /\ phase' = [phase EXCEPT ![a] = "recovered"]
  /\ breaker' = [breaker EXCEPT ![key[a]].count = 0]
  /\ UNCHANGED <<now, failures, key, context, cycle, branch, first, escalated>>

(* A branch won. *)
EndWon(a) ==
  /\ phase[a] = "racing"
  /\ Running(a) = {}
  /\ first[a] # "none"
  /\ phase' = [phase EXCEPT ![a] = "recovered"]
  /\ UNCHANGED <<cbVars, key, context, cycle, branch, first, escalated>>

(* Variant of EndLost: the failure is recorded when the attempt gives up. *)
EndLostLate(a) ==
  /\ phase[a] = "racing"
  /\ Running(a) = {}
  /\ first[a] = "none"
  /\ \/ /\ cycle[a] < MaxCycles
        /\ context' = [context EXCEPT ![a].prev = @ + 1]
        /\ StartCycle(a, context'[a], breaker[key[a]])
        /\ UNCHANGED cbVars
     \/ /\ cycle[a] = MaxCycles
        /\ RecordFailure(key[a])
        /\ Escalate(a, "max_cycles_exhausted")
        /\ UNCHANGED <<context, cycle, branch>>
  /\ UNCHANGED <<key, first>>

(* No branch did: record the failure, then go on with the next cycle, or give
   up after the last. *)
EndLost(a) ==
  /\ phase[a] = "racing"
  /\ Running(a) = {}
  /\ first[a] = "none"
  /\ RecordFailure(key[a])
  /\ \/ /\ cycle[a] < MaxCycles
        /\ context' = [context EXCEPT ![a].prev = @ + 1]
        /\ StartCycle(a, context'[a], Recorded(breaker[key[a]], now))
     \/ /\ cycle[a] = MaxCycles
        /\ Escalate(a, "max_cycles_exhausted")
        /\ UNCHANGED <<context, cycle, branch>>
  /\ UNCHANGED <<key, first>>

(* The tool call is cancelled: the branches are, then the attempt ends. *)
Cancel(a) ==
  /\ phase[a] = "racing"
  /\ phase' = [phase EXCEPT ![a] = "cancelling"]
  /\ UNCHANGED <<cbVars, key, context, cycle, branch, first, escalated>>

EndCancelled(a) ==
  /\ phase[a] = "cancelling"
  /\ Running(a) = {}
  /\ phase' = [phase EXCEPT ![a] = "cancelled"]
  /\ UNCHANGED <<cbVars, key, context, cycle, branch, first, escalated>>

Progress(a) ==
  \/ \E b \in Branch : BranchReply(a, b) \/ BranchAbort(a, b)
  \/ EndWon(a) \/ EndLost(a) \/ EndCancelled(a)

(* Time passes. *)
TimePasses == Tick /\ UNCHANGED attemptVars

Next ==
  \/ \E a \in Attempt : Begin(a) \/ Progress(a) \/ Cancel(a)
  \/ TimePasses

(* Every branch ends, and the loop goes on with the attempt. *)
Fairness == \A a \in Attempt : WF_recoveryVars(Progress(a))

Spec == Init /\ [][Next]_recoveryVars

FairSpec == Spec /\ Fairness

-----------------------------------------------------------------------------
(* Properties. *)

RecoveryTypeOK ==
  /\ CBTypeOK
  /\ phase \in [Attempt -> {"idle", "racing", "cancelling"} \cup Over]
  /\ key \in [Attempt -> Key]
  /\ context \in [Attempt -> FailureCtx]
  /\ cycle \in [Attempt -> 0..MaxCycles]
  /\ branch \in [Attempt -> [Branch -> {"absent", "running", "aborted"} \cup Reply]]
  /\ first \in [Attempt -> Branch \cup {"none"}]
  /\ escalated \in [Attempt -> Seq(Reason)]

(* No race of branches starts on a target while its breaker is tripped, even
   when it was another attempt that tripped it since this one began (D-12). *)
QuarantineRespected ==
  [][\A a \in Attempt :
       cycle'[a] # cycle[a] => ~Tripped(breaker'[key[a]], now')]_recoveryVars

(* The cycles of an attempt in which every branch failed. *)
LostCycles(a) ==
  IF phase[a] = "given_up" THEN cycle[a]
  ELSE IF cycle[a] = 0 THEN 0 ELSE cycle[a] - 1

(* The lost cycles of the attempts on a target. *)
Losses(k) ==
  {loss \in Attempt \X (1..MaxCycles) : key[loss[1]] = k /\ loss[2] <= LostCycles(loss[1])}

(* The breaker hears of every lost cycle once, however attempts overlap, and
   of nothing else: won and cancelled cycles are no failures. *)
FailuresAccounted == \A k \in Key : Len(failures[k]) = Cardinality(Losses(k))

(* The user hears once of an attempt that gives up, never of another, and is
   told that cycles are exhausted only after all of them. *)
EscalatedOnce ==
  \A a \in Attempt :
    /\ Len(escalated[a]) = IF phase[a] = "given_up" THEN 1 ELSE 0
    /\ "max_cycles_exhausted" \in ToSet(escalated[a]) => cycle[a] = MaxCycles

(* An attempt recovers only by a branch that fired, and once it is over none
   of its branches is still acting. *)
RecoveredByFiring ==
  \A a \in Attempt :
    /\ phase[a] = "recovered" => first[a] # "none" /\ branch[a][first[a]] = "fired"
    /\ phase[a] \in Over => \A b \in Branch : branch[a][b] # "running"

(* What holds of every attempt and of the breaker it uses: the user hears of a
   failed attempt once, nobody recovers without an action, and no trip comes of
   fewer than three failures in a window. *)
RecoveryInv ==
  RecoveryTypeOK /\ TripJustified /\ EscalatedOnce /\ RecoveredByFiring

(* Every attempt that raced branches ends: in a recovery, in an escalation or
   with its caller. *)
EveryAttemptEnds ==
  \A a \in Attempt : (phase[a] = "racing") ~> (phase[a] \in Over)

(* Overlapping attempts use the breaker one operation at a time. *)
ImplementsBreaker == CBSpec
=============================================================================
