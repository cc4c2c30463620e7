-------------------------- MODULE ActionRaceProofs --------------------------
(***************************************************************************)
(* Proofs about ActionRace, for any actions, profiles and registries.      *)
(***************************************************************************)
EXTENDS ActionRace, TLAPS

-----------------------------------------------------------------------------
(* Select gives a single-channel action one channel at most. *)
LEMMA SelectSingle ==
  ASSUME NEW priority \in Seq(Tier), NEW registered,
         NEW c \in Select(priority, "single_channel", registered),
         NEW d \in Select(priority, "single_channel", registered)
  PROVE  c = d
<1>1. SUFFICES ASSUME c # d PROVE FALSE
  OBVIOUS
<1>2. Before(priority, c, d) /\ Before(priority, d, c)
  BY <1>1 DEF Select
<1>3. DOMAIN priority \subseteq Nat
  OBVIOUS
<1>4. PICK i \in DOMAIN priority :
        /\ ChannelOf(priority[i]) = c
        /\ \A j \in DOMAIN priority : j <= i => ChannelOf(priority[j]) # d
  BY <1>2 DEF Before
<1>5. PICK k \in DOMAIN priority :
        /\ ChannelOf(priority[k]) = d
        /\ \A j \in DOMAIN priority : j <= k => ChannelOf(priority[j]) # c
  BY <1>2 DEF Before
<1>6. i <= k \/ k <= i
  BY <1>3
<1>. QED BY <1>4, <1>5, <1>6

(* No destructive action type may race, whatever the caller asks for. *)
LEMMA DestructiveIsSingle ==
  ASSUME NEW t, NEW policy, Destructive(t)
  PROVE  ResolvePolicy(policy, t) = "single_channel"
<1>1. ~MayRace(t)
  <2>1. CASE t.verb \in SingleChannelAllowlist
    BY <2>1 DEF MayRace, RaceAllowlist, SingleChannelAllowlist
  <2>2. CASE t.verb = "key_combo" /\ t.combo \in DestructiveCombos
    BY <2>2 DEF MayRace, DestructiveCombos, SafeRaceCombos
  <2>. QED BY <2>1, <2>2 DEF Destructive
<1>. QED BY <1>1 DEF ResolvePolicy, Intrinsic

LEMMA ResolvePolicyType ==
  ASSUME NEW t, NEW policy
  PROVE  ResolvePolicy(policy, t) \in Effective
BY DEF ResolvePolicy, Intrinsic, Effective

LEMMA ScriptChannel == "C4" \in Channel
BY DEF Channel

LEMMA FireType ==
  ASSUME TypeOK, NEW a \in Action, NEW c \in Channel, Fire(a, c)
  PROVE  /\ chan' \in [Action -> [Channel -> ChanState]]
         /\ claims' \in [Action -> Channel \cup {"none"}]
         /\ os' \in [Action -> [Channel -> OsState]]
<1>1. CASE SetChan(a, c, "skipped") /\ UNCHANGED <<claims, os>>
  BY <1>1 DEF TypeOK, SetChan, ChanState, Settled
<1>2. CASE claims' = [claims EXCEPT ![a] = c] /\ SetChan(a, c, "cancelled") /\ UNCHANGED os
  BY <1>2 DEF TypeOK, SetChan, ChanState, Settled
<1>3. CASE claims' = [claims EXCEPT ![a] = c] /\ SetChan(a, c, "errored") /\ UNCHANGED os
  BY <1>3 DEF TypeOK, SetChan, ChanState, Settled
<1>4. CASE /\ claims' = [claims EXCEPT ![a] = c]
           /\ SetChan(a, c, "inflight")
           /\ os' = [os EXCEPT ![a][c] = "submitted"]
  BY <1>4 DEF TypeOK, SetChan, ChanState, OsState
<1>. QED BY <1>1, <1>2, <1>3, <1>4 DEF Fire

LEMMA TierOfType == ASSUME NEW c PROVE TierOf(c) \in Tier \cup {"none"}
BY DEF TierOf, Tier

(* What _log_race writes is well formed. *)
LEMMA RaceLogType ==
  ASSUME TypeOK, NEW a \in Action
  PROVE  RaceLog(a) \in SUBSET [event : {"race_winner", "race_loser"},
                                channel : Channel, status : ChanState]
<1>1. \A c \in Candidates(a) : chan[a][c] \in ChanState /\ c \in Channel
  BY DEF Candidates, TypeOK
<1>2. \A c \in Candidates(a) :
        LoggedChannel(a, c) \in Channel /\ OutcomeStatus(a, c) \in ChanState
  BY <1>1 DEF LoggedChannel, OutcomeChannel, OutcomeStatus, ChanState, Settled
<1>. QED BY <1>2 DEF RaceLog

-----------------------------------------------------------------------------
(* Type correctness. *)

LEMMA TypeInit == Init => TypeOK
<1>1. NoPlan \in [priority : Seq(Tier), type : ActionTypes \cup {NoType}, effective : Effective,
                 registered : SUBSET Channel]
  <2>1. <<>> \in Seq(Tier)
    OBVIOUS
  <2>. QED BY <2>1 DEF NoPlan, Effective
<1>2. NoResult \in [channel : Channel \cup {"none"}, tier : Tier \cup {"none"}]
  BY DEF NoResult
<1>. QED
  BY <1>1, <1>2 DEF Init, TypeOK, PcState, Ended, ChanState, Settled, OsState,
                    WaiterState

LEMMA TypeNext == TypeOK /\ [Next]_vars => TypeOK'
<1>. SUFFICES ASSUME TypeOK, [Next]_vars PROVE TypeOK'
  OBVIOUS
<1>1. ASSUME NEW a \in Action, Begin(a) PROVE TypeOK'
  <2>1. PICK priority \in Priorities, type \in ActionTypes, policy \in Policy,
             registered \in Registries :
          plan' = [plan EXCEPT ![a] =
                     [priority |-> priority, type |-> type,
                      effective |-> ResolvePolicy(policy, type),
                      registered |-> registered]]
    BY <1>1 DEF TypeOK, PcState, Ended, callVars, raceVars, endVars,
      Begin
  <2>2. [priority |-> priority, type |-> type,
         effective |-> ResolvePolicy(policy, type), registered |-> registered]
          \in [priority : Seq(Tier), type : ActionTypes \cup {NoType}, effective : Effective,
               registered : SUBSET Channel]
    BY ProfileAssumption, RegistryAssumption, ResolvePolicyType
  <2>. QED BY <1>1, <2>1, <2>2 DEF TypeOK, PcState, Ended, callVars, raceVars, endVars,
      Begin
<1>2. ASSUME NEW a \in Action, Resolve(a) PROVE TypeOK'
  <2>1. plan[a].priority[tried[a] + 1] \in Tier
    BY <1>2, RegistryAssumption DEF TypeOK, PcState, Ended, callVars, raceVars, endVars,
      Resolve
  <2>. QED BY <1>2, <2>1 DEF TypeOK, PcState, Ended, callVars, raceVars, endVars,
      Resolve
<1>3. ASSUME NEW a \in Action, TryNext(a) PROVE TypeOK'
  BY <1>3 DEF TypeOK, PcState, Ended, callVars, raceVars, endVars,
      TryNext
<1>4. ASSUME NEW a \in Action,
             \/ RaiseNoTarget(a) \/ RaiseNoChannel(a) \/ RaiseNoObserver(a)
             \/ EndRace(a) \/ EndCancelled(a)
      PROVE TypeOK'
  BY <1>4 DEF TypeOK, PcState, Ended, callVars, raceVars, endVars,
      RaiseNoTarget, RaiseNoChannel, RaiseNoObserver, EndRace, EndCancelled
<1>5. ASSUME NEW a \in Action, Subscribe(a) \/ Expect(a) PROVE TypeOK'
  <2>1. CASE Subscribe(a)
    BY <2>1 DEF TypeOK, PcState, Ended, callVars, raceVars, endVars,
      Subscribe, WaiterState
  <2>2. CASE Expect(a)
    BY <2>2 DEF TypeOK, callVars, raceVars, endVars, Expect, WaiterState
  <2>. QED BY <1>5, <2>1, <2>2
<1>6. ASSUME NEW a \in Action, SelectChannels(a) PROVE TypeOK'
  BY <1>6 DEF TypeOK, PcState, Ended, callVars, raceVars, endVars,
      SelectChannels, ChanState
<1>7. ASSUME NEW a \in Action, NEW c \in Channel, StartChannel(a, c) PROVE TypeOK'
  <2>1. CASE Fire(a, c)
    BY <1>7, <2>1, FireType DEF TypeOK, PcState, Ended, callVars, raceVars, endVars,
      StartChannel
  <2>2. CASE c = "C4" /\ SetChan(a, c, "sleeping") /\ UNCHANGED <<claims, os>>
    BY <1>7, <2>2 DEF TypeOK, PcState, Ended, callVars, raceVars, endVars,
      StartChannel, SetChan, ChanState
  <2>. QED BY <1>7, <2>1, <2>2 DEF StartChannel
<1>8. ASSUME NEW a \in Action, Wake(a) PROVE TypeOK'
  <2>1. CASE Fire(a, "C4")
    BY <1>8, <2>1, FireType, ScriptChannel DEF TypeOK, PcState, Ended, callVars, raceVars, endVars,
      Wake
  <2>2. CASE SetChan(a, "C4", "cancelled") /\ UNCHANGED <<claims, os>>
    BY <1>8, <2>2 DEF TypeOK, PcState, Ended, callVars, raceVars, endVars,
      Wake, SetChan, ChanState, Settled
  <2>. QED BY <1>8, <2>1, <2>2 DEF Wake
<1>9. ASSUME NEW a \in Action, NEW c \in Channel, OsPerform(a, c) PROVE TypeOK'
  BY <1>9 DEF TypeOK, PcState, Ended, callVars, raceVars, endVars,
      OsPerform, OsState
<1>10. ASSUME NEW a \in Action, NEW c \in Channel, OsRefuse(a, c) \/ OsDrop(a, c)
       PROVE TypeOK'
  <2>1. CASE OsRefuse(a, c)
    BY <2>1 DEF TypeOK, PcState, Ended, callVars, raceVars, endVars,
      OsRefuse, OsState
  <2>2. CASE OsDrop(a, c)
    BY <2>2 DEF TypeOK, PcState, Ended, callVars, raceVars, endVars,
      OsDrop, OsState
  <2>. QED BY <1>10, <2>1, <2>2
<1>11. ASSUME NEW a \in Action, NEW c \in Channel, ReplyFired(a, c) PROVE TypeOK'
  BY <1>11 DEF TypeOK, PcState, Ended, callVars, raceVars, endVars,
      ReplyFired, SetChan, ChanState, Settled
<1>12. ASSUME NEW a \in Action, NEW c \in Channel,
              ReplyErrored(a, c) \/ AbortChannel(a, c)
       PROVE TypeOK'
  <2>1. CASE ReplyErrored(a, c)
    BY <2>1 DEF TypeOK, PcState, Ended, callVars, raceVars, endVars,
      ReplyErrored, SetChan, ChanState, Settled
  <2>2. CASE AbortChannel(a, c)
    BY <2>2 DEF TypeOK, PcState, Ended, callVars, raceVars, endVars,
      AbortChannel, SetChan, ChanState, Settled
  <2>. QED BY <1>12, <2>1, <2>2
<1>13. ASSUME NEW a \in Action, RetryScript(a) PROVE TypeOK'
  BY <1>13 DEF TypeOK, PcState, Ended, callVars, raceVars, endVars,
      RetryScript, OsState
<1>14. ASSUME NEW a \in Action, ScriptTimeout(a) PROVE TypeOK'
  BY <1>14 DEF TypeOK, PcState, Ended, callVars, raceVars, endVars,
      ScriptTimeout, SetChan, ChanState, Settled
<1>15. ASSUME NEW a \in Action, Dispatch(a) \/ Verify(a) PROVE TypeOK'
  BY <1>15 DEF TypeOK, PcState, Ended, callVars, raceVars, endVars,
      Dispatch, Verify, WaiterState
<1>16. ASSUME NEW a \in Action, Finish(a) PROVE TypeOK'
  <2>1. [channel |-> winner[a], tier |-> TierOf(winner[a])]
          \in [channel : Channel \cup {"none"}, tier : Tier \cup {"none"}]
    BY TierOfType DEF TypeOK
  <2>. QED BY <1>16, <2>1, RaceLogType DEF TypeOK, PcState, Ended, callVars, raceVars, endVars,
      Finish
<1>17. ASSUME NEW a \in Action, CallerCancel(a) PROVE TypeOK'
  BY <1>17 DEF TypeOK, PcState, Ended, callVars, raceVars, endVars,
      CallerCancel
<1>18. CASE UNCHANGED vars
  BY <1>18 DEF TypeOK, vars, callVars, raceVars, endVars
<1>. QED
  BY <1>1, <1>2, <1>3, <1>4, <1>5, <1>6, <1>7, <1>8, <1>9, <1>10, <1>11, <1>12,
     <1>13, <1>14, <1>15, <1>16, <1>17, <1>18
     DEF Next, Progress, ChannelStep, OsStep

(* Every variable keeps its type, whatever the profiles and registries. *)
THEOREM TypeCorrect == Spec => []TypeOK
BY TypeInit, TypeNext, PTL DEF Spec

-----------------------------------------------------------------------------
(* The invariant RaceInv.  Its last part, CandidateInv, is about which
   channels are involved; the others are about what these do. *)

FiringInv == OnlyClaimerActs /\ FlightInv /\ AllowanceInv /\ WinnerActed

(* The types the firing part needs. *)
FiringTypes ==
  /\ chan \in [Action -> [Channel -> ChanState]]
  /\ claims \in [Action -> Channel \cup {"none"}]
  /\ winner \in [Action -> Channel \cup {"none"}]
  /\ os \in [Action -> [Channel -> OsState]]
  /\ effects \in [Action -> [Channel -> Nat]]
  /\ retried \in [Action -> BOOLEAN]

LEMMA RaceInvInit == Init => RaceInv
<1>. SUFFICES ASSUME Init PROVE RaceInv
  OBVIOUS
<1>1. OnlyClaimerActs /\ FlightInv /\ AllowanceInv /\ WinnerActed
  BY DEF Init, OnlyClaimerActs, FlightInv, AllowanceInv, Allowance, WinnerActed
<1>2. CandidateInv
  BY DEF Init, CandidateInv, Candidates, NoPlan
<1>. QED BY <1>1, <1>2 DEF RaceInv

(* A step that leaves the plan and the race alone. *)
LEMMA QuietStep ==
  ASSUME RaceInv, UNCHANGED plan, UNCHANGED raceVars,
         \A a \in Action : pc'[a] \in BeforeRace => pc[a] \in BeforeRace
  PROVE  RaceInv'
<1>1. OnlyClaimerActs' /\ FlightInv' /\ AllowanceInv' /\ WinnerActed'
  BY DEF RaceInv, raceVars, OnlyClaimerActs, FlightInv, AllowanceInv, Allowance,
         WinnerActed
<1>2. CandidateInv'
  BY DEF RaceInv, raceVars, CandidateInv, Candidates
<1>. QED BY <1>1, <1>2 DEF RaceInv

(* A channel that takes part moves on. *)
LEMMA CandidatesKept ==
  ASSUME FiringTypes, CandidateInv, NEW a \in Action, NEW c \in Channel,
         NEW s, s # "absent", chan[a][c] # "absent", SetChan(a, c, s),
         UNCHANGED <<pc, plan>>
  PROVE  CandidateInv'
<1>1. \A b \in Action : Candidates(b)' = Candidates(b)
  BY DEF FiringTypes, Candidates, SetChan
<1>. QED BY <1>1 DEF CandidateInv

(* The start of fire() keeps the firing part. *)
LEMMA FireKeeps ==
  ASSUME FiringTypes, FiringInv, NEW a \in Action, NEW c \in Channel,
         chan[a][c] \in {"queued", "sleeping"}, Fire(a, c),
         UNCHANGED <<winner, effects, retried>>
  PROVE  FiringInv'
<1>1. winner[a] # c
  BY DEF FiringInv, WinnerActed, Channel
<1>2. CASE claims[a] # "none" /\ SetChan(a, c, "skipped") /\ UNCHANGED <<claims, os>>
  <2>1. OnlyClaimerActs' /\ AllowanceInv'
    BY <1>2 DEF FiringInv, OnlyClaimerActs, AllowanceInv, Allowance
  <2>2. FlightInv'
    BY <1>2 DEF FiringTypes, FiringInv, SetChan, FlightInv
  <2>3. WinnerActed'
    BY <1>1, <1>2 DEF FiringTypes, FiringInv, SetChan, WinnerActed
  <2>. QED BY <2>1, <2>2, <2>3 DEF FiringInv
<1>3. CASE claims[a] = "none" /\ claims' = [claims EXCEPT ![a] = c]
  <2>1. winner[a] = "none"
    BY <1>3 DEF FiringTypes, FiringInv, WinnerActed
  <2>2. \A d \in Channel : os[a][d] = "idle" /\ effects[a][d] = 0
    BY <1>3 DEF FiringTypes, FiringInv, OnlyClaimerActs, Channel
  <2>3. CASE \E s \in {"cancelled", "errored"} : SetChan(a, c, s) /\ UNCHANGED os
    BY <1>3, <2>1, <2>2, <2>3 DEF FiringTypes, FiringInv, SetChan, OnlyClaimerActs,
                                  FlightInv, AllowanceInv, Allowance, WinnerActed
  <2>4. CASE SetChan(a, c, "inflight") /\ os' = [os EXCEPT ![a][c] = "submitted"]
    BY <1>3, <2>1, <2>2, <2>4 DEF FiringTypes, FiringInv, SetChan, OnlyClaimerActs,
                                  FlightInv, AllowanceInv, Allowance, WinnerActed
  <2>. QED BY <1>2, <1>3, <2>3, <2>4 DEF Fire
<1>. QED BY <1>2, <1>3 DEF Fire

LEMMA RaceInvNext == TypeOK /\ RaceInv /\ [Next]_vars => RaceInv'
<1>. SUFFICES ASSUME TypeOK, RaceInv, [Next]_vars PROVE RaceInv'
  OBVIOUS
<1>a. FiringTypes /\ FiringInv /\ CandidateInv
  BY DEF TypeOK, FiringTypes, FiringInv, RaceInv
<1>b. ASSUME FiringInv', CandidateInv' PROVE RaceInv'
  BY <1>b DEF FiringInv, RaceInv
<1>c. pc \in [Action -> PcState]
  BY DEF TypeOK
<1>1. ASSUME NEW a \in Action,
             \/ Resolve(a) \/ TryNext(a) \/ RaiseNoTarget(a) \/ Subscribe(a)
             \/ RaiseNoChannel(a) \/ EndRace(a) \/ EndCancelled(a)
             \/ Expect(a) \/ RaiseNoObserver(a)
             \/ Dispatch(a) \/ Verify(a) \/ Finish(a) \/ CallerCancel(a)
      PROVE RaceInv'
  <2>1. UNCHANGED plan /\ UNCHANGED raceVars
    BY <1>1 DEF Resolve, TryNext, RaiseNoTarget, Subscribe, RaiseNoChannel, EndRace,
                EndCancelled, Expect, RaiseNoObserver, Dispatch, Verify, Finish,
                CallerCancel, callVars
  <2>2. \A b \in Action : pc'[b] \in BeforeRace => pc[b] \in BeforeRace
    BY <1>1, <1>c DEF Resolve, TryNext, RaiseNoTarget, Subscribe, RaiseNoChannel,
                EndRace, EndCancelled, Expect, RaiseNoObserver, Dispatch, Verify, Finish,
                CallerCancel, BeforeRace
  <2>. QED BY <2>1, <2>2, QuietStep
<1>2. ASSUME NEW a \in Action, Begin(a) PROVE RaceInv'
  <2>1. FiringInv'
    BY <1>2, <1>a DEF Begin, raceVars, FiringInv, OnlyClaimerActs, FlightInv,
                      AllowanceInv, Allowance, WinnerActed
  <2>2. PICK t, policy, priority, registered :
          plan' = [plan EXCEPT ![a] = [priority |-> priority, type |-> t,
                                       effective |-> ResolvePolicy(policy, t),
                                       registered |-> registered]]
    BY <1>2 DEF Begin
  <2>3. \A b \in Action : Candidates(b)' = Candidates(b)
    BY <1>2 DEF Begin, raceVars, Candidates
  <2>4. Candidates(a) = {}
    BY <1>2, <1>a DEF Begin, CandidateInv, BeforeRace
  <2>5. \A b \in Action \ {a} : plan'[b] = plan[b] /\ pc'[b] = pc[b]
    BY <1>2, <2>2, <1>c DEF Begin, TypeOK
  <2>6. /\ plan'[a].type = t
        /\ plan'[a].effective = ResolvePolicy(policy, t)
    BY <2>2 DEF TypeOK
  <2>7. Destructive(t) => ResolvePolicy(policy, t) = "single_channel"
    BY DestructiveIsSingle
  <2>8. CandidateInv'
    BY <1>a, <2>3, <2>4, <2>5, <2>6, <2>7 DEF CandidateInv
  <2>. QED BY <1>b, <2>1, <2>8
<1>3. ASSUME NEW a \in Action, SelectChannels(a) PROVE RaceInv'
  <2>. DEFINE chosen == Select(plan[a].priority, plan[a].effective, plan[a].registered)
  <2>1. \A c \in Channel : chan[a][c] = "absent"
    BY <1>3, <1>a DEF SelectChannels, CandidateInv, Candidates, BeforeRace
  <2>2. winner[a] = "none"
    BY <1>a, <2>1 DEF FiringTypes, FiringInv, WinnerActed
  <2>3. /\ chan' = [chan EXCEPT ![a] =
                   [c \in Channel |-> IF c \in chosen THEN "queued" ELSE "absent"]]
        /\ UNCHANGED <<claims, winner, os, effects, retried, plan>>
        /\ pc' = [pc EXCEPT ![a] = "racing"]
    BY <1>3 DEF SelectChannels, callVars
  <2>. HIDE DEF chosen
  <2>4. FiringInv'
    <3>1. OnlyClaimerActs' /\ AllowanceInv'
      BY <1>a, <2>3 DEF FiringInv, OnlyClaimerActs, AllowanceInv, Allowance
    <3>2. FlightInv'
      BY <1>a, <2>3 DEF FiringInv, FiringTypes, FlightInv
    <3>3. WinnerActed'
      BY <1>a, <2>2, <2>3 DEF FiringInv, FiringTypes, WinnerActed
    <3>. QED BY <3>1, <3>2, <3>3 DEF FiringInv
  <2>5. \A b \in Action \ {a} : Candidates(b)' = Candidates(b)
    BY <2>3, <1>a DEF Candidates, FiringTypes
  <2>6. Candidates(a)' \subseteq chosen
    BY <2>3, <1>a DEF Candidates, FiringTypes
  <2>7. CandidateInv'
    BY <1>a, <1>c, <2>3, <2>5, <2>6 DEF CandidateInv, BeforeRace, chosen
  <2>. QED BY <1>b, <2>4, <2>7
<1>4. ASSUME NEW a \in Action, NEW c \in Channel, StartChannel(a, c) PROVE RaceInv'
  <2>1. /\ chan[a][c] = "queued"
        /\ UNCHANGED <<pc, plan, winner, effects, retried>>
    BY <1>4 DEF StartChannel, callVars
  <2>2. CASE SetChan(a, c, "sleeping") /\ UNCHANGED <<claims, os>>
    <3>1. winner[a] # c
      BY <1>a, <2>1 DEF FiringInv, WinnerActed, Channel
    <3>2. FiringInv'
      BY <1>a, <2>1, <2>2, <3>1 DEF FiringInv, FiringTypes, SetChan, OnlyClaimerActs,
         FlightInv, AllowanceInv, Allowance, WinnerActed
    <3>3. CandidateInv'
      BY <1>a, <2>1, <2>2, CandidatesKept
    <3>. QED BY <1>b, <3>2, <3>3
  <2>3. CASE Fire(a, c)
    <3>1. FiringInv'
      BY <1>a, <2>1, <2>3, FireKeeps
    <3>2. \E s \in {"skipped", "cancelled", "errored", "inflight"} : SetChan(a, c, s)
      BY <2>3 DEF Fire
    <3>3. CandidateInv'
      BY <1>a, <2>1, <3>2, CandidatesKept
    <3>. QED BY <1>b, <3>1, <3>3
  <2>. QED BY <1>4, <2>2, <2>3 DEF StartChannel
<1>5. ASSUME NEW a \in Action, Wake(a) PROVE RaceInv'
  <2>1. /\ chan[a]["C4"] = "sleeping"
        /\ UNCHANGED <<pc, plan, winner, effects, retried>>
    BY <1>5 DEF Wake, callVars
  <2>2. CASE SetChan(a, "C4", "cancelled") /\ UNCHANGED <<claims, os>>
    <3>1. winner[a] # "C4"
      BY <1>a, <2>1 DEF FiringInv, WinnerActed
    <3>2. FiringInv'
      BY <1>a, <2>1, <2>2, <3>1 DEF FiringInv, FiringTypes, SetChan, OnlyClaimerActs,
         FlightInv, AllowanceInv, Allowance, WinnerActed
    <3>3. CandidateInv'
      BY <1>a, <2>1, <2>2, CandidatesKept, ScriptChannel
    <3>. QED BY <1>b, <3>2, <3>3
  <2>3. CASE Fire(a, "C4")
    <3>1. FiringInv'
      BY <1>a, <2>1, <2>3, FireKeeps, ScriptChannel
    <3>2. \E s \in {"skipped", "cancelled", "errored", "inflight"} : SetChan(a, "C4", s)
      BY <2>3 DEF Fire
    <3>3. CandidateInv'
      BY <1>a, <2>1, <3>2, CandidatesKept, ScriptChannel
    <3>. QED BY <1>b, <3>1, <3>3
  <2>. QED BY <1>5, <2>2, <2>3 DEF Wake
<1>6. ASSUME NEW a \in Action, NEW c \in Channel,
             OsPerform(a, c) \/ OsRefuse(a, c) \/ OsDrop(a, c)
      PROVE RaceInv'
  <2>1. /\ os[a][c] = "submitted"
        /\ UNCHANGED <<pc, plan, chan, claims, winner, retried>>
    BY <1>6 DEF OsPerform, OsRefuse, OsDrop, callVars
  <2>2. CandidateInv'
    BY <1>a, <2>1 DEF CandidateInv, Candidates
  <2>3. CASE OsPerform(a, c)
    <3>1. /\ os' = [os EXCEPT ![a][c] = "done"]
          /\ effects' = [effects EXCEPT ![a][c] = @ + 1]
      BY <2>3 DEF OsPerform
    <3>2. OnlyClaimerActs' /\ WinnerActed'
      BY <1>a, <2>1, <3>1 DEF FiringInv, FiringTypes, OnlyClaimerActs, WinnerActed
    <3>3. FlightInv'
      BY <1>a, <2>1, <3>1 DEF FiringInv, FiringTypes, FlightInv
    <3>4. AllowanceInv'
      BY <1>a, <2>1, <3>1 DEF FiringInv, FiringTypes, AllowanceInv, Allowance
    <3>. QED BY <1>b, <2>2, <3>2, <3>3, <3>4 DEF FiringInv
  <2>4. CASE OsRefuse(a, c) \/ OsDrop(a, c)
    <3>1. PICK s \in {"refused", "dropped"} : os' = [os EXCEPT ![a][c] = s]
      BY <2>4 DEF OsRefuse, OsDrop
    <3>2. UNCHANGED effects
      BY <2>4 DEF OsRefuse, OsDrop
    <3>3. OnlyClaimerActs' /\ WinnerActed'
      BY <1>a, <2>1, <3>1, <3>2 DEF FiringInv, FiringTypes, OnlyClaimerActs, WinnerActed
    <3>4. FlightInv' /\ AllowanceInv'
      BY <1>a, <2>1, <3>1, <3>2 DEF FiringInv, FiringTypes, FlightInv, AllowanceInv,
                                   Allowance
    <3>. QED BY <1>b, <2>2, <3>3, <3>4 DEF FiringInv
  <2>. QED BY <1>6, <2>3, <2>4
<1>7. ASSUME NEW a \in Action, NEW c \in Channel, ReplyFired(a, c) PROVE RaceInv'
  <2>1. /\ chan[a][c] = "inflight" /\ os[a][c] = "done"
        /\ SetChan(a, c, "fired")
        /\ winner' = [winner EXCEPT ![a] = IF @ = "none" THEN c ELSE @]
        /\ UNCHANGED <<pc, plan, claims, os, effects, retried>>
    BY <1>7 DEF ReplyFired, callVars
  <2>2. effects[a][c] > 0 /\ claims[a] = c
    BY <1>a, <2>1 DEF FiringInv, FlightInv, OnlyClaimerActs
  <2>3. OnlyClaimerActs' /\ AllowanceInv' /\ FlightInv'
    BY <1>a, <2>1 DEF FiringInv, FiringTypes, SetChan, OnlyClaimerActs, AllowanceInv,
                      Allowance, FlightInv
  <2>4. WinnerActed'
    BY <1>a, <2>1, <2>2 DEF FiringInv, FiringTypes, SetChan, WinnerActed
  <2>5. CandidateInv'
    BY <1>a, <2>1, CandidatesKept
  <2>. QED BY <1>b, <2>3, <2>4, <2>5 DEF FiringInv
<1>8. ASSUME NEW a \in Action, NEW c \in Channel,
             \/ ReplyErrored(a, c) \/ AbortChannel(a, c)
             \/ c = "C4" /\ ScriptTimeout(a)
      PROVE RaceInv'
  <2>1. /\ chan[a][c] \in {"inflight", "sleeping"}
        /\ UNCHANGED <<pc, plan, claims, winner, os, effects, retried>>
    BY <1>8 DEF ReplyErrored, AbortChannel, ScriptTimeout, callVars
  <2>2. PICK s \in {"errored", "aborted"} : SetChan(a, c, s)
    BY <1>8 DEF ReplyErrored, AbortChannel, ScriptTimeout
  <2>3. winner[a] # c
    BY <1>a, <2>1 DEF FiringInv, WinnerActed, Channel
  <2>4. FiringInv'
    BY <1>a, <2>1, <2>2, <2>3 DEF FiringInv, FiringTypes, SetChan, OnlyClaimerActs,
       FlightInv, AllowanceInv, Allowance, WinnerActed
  <2>5. CandidateInv'
    BY <1>a, <2>1, <2>2, CandidatesKept
  <2>. QED BY <1>b, <2>4, <2>5
<1>9. ASSUME NEW a \in Action, RetryScript(a) PROVE RaceInv'
  <2>1. /\ chan[a]["C4"] = "inflight"
        /\ os[a]["C4"] \in {"done", "refused"}
        /\ ~retried[a]
        /\ retried' = [retried EXCEPT ![a] = TRUE]
        /\ os' = [os EXCEPT ![a]["C4"] = "submitted"]
        /\ UNCHANGED <<pc, plan, chan, claims, winner, effects>>
    BY <1>9 DEF RetryScript, callVars
  <2>2. OnlyClaimerActs' /\ WinnerActed'
    BY <1>a, <2>1 DEF FiringInv, FiringTypes, OnlyClaimerActs, WinnerActed
  <2>3. FlightInv'
    BY <1>a, <2>1 DEF FiringInv, FiringTypes, FlightInv
  <2>4. AllowanceInv'
    BY <1>a, <2>1 DEF FiringInv, FiringTypes, AllowanceInv, Allowance
  <2>5. CandidateInv'
    BY <1>a, <2>1 DEF CandidateInv, Candidates
  <2>. QED BY <1>b, <2>2, <2>3, <2>4, <2>5 DEF FiringInv
<1>10. CASE UNCHANGED vars
  BY <1>10, QuietStep DEF vars, callVars
<1>. QED
  BY <1>1, <1>2, <1>3, <1>4, <1>5, <1>6, <1>7, <1>8, <1>9, <1>10, ScriptChannel
     DEF Next, Progress, ChannelStep, OsStep

(* The invariant of the race, from which the results below follow. *)
THEOREM RaceInvariant == Spec => [](TypeOK /\ RaceInv)
BY TypeInit, TypeNext, RaceInvInit, RaceInvNext, PTL DEF Spec

-----------------------------------------------------------------------------
(* What follows from the invariant. *)

(* Only the holder of the token acts on the application. *)
THEOREM OnlyClaimerActsAlways == Spec => []OnlyClaimerActs
<1>1. RaceInv => OnlyClaimerActs
  BY DEF RaceInv
<1>. QED BY <1>1, RaceInvariant, PTL

(* One effect per action, two for a script that was retried. *)
THEOREM EffectsBoundedAlways == Spec => []EffectsBounded
<1>1. TypeOK /\ RaceInv => EffectsBounded
  BY DEF TypeOK, RaceInv, AllowanceInv, Allowance, EffectsBounded, MaxEffects
<1>. QED BY <1>1, RaceInvariant, PTL

(* The reported winner holds the token and did act. *)
THEOREM WinnerActedAlways == Spec => []WinnerActed
<1>1. RaceInv => WinnerActed
  BY DEF RaceInv
<1>. QED BY <1>1, RaceInvariant, PTL

(* A destructive action has one candidate channel at most. *)
THEOREM DestructiveNeverRacedAlways == Spec => []DestructiveNeverRaced
<1>1. ASSUME TypeOK, RaceInv PROVE DestructiveNeverRaced
  <2>1. SUFFICES ASSUME NEW a \in Action, Destructive(plan[a].type),
                        NEW c \in Candidates(a), NEW d \in Candidates(a)
                 PROVE  c = d
    BY DEF DestructiveNeverRaced
  <2>2. /\ c \in Select(plan[a].priority, "single_channel", plan[a].registered)
        /\ d \in Select(plan[a].priority, "single_channel", plan[a].registered)
    BY <1>1, <2>1 DEF RaceInv, CandidateInv
  <2>3. plan[a].priority \in Seq(Tier)
    BY <1>1 DEF TypeOK
  <2>. QED BY <2>2, <2>3, SelectSingle
<1>. QED BY <1>1, RaceInvariant, PTL

(* How a step may change a token: from nobody to one channel. *)
LEMMA ClaimStep ==
  ASSUME TypeOK, RaceInv, [Next]_vars
  PROVE  \/ UNCHANGED <<claims, effects>>
         \/ \E a \in Action, c \in Channel :
              /\ claims[a] = "none"
              /\ claims' = [claims EXCEPT ![a] = c]
              /\ UNCHANGED effects
         \/ \E a \in Action, c \in Channel :
              /\ claims[a] = c
              /\ effects[a][c] < MaxEffects[c]
              /\ effects' = [effects EXCEPT ![a][c] = @ + 1]
              /\ UNCHANGED claims
<1>. DEFINE
       Owns(a, c) == /\ claims[a] = "none"
                     /\ claims' = [claims EXCEPT ![a] = c]
                     /\ UNCHANGED effects
       Same == UNCHANGED <<claims, effects>>
<1>1. ASSUME NEW a \in Action, Progress(a)
      PROVE  Same \/ \E c \in Channel : Owns(a, c)
  <2>1. ASSUME NEW c \in Channel, StartChannel(a, c) PROVE Same \/ Owns(a, c)
    BY <2>1 DEF StartChannel, Fire
  <2>2. ASSUME Wake(a) PROVE Same \/ Owns(a, "C4")
    BY <2>2 DEF Wake, Fire
  <2>3. ASSUME NEW c \in Channel,
               ReplyFired(a, c) \/ ReplyErrored(a, c) \/ AbortChannel(a, c)
        PROVE  Same
    BY <2>3 DEF ReplyFired, ReplyErrored, AbortChannel
  <2>4. ASSUME RetryScript(a) \/ ScriptTimeout(a) PROVE Same
    BY <2>4 DEF RetryScript, ScriptTimeout
  <2>5. ASSUME \/ Resolve(a) \/ TryNext(a) \/ RaiseNoTarget(a) \/ Subscribe(a)
               \/ SelectChannels(a) \/ RaiseNoChannel(a)
               \/ Expect(a) \/ RaiseNoObserver(a)
               \/ EndRace(a) \/ Verify(a) \/ Finish(a) \/ EndCancelled(a)
        PROVE  Same
    BY <2>5 DEF Resolve, TryNext, RaiseNoTarget, Subscribe, SelectChannels,
                RaiseNoChannel, Expect, RaiseNoObserver, EndRace, Verify, Finish,
                EndCancelled, raceVars
  <2>. HIDE DEF Owns, Same
  <2>. QED BY <1>1, <2>1, <2>2, <2>3, <2>4, <2>5, ScriptChannel DEF Progress, ChannelStep
<1>2. ASSUME NEW a \in Action, Begin(a) \/ Dispatch(a) \/ CallerCancel(a) PROVE Same
  BY <1>2 DEF Begin, Dispatch, CallerCancel, raceVars
<1>3. ASSUME NEW a \in Action, NEW c \in Channel, OsRefuse(a, c) \/ OsDrop(a, c)
      PROVE  Same
  BY <1>3 DEF OsRefuse, OsDrop
<1>4. ASSUME NEW a \in Action, NEW c \in Channel, OsPerform(a, c)
      PROVE  /\ claims[a] = c
             /\ effects[a][c] < MaxEffects[c]
             /\ effects' = [effects EXCEPT ![a][c] = @ + 1]
             /\ UNCHANGED claims
  <2>1. claims[a] = c
    BY <1>4 DEF OsPerform, RaceInv, OnlyClaimerActs
  <2>2. effects[a][c] < Allowance(a, c)
    BY <1>4 DEF OsPerform, RaceInv, AllowanceInv
  <2>3. Allowance(a, c) <= MaxEffects[c] /\ Allowance(a, c) \in Nat /\ MaxEffects[c] \in Nat
    BY DEF Allowance, MaxEffects
  <2>4. effects[a][c] \in Nat
    BY DEF TypeOK
  <2>. QED BY <1>4, <2>1, <2>2, <2>3, <2>4 DEF OsPerform
<1>5. CASE UNCHANGED vars
  BY <1>5 DEF vars, raceVars
<1>. QED BY <1>1, <1>2, <1>3, <1>4, <1>5 DEF Next, OsStep

(* A token, once taken, stays with its channel. *)
THEOREM ClaimsFinalAlways == Spec => ClaimsFinal
<1>1. TypeOK /\ RaceInv /\ [Next]_vars
        => [\A a \in Action : claims[a] # "none" => claims'[a] = claims[a]]_vars
  <2>. SUFFICES ASSUME TypeOK, RaceInv, [Next]_vars, NEW a \in Action, claims[a] # "none"
                PROVE  claims'[a] = claims[a]
    OBVIOUS
  <2>. QED BY ClaimStep DEF TypeOK
<1>. QED BY <1>1, RaceInvariant, PTL DEF Spec, ClaimsFinal

(* The race is an implementation of SingleDelivery. *)
THEOREM RaceImplementsDelivery == Spec => ImplementsDelivery
<1>1. Init => Delivery!Init
  BY DEF Init, Delivery!Init
<1>2. TypeOK /\ RaceInv /\ [Next]_vars => [Delivery!Next]_(Delivery!vars)
  <2>. SUFFICES ASSUME TypeOK, RaceInv, [Next]_vars
                PROVE  [Delivery!Next]_(Delivery!vars)
    OBVIOUS
  <2>. QED BY ClaimStep
           DEF Delivery!Next, Delivery!Own, Delivery!Perform, Delivery!vars
<1>. QED
  BY <1>1, <1>2, RaceInvariant, PTL DEF Spec, ImplementsDelivery, Delivery!Spec
-----------------------------------------------------------------------------
(* How a call of execute ends: OutcomeInv, ScriptYields, QuietAfterReturn. *)
(*                                                                         *)
(* The argument is per action.  While the token is free, nobody but the    *)
(* staggered script has done anything, and nobody has won; once it is      *)
(* taken, whatever is in flight, has fired or has failed is its holder.    *)
(* A scope is cancelled only by a winner or with the caller, so that the   *)
(* holder is never aborted in a race that goes on to verify: it settles.   *)

(* The calls that go on to verify, and those past their channels. *)
Past == {"verifying", "closing", "returned"}
Deciding == {"racing"} \cup Past

Free(a) ==
  claims[a] = "none" =>
    /\ \A c \in Channel \ {"C4"} : chan[a][c] \in {"absent", "queued"}
    /\ pc[a] \in Deciding => chan[a]["C4"] \in {"absent", "queued", "sleeping"}

Holder(a) ==
  /\ claims[a] # "none" => chan[a][claims[a]] # "absent"
  /\ \A c \in Channel : chan[a][c] \in {"inflight", "fired", "errored"} => claims[a] = c
  /\ \A c \in Channel : chan[a][c] = "fired" => winner[a] # "none"
  /\ cancelEvent[a] => winner[a] # "none"

Settling(a) ==
  /\ pc[a] \in Deciding =>
       /\ \E c \in Channel : chan[a][c] # "absent"
       /\ \A c \in Channel \ {"C4"} : os[a][c] = "submitted" => chan[a][c] = "inflight"
  /\ pc[a] \in Past => \A c \in Channel : chan[a][c] \in Settled \cup {"absent"}

Yields(a) ==
  FifoStart /\ claims[a] = "C4" => \A c \in Channel \ {"C4"} : chan[a][c] = "absent"

Told(a) ==
  /\ pc[a] \in {"closing", "returned"} => waiter[a] # "pending"
  /\ pc[a] = "returned" => log[a] = RaceLog(a) /\ result[a].channel = winner[a]

Decided(a) == Free(a) /\ Holder(a) /\ Settling(a) /\ Yields(a)

(* What the earlier invariants say of one action. *)
Known(a) ==
  /\ pc[a] \in PcState
  /\ waiter[a] \in WaiterState
  /\ chan[a] \in [Channel -> ChanState]
  /\ claims[a] \in Channel \cup {"none"}
  /\ winner[a] \in Channel \cup {"none"}
  /\ os[a] \in [Channel -> OsState]
  /\ \A c \in Channel : os[a][c] # "idle" => claims[a] = c
  /\ winner[a] # "none" => claims[a] = winner[a] /\ chan[a][winner[a]] = "fired"
  /\ pc[a] \in BeforeRace => \A c \in Channel : chan[a][c] = "absent"

DecidedInv == \A a \in Action : Decided(a)
ToldInv == \A a \in Action : Told(a)

LEMMA KnownAlways ==
  ASSUME TypeOK, RaceInv, NEW a \in Action
  PROVE  Known(a)
BY DEF TypeOK, RaceInv, OnlyClaimerActs, WinnerActed, CandidateInv, Candidates, Known

LEMMA DecidedInit == Init => DecidedInv /\ ToldInv
BY ScriptChannel
   DEF Init, DecidedInv, ToldInv, Decided, Free, Holder, Settling, Yields, Told, Deciding, Past

-----------------------------------------------------------------------------
(* Steps of one action. *)

(* A step that leaves an action's race alone, and does not take the action
   into a call that verifies before its channels have settled. *)
LEMMA RaceUntouched ==
  ASSUME NEW a \in Action, Decided(a),
         chan'[a] = chan[a], claims'[a] = claims[a], winner'[a] = winner[a],
         cancelEvent'[a] = cancelEvent[a],
         \A c \in Channel : os'[a][c] = "submitted" => os[a][c] = "submitted",
         pc'[a] \in Deciding => pc[a] \in Deciding,
         pc'[a] \in Past => pc[a] \in Past \/ AllSettled(a)
  PROVE  Decided(a)'
<1>1. Free(a)' /\ Holder(a)' /\ Yields(a)'
  BY DEF Decided, Free, Holder, Yields
<1>2. Settling(a)'
  BY DEF Decided, Settling, AllSettled, Candidates
<1>. QED BY <1>1, <1>2 DEF Decided

(* The candidates are chosen. *)
LEMMA Selected ==
  ASSUME TypeOK, RaceInv, DecidedInv, NEW a \in Action, SelectChannels(a)
  PROVE  Decided(a)'
<1>. DEFINE chosen == Select(plan[a].priority, plan[a].effective, plan[a].registered)
<1>1. /\ chan'[a] = [c \in Channel |-> IF c \in chosen THEN "queued" ELSE "absent"]
      /\ chosen # {}
      /\ pc'[a] = "racing"
      /\ UNCHANGED <<claims, cancelEvent, winner, os>>
  BY DEF SelectChannels, TypeOK
<1>2. chosen \subseteq Channel
  <2>1. plan[a].registered \subseteq Channel
    BY DEF TypeOK
  <2>. QED BY <2>1 DEF Select, Available
<1>3. claims[a] = "none" /\ winner[a] = "none" /\ ~cancelEvent[a]
      /\ \A c \in Channel : os[a][c] = "idle"
  <2>1. Known(a) /\ Holder(a) /\ pc[a] \in BeforeRace
    BY KnownAlways DEF DecidedInv, Decided, SelectChannels, BeforeRace
  <2>2. claims[a] = "none"
    BY <2>1 DEF Known, Holder
  <2>3. winner[a] = "none"
    BY <2>1, <2>2 DEF Known
  <2>4. \A c \in Channel : os[a][c] = "idle"
    BY <2>1, <2>2 DEF Known, Channel
  <2>. QED BY <2>1, <2>2, <2>3, <2>4 DEF Holder
<1>. HIDE DEF chosen
<1>. QED
  BY <1>1, <1>2, <1>3, ScriptChannel
     DEF Decided, Free, Holder, Settling, Yields, Deciding, Past

(* The start of fire(), which C4 reaches only when nobody is left queued. *)
LEMMA Fired ==
  ASSUME TypeOK, RaceInv, DecidedInv, NEW a \in Action, NEW c \in Channel,
         chan[a][c] \in {"queued", "sleeping"}, Fire(a, c),
         pc[a] \in {"racing", "cancelling"},
         c = "C4" /\ FifoStart => \A d \in Channel : chan[a][d] # "queued",
         UNCHANGED <<pc, cancelEvent, winner>>
  PROVE  Decided(a)'
<1>1. Known(a) /\ Free(a) /\ Holder(a) /\ Settling(a) /\ Yields(a)
  BY KnownAlways DEF DecidedInv, Decided
<1>2. /\ chan \in [Action -> [Channel -> ChanState]]
      /\ claims \in [Action -> Channel \cup {"none"}]
      /\ os \in [Action -> [Channel -> OsState]]
  BY DEF TypeOK
<1>3. c # "none" /\ winner[a] # c
  BY <1>1 DEF Known, Channel
<1>4. CASE claims[a] # "none" /\ SetChan(a, c, "skipped") /\ UNCHANGED <<claims, os>>
  <2>1. /\ chan'[a][c] = "skipped"
        /\ \A d \in Channel \ {c} : chan'[a][d] = chan[a][d]
        /\ UNCHANGED <<claims, os>>
    BY <1>2, <1>4 DEF SetChan
  <2>2. Free(a)'
    BY <1>4, <2>1 DEF Free
  <2>3. Holder(a)'
    BY <1>1, <1>4, <2>1 DEF Holder, Known
  <2>4. Settling(a)'
    BY <1>1, <2>1 DEF Settling, Deciding, Past, Settled
  <2>5. Yields(a)'
    BY <1>1, <2>1 DEF Yields
  <2>. QED BY <2>2, <2>3, <2>4, <2>5 DEF Decided
<1>5. CASE claims[a] = "none" /\ claims' = [claims EXCEPT ![a] = c]
  <2>1. winner[a] = "none" /\ ~cancelEvent[a]
    BY <1>1, <1>5 DEF Known, Holder
  <2>2. claims'[a] = c
    BY <1>2, <1>5
  <2>3. \A d \in Channel : chan[a][d] \notin {"inflight", "fired", "errored"}
    BY <1>1, <1>5 DEF Holder, Channel
  <2>4. \A d \in Channel : os[a][d] # "submitted"
    BY <1>1, <1>5 DEF Known, Channel
  <2>5. PICK s \in {"errored", "inflight"} :
          /\ SetChan(a, c, s)
          /\ s = "errored" => UNCHANGED os
          /\ s = "inflight" => os' = [os EXCEPT ![a][c] = "submitted"]
    BY <1>5, <2>1 DEF Fire
  <2>6. /\ chan'[a][c] = s
        /\ \A d \in Channel \ {c} : chan'[a][d] = chan[a][d]
    BY <1>2, <2>5 DEF SetChan
  <2>7. \A d \in Channel : os'[a][d] = "submitted" => d = c /\ s = "inflight"
    BY <1>2, <2>4, <2>5
  <2>8. Free(a)'
    BY <1>3, <2>2 DEF Free
  <2>9. Holder(a)'
    BY <2>1, <2>2, <2>3, <2>6 DEF Holder
  <2>10. Settling(a)'
    BY <1>1, <2>6, <2>7 DEF Settling, Deciding, Past
  <2>11. Yields(a)'
    BY <1>1, <1>5, <2>2, <2>6 DEF Yields, Free
  <2>. QED BY <2>8, <2>9, <2>10, <2>11 DEF Decided
<1>. QED BY <1>4, <1>5 DEF Fire

(* A channel falls asleep, wakes up to a cancelled race, is aborted, or ends. *)
LEMMA Moved ==
  ASSUME TypeOK, RaceInv, DecidedInv, NEW a \in Action, NEW c \in Channel,
         NEW s \in {"sleeping", "cancelled", "aborted", "errored"},
         SetChan(a, c, s), pc[a] \in {"racing", "cancelling"},
         chan[a][c] \in {"queued", "sleeping", "inflight"},
         s \in {"sleeping", "cancelled"} => c = "C4" /\ chan[a][c] \in {"queued", "sleeping"},
         s = "cancelled" => cancelEvent[a],
         s = "aborted" => chan[a][c] \in {"sleeping", "inflight"} /\ ScopeCancelled(a),
         s = "errored" =>
           chan[a][c] = "inflight" /\ (c = "C4" \/ os[a][c] # "submitted"),
         UNCHANGED <<pc, claims, os, cancelEvent, winner>>
  PROVE  Decided(a)'
<1>1. Known(a) /\ Free(a) /\ Holder(a) /\ Settling(a) /\ Yields(a)
  BY KnownAlways DEF DecidedInv, Decided
<1>2. /\ chan'[a][c] = s
      /\ \A d \in Channel \ {c} : chan'[a][d] = chan[a][d]
  BY DEF TypeOK, SetChan
<1>3. pc[a] = "racing" /\ s = "aborted" => winner[a] # "none"
  BY DEF ScopeCancelled
<1>4. winner[a] # "none" => claims[a] = winner[a] /\ claims[a] # c /\ claims[a] # "none"
  BY <1>1 DEF Known
<1>5. Free(a)'
  <2>1. SUFFICES ASSUME claims[a] = "none" PROVE Free(a)'
    BY DEF Free
  <2>2. winner[a] = "none" /\ ~cancelEvent[a] /\ chan[a][c] # "inflight"
    BY <1>1, <1>4, <2>1 DEF Holder, Channel
  <2>3. s \in {"sleeping", "aborted"} /\ c = "C4"
    BY <1>1, <2>1, <2>2 DEF Free
  <2>4. pc[a] = "racing" => s = "sleeping"
    BY <1>3, <2>2, <2>3
  <2>. QED BY <1>1, <1>2, <2>1, <2>3, <2>4 DEF Free, Deciding, Past
<1>6. Holder(a)'
  <2>1. claims[a] # "none" => chan'[a][claims[a]] # "absent"
    BY <1>1, <1>2 DEF Holder, Known
  <2>2. ASSUME NEW d \in Channel, chan'[a][d] \in {"inflight", "fired", "errored"}
        PROVE  claims[a] = d
    BY <1>1, <1>2, <2>2 DEF Holder
  <2>3. ASSUME NEW d \in Channel, chan'[a][d] = "fired" PROVE winner[a] # "none"
    BY <1>1, <1>2, <2>3 DEF Holder
  <2>4. cancelEvent[a] => winner[a] # "none"
    BY <1>1 DEF Holder
  <2>. QED BY <2>1, <2>2, <2>3, <2>4 DEF Holder
<1>7. Settling(a)'
  <2>1. ASSUME pc[a] = "racing", c # "C4" PROVE os[a][c] # "submitted"
    <3>1. CASE s = "errored"
      BY <2>1, <3>1
    <3>2. CASE s = "aborted"
      BY <1>1, <1>3, <1>4, <2>1, <3>2 DEF Known
    <3>. QED BY <2>1, <3>1, <3>2
  <2>. QED BY <1>1, <1>2, <2>1 DEF Settling, Deciding, Past
<1>8. Yields(a)'
  BY <1>1, <1>2 DEF Yields
<1>. QED BY <1>5, <1>6, <1>7, <1>8 DEF Decided

(* fire() returns "fired". *)
LEMMA Won ==
  ASSUME TypeOK, RaceInv, DecidedInv, NEW a \in Action, NEW c \in Channel,
         ReplyFired(a, c)
  PROVE  Decided(a)'
<1>1. Known(a) /\ Free(a) /\ Holder(a) /\ Settling(a) /\ Yields(a)
  BY KnownAlways DEF DecidedInv, Decided
<1>2. /\ chan[a][c] = "inflight" /\ os[a][c] = "done"
      /\ chan'[a][c] = "fired"
      /\ \A d \in Channel \ {c} : chan'[a][d] = chan[a][d]
      /\ winner'[a] # "none"
      /\ pc[a] \in {"racing", "cancelling"}
      /\ UNCHANGED <<pc, claims, os>>
  BY DEF ReplyFired, TypeOK, SetChan, ChannelsRun, Channel
<1>3. claims[a] = c /\ c # "none"
  BY <1>1, <1>2 DEF Holder, Channel
<1>4. Free(a)'
  BY <1>2, <1>3 DEF Free
<1>5. Holder(a)'
  BY <1>1, <1>2, <1>3 DEF Holder
<1>6. Settling(a)'
  BY <1>1, <1>2 DEF Settling, Deciding, Past
<1>7. Yields(a)'
  BY <1>1, <1>2 DEF Yields
<1>. QED BY <1>4, <1>5, <1>6, <1>7 DEF Decided

-----------------------------------------------------------------------------
LEMMA DecidedNext == TypeOK /\ RaceInv /\ DecidedInv /\ [Next]_vars => DecidedInv'
<1>. SUFFICES ASSUME TypeOK, RaceInv, DecidedInv, [Next]_vars, NEW b \in Action
              PROVE  Decided(b)'
  BY DEF DecidedInv
<1>t. /\ pc \in [Action -> PcState]
      /\ chan \in [Action -> [Channel -> ChanState]]
      /\ claims \in [Action -> Channel \cup {"none"}]
      /\ winner \in [Action -> Channel \cup {"none"}]
      /\ cancelEvent \in [Action -> BOOLEAN]
      /\ os \in [Action -> [Channel -> OsState]]
  BY DEF TypeOK
<1>b. Decided(b)
  BY DEF DecidedInv
<1>1. ASSUME NEW a \in Action,
             \/ Begin(a) \/ Resolve(a) \/ TryNext(a) \/ RaiseNoTarget(a) \/ Subscribe(a)
             \/ RaiseNoChannel(a) \/ EndRace(a) \/ EndCancelled(a)
             \/ Expect(a) \/ RaiseNoObserver(a)
             \/ Dispatch(a) \/ Verify(a) \/ Finish(a) \/ CallerCancel(a)
      PROVE Decided(b)'
  <2>1. UNCHANGED raceVars
    BY <1>1 DEF Begin, Resolve, TryNext, RaiseNoTarget, Subscribe, RaiseNoChannel, EndRace,
                EndCancelled, Expect, RaiseNoObserver, Dispatch, Verify, Finish,
                CallerCancel
  <2>2. pc'[b] \in Deciding => pc[b] \in Deciding
    BY <1>1, <1>t DEF Begin, Resolve, TryNext, RaiseNoTarget, Subscribe, RaiseNoChannel,
                EndRace, EndCancelled, Expect, RaiseNoObserver, Dispatch, Verify, Finish,
                CallerCancel, Deciding, Past
  <2>3. pc'[b] \in Past => pc[b] \in Past \/ AllSettled(b)
    BY <1>1, <1>t DEF Begin, Resolve, TryNext, RaiseNoTarget, Subscribe, RaiseNoChannel,
                EndRace, EndCancelled, Expect, RaiseNoObserver, Dispatch, Verify, Finish,
                CallerCancel, Past
  <2>. QED BY <1>b, <2>1, <2>2, <2>3, RaceUntouched DEF raceVars
<1>2. ASSUME NEW a \in Action, NEW c \in Channel,
             OsPerform(a, c) \/ OsRefuse(a, c) \/ OsDrop(a, c)
      PROVE  Decided(b)'
  <2>1. \A d \in Channel : os'[b][d] = "submitted" => os[b][d] = "submitted"
    <3>1. \E s \in {"done", "refused", "dropped"} : os' = [os EXCEPT ![a][c] = s]
      BY <1>2 DEF OsPerform, OsRefuse, OsDrop
    <3>. QED BY <1>t, <3>1
  <2>2. UNCHANGED <<pc, chan, claims, cancelEvent, winner>>
    BY <1>2 DEF OsPerform, OsRefuse, OsDrop
  <2>. QED BY <1>b, <2>1, <2>2, RaceUntouched DEF Deciding
<1>3. ASSUME NEW a \in Action, RetryScript(a) PROVE Decided(b)'
  <2>1. /\ \A d \in Channel \ {"C4"} : os'[b][d] = os[b][d]
        /\ UNCHANGED <<pc, chan, claims, cancelEvent, winner>>
    BY <1>3, <1>t DEF RetryScript
  <2>. QED BY <1>b, <2>1 DEF Decided, Free, Holder, Settling, Yields
<1>4. ASSUME NEW a \in Action, a # b,
             \/ SelectChannels(a) \/ Wake(a) \/ ScriptTimeout(a)
             \/ \E c \in Channel : ChannelStep(a, c)
      PROVE  Decided(b)'
  <2>. DEFINE Same ==
         /\ chan'[b] = chan[b] /\ claims'[b] = claims[b] /\ winner'[b] = winner[b]
         /\ cancelEvent'[b] = cancelEvent[b] /\ os'[b] = os[b] /\ pc'[b] = pc[b]
  <2>1. ASSUME SelectChannels(a) PROVE Same
    BY <1>4, <1>t, <2>1 DEF SelectChannels
  <2>2. ASSUME Wake(a) PROVE Same
    BY <1>4, <1>t, <2>2, ScriptChannel DEF Wake, Fire, SetChan
  <2>3. ASSUME ScriptTimeout(a) PROVE Same
    BY <1>4, <1>t, <2>3 DEF ScriptTimeout, SetChan
  <2>4. ASSUME NEW c \in Channel, StartChannel(a, c) PROVE Same
    BY <1>4, <1>t, <2>4 DEF StartChannel, Fire, SetChan
  <2>5. ASSUME NEW c \in Channel, ReplyFired(a, c) \/ ReplyErrored(a, c) \/ AbortChannel(a, c)
        PROVE  Same
    BY <1>4, <1>t, <2>5 DEF ReplyFired, ReplyErrored, AbortChannel, SetChan
  <2>6. Same
    BY <1>4, <2>1, <2>2, <2>3, <2>4, <2>5 DEF ChannelStep
  <2>. QED BY <1>b, <2>6, RaceUntouched
<1>5. CASE SelectChannels(b)
  BY <1>5, Selected
<1>6. CASE Wake(b)
  <2>1. /\ chan[b]["C4"] = "sleeping" /\ pc[b] \in {"racing", "cancelling"}
        /\ FifoStart => \A d \in Channel : chan[b][d] # "queued"
        /\ UNCHANGED <<pc, cancelEvent, winner>>
    BY <1>6 DEF Wake, ChannelsRun
  <2>2. CASE cancelEvent[b] /\ SetChan(b, "C4", "cancelled") /\ UNCHANGED <<claims, os>>
    BY <2>1, <2>2, Moved, ScriptChannel
  <2>3. CASE Fire(b, "C4")
    BY <2>1, <2>3, Fired, ScriptChannel
  <2>. QED BY <1>6, <2>2, <2>3 DEF Wake
<1>7. ASSUME NEW c \in Channel, StartChannel(b, c) PROVE Decided(b)'
  <2>1. /\ chan[b][c] = "queued" /\ pc[b] \in {"racing", "cancelling"}
        /\ UNCHANGED <<pc, cancelEvent, winner>>
    BY <1>7 DEF StartChannel, ChannelsRun
  <2>2. CASE c = "C4" /\ SetChan(b, c, "sleeping") /\ UNCHANGED <<claims, os>>
    BY <2>1, <2>2, Moved
  <2>3. CASE c # "C4" /\ Fire(b, c)
    BY <2>1, <2>3, Fired
  <2>. QED BY <1>7, <2>2, <2>3 DEF StartChannel
<1>8. ASSUME NEW c \in Channel, ReplyFired(b, c) PROVE Decided(b)'
  BY <1>8, Won
<1>9. ASSUME NEW c \in Channel,
             ReplyErrored(b, c) \/ (c = "C4" /\ ScriptTimeout(b))
      PROVE  Decided(b)'
  <2>1. /\ chan[b][c] = "inflight" /\ pc[b] \in {"racing", "cancelling"}
        /\ SetChan(b, c, "errored")
        /\ c = "C4" \/ os[b][c] # "submitted"
        /\ UNCHANGED <<pc, claims, os, cancelEvent, winner>>
    BY <1>9 DEF ReplyErrored, ScriptTimeout, ChannelsRun
  <2>. QED BY <2>1, Moved
<1>10. ASSUME NEW c \in Channel, AbortChannel(b, c) PROVE Decided(b)'
  <2>1. /\ chan[b][c] \in {"sleeping", "inflight"} /\ pc[b] \in {"racing", "cancelling"}
        /\ SetChan(b, c, "aborted") /\ ScopeCancelled(b)
        /\ UNCHANGED <<pc, claims, os, cancelEvent, winner>>
    BY <1>10 DEF AbortChannel, ChannelsRun
  <2>. QED BY <2>1, Moved
<1>11. CASE UNCHANGED vars
  <2>1. UNCHANGED <<pc, chan, claims, winner, cancelEvent, os>>
    BY <1>11 DEF vars, raceVars
  <2>. QED BY <1>b, <2>1, RaceUntouched
<1>. QED
  BY <1>1, <1>2, <1>3, <1>4, <1>5, <1>6, <1>7, <1>8, <1>9, <1>10, <1>11, ScriptChannel
     DEF Next, Progress, ChannelStep, OsStep

-----------------------------------------------------------------------------
(* What is told: the waiter and the telemetry. *)

(* A step that reports nothing of an action and keeps what was reported. *)
LEMMA ToldKept ==
  ASSUME NEW a \in Action, Told(a),
         pc'[a] = "returned" =>
           /\ pc[a] = "returned"
           /\ chan'[a] = chan[a] /\ winner'[a] = winner[a]
           /\ log'[a] = log[a] /\ result'[a] = result[a],
         pc'[a] \in {"closing", "returned"} => waiter'[a] # "pending"
  PROVE  Told(a)'
BY DEF Told, RaceLog, LoggedChannel, OutcomeChannel, OutcomeStatus, Candidates

LEMMA ToldNext == TypeOK /\ ToldInv /\ [Next]_vars => ToldInv'
<1>. SUFFICES ASSUME TypeOK, ToldInv, [Next]_vars, NEW b \in Action
              PROVE  Told(b)'
  BY DEF ToldInv
<1>t. /\ pc \in [Action -> PcState]
      /\ waiter \in [Action -> WaiterState]
      /\ chan \in [Action -> [Channel -> ChanState]]
      /\ winner \in [Action -> Channel \cup {"none"}]
      /\ DOMAIN log = Action /\ DOMAIN result = Action
      /\ log = [a \in Action |-> log[a]] /\ result = [a \in Action |-> result[a]]
  BY DEF TypeOK
<1>b. Told(b)
  BY DEF ToldInv
<1>1. ASSUME NEW a \in Action,
             \/ Begin(a) \/ Resolve(a) \/ TryNext(a) \/ RaiseNoTarget(a)
             \/ RaiseNoChannel(a) \/ EndRace(a) \/ EndCancelled(a)
             \/ RaiseNoObserver(a) \/ CallerCancel(a)
      PROVE Told(b)'
  <2>1. UNCHANGED <<waiter, chan, winner, log, result>>
    BY <1>1 DEF Begin, Resolve, TryNext, RaiseNoTarget, RaiseNoChannel, EndRace,
                EndCancelled, RaiseNoObserver, CallerCancel, raceVars, endVars
  <2>2. \A p \in {"closing", "returned"} : pc'[b] = p => pc[b] = p
    BY <1>1, <1>t DEF Begin, Resolve, TryNext, RaiseNoTarget, RaiseNoChannel, EndRace,
                EndCancelled, RaiseNoObserver, CallerCancel
  <2>. QED BY <1>b, <2>1, <2>2, ToldKept DEF Told
<1>2. ASSUME NEW a \in Action, Subscribe(a) \/ Expect(a) \/ Dispatch(a) PROVE Told(b)'
  <2>1. UNCHANGED <<chan, winner, log, result>>
    BY <1>2 DEF Subscribe, Expect, Dispatch, raceVars, endVars
  <2>2. \A p \in {"closing", "returned"} : pc'[b] = p => pc[b] = p
    BY <1>2, <1>t DEF Subscribe, Expect, Dispatch
  <2>3. pc'[b] \in {"closing", "returned"} => waiter'[b] # "pending"
    BY <1>2, <1>b, <1>t, <2>2 DEF Subscribe, Expect, Dispatch, Told
  <2>. QED BY <1>b, <2>1, <2>2, <2>3, ToldKept
<1>3. ASSUME NEW a \in Action, Verify(a) PROVE Told(b)'
  <2>1. UNCHANGED <<chan, winner, log, result>>
    BY <1>3 DEF Verify, raceVars, endVars
  <2>2. pc'[b] = "returned" => pc[b] = "returned"
    BY <1>3, <1>t DEF Verify
  <2>3. pc'[b] \in {"closing", "returned"} => waiter'[b] # "pending"
    BY <1>3, <1>b, <1>t DEF Verify, Told
  <2>. QED BY <1>b, <2>1, <2>2, <2>3, ToldKept
<1>4. ASSUME NEW a \in Action, Finish(a) PROVE Told(b)'
  <2>1. UNCHANGED <<waiter, chan, winner>>
    BY <1>4 DEF Finish, raceVars
  <2>2. pc[a] = "closing" /\ pc'[a] = "returned"
    BY <1>4, <1>t DEF Finish
  <2>3. CASE a = b
    <3>1. log'[b] = RaceLog(b) /\ result'[b].channel = winner[b]
      BY <1>4, <1>t, <2>3 DEF Finish
    <3>2. RaceLog(b)' = RaceLog(b)
      BY <2>1 DEF RaceLog, LoggedChannel, OutcomeChannel, OutcomeStatus, Candidates
    <3>3. waiter'[b] # "pending"
      BY <1>b, <2>1, <2>2, <2>3 DEF Told
    <3>. QED BY <2>1, <3>1, <3>2, <3>3 DEF Told
  <2>4. CASE a # b
    <3>1. pc'[b] = pc[b] /\ log'[b] = log[b] /\ result'[b] = result[b]
      BY <1>4, <1>t, <2>4 DEF Finish
    <3>. QED BY <1>b, <2>1, <3>1, ToldKept DEF Told
  <2>. QED BY <2>3, <2>4
<1>5. ASSUME NEW a \in Action, NEW c \in Channel,
             OsPerform(a, c) \/ OsRefuse(a, c) \/ OsDrop(a, c) \/ RetryScript(a)
      PROVE  Told(b)'
  <2>1. UNCHANGED <<pc, waiter, chan, winner, log, result>>
    BY <1>5 DEF OsPerform, OsRefuse, OsDrop, RetryScript, endVars
  <2>. QED BY <1>b, <2>1, ToldKept DEF Told
<1>6. ASSUME NEW a \in Action,
             \/ SelectChannels(a) \/ Wake(a) \/ ScriptTimeout(a)
             \/ \E c \in Channel : ChannelStep(a, c)
      PROVE  Told(b)'
  <2>. DEFINE Running ==
         /\ UNCHANGED <<waiter, log, result>>
         /\ pc[a] \in {"selecting", "racing", "cancelling"}
         /\ pc' = pc \/ pc' = [pc EXCEPT ![a] = "racing"]
         /\ a # b => chan'[b] = chan[b] /\ winner'[b] = winner[b]
  <2>1. ASSUME SelectChannels(a) PROVE Running
    BY <1>t, <2>1 DEF SelectChannels, endVars
  <2>2. ASSUME Wake(a) PROVE Running
    BY <1>t, <2>2, ScriptChannel DEF Wake, Fire, SetChan, ChannelsRun, endVars
  <2>3. ASSUME ScriptTimeout(a) PROVE Running
    BY <1>t, <2>3 DEF ScriptTimeout, SetChan, ChannelsRun, endVars
  <2>4. ASSUME NEW c \in Channel, StartChannel(a, c) PROVE Running
    BY <1>t, <2>4 DEF StartChannel, Fire, SetChan, ChannelsRun, endVars
  <2>5. ASSUME NEW c \in Channel, ReplyFired(a, c) \/ ReplyErrored(a, c) \/ AbortChannel(a, c)
        PROVE  Running
    BY <1>t, <2>5 DEF ReplyFired, ReplyErrored, AbortChannel, SetChan, ChannelsRun, endVars
  <2>6. Running
    BY <1>6, <2>1, <2>2, <2>3, <2>4, <2>5 DEF ChannelStep
  <2>7. a = b => pc'[b] \in {"selecting", "racing", "cancelling"}
    BY <1>t, <2>6
  <2>8. a # b => pc'[b] = pc[b]
    BY <1>t, <2>6
  <2>. QED BY <1>b, <2>6, <2>7, <2>8, ToldKept DEF Told
<1>7. CASE UNCHANGED vars
  <2>1. UNCHANGED <<pc, waiter, chan, winner, log, result>>
    BY <1>7 DEF vars, raceVars, endVars
  <2>. QED BY <1>b, <2>1, ToldKept DEF Told
<1>. QED
  BY <1>1, <1>2, <1>3, <1>4, <1>5, <1>6, <1>7, ScriptChannel
     DEF Next, Progress, ChannelStep, OsStep

-----------------------------------------------------------------------------
(* The invariants that hold together. *)
THEOREM OutcomeReasons == Spec => [](TypeOK /\ RaceInv /\ DecidedInv /\ ToldInv)
BY TypeInit, TypeNext, RaceInvInit, RaceInvNext, DecidedInit, DecidedNext, ToldNext, PTL
   DEF Spec

(* The token decides every call that verifies: its holder is a candidate, the
   others stood back, and there is a winner exactly when the holder fired. *)
LEMMA TokenDecides ==
  ASSUME TypeOK, RaceInv, DecidedInv
  PROVE  TokenDecidesRace
<1>. SUFFICES ASSUME NEW a \in Action, pc[a] \in Past
              PROVE  /\ claims[a] \in Candidates(a)
                     /\ \A c \in Candidates(a) \ {claims[a]} :
                          chan[a][c] \in {"skipped", "cancelled", "aborted"}
                     /\ (winner[a] = claims[a]) <=> (chan[a][claims[a]] = "fired")
  BY DEF TokenDecidesRace, Past
<1>1. Known(a) /\ Free(a) /\ Holder(a) /\ Settling(a)
  BY KnownAlways DEF DecidedInv, Decided
<1>2. \A c \in Channel : chan[a][c] \in Settled \cup {"absent"}
  BY <1>1 DEF Settling
<1>3. claims[a] # "none"
  <2>1. SUFFICES ASSUME claims[a] = "none" PROVE FALSE
    OBVIOUS
  <2>2. \A c \in Channel : chan[a][c] = "absent"
    BY <1>1, <1>2, <2>1 DEF Free, Deciding, Settled
  <2>. QED BY <1>1, <2>2 DEF Settling, Deciding
<1>4. claims[a] \in Candidates(a)
  BY <1>1, <1>3 DEF Known, Holder, Candidates
<1>5. ASSUME NEW c \in Candidates(a) \ {claims[a]}
      PROVE  chan[a][c] \in {"skipped", "cancelled", "aborted"}
  BY <1>1, <1>2 DEF Holder, Candidates, Settled
<1>6. (winner[a] = claims[a]) <=> (chan[a][claims[a]] = "fired")
  BY <1>1, <1>3 DEF Known, Holder
<1>. QED BY <1>4, <1>5, <1>6

(* The telemetry names every candidate once, and the winner as the winner. *)
LEMMA Logged ==
  ASSUME TypeOK, ToldInv
  PROVE  LogFaithful
<1>. SUFFICES ASSUME NEW a \in Action, pc[a] = "returned"
              PROVE  /\ {e.channel : e \in log[a]} = Candidates(a)
                     /\ \A e, f \in log[a] : e.channel = f.channel => e = f
                     /\ \A e \in log[a] :
                          (e.event = "race_winner") <=> (e.channel = result[a].channel)
  BY DEF LogFaithful
<1>. DEFINE Line(c) == [event |-> IF c = winner[a] THEN "race_winner" ELSE "race_loser",
                        channel |-> c, status |-> OutcomeStatus(a, c)]
<1>1. \A c \in Candidates(a) : LoggedChannel(a, c) = c
  BY DEF LoggedChannel, OutcomeChannel, OutcomeStatus
<1>2. log[a] = {Line(c) : c \in Candidates(a)} /\ result[a].channel = winner[a]
  BY <1>1 DEF ToldInv, Told, RaceLog
<1>3. \A c \in Candidates(a) :
        /\ Line(c).channel = c
        /\ (Line(c).event = "race_winner") <=> (c = winner[a])
  OBVIOUS
<1>. HIDE DEF Line
<1>. QED BY <1>2, <1>3

(* What execute leaves behind is the outcome of the race. *)
THEOREM OutcomeAlways == Spec => []OutcomeInv
<1>1. TypeOK /\ RaceInv /\ DecidedInv /\ ToldInv => OutcomeInv
  <2>1. ToldInv => ReturnReleasesWaiter
    BY DEF ToldInv, Told, ReturnReleasesWaiter
  <2>. QED BY <2>1, TokenDecides, Logged DEF OutcomeInv
<1>. QED BY <1>1, OutcomeReasons, PTL

(* The staggered script takes the token only when it is alone. *)
THEOREM ScriptYieldsAlways == Spec => []ScriptYields
<1>1. ASSUME TypeOK, RaceInv, DecidedInv PROVE ScriptYields
  <2>. SUFFICES ASSUME NEW a \in Action, FifoStart, claims[a] = "C4"
                PROVE  Candidates(a) = {"C4"}
    BY DEF ScriptYields
  <2>1. Yields(a) /\ Holder(a)
    BY <1>1 DEF DecidedInv, Decided
  <2>. QED BY <2>1, ScriptChannel DEF Yields, Holder, Candidates
<1>. QED BY <1>1, OutcomeReasons, PTL

(* Only a performed system call has an effect. *)
LEMMA EffectsMove ==
  ASSUME [Next]_vars
  PROVE  UNCHANGED effects \/ \E a \in Action, c \in Channel : OsPerform(a, c)
<1>1. ASSUME NEW a \in Action, Progress(a) PROVE UNCHANGED effects
  BY <1>1 DEF Progress, ChannelStep, Resolve, TryNext, RaiseNoTarget, Subscribe,
     SelectChannels, RaiseNoChannel, StartChannel, ReplyFired, ReplyErrored, AbortChannel,
     Wake, RetryScript, ScriptTimeout, EndRace, Expect, RaiseNoObserver, Verify, Finish,
     EndCancelled, raceVars
<1>2. ASSUME NEW a \in Action, Begin(a) \/ Dispatch(a) \/ CallerCancel(a)
      PROVE  UNCHANGED effects
  BY <1>2 DEF Begin, Dispatch, CallerCancel, raceVars
<1>3. ASSUME NEW a \in Action, NEW c \in Channel, OsRefuse(a, c) \/ OsDrop(a, c)
      PROVE  UNCHANGED effects
  BY <1>3 DEF OsRefuse, OsDrop
<1>4. CASE UNCHANGED vars
  BY <1>4 DEF vars, raceVars
<1>. QED BY <1>1, <1>2, <1>3, <1>4 DEF Next, OsStep

(* After execute returned nothing happens to the application any more. *)
THEOREM QuietAfterReturnAlways == Spec => QuietAfterReturn
<1>1. ASSUME TypeOK, RaceInv, DecidedInv, [Next]_vars,
             NEW a \in Action, pc[a] = "returned", claims[a] # "C4"
      PROVE  effects'[a] = effects[a]
  <2>1. Known(a) /\ Settling(a)
    BY <1>1, KnownAlways DEF DecidedInv, Decided
  <2>2. \A c \in Channel : os[a][c] # "submitted"
    BY <1>1, <2>1 DEF Known, Settling, Deciding, Past, Settled
  <2>3. ASSUME NEW b \in Action, NEW c \in Channel, OsPerform(b, c)
        PROVE  effects'[a] = effects[a]
    BY <1>1, <2>2, <2>3 DEF OsPerform, TypeOK
  <2>4. UNCHANGED effects \/ \E b \in Action, c \in Channel : OsPerform(b, c)
    BY <1>1, EffectsMove
  <2>. QED BY <2>3, <2>4
<1>2. TypeOK /\ RaceInv /\ DecidedInv /\ [Next]_vars
        => [\A a \in Action :
              pc[a] = "returned" /\ claims[a] # "C4" => effects'[a] = effects[a]]_vars
  BY <1>1
<1>. QED BY <1>2, OutcomeReasons, PTL DEF Spec, QuietAfterReturn
=============================================================================
