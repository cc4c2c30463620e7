--------------------------- MODULE RecoveryProofs ---------------------------
(***************************************************************************)
(* Proofs about CircuitBreaker, for any targets, window and bounds, and    *)
(* about Recovery, which implements it, for any number of attempts,        *)
(* targets, branches and cycles.                                           *)
(***************************************************************************)
EXTENDS Recovery, FiniteSetTheorems, TLAPS

(* The breaker by itself. *)

BreakState == [count : Nat, trippedAt : Nat \cup {NoTrip}, start : Nat]

LEMMA RecordedType ==
  ASSUME NEW st \in BreakState, NEW t \in Nat
  PROVE  Recorded(st, t) \in BreakState
BY DEF BreakState, Recorded

LEMMA CBTypeInit == CBInit => CBTypeOK
BY DEF CBInit, CBTypeOK, Fresh

LEMMA CBTypeNext == CBTypeOK /\ [CBNext]_cbVars => CBTypeOK'
<1>. SUFFICES ASSUME CBTypeOK, [CBNext]_cbVars PROVE CBTypeOK'
  OBVIOUS
<1>1. CASE Tick
  BY <1>1 DEF Tick, CBTypeOK
<1>2. ASSUME NEW k \in Key, RecordFailure(k) PROVE CBTypeOK'
  <2>1. Recorded(breaker[k], now) \in BreakState
    BY RecordedType DEF CBTypeOK, BreakState
  <2>. QED BY <1>2, <2>1 DEF RecordFailure, CBTypeOK, BreakState
<1>3. ASSUME NEW k \in Key, Reset(k) PROVE CBTypeOK'
  BY <1>3 DEF Reset, CBTypeOK, Fresh
<1>4. CASE UNCHANGED cbVars
  BY <1>4 DEF cbVars, CBTypeOK
<1>. QED BY <1>1, <1>2, <1>3, <1>4 DEF CBNext

-----------------------------------------------------------------------------
(* The window invariant, for one target at a time. *)

WindowOf(st, fs, t) ==
  LET n == Len(fs)
  IN  /\ \A i, j \in 1..n : i <= j => fs[i] <= fs[j]
      /\ \A i \in 1..n : fs[i] <= t
      /\ st.count <= n
      /\ n > 0 => st.count > 0
      /\ st.count > 0 => fs[n - st.count + 1] = st.start
      /\ st.trippedAt # NoTrip =>
           /\ st.count >= Threshold
           /\ st.trippedAt = fs[n]
           /\ st.trippedAt - st.start <= Window

LEMMA WindowInvIsWindowOf ==
  WindowInv <=> \A k \in Key : WindowOf(breaker[k], failures[k], now)
BY DEF WindowInv, WindowOf

(* Where the window starts in the failures recorded. *)
LEMMA WindowStart ==
  ASSUME NEW n \in Nat, NEW c \in Nat, c <= n, c > 0
  PROVE  /\ n - c + 1 \in 1..n
         /\ (n + 1) - (c + 1) + 1 = n - c + 1
         /\ c >= 3 => (n - c + 1) + 2 \in 1..n
         /\ n \in 1..n
OBVIOUS

(* Recording one more failure keeps it. *)
LEMMA WindowRecorded ==
  ASSUME NEW st \in BreakState, NEW fs \in Seq(Nat), NEW t \in Nat,
         WindowOf(st, fs, t)
  PROVE  WindowOf(Recorded(st, t), Append(fs, t), t)
<1>1. PICK n : n = Len(fs) /\ n \in Nat
  OBVIOUS
<1>2. PICK gs : /\ gs = Append(fs, t)
                /\ Len(gs) = n + 1
                /\ gs[n + 1] = t
                /\ \A i \in 1..n : gs[i] = fs[i] /\ fs[i] \in Nat
  <2>1. /\ Len(Append(fs, t)) = n + 1
        /\ Append(fs, t)[n + 1] = t
        /\ \A i \in 1..n : Append(fs, t)[i] = fs[i] /\ fs[i] \in Nat
    BY <1>1
  <2>. QED BY <2>1
<1>3. PICK new : new = Recorded(st, t)
  OBVIOUS
<1>4. /\ \A i, j \in 1..n : i <= j => fs[i] <= fs[j]
      /\ \A i \in 1..n : fs[i] <= t
      /\ st.count \in Nat /\ st.count <= n
      /\ n > 0 => st.count > 0
      /\ st.count > 0 => fs[n - st.count + 1] = st.start
      /\ st.trippedAt # NoTrip => st.count >= 3
      /\ st.start \in Nat
  BY <1>1 DEF WindowOf, BreakState, Threshold
<1>5. /\ \A i, j \in 1..(n + 1) : i <= j => gs[i] <= gs[j]
      /\ \A i \in 1..(n + 1) : gs[i] <= t
  BY <1>1, <1>2, <1>4
<1>6. /\ new.count \in Nat /\ new.count > 0 /\ new.count <= n + 1
      /\ gs[(n + 1) - new.count + 1] = new.start
      /\ new.trippedAt # NoTrip =>
           /\ new.count >= 3
           /\ new.trippedAt = t
           /\ t - new.start <= Window
  <2>1. CASE OpensWindow(st, t)
    <3>1. new.count = 1 /\ new.trippedAt = NoTrip /\ new.start = t
      BY <1>3, <2>1 DEF Recorded
    <3>2. (n + 1) - 1 + 1 = n + 1
      BY <1>1
    <3>. QED BY <1>1, <1>2, <3>1, <3>2
  <2>2. CASE ~OpensWindow(st, t)
    <3>1. /\ new.count = st.count + 1
          /\ new.start = st.start
          /\ new.trippedAt = IF st.count + 1 >= 3 THEN t ELSE st.trippedAt
      BY <1>3, <2>2 DEF Recorded, Trips, Threshold
    <3>2. st.count > 0 /\ t - st.start <= Window
      BY <1>4, <2>2, TimeAssumption DEF OpensWindow
    <3>3. /\ (n + 1) - (st.count + 1) + 1 = n - st.count + 1
          /\ n - st.count + 1 \in 1..n
      BY <1>1, <1>4, <3>2, WindowStart
    <3>4. gs[(n + 1) - new.count + 1] = new.start
      BY <1>2, <1>4, <3>1, <3>2, <3>3
    <3>5. new.count \in Nat /\ new.count > 0 /\ new.count <= n + 1
      BY <1>1, <1>4, <3>1
    <3>6. st.trippedAt # NoTrip => st.count + 1 >= 3
      BY <1>4
    <3>7. new.trippedAt # NoTrip => new.count >= 3 /\ new.trippedAt = t
      BY <3>1, <3>6
    <3>. QED BY <3>1, <3>2, <3>4, <3>5, <3>7
  <2>. QED BY <2>1, <2>2
<1>7. WindowOf(new, gs, t)
  BY <1>1, <1>2, <1>5, <1>6 DEF WindowOf, Threshold
<1>. QED BY <1>2, <1>3, <1>7

LEMMA WindowInvNext == CBTypeOK /\ WindowInv /\ [CBNext]_cbVars => WindowInv'
<1>. SUFFICES ASSUME CBTypeOK, WindowInv, [CBNext]_cbVars,
                     NEW k \in Key
              PROVE  WindowOf(breaker[k], failures[k], now)'
  BY DEF WindowInv, WindowOf
<1>1. WindowOf(breaker[k], failures[k], now)
  BY WindowInvIsWindowOf
<1>2. /\ breaker[k] \in BreakState
      /\ failures[k] \in Seq(Nat)
      /\ now \in Nat
  BY DEF CBTypeOK, BreakState
<1>3. CASE Tick
  <2>1. breaker'[k] = breaker[k] /\ failures'[k] = failures[k] /\ now' = now + 1
    BY <1>3 DEF Tick
  <2>2. \A i \in 1..Len(failures[k]) : failures[k][i] \in Nat
    BY <1>2
  <2>. QED BY <1>1, <1>2, <2>1, <2>2 DEF WindowOf
<1>4. ASSUME NEW j \in Key, RecordFailure(j)
      PROVE  WindowOf(breaker[k], failures[k], now)'
  <2>1. CASE j = k
    <3>1. /\ breaker'[k] = Recorded(breaker[k], now)
          /\ failures'[k] = Append(failures[k], now)
          /\ now' = now
      BY <1>4, <2>1 DEF RecordFailure, CBTypeOK
    <3>. QED BY <1>1, <1>2, <3>1, WindowRecorded
  <2>2. CASE j # k
    BY <1>1, <1>4, <2>2 DEF RecordFailure, CBTypeOK
  <2>. QED BY <2>1, <2>2
<1>5. ASSUME NEW j \in Key, Reset(j)
      PROVE  WindowOf(breaker[k], failures[k], now)'
  <2>1. CASE j = k
    <3>1. breaker'[k] = Fresh /\ failures'[k] = <<>>
      BY <1>5, <2>1 DEF Reset, CBTypeOK
    <3>. QED BY <3>1 DEF WindowOf, Fresh
  <2>2. CASE j # k
    BY <1>1, <1>5, <2>2 DEF Reset, CBTypeOK
  <2>. QED BY <2>1, <2>2
<1>6. CASE UNCHANGED cbVars
  BY <1>1, <1>6 DEF cbVars
<1>. QED BY <1>3, <1>4, <1>5, <1>6 DEF CBNext

LEMMA WindowInvInit == CBInit => WindowInv
<1>. SUFFICES ASSUME CBInit, NEW k \in Key
              PROVE  WindowOf(breaker[k], failures[k], now)
  BY WindowInvIsWindowOf
<1>1. breaker[k] = Fresh /\ failures[k] = <<>>
  BY DEF CBInit
<1>. QED BY <1>1 DEF WindowOf, Fresh

-----------------------------------------------------------------------------
(* Results. *)

THEOREM CBInvariant == CBSpec => [](CBTypeOK /\ WindowInv)
BY CBTypeInit, CBTypeNext, WindowInvInit, WindowInvNext, PTL DEF CBSpec

(* Every trip is backed by three failures within one window. *)
THEOREM TripJustifiedAlways == CBSpec => []TripJustified
<1>1. CBTypeOK /\ WindowInv => TripJustified
  <2>. SUFFICES ASSUME CBTypeOK, WindowInv, NEW k \in Key,
                       breaker[k].trippedAt # NoTrip
                PROVE  \E i \in DOMAIN failures[k] :
                         /\ i + 2 \in DOMAIN failures[k]
                         /\ failures[k][i + 2] <= breaker[k].trippedAt
                         /\ breaker[k].trippedAt - failures[k][i] <= Window
    BY DEF TripJustified
  <2>. DEFINE st == breaker[k]
              fs == failures[k]
              n == Len(fs)
              i == n - st.count + 1
  <2>1. st \in BreakState /\ fs \in Seq(Nat) /\ n \in Nat
    BY DEF CBTypeOK, BreakState
  <2>2. WindowOf(st, fs, now)
    BY WindowInvIsWindowOf
  <2>3. /\ st.count \in Nat /\ st.count >= 3 /\ st.count <= n
        /\ st.trippedAt = fs[n] /\ st.trippedAt - st.start <= Window
        /\ fs[i] = st.start
    BY <2>1, <2>2 DEF WindowOf, Threshold, BreakState, st
  <2>. HIDE DEF st, fs, n
  <2>4. i \in 1..n /\ i + 2 \in 1..n /\ n \in 1..n
    <3>1. PICK c \in Nat : c = st.count /\ c >= 3 /\ c <= n
      BY <2>3
    <3>2. c > 0
      BY <3>1
    <3>. QED BY <2>1, <3>1, <3>2, WindowStart
  <2>5. fs[i + 2] <= fs[n]
    BY <2>1, <2>2, <2>4 DEF WindowOf, n
  <2>6. DOMAIN fs = 1..n
    BY <2>1 DEF n
  <2>7. fs[i + 2] <= st.trippedAt /\ st.trippedAt - fs[i] <= Window
    BY <2>3, <2>5
  <2>. QED BY <2>4, <2>6, <2>7 DEF st, fs
<1>. QED BY <1>1, CBInvariant, PTL

(* A tripped breaker is not let go before its time within its window. *)
THEOREM HeldInWindowAlways == CBSpec => HeldInWindow
<1>1. ASSUME CBTypeOK, WindowInv, [CBNext]_cbVars, NEW k \in Key,
             Tripped(breaker[k], now), ~Tripped(breaker'[k], now')
      PROVE  \/ now' - breaker[k].trippedAt > Window
             \/ now - breaker[k].start > Window
             \/ breaker'[k] = Fresh
  <2>1. /\ breaker[k] \in BreakState /\ now \in Nat
        /\ breaker[k].trippedAt \in Nat
        /\ breaker[k].count >= Threshold
    BY <1>1 DEF CBTypeOK, BreakState, WindowInv, Tripped, NoTrip
  <2>2. CASE breaker'[k] = breaker[k]
    <3>1. now' - breaker[k].trippedAt > Window \/ ~(now' \in Nat)
      BY <1>1, <2>1, <2>2, TimeAssumption DEF Tripped
    <3>2. now' \in Nat
      BY <1>1, CBTypeNext DEF CBTypeOK
    <3>. QED BY <3>1, <3>2
  <2>3. CASE RecordFailure(k)
    <3>1. breaker'[k] = Recorded(breaker[k], now) /\ now' = now
      BY <1>1, <2>3 DEF RecordFailure, CBTypeOK
    <3>2. SUFFICES ASSUME now - breaker[k].start <= Window PROVE FALSE
      BY <2>1, TimeAssumption DEF BreakState
    <3>3. ~OpensWindow(breaker[k], now)
      BY <2>1, <3>2, TimeAssumption DEF OpensWindow, Threshold, BreakState
    <3>4. breaker'[k].trippedAt = now
      BY <2>1, <3>1, <3>3 DEF Recorded, Trips, Threshold, BreakState
    <3>. QED BY <1>1, <2>1, <3>1, <3>4, TimeAssumption DEF Tripped, NoTrip
  <2>4. CASE Reset(k)
    BY <1>1, <2>4 DEF Reset, CBTypeOK
  <2>5. \/ breaker'[k] = breaker[k] \/ RecordFailure(k) \/ Reset(k)
    BY <1>1 DEF CBNext, Tick, RecordFailure, Reset, cbVars, CBTypeOK
  <2>. QED BY <2>2, <2>3, <2>4, <2>5
<1>2. CBTypeOK /\ WindowInv /\ [CBNext]_cbVars
        => [\A k \in Key :
              Tripped(breaker[k], now) /\ ~Tripped(breaker'[k], now') =>
                \/ now' - breaker[k].trippedAt > Window
                \/ now - breaker[k].start > Window
                \/ breaker'[k] = Fresh]_cbVars
  BY <1>1
<1>. QED BY <1>2, CBInvariant, PTL DEF CBSpec, HeldInWindow

-----------------------------------------------------------------------------
(* Recovery over it. *)

KeyOK == key \in [Attempt -> Key]

LEMMA KeyInit == Init => KeyOK
BY DEF Init, KeyOK

LEMMA KeyNext == KeyOK /\ [Next]_recoveryVars => KeyOK'
BY DEF KeyOK, Next, recoveryVars, attemptVars, cbVars, Begin, Progress, BranchReply,
   BranchAbort, EndWon, EndLost, Cancel, EndCancelled, TimePasses

-----------------------------------------------------------------------------
(* Recovery implements the breaker. *)

(* Every step of recovery is a step of the breaker or leaves it alone. *)
LEMMA StepImplementsBreaker == KeyOK /\ [Next]_recoveryVars => [CBNext]_cbVars
<1>. SUFFICES ASSUME KeyOK, [Next]_recoveryVars PROVE [CBNext]_cbVars
  OBVIOUS
<1>1. ASSUME NEW a \in Attempt, Begin(a) \/ Cancel(a) PROVE [CBNext]_cbVars
  BY <1>1 DEF Begin, Cancel
<1>2. ASSUME NEW a \in Attempt, Progress(a) PROVE [CBNext]_cbVars
  <2>1. ASSUME NEW b \in Branch, BranchReply(a, b) \/ BranchAbort(a, b)
        PROVE  [CBNext]_cbVars
    BY <2>1 DEF BranchReply, BranchAbort
  <2>2. CASE EndWon(a) \/ EndCancelled(a)
    BY <2>2 DEF EndWon, EndCancelled
  <2>3. CASE EndLost(a)
    <3>1. RecordFailure(key[a]) /\ key[a] \in Key
      BY <2>3 DEF EndLost, KeyOK
    <3>. QED BY <3>1 DEF CBNext
  <2>. QED BY <1>2, <2>1, <2>2, <2>3 DEF Progress
<1>3. CASE TimePasses
  BY <1>3 DEF TimePasses, CBNext
<1>4. CASE UNCHANGED recoveryVars
  BY <1>4 DEF recoveryVars
<1>. QED BY <1>1, <1>2, <1>3, <1>4 DEF Next

(* Attempts that overlap, win, lose or are cancelled work on the breaker one
   operation at a time. *)
THEOREM RecoveryImplementsBreaker == Spec => ImplementsBreaker
<1>1. Init => CBInit
  BY DEF Init
<1>. QED BY <1>1, KeyInit, KeyNext, StepImplementsBreaker, PTL
         DEF Spec, CBSpec, ImplementsBreaker

(* What is proved of the breaker alone holds under recovery: a trip is backed
   by three failures within one window. *)
THEOREM RecoveryTripJustified == Spec => []TripJustified
BY RecoveryImplementsBreaker, TripJustifiedAlways, PTL DEF ImplementsBreaker

-----------------------------------------------------------------------------
(* No race on a target in quarantine. *)

(* A cycle begins only past the breaker. *)
LEMMA CycleBegins ==
  ASSUME NEW a \in Attempt, NEW ctx, NEW st, StartCycle(a, ctx, st),
         NEW b \in Attempt, cycle'[b] # cycle[b]
  PROVE  a = b /\ ~Tripped(st, now)
<1>1. CASE UNCHANGED <<cycle, branch>>
  BY <1>1
<1>2. CASE ~Tripped(st, now) /\ FanOut(a, ctx)
  BY <1>2 DEF FanOut
<1>. QED BY <1>1, <1>2 DEF StartCycle

(* No attempt starts a race of branches on a target whose breaker is tripped,
   whichever attempt tripped it. *)
THEOREM QuarantineRespectedAlways == Spec => QuarantineRespected
<1>1. ASSUME KeyOK, CBTypeOK, [Next]_recoveryVars,
             NEW b \in Attempt, cycle'[b] # cycle[b]
      PROVE  ~Tripped(breaker'[key[b]], now')
  <2>1. PICK a \in Attempt : Begin(a) \/ EndLost(a)
    BY <1>1 DEF Next, recoveryVars, attemptVars, cbVars, Progress, BranchReply,
       BranchAbort, EndWon, Cancel, EndCancelled, TimePasses
  <2>2. CASE Begin(a)
    <3>1. PICK ctx : StartCycle(a, ctx, breaker[key[a]])
      BY <2>2 DEF Begin
    <3>2. breaker' = breaker /\ now' = now
      BY <2>2 DEF Begin, cbVars
    <3>. QED BY <1>1, <3>1, <3>2, CycleBegins
  <2>3. CASE EndLost(a)
    <3>1. /\ breaker'[key[a]] = Recorded(breaker[key[a]], now)
          /\ now' = now
      BY <1>1, <2>3 DEF EndLost, RecordFailure, KeyOK, CBTypeOK
    <3>2. \/ UNCHANGED cycle
          \/ \E ctx : StartCycle(a, ctx, Recorded(breaker[key[a]], now))
      BY <2>3 DEF EndLost
    <3>. QED BY <1>1, <3>1, <3>2, CycleBegins
  <2>. QED BY <2>1, <2>2, <2>3
<1>2. KeyOK /\ CBTypeOK /\ [Next]_recoveryVars
        => [\A a \in Attempt :
              cycle'[a] # cycle[a] => ~Tripped(breaker'[key[a]], now')]_recoveryVars
  BY <1>1
<1>. QED BY <1>2, KeyInit, KeyNext, RecoveryImplementsBreaker, CBInvariant, PTL
         DEF Spec, QuarantineRespected, ImplementsBreaker

-----------------------------------------------------------------------------
(* An attempt recovers by a branch that fired, and leaves none running. *)

BranchState == {"absent", "running", "aborted"} \cup Reply

(* One attempt: its phase, its branches and the winner of its race. *)
RaceOK(ph, br, win) ==
  /\ br \in [Branch -> BranchState]
  /\ win \in Branch \cup {"none"}
  /\ win # "none" => br[win] = "fired"
  /\ ph = "idle" => win = "none"
  /\ ph = "recovered" => win # "none"
  /\ ph \in Over \cup {"idle"} => \A b \in Branch : br[b] # "running"

BranchInv ==
  /\ phase \in [Attempt -> {"idle", "racing", "cancelling"} \cup Over]
  /\ branch \in [Attempt -> [Branch -> BranchState]]
  /\ first \in [Attempt -> Branch \cup {"none"}]
  /\ \A a \in Attempt : RaceOK(phase[a], branch[a], first[a])

LEMMA NoneIsNoBranch == "none" \notin Branch
BY DEF Branch

LEMMA BranchInvInit == Init => BranchInv
BY DEF Init, BranchInv, RaceOK, BranchState, Over, Branch

(* Whatever a cycle starts with, it keeps the invariant. *)
LEMMA StartCycleKeeps ==
  ASSUME BranchInv, NEW a \in Attempt, NEW ctx, NEW st, StartCycle(a, ctx, st),
         first[a] = "none", Running(a) = {}, UNCHANGED first
  PROVE  BranchInv'
<1>1. ASSUME NEW reason, Escalate(a, reason), UNCHANGED branch
      PROVE  BranchInv'
  <2>1. \A b \in Branch : branch[a][b] # "running"
    BY DEF Running
  <2>. QED BY <1>1, <2>1 DEF Escalate, BranchInv, RaceOK, Over
<1>2. CASE FanOut(a, ctx)
  BY <1>2 DEF FanOut, BranchInv, RaceOK, Over, BranchState
<1>. QED BY <1>1, <1>2 DEF StartCycle

LEMMA BranchInvNext == BranchInv /\ [Next]_recoveryVars => BranchInv'
<1>. SUFFICES ASSUME BranchInv, [Next]_recoveryVars PROVE BranchInv'
  OBVIOUS
<1>1. ASSUME NEW a \in Attempt, Begin(a) PROVE BranchInv'
  <2>1. first[a] = "none" /\ Running(a) = {} /\ UNCHANGED first
    BY <1>1 DEF Begin, BranchInv, RaceOK, Running
  <2>2. PICK ctx : StartCycle(a, ctx, breaker[key[a]])
    BY <1>1 DEF Begin
  <2>. QED BY <2>1, <2>2, StartCycleKeeps
<1>2. ASSUME NEW a \in Attempt, NEW b \in Branch, BranchReply(a, b) PROVE BranchInv'
  <2>1. PICK reply \in Replies :
          /\ branch' = [branch EXCEPT ![a][b] = reply]
          /\ first' = [first EXCEPT ![a] =
                         IF @ = "none" /\ reply = "fired" THEN b ELSE @]
    BY <1>2 DEF BranchReply
  <2>2. reply \in BranchState
    BY RecoveryAssumption DEF BranchState
  <2>3. phase' = phase /\ phase[a] \in {"racing", "cancelling"} /\ branch[a][b] = "running"
    BY <1>2 DEF BranchReply, BranchesRun
  <2>. QED BY <2>1, <2>2, <2>3, NoneIsNoBranch DEF BranchInv, RaceOK, Over
<1>3. ASSUME NEW a \in Attempt, NEW b \in Branch, BranchAbort(a, b) PROVE BranchInv'
  BY <1>3 DEF BranchAbort, BranchesRun, BranchInv, RaceOK, Over, BranchState
<1>4. ASSUME NEW a \in Attempt, EndWon(a) PROVE BranchInv'
  BY <1>4 DEF EndWon, Running, BranchInv, RaceOK, Over
<1>5. ASSUME NEW a \in Attempt, EndLost(a) PROVE BranchInv'
  <2>1. first[a] = "none" /\ Running(a) = {} /\ UNCHANGED first
    BY <1>5 DEF EndLost
  <2>2. ASSUME NEW ctx, NEW st, StartCycle(a, ctx, st) PROVE BranchInv'
    BY <2>1, <2>2, StartCycleKeeps
  <2>3. CASE Escalate(a, "max_cycles_exhausted") /\ UNCHANGED branch
    BY <2>1, <2>3 DEF Escalate, Running, BranchInv, RaceOK, Over
  <2>. QED BY <1>5, <2>2, <2>3 DEF EndLost
<1>6. ASSUME NEW a \in Attempt, Cancel(a) PROVE BranchInv'
  BY <1>6 DEF Cancel, BranchInv, RaceOK, Over
<1>7. ASSUME NEW a \in Attempt, EndCancelled(a) PROVE BranchInv'
  BY <1>7 DEF EndCancelled, Running, BranchInv, RaceOK, Over
<1>8. CASE TimePasses \/ UNCHANGED recoveryVars
  BY <1>8 DEF TimePasses, recoveryVars, attemptVars, BranchInv
<1>. QED BY <1>1, <1>2, <1>3, <1>4, <1>5, <1>6, <1>7, <1>8 DEF Next, Progress

(* However an attempt's branches overlap, fail, raise or are cancelled: it
   recovers by one that fired and leaves none behind. *)
THEOREM RecoveredByFiringAlways == Spec => []RecoveredByFiring
<1>1. BranchInv => RecoveredByFiring
  BY DEF BranchInv, RaceOK, RecoveredByFiring, Over
<1>. QED BY <1>1, BranchInvInit, BranchInvNext, PTL DEF Spec
-----------------------------------------------------------------------------
(* An attempt that gives up tells the user once, and the truth. *)

(* One attempt: its phase, its cycles and what the user was told. *)
ToldOK(ph, cyc, told) ==
  /\ ph = "idle" => cyc = 0
  /\ ph # "given_up" => told = <<>>
  /\ ph = "given_up" =>
       \E r \in Reason : told = <<r>> /\ (r = "max_cycles_exhausted" => cyc = MaxCycles)

ToldInv ==
  /\ phase \in [Attempt -> {"idle", "racing", "cancelling"} \cup Over]
  /\ context \in [Attempt -> FailureCtx]
  /\ cycle \in [Attempt -> 0..MaxCycles]
  /\ escalated \in [Attempt -> Seq(Reason)]
  /\ \A a \in Attempt : ToldOK(phase[a], cycle[a], escalated[a])

LEMMA ToldInvInit == Init => ToldInv
<1>. SUFFICES ASSUME Init PROVE ToldInv
  OBVIOUS
<1>1. NoContext \in FailureCtx
  BY DEF NoContext, FailureCtx, Band, Error
<1>2. /\ phase \in [Attempt -> {"idle", "racing", "cancelling"} \cup Over]
      /\ context \in [Attempt -> FailureCtx]
      /\ cycle \in [Attempt -> 0..MaxCycles]
  BY <1>1, RecoveryAssumption DEF Init
<1>3. escalated \in [Attempt -> Seq(Reason)]
  <2>1. <<>> \in Seq(Reason)
    OBVIOUS
  <2>. QED BY <2>1 DEF Init
<1>4. \A a \in Attempt : ToldOK(phase[a], cycle[a], escalated[a])
  BY DEF Init, ToldOK
<1>. QED BY <1>2, <1>3, <1>4 DEF ToldInv

(* To escalate is to end, so that the user was not told before. *)
LEMMA EscalateTells ==
  ASSUME ToldInv, NEW a \in Attempt, NEW reason \in Reason, Escalate(a, reason),
         phase[a] \in {"idle", "racing"},
         reason = "max_cycles_exhausted" => cycle[a] = MaxCycles,
         UNCHANGED cycle, context' \in [Attempt -> FailureCtx]
  PROVE  ToldInv'
<1>1. escalated[a] = <<>>
  BY DEF ToldInv, ToldOK
<1>2. escalated' = [escalated EXCEPT ![a] = <<reason>>]
  BY <1>1 DEF Escalate, ToldInv
<1>3. <<reason>> \in Seq(Reason)
  OBVIOUS
<1>4. phase' = [phase EXCEPT ![a] = "given_up"]
  BY DEF Escalate
<1>. QED BY <1>2, <1>3, <1>4 DEF ToldInv, ToldOK, Over

LEMMA StartCycleTells ==
  ASSUME ToldInv, NEW a \in Attempt, NEW ctx, NEW st, StartCycle(a, ctx, st),
         phase[a] \in {"idle", "racing"}, cycle[a] < MaxCycles,
         context' \in [Attempt -> FailureCtx]
  PROVE  ToldInv'
<1>1. {"circuit_breaker_tripped", "heal_budget_exceeded", "no_branches_available"}
        \subseteq Reason \ {"max_cycles_exhausted"}
  BY DEF Reason
<1>2. ASSUME NEW reason \in Reason \ {"max_cycles_exhausted"},
             Escalate(a, reason), UNCHANGED cycle
      PROVE  ToldInv'
  BY <1>2, EscalateTells
<1>3. CASE FanOut(a, ctx) /\ UNCHANGED escalated
  <2>1. /\ cycle' = [cycle EXCEPT ![a] = @ + 1]
        /\ phase' = [phase EXCEPT ![a] = "racing"]
    BY <1>3 DEF FanOut
  <2>2. cycle[a] + 1 \in 0..MaxCycles
    BY RecoveryAssumption DEF ToldInv
  <2>. QED BY <1>3, <2>1, <2>2 DEF ToldInv, ToldOK
<1>. QED BY <1>1, <1>2, <1>3 DEF StartCycle

LEMMA ToldInvNext == ToldInv /\ [Next]_recoveryVars => ToldInv'
<1>. SUFFICES ASSUME ToldInv, [Next]_recoveryVars PROVE ToldInv'
  OBVIOUS
<1>1. ASSUME NEW a \in Attempt, Begin(a) PROVE ToldInv'
  <2>1. PICK ctx \in Contexts :
          context' = [context EXCEPT ![a] = ctx] /\ StartCycle(a, ctx, breaker[key[a]])
    BY <1>1 DEF Begin
  <2>2. cycle[a] = 0 /\ cycle[a] < MaxCycles /\ phase[a] = "idle"
    BY <1>1, RecoveryAssumption DEF Begin, ToldInv, ToldOK
  <2>3. context' \in [Attempt -> FailureCtx]
    BY <2>1, RecoveryAssumption DEF ToldInv
  <2>. QED BY <2>1, <2>2, <2>3, StartCycleTells
<1>2. ASSUME NEW a \in Attempt, EndLost(a) PROVE ToldInv'
  <2>1. phase[a] = "racing"
    BY <1>2 DEF EndLost
  <2>2. CASE cycle[a] < MaxCycles
    <3>1. /\ context' = [context EXCEPT ![a].prev = @ + 1]
          /\ StartCycle(a, context'[a], Recorded(breaker[key[a]], now))
      BY <1>2, <2>2, RecoveryAssumption DEF EndLost, ToldInv
    <3>2. context' \in [Attempt -> FailureCtx]
      <4>1. context[a] \in FailureCtx
        BY DEF ToldInv
      <4>2. [context[a] EXCEPT !.prev = @ + 1] \in FailureCtx
        BY <4>1 DEF FailureCtx
      <4>3. context' = [context EXCEPT ![a] = [context[a] EXCEPT !.prev = @ + 1]]
        BY <3>1
      <4>. QED BY <4>2, <4>3 DEF ToldInv
    <3>. QED BY <2>1, <2>2, <3>1, <3>2, StartCycleTells
  <2>3. CASE cycle[a] = MaxCycles
    <3>1. /\ Escalate(a, "max_cycles_exhausted")
          /\ UNCHANGED <<context, cycle>>
      BY <1>2, <2>3, RecoveryAssumption DEF EndLost
    <3>2. "max_cycles_exhausted" \in Reason /\ context' \in [Attempt -> FailureCtx]
      BY <3>1 DEF Reason, ToldInv
    <3>. QED BY <2>1, <2>3, <3>1, <3>2, EscalateTells
  <2>. QED BY <1>2, <2>2, <2>3 DEF EndLost
<1>3. ASSUME NEW a \in Attempt, NEW ph \in {"cancelling", "recovered", "cancelled"},
             phase[a] \in {"racing", "cancelling"},
             phase' = [phase EXCEPT ![a] = ph],
             UNCHANGED <<context, cycle, escalated>>
      PROVE  ToldInv'
  BY <1>3 DEF ToldInv, ToldOK, Over
<1>4. ASSUME NEW a \in Attempt, EndWon(a) \/ Cancel(a) \/ EndCancelled(a) PROVE ToldInv'
  BY <1>3, <1>4 DEF EndWon, Cancel, EndCancelled
<1>5. CASE UNCHANGED <<phase, context, cycle, escalated>>
  BY <1>5 DEF ToldInv
<1>6. ASSUME NEW a \in Attempt, NEW b \in Branch, BranchReply(a, b) \/ BranchAbort(a, b)
      PROVE  ToldInv'
  BY <1>5, <1>6 DEF BranchReply, BranchAbort
<1>7. CASE TimePasses \/ UNCHANGED recoveryVars
  BY <1>5, <1>7 DEF TimePasses, recoveryVars, attemptVars
<1>. QED BY <1>1, <1>2, <1>4, <1>6, <1>7 DEF Next, Progress

(* All that the runs check of an attempt and its breaker holds for any number
   of attempts, targets and cycles: types, justified trips, one message to the
   user, recovery by a branch that fired. *)
THEOREM RecoveryInvariant == Spec => []RecoveryInv
<1>1. ToldInv => EscalatedOnce
  <2>. SUFFICES ASSUME ToldInv, NEW a \in Attempt
                PROVE  /\ Len(escalated[a]) = IF phase[a] = "given_up" THEN 1 ELSE 0
                       /\ "max_cycles_exhausted" \in ToSet(escalated[a])
                            => cycle[a] = MaxCycles
    BY DEF EscalatedOnce
  <2>1. CASE phase[a] # "given_up"
    BY <2>1 DEF ToldInv, ToldOK, ToSet
  <2>2. CASE phase[a] = "given_up"
    <3>1. PICK r \in Reason :
            escalated[a] = <<r>> /\ (r = "max_cycles_exhausted" => cycle[a] = MaxCycles)
      BY <2>2 DEF ToldInv, ToldOK
    <3>. QED BY <2>2, <3>1 DEF ToSet
  <2>. QED BY <2>1, <2>2
<1>2. ToldInv /\ BranchInv /\ KeyOK /\ CBTypeOK => RecoveryTypeOK
  BY DEF RecoveryTypeOK, ToldInv, BranchInv, BranchState, KeyOK
<1>3. Spec => [](CBTypeOK /\ WindowInv)
  BY RecoveryImplementsBreaker, CBInvariant, PTL DEF ImplementsBreaker
<1>4. BranchInv => RecoveredByFiring
  BY DEF BranchInv, RaceOK, RecoveredByFiring, Over
<1>5. ToldInv /\ BranchInv /\ KeyOK /\ CBTypeOK /\ TripJustified => RecoveryInv
  BY <1>1, <1>2, <1>4 DEF RecoveryInv
<1>. QED BY <1>3, <1>5, KeyInit, KeyNext, BranchInvInit, BranchInvNext, ToldInvInit,
            ToldInvNext, RecoveryTripJustified, PTL DEF Spec

-----------------------------------------------------------------------------
(* The breaker hears of every lost cycle. *)

(* Attempts that raced branches have begun a cycle, so that the one they   *)
(* race in is not counted as lost yet.                                     *)
AccountInv ==
  /\ KeyOK
  /\ failures \in [Key -> Seq(Nat)]
  /\ \A a \in Attempt : phase[a] \notin {"idle", "given_up"} => cycle[a] > 0
  /\ \A k \in Key : IsFiniteSet(Losses(k)) /\ Len(failures[k]) = Cardinality(Losses(k))

LEMMA AccountInit == Init => AccountInv
<1>. SUFFICES ASSUME Init PROVE AccountInv
  OBVIOUS
<1>1. KeyOK /\ failures = [k \in Key |-> <<>>]
  BY DEF Init, CBInit, KeyOK
<1>2. \A k \in Key : Losses(k) = {}
  BY RecoveryAssumption DEF Init, Losses, LostCycles
<1>. QED BY <1>1, <1>2, FS_EmptySet DEF Init, AccountInv

(* Where no cycle is lost and nothing recorded, the account stays. *)
LEMMA NothingLost ==
  ASSUME AccountInv, UNCHANGED <<key, failures>>,
         \A a \in Attempt : LostCycles(a)' = LostCycles(a),
         \A a \in Attempt : phase'[a] \notin {"idle", "given_up"} => cycle'[a] > 0
  PROVE  AccountInv'
<1>1. \A k \in Key : Losses(k)' = Losses(k)
  BY DEF Losses
<1>. QED BY <1>1 DEF AccountInv, KeyOK

(* One more cycle of an attempt is lost, and recorded against its target. *)
LEMMA OneLost ==
  ASSUME AccountInv, ToldInv, NEW a \in Attempt, UNCHANGED key,
         phase[a] = "racing",
         failures' = [failures EXCEPT ![key[a]] = Append(@, now)], now \in Nat,
         LostCycles(a)' = cycle[a],
         \A b \in Attempt \ {a} : LostCycles(b)' = LostCycles(b),
         \A b \in Attempt : phase'[b] \notin {"idle", "given_up"} => cycle'[b] > 0
  PROVE  AccountInv'
<1>. DEFINE new == <<a, cycle[a]>>
<1>1. cycle[a] \in 1..MaxCycles /\ LostCycles(a) = cycle[a] - 1
  <2>1. cycle[a] \in 0..MaxCycles
    BY DEF ToldInv
  <2>2. cycle[a] > 0
    BY DEF AccountInv
  <2>. QED BY <2>1, <2>2, RecoveryAssumption DEF LostCycles
<1>2. key[a] \in Key /\ failures[key[a]] \in Seq(Nat)
  BY DEF AccountInv, KeyOK
<1>3. Losses(key[a])' = Losses(key[a]) \cup {new} /\ new \notin Losses(key[a])
  <2>1. ASSUME NEW b \in Attempt, NEW n \in 1..MaxCycles
        PROVE  n <= LostCycles(b)' <=> n <= LostCycles(b) \/ <<b, n>> = new
    <3>1. CASE b = a
      BY <1>1, <3>1
    <3>2. CASE b # a
      BY <3>2
    <3>. QED BY <3>1, <3>2
  <2>. QED BY <1>1, <2>1 DEF Losses
<1>4. \A k \in Key \ {key[a]} : Losses(k)' = Losses(k)
  BY DEF Losses
<1>5. \A k \in Key \ {key[a]} : failures'[k] = failures[k]
  BY DEF AccountInv
<1>6. failures'[key[a]] = Append(failures[key[a]], now)
  BY <1>2 DEF AccountInv
<1>7. /\ IsFiniteSet(Losses(key[a])')
      /\ Len(failures'[key[a]]) = Cardinality(Losses(key[a])')
  <2>1. IsFiniteSet(Losses(key[a])) /\ Len(failures[key[a]]) = Cardinality(Losses(key[a]))
    BY <1>2 DEF AccountInv
  <2>2. /\ IsFiniteSet(Losses(key[a]) \cup {new})
        /\ Cardinality(Losses(key[a]) \cup {new}) = Cardinality(Losses(key[a])) + 1
    BY <1>3, <2>1, FS_AddElement
  <2>3. Len(failures'[key[a]]) = Len(failures[key[a]]) + 1
    BY <1>2, <1>6
  <2>4. Losses(key[a])' = Losses(key[a]) \cup {new}
    BY <1>3
  <2>. QED BY <2>1, <2>2, <2>3, <2>4
<1>8. failures' \in [Key -> Seq(Nat)]
  BY <1>2 DEF AccountInv
<1>9. \A k \in Key : IsFiniteSet(Losses(k)') /\ Len(failures'[k]) = Cardinality(Losses(k)')
  BY <1>4, <1>5, <1>7 DEF AccountInv
<1>. QED BY <1>8, <1>9 DEF AccountInv, KeyOK

LEMMA AccountNext ==
  AccountInv /\ ToldInv /\ CBTypeOK /\ [Next]_recoveryVars => AccountInv'
<1>. SUFFICES ASSUME AccountInv, ToldInv, CBTypeOK, [Next]_recoveryVars PROVE AccountInv'
  OBVIOUS
<1>1. ASSUME NEW a \in Attempt, Begin(a) PROVE AccountInv'
  <2>1. PICK ctx : StartCycle(a, ctx, breaker[key[a]])
    BY <1>1 DEF Begin
  <2>2. phase[a] = "idle" /\ cycle[a] = 0 /\ UNCHANGED <<key, failures>>
    BY <1>1 DEF Begin, cbVars, ToldInv, ToldOK
  <2>3. CASE \E reason : Escalate(a, reason) /\ UNCHANGED cycle
    <3>1. phase' = [phase EXCEPT ![a] = "given_up"] /\ cycle' = cycle
      BY <2>3 DEF Escalate
    <3>. QED BY <2>2, <3>1, NothingLost DEF AccountInv, LostCycles, ToldInv
  <2>4. CASE FanOut(a, ctx)
    <3>1. /\ phase' = [phase EXCEPT ![a] = "racing"]
          /\ cycle' = [cycle EXCEPT ![a] = @ + 1]
      BY <2>4 DEF FanOut
    <3>. QED BY <2>2, <3>1, NothingLost DEF AccountInv, LostCycles, ToldInv
  <2>. QED BY <2>1, <2>3, <2>4 DEF StartCycle
<1>2. ASSUME NEW a \in Attempt, EndLost(a) PROVE AccountInv'
  <2>1. /\ phase[a] = "racing" /\ UNCHANGED key
        /\ failures' = [failures EXCEPT ![key[a]] = Append(@, now)] /\ now \in Nat
    BY <1>2 DEF EndLost, RecordFailure, CBTypeOK
  <2>2. cycle[a] \in Nat /\ cycle[a] > 0
    <3>1. cycle[a] \in 0..MaxCycles
      BY DEF ToldInv
    <3>2. cycle[a] > 0
      BY <2>1 DEF AccountInv
    <3>. QED BY <3>1, <3>2, RecoveryAssumption
  <2>3. CASE \E reason : Escalate(a, reason) /\ UNCHANGED cycle
    <3>1. phase' = [phase EXCEPT ![a] = "given_up"] /\ cycle' = cycle
      BY <2>3 DEF Escalate
    <3>. QED BY <2>1, <2>2, <3>1, OneLost DEF AccountInv, LostCycles, ToldInv
  <2>4. CASE \E ctx : FanOut(a, ctx)
    <3>1. /\ phase' = [phase EXCEPT ![a] = "racing"]
          /\ cycle' = [cycle EXCEPT ![a] = @ + 1]
      BY <2>4 DEF FanOut
    <3>2. LostCycles(a)' = cycle[a]
      <4>1. phase'[a] = "racing" /\ cycle'[a] = cycle[a] + 1
        BY <3>1 DEF ToldInv
      <4>. QED BY <2>2, <4>1 DEF LostCycles
    <3>3. \A b \in Attempt \ {a} : LostCycles(b)' = LostCycles(b)
      BY <3>1 DEF LostCycles
    <3>4. \A b \in Attempt : phase'[b] \notin {"idle", "given_up"} => cycle'[b] > 0
      BY <2>2, <3>1 DEF AccountInv, ToldInv
    <3>. QED BY <2>1, <3>2, <3>3, <3>4, OneLost
  <2>. QED BY <1>2, <2>3, <2>4 DEF EndLost, StartCycle
<1>3. ASSUME NEW a \in Attempt, NEW ph \in {"cancelling", "recovered", "cancelled"},
             phase[a] \in {"racing", "cancelling"},
             phase' = [phase EXCEPT ![a] = ph],
             UNCHANGED <<key, failures, cycle>>
      PROVE  AccountInv'
  BY <1>3, NothingLost DEF AccountInv, LostCycles, ToldInv
<1>4. ASSUME NEW a \in Attempt, EndWon(a) \/ Cancel(a) \/ EndCancelled(a) PROVE AccountInv'
  BY <1>3, <1>4 DEF EndWon, Cancel, EndCancelled, cbVars
<1>5. CASE UNCHANGED <<phase, key, failures, cycle>>
  BY <1>5, NothingLost DEF AccountInv, LostCycles
<1>6. ASSUME NEW a \in Attempt, NEW b \in Branch, BranchReply(a, b) \/ BranchAbort(a, b)
      PROVE  AccountInv'
  BY <1>5, <1>6 DEF BranchReply, BranchAbort, cbVars
<1>7. CASE TimePasses \/ UNCHANGED recoveryVars
  BY <1>5, <1>7 DEF TimePasses, Tick, recoveryVars, attemptVars, cbVars
<1>. QED BY <1>1, <1>2, <1>4, <1>6, <1>7 DEF Next, Progress

(* However attempts overlap, give up or are cancelled, the failures recorded
   against a target are the cycles its attempts lost, each of them once. *)
THEOREM FailuresAccountedAlways == Spec => []FailuresAccounted
<1>1. AccountInv => FailuresAccounted
  BY DEF AccountInv, FailuresAccounted
<1>2. Spec => [](CBTypeOK /\ WindowInv)
  BY RecoveryImplementsBreaker, CBInvariant, PTL DEF ImplementsBreaker
<1>. QED BY <1>1, <1>2, AccountInit, AccountNext, ToldInvInit, ToldInvNext, PTL DEF Spec
=============================================================================
