--------------------------- MODULE CircuitBreaker ---------------------------
(***************************************************************************)
(* The circuit breaker of recovery (basicctrl/recovery/circuit_breaker.py):*)
(* per target (bundle id and target key) a count of failures in a window   *)
(* that starts with the first of them, and the time it last tripped.       *)
(*                                                                         *)
(* Its lock is never contended, no operation suspends while it holds it,   *)
(* so each operation is one step.  Time is counted in ticks; Window is the *)
(* code's 60 s.  The reordering of the profile's priority that goes with a *)
(* trip is left out: no caller passes a profile.                           *)
(***************************************************************************)
EXTENDS Integers, Sequences

CONSTANTS
  Key,          \* targets
  Window,       \* length of the failure window and of the quarantine
  MaxTime,      \* bound on the clock
  MaxFailures   \* bound on the failures recorded per target

ASSUME TimeAssumption == Window \in Nat /\ MaxTime \in Nat /\ MaxFailures \in Nat

VARIABLES
  now,       \* the clock
  breaker,   \* the breaker's state per target; Fresh if it has none
  failures   \* history: when failures were recorded since the last reset

cbVars == <<now, breaker, failures>>

Threshold == 3
NoTrip == -1
Fresh == [count |-> 0, trippedAt |-> NoTrip, start |-> 0]

(* record_failure opens a new window, or counts in the present one. *)
OpensWindow(st, t) == st.count = 0 \/ t - st.start > Window

(* record_failure returns True. *)
Trips(st, t) == ~OpensWindow(st, t) /\ st.count + 1 >= Threshold

(* Variant of Recorded: a failure after the third builds its state without
   tripped_at. *)
RecordedForgetting(st, t) ==
  IF OpensWindow(st, t)
  THEN [count |-> 1, trippedAt |-> NoTrip, start |-> t]
  ELSE [count |-> st.count + 1,
        trippedAt |-> IF st.count + 1 = Threshold THEN t ELSE NoTrip,
        start |-> st.start]

(* The state record_failure leaves behind at time t. *)
Recorded(st, t) ==
  IF OpensWindow(st, t)
  THEN [count |-> 1, trippedAt |-> NoTrip, start |-> t]
  ELSE [count |-> st.count + 1,
        trippedAt |-> IF Trips(st, t) THEN t ELSE st.trippedAt,
        start |-> st.start]

(* is_tripped *)
Tripped(st, t) == st.trippedAt # NoTrip /\ t - st.trippedAt <= Window

CBInit ==
  /\ now = 0
  /\ breaker = [k \in Key |-> Fresh]
  /\ failures = [k \in Key |-> <<>>]

RecordFailure(k) ==
  /\ Len(failures[k]) < MaxFailures
  /\ breaker' = [breaker EXCEPT ![k] = Recorded(@, now)]
  /\ failures' = [failures EXCEPT ![k] = Append(@, now)]
  /\ UNCHANGED now

Reset(k) ==
  /\ breaker' = [breaker EXCEPT ![k] = Fresh]
  /\ failures' = [failures EXCEPT ![k] = <<>>]
  /\ UNCHANGED now

Tick ==
  /\ now < MaxTime
  /\ now' = now + 1
  /\ UNCHANGED <<breaker, failures>>

CBNext == Tick \/ \E k \in Key : RecordFailure(k) \/ Reset(k)

CBSpec == CBInit /\ [][CBNext]_cbVars

-----------------------------------------------------------------------------
(* Properties. *)

CBTypeOK ==
  /\ now \in Nat
  /\ breaker \in [Key -> [count : Nat, trippedAt : Nat \cup {NoTrip}, start : Nat]]
  /\ failures \in [Key -> Seq(Nat)]

(* Why a trip is justified: the count is that of the latest failures, the
   first of which opened the window and the last of which tripped. *)
WindowInv ==
  \A k \in Key :
    LET st == breaker[k]
        n == Len(failures[k])
    IN  /\ \A i, j \in 1..n : i <= j => failures[k][i] <= failures[k][j]
        /\ \A i \in 1..n : failures[k][i] <= now
        /\ st.count <= n
        /\ n > 0 => st.count > 0
        /\ st.count > 0 => failures[k][n - st.count + 1] = st.start
        /\ st.trippedAt # NoTrip =>
             /\ st.count >= Threshold
             /\ st.trippedAt = failures[k][n]
             /\ st.trippedAt - st.start <= Window

(* A breaker trips on no fewer than three failures recorded within one window,
   whatever resets, pauses and other targets come between. *)
TripJustified ==
  \A k \in Key :
    breaker[k].trippedAt # NoTrip =>
      \E i \in DOMAIN failures[k] :
        /\ i + 2 \in DOMAIN failures[k]
        /\ failures[k][i + 2] <= breaker[k].trippedAt
        /\ breaker[k].trippedAt - failures[k][i] <= Window

(* While its failure window is open, a tripped breaker is let go only by time
   or by a reset: further failures can but prolong the quarantine. *)
HeldInWindow ==
  [][\A k \in Key :
       Tripped(breaker[k], now) /\ ~Tripped(breaker'[k], now') =>
         \/ now' - breaker[k].trippedAt > Window
         \/ now - breaker[k].start > Window
         \/ breaker'[k] = Fresh]_cbVars

=============================================================================
