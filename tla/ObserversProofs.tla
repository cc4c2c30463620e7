--------------------------- MODULE ObserversProofs ---------------------------
(***************************************************************************)
(* Theorems about events that arrive on their own.  Of Observers: which    *)
(* changes of the interface an action is credited with, for any actions,   *)
(* applications, delays and guards.  Of Recorder: what becomes of the      *)
(* user's keys and clicks, for any number of them.                         *)
(***************************************************************************)
EXTENDS Observers, Recorder, FiniteSetTheorems, TLAPS

USE DEF Credited

LEMMA TypeInit == Init => TypeOK
<1>. SUFFICES ASSUME Init PROVE TypeOK
  OBVIOUS
<1>1. slot \in [Root -> [Kind -> Action \cup {None}]]
  BY DEF Init
<1>2. phase \in [Action -> Phase] /\ fut \in [Action -> FutState]
  BY DEF Init, Phase, FutState
<1>3. got \in [Action -> Event]
  BY DEF Init, NoEvent, Event
<1>4. /\ calls \in {Notifs, Tail(Notifs), <<>>} /\ removed \in BOOLEAN /\ faults \in Nat /\ now \in Nat
      /\ subTs \in [Action -> Nat] /\ ready \in [Action -> Nat]
      /\ late \subseteq Action /\ torn \subseteq Action
      /\ waiters \subseteq Action /\ observers \subseteq Root /\ air \subseteq Notice
  BY DEF Init
<1>5. /\ changes \in Seq([by : Action \cup {App}, root : Root, at : Nat])
      /\ queue \in Seq(Event)
  BY DEF Init
<1>. QED BY <1>1, <1>2, <1>3, <1>4, <1>5 DEF TypeOK

(* The two notifications, one after the other. *)
LEMMA Calls ==
  /\ Head(Notifs) = "value" /\ Head(Tail(Notifs)) = "focus"
  /\ Tail(Tail(Notifs)) = <<>> /\ Tail(Notifs) # <<>>
  /\ Notifs # <<>> /\ Notifs # Tail(Notifs)
BY DEF Notifs

LEMMA CallKind ==
  ASSUME TypeOK, calls # <<>>
  PROVE  /\ Head(calls) \in Kind
         /\ Tail(calls) \in {Tail(Notifs), <<>>}
         /\ Tail(calls) = <<>> <=> calls = Tail(Notifs)
BY Calls DEF TypeOK, Kind

(* One tag changes. *)
LEMMA SlotSet ==
  ASSUME TypeOK, NEW r \in Root, NEW k \in Kind, NEW v \in Action \cup {None},
         slot' = [slot EXCEPT ![r][k] = v]
  PROVE  /\ slot' \in [Root -> [Kind -> Action \cup {None}]]
         /\ slot'[r][k] = v
         /\ \A q \in Root, j \in Kind : q # r \/ j # k => slot'[q][j] = slot[q][j]
BY DEF TypeOK

LEMMA ChangeType ==
  ASSUME TypeOK, NEW by \in Action \cup {App}, NEW r \in Root, Change(by, r)
  PROVE  /\ changes' \in Seq([by : Action \cup {App}, root : Root, at : Nat])
         /\ air' \subseteq Notice
<1>1. [by |-> by, root |-> r, at |-> now] \in [by : Action \cup {App}, root : Root, at : Nat]
  BY DEF TypeOK
<1>2. changes' \in Seq([by : Action \cup {App}, root : Root, at : Nat])
  BY <1>1 DEF TypeOK, Change
<1>3. \A k \in Kind : slot[r][k] # None => slot[r][k] \in Action
  BY DEF TypeOK
<1>4. \A k \in Kind : slot[r][k] # None =>
        [n |-> Len(changes) + 1, kind |-> k, tag |-> slot[r][k]] \in Notice
  BY <1>3 DEF TypeOK, Notice
<1>5. PICK kinds \in SUBSET {k \in Kind : slot[r][k] # None} :
        air' = air \cup {[n |-> Len(changes) + 1, kind |-> k, tag |-> slot[r][k]] : k \in kinds}
  BY DEF Change
<1>. QED BY <1>2, <1>4, <1>5 DEF TypeOK

LEMMA ChangeTyped ==
  ASSUME TypeOK, NEW n \in 1..Len(changes)
  PROVE  /\ changes[n] \in [by : Action \cup {App}, root : Root, at : Nat]
         /\ changes[n].at \in Nat /\ changes[n].root \in Root
<1>. DEFINE S == [by : Action \cup {App}, root : Root, at : Nat]
<1>1. changes \in Seq(S)
  BY DEF TypeOK
<1>2. changes[n] \in S
  <2>. HIDE DEF S
  <2>. QED BY <1>1
<1>. QED BY <1>2

LEMMA TypeNext == TypeOK /\ CreditInv /\ [Next]_vars => TypeOK'
<1>. SUFFICES ASSUME TypeOK, CreditInv, [Next]_vars PROVE TypeOK'
  OBVIOUS
<1>. USE DEF SetPhase, clientVars, stepVars, subVars, tableVars, eventVars
<1>1. ASSUME NEW a \in Action, Subscribe(a) PROVE TypeOK'
  <2>1. phase' \in [Action -> Phase]
    BY <1>1 DEF TypeOK, Subscribe, Phase, Registering
  <2>2. CASE Register(a)
    BY <1>1, <2>1, <2>2, ActionAssumption DEF TypeOK, Subscribe, Register
  <2>3. CASE UNCHANGED <<subTs, ready, torn, fut, tableVars>> /\ Fails /\ UNCHANGED <<calls, removed>>
    BY <1>1, <2>1, <2>3 DEF TypeOK, Subscribe, Fails
  <2>. QED BY <1>1, <2>2, <2>3 DEF Subscribe
<1>2. ASSUME NEW a \in Action, Expect(a) PROVE TypeOK'
  <2>1. phase' \in [Action -> Phase]
    BY <1>2 DEF TypeOK, Expect, Phase, Over, Registering
  <2>2. CASE Register(a) /\ late' = late \cup {a}
    BY <1>2, <2>1, <2>2, ActionAssumption DEF TypeOK, Expect, Register
  <2>3. CASE UNCHANGED <<subVars, fut, tableVars>> /\ Fails /\ UNCHANGED <<calls, removed>>
    BY <1>2, <2>1, <2>3 DEF TypeOK, Expect, Fails
  <2>. QED BY <1>2, <2>2, <2>3 DEF Expect
<1>3. ASSUME NEW a \in Action, Act(a) PROVE TypeOK'
  BY <1>3 DEF TypeOK, Act, Phase
<1>a. ASSUME NEW a \in Action, Effect(a) PROVE TypeOK'
  BY <1>a, ChangeType, ActionAssumption DEF TypeOK, Effect
<1>4. ASSUME NEW r \in Root, Stir(r) PROVE TypeOK'
  BY <1>4, ChangeType DEF TypeOK, Stir
<1>b. ASSUME NEW a \in Action, RemoveNotification(a) PROVE TypeOK'
  <2>1. calls # <<>>
    BY <1>b DEF RemoveNotification, CreditInv, FutureInv, LoopFree
  <2>2. slot' \in [Root -> [Kind -> Action \cup {None}]]
    BY <1>b, <2>1, CallKind, SlotSet, ActionAssumption DEF RemoveNotification, TypeOK
  <2>. QED BY <1>b, <2>2 DEF TypeOK, RemoveNotification, Fails
<1>c. ASSUME NEW a \in Action, AddNotification(a) PROVE TypeOK'
  <2>1. calls # <<>>
    BY <1>c DEF AddNotification, CreditInv, FutureInv
  <2>2. slot' \in [Root -> [Kind -> Action \cup {None}]]
    <3>1. slot \in [Root -> [Kind -> Action \cup {None}]] /\ a \in Action \cup {None}
      BY DEF TypeOK
    <3>2. CASE slot' = [slot EXCEPT ![RootOf[a]][Head(calls)] = a]
      BY <2>1, <3>1, <3>2, CallKind, SlotSet, ActionAssumption
    <3>3. CASE slot' = slot
      BY <3>1, <3>3
    <3>. QED BY <1>c, <3>2, <3>3 DEF AddNotification
  <2>3. calls' \in {Notifs, Tail(Notifs), <<>>} /\ removed' \in BOOLEAN
    <3>1. calls' = Tail(calls) /\ removed' = FALSE
      BY <1>c DEF AddNotification
    <3>. QED BY <2>1, <3>1, CallKind
  <2>31. faults' \in Nat
    <3>1. faults' = faults \/ faults' = faults + 1
      BY <1>c DEF AddNotification, Fails
    <3>. QED BY <3>1 DEF TypeOK
  <2>4. phase' \in [Action -> Phase]
    BY <1>c DEF AddNotification, TypeOK, Phase, Over, Registering
  <2>5. ready' \in [Action -> Nat] /\ fut' \in [Action -> FutState] /\ waiters' \subseteq Action
    BY <1>c DEF AddNotification, TypeOK, FutState
  <2>. QED BY <1>c, <2>2, <2>3, <2>31, <2>4, <2>5 DEF TypeOK, AddNotification
<1>5. ASSUME NEW x \in air, Deliver(x) PROVE TypeOK'
  <2>1. PICK tag \in {x.tag, slot[changes[x.n].root][x.kind]} :
          queue' = Append(queue, [n |-> x.n, tag |-> tag, ts |-> now])
    BY <1>5 DEF Deliver
  <2>2. x.n \in 1..Len(changes) /\ x \in Notice
    BY DEF TypeOK, CreditInv, TravelInv
  <2>3. tag \in Action \cup {None}
    <3>1. changes[x.n].root \in Root
      BY <2>2, ChangeTyped
    <3>2. slot[changes[x.n].root][x.kind] \in Action \cup {None}
      BY <2>2, <3>1 DEF TypeOK, Notice
    <3>3. x.tag \in Action
      BY <2>2 DEF Notice
    <3>. QED BY <2>1, <3>2, <3>3
  <2>4. x.n \in Nat /\ now \in Nat
    BY <2>2 DEF TypeOK, Notice
  <2>5. [n |-> x.n, tag |-> tag, ts |-> now] \in Event
    BY <2>3, <2>4 DEF Event
  <2>. QED BY <1>5, <2>1, <2>5 DEF TypeOK, Deliver
<1>6. CASE Dispatch
  <2>1. Head(queue) \in Event /\ Tail(queue) \in Seq(Event)
    BY <1>6 DEF TypeOK, Dispatch
  <2>. QED BY <1>6, <2>1 DEF TypeOK, Dispatch, FutState
<1>7. ASSUME NEW a \in Action, Await(a) \/ Resume(a) \/ AwaitCancelled(a) PROVE TypeOK'
  BY <1>7 DEF TypeOK, Await, Resume, AwaitCancelled, Phase, Over
<1>8. ASSUME NEW a \in Action, Timeout(a) PROVE TypeOK'
  BY <1>8 DEF TypeOK, Timeout, Phase, Over, FutState
<1>9. ASSUME NEW a \in Action, CallerCancel(a) PROVE TypeOK'
  BY <1>9 DEF TypeOK, CallerCancel, Phase, Over, FutState
<1>10. CASE Stop
  BY <1>10 DEF TypeOK, Stop, FutState
<1>11. CASE Tick
  BY <1>11 DEF TypeOK, Tick
<1>12. CASE UNCHANGED vars
  BY <1>12 DEF TypeOK, vars
<1>. QED
  BY <1>1, <1>2, <1>3, <1>a, <1>4, <1>b, <1>c, <1>5, <1>6, <1>7, <1>8, <1>9, <1>10, <1>11,
     <1>12 DEF Next, OnLoop

-----------------------------------------------------------------------------
(* The invariant CreditInv. *)

LEMMA CreditInit == Init => CreditInv
BY ActionAssumption DEF Init, CreditInv, TravelInv, FutureInv, SlotInv, OneHolder, TagInv,
   Held, LoopFree, Registering

(* The steps that send, deliver, dispatch and register nothing. *)
LEMMA QuietStep ==
  ASSUME TypeOK, CreditInv,
         UNCHANGED <<now, calls, removed, subTs, ready, torn, got, slot, eventVars>>,
         \A a \in Action :
           /\ phase'[a] = "idle" => phase[a] = "idle"
           /\ phase'[a] \in Registering <=> phase[a] \in Registering
           /\ fut'[a] = "absent" <=> fut[a] = "absent"
  PROVE  CreditInv'
<1>1. TravelInv'
  BY DEF CreditInv, TravelInv, Timely, Passes, eventVars
<1>2. FutureInv'
  BY DEF CreditInv, FutureInv, LoopFree
<1>3. SlotInv' /\ OneHolder'
  BY DEF CreditInv, SlotInv, OneHolder, Held, Settled
<1>4. TagInv'
  BY DEF CreditInv, TagInv, Carries, Held, Settled, eventVars
<1>. QED BY <1>1, <1>2, <1>3, <1>4 DEF CreditInv

LEMMA RegisterStep ==
  ASSUME TypeOK, CreditInv, NEW a \in Action, fut[a] = "absent", LoopFree, Register(a),
         NEW p \in Registering, phase' = [phase EXCEPT ![a] = p],
         UNCHANGED <<now, got, eventVars>>
  PROVE  CreditInv'
<1>1. /\ \A b \in Action \ {a} : subTs'[b] = subTs[b]
      /\ UNCHANGED <<removed, ready, torn, fut, slot>> /\ calls' = Notifs
  BY DEF TypeOK, Register
<1>2. calls = <<>> /\ removed = FALSE
  BY DEF CreditInv, FutureInv, TypeOK
<1>3. /\ phase'[a] \in Registering
      /\ \A b \in Action : phase'[b] \in Registering => b = a
      /\ \A b \in Action \ {a} : phase'[b] = phase[b]
  BY DEF TypeOK, LoopFree
<1>4. TravelInv'
  <2>1. ~Credited(a)
    BY DEF CreditInv, FutureInv
  <2>. QED BY <1>1, <2>1 DEF CreditInv, TravelInv, Timely, Passes, eventVars
<1>5. FutureInv'
  <2>1. LoopFree' = FALSE /\ calls' # <<>>
    BY <1>1, <1>3, Calls DEF LoopFree
  <2>2. \A b \in Action : phase'[b] \in {"idle"} \cup Registering => fut'[b] = "absent"
    BY <1>1, <1>3 DEF CreditInv, FutureInv
  <2>. QED BY <1>1, <1>3, <2>1, <2>2 DEF CreditInv, FutureInv
<1>6. SlotInv'
  <2>1. calls' # Tail(Notifs) /\ ~removed'
    BY <1>1, <1>2, Calls
  <2>. QED BY <1>1, <2>1 DEF CreditInv, SlotInv, Held
<1>7. OneHolder' /\ TagInv'
  BY <1>1 DEF CreditInv, OneHolder, TagInv, Carries, Held, Settled, eventVars
<1>. QED BY <1>4, <1>5, <1>6, <1>7 DEF CreditInv

LEMMA RemoveStep ==
  ASSUME TypeOK, CreditInv, NEW a \in Action, RemoveNotification(a)
  PROVE  CreditInv'
<1>. DEFINE k == Head(calls)
            R == RootOf[a]
<1>1. /\ phase[a] \in Registering /\ removed' = TRUE /\ calls # <<>>
      /\ UNCHANGED <<now, phase, calls, subTs, ready, fut, got, changes, air, queue>>
  BY DEF RemoveNotification, eventVars, CreditInv, FutureInv, LoopFree
<1>2. k \in Kind /\ R \in Root /\ None \notin Action
  BY <1>1, CallKind, ActionAssumption
<1>3. \/ /\ torn' = torn /\ slot'[R][k] = None
         /\ \A q \in Root, j \in Kind : q # R \/ j # k => slot'[q][j] = slot[q][j]
      \/ torn' = torn \cup {a} /\ slot' = slot
  BY <1>2, SlotSet DEF RemoveNotification
<1>. HIDE DEF k, R
<1>4. \A q \in Root, j \in Kind : slot'[q][j] = slot[q][j] \/ slot'[q][j] = None
  BY <1>3
<1>5. \A r \in Root, b \in Action : Held(r, b)' => Held(r, b)
  BY <1>2, <1>4 DEF Held
<1>6. \A b \in Action : Settled(b)' => Settled(b)
  BY <1>1, <1>3 DEF Settled
<1>7. ASSUME NEW n \in 1..Len(changes), NEW b \in Action, Carries(n, b)'
      PROVE  Carries(n, b)
  <2>1. changes[n].root \in Root
    BY ChangeTyped
  <2>. QED BY <1>1, <1>5, <1>7, <2>1 DEF Carries
<1>8. TravelInv' /\ FutureInv'
  BY <1>1 DEF CreditInv, TravelInv, FutureInv, Timely, Passes, LoopFree
<1>9. SlotInv'
  <2>1. \A r \in Root : \A b \in Action : Held(r, b)' => RootOf[b] = r
    BY <1>5 DEF CreditInv, SlotInv
  <2>2. ASSUME NEW b \in Action, phase'[b] \in Registering, b \notin torn', NEW j \in Kind,
               (j = "value" /\ calls' = Tail(Notifs)) \/ (removed' /\ j = Head(calls'))
        PROVE  slot'[RootOf[b]][j] \in {b, None}
    <3>1. b = a
      BY <1>1, <2>2 DEF CreditInv, FutureInv
    <3>2. torn' = torn /\ slot'[R][k] = None /\ a \notin torn
      BY <1>3, <2>2, <3>1
    <3>3. CASE j = k
      BY <3>1, <3>2, <3>3 DEF R
    <3>4. CASE j = "value" /\ calls = Tail(Notifs)
      <4>1. slot[R][j] \in {a, None}
        BY <1>1, <3>2, <3>4 DEF CreditInv, SlotInv, R
      <4>2. R \in Root
        BY <1>2
      <4>3. slot'[R][j] \in {a, None}
        BY <1>4, <4>1, <4>2
      <4>. QED BY <3>1, <4>3 DEF R
    <3>. QED BY <1>1, <2>2, <3>3, <3>4 DEF k
  <2>. QED BY <2>1, <2>2 DEF SlotInv
<1>10. OneHolder'
  BY <1>5, <1>6 DEF CreditInv, OneHolder
<1>11. TagInv'
  BY <1>1, <1>6, <1>7 DEF CreditInv, TagInv
<1>. QED BY <1>8, <1>9, <1>10, <1>11 DEF CreditInv

LEMMA AddStep ==
  ASSUME TypeOK, CreditInv, NEW a \in Action, AddNotification(a)
  PROVE  CreditInv'
<1>. DEFINE k == Head(calls)
            R == RootOf[a]
<1>1. /\ phase[a] \in Registering /\ removed /\ removed' = FALSE /\ calls # <<>>
      /\ calls' = Tail(calls)
      /\ UNCHANGED <<now, subTs, torn, got, changes, air, queue>>
  BY DEF AddNotification, eventVars, CreditInv, FutureInv
<1>2. k \in Kind /\ R \in Root /\ None \notin Action
  BY <1>1, CallKind, ActionAssumption
<1>3. /\ slot'[R][k] = a \/ slot'[R][k] = slot[R][k]
      /\ \A q \in Root, j \in Kind : q # R \/ j # k => slot'[q][j] = slot[q][j]
  BY <1>2, SlotSet DEF AddNotification
<1>4. /\ fut[a] = "absent"
      /\ \A b \in Action : phase[b] \in Registering => b = a
  BY <1>1 DEF CreditInv, FutureInv
<1>5. /\ calls = Tail(Notifs) =>
           /\ calls' = <<>> /\ ready'[a] = now /\ fut'[a] = "pending"
           /\ phase'[a] \notin Registering \cup {"idle"}
      /\ calls # Tail(Notifs) =>
           calls = Notifs /\ calls' = Tail(Notifs) /\ UNCHANGED <<phase, ready, fut>>
      /\ \A b \in Action \ {a} : phase'[b] = phase[b] /\ ready'[b] = ready[b] /\ fut'[b] = fut[b]
  <2>1. calls = Notifs \/ calls = Tail(Notifs)
    BY <1>1 DEF TypeOK
  <2>. QED BY <1>1, <2>1, CallKind, Calls DEF AddNotification, TypeOK, SetPhase, Registering
<1>6. a \notin torn =>
        /\ slot[R][k] \in {a, None}
        /\ calls = Tail(Notifs) => slot[R]["value"] \in {a, None}
  <2>1. "value" \in Kind
    BY DEF Kind
  <2>. QED BY <1>1, <1>2, <2>1 DEF CreditInv, SlotInv
<1>7. calls = Tail(Notifs) => k = "focus"
  BY Calls
<1>71. calls # Tail(Notifs) => k = "value"
  BY Calls, <1>5
<1>. HIDE DEF k, R
<1>8. \A q \in Root, j \in Kind : slot'[q][j] = slot[q][j] \/ (q = R /\ slot'[q][j] = a)
  BY <1>3
<1>9. /\ \A r \in Root, b \in Action \ {a} : Held(r, b)' => Held(r, b)
      /\ \A r \in Root : Held(r, a)' => Held(r, a) \/ r = R
  BY <1>8 DEF Held
<1>10. /\ \A b \in Action \ {a} : (Settled(b)' <=> Settled(b)) /\ ready'[b] = ready[b]
       /\ Settled(a)' => calls = Tail(Notifs) /\ a \notin torn /\ ready'[a] = now
  BY <1>1, <1>4, <1>5 DEF Settled
<1>11. ASSUME NEW n \in 1..Len(changes), NEW b \in Action \ {a}, Carries(n, b)'
       PROVE  Carries(n, b)
  <2>1. changes[n].root \in Root
    BY ChangeTyped
  <2>. QED BY <1>1, <1>9, <1>11, <2>1 DEF Carries
<1>12. TravelInv'
  BY <1>1 DEF CreditInv, TravelInv, Timely, Passes
<1>13. FutureInv'
  <2>1. \A b \in Action :
          /\ phase'[b] \in {"idle"} \cup Registering => fut'[b] = "absent"
          /\ fut'[b] = "absent" => ~Credited(b)'
          /\ ready'[b] <= now'
    <3>1. now \in Nat /\ ready \in [Action -> Nat]
      BY DEF TypeOK
    <3>. QED BY <1>1, <1>5, <3>1 DEF CreditInv, FutureInv
  <2>2. \A b, c \in Action : phase'[b] \in Registering /\ phase'[c] \in Registering => b = c
    BY <1>4, <1>5
  <2>3. calls' = <<>> <=> LoopFree'
    <3>1. CASE calls = Tail(Notifs)
      BY <1>4, <1>5, <3>1 DEF LoopFree
    <3>2. CASE calls # Tail(Notifs)
      BY <1>1, <1>5, <3>2, Calls DEF LoopFree
    <3>. QED BY <3>1, <3>2
  <2>. QED BY <1>1, <2>1, <2>2, <2>3 DEF FutureInv
<1>14. SlotInv'
  <2>1. \A r \in Root : \A b \in Action : Held(r, b)' => RootOf[b] = r
    BY <1>9 DEF CreditInv, SlotInv, R
  <2>2. ASSUME NEW b \in Action, phase'[b] \in Registering, b \notin torn', NEW j \in Kind,
               (j = "value" /\ calls' = Tail(Notifs)) \/ (removed' /\ j = Head(calls'))
        PROVE  slot'[RootOf[b]][j] \in {b, None}
    <3>1. calls # Tail(Notifs) /\ b = a
      BY <1>4, <1>5, <2>2
    <3>2. j = k
      BY <1>1, <1>71, <2>2, <3>1
    <3>3. slot'[R][k] \in {a, None}
      BY <1>1, <1>3, <1>6, <2>2, <3>1
    <3>. QED BY <3>1, <3>2, <3>3 DEF R
  <2>. QED BY <2>1, <2>2 DEF SlotInv
<1>15. OneHolder'
  <2>1. ASSUME Settled(a)', NEW r \in Root, Held(r, a)', NEW c \in Action, Held(r, c)'
        PROVE  c = a
    <3>1. r = R /\ calls = Tail(Notifs) /\ a \notin torn
      BY <1>9, <1>10, <2>1 DEF CreditInv, SlotInv, R
    <3>2. slot'[R]["value"] \in {a, None} /\ slot'[R]["focus"] \in {a, None}
      <4>1. "value" \in Kind /\ k = "focus" /\ R \in Root
        BY <1>2, <1>7, <3>1 DEF Kind
      <4>. QED BY <1>3, <1>6, <3>1, <4>1
    <3>3. PICK j \in Kind : slot'[R][j] = c
      BY <2>1, <3>1 DEF Held
    <3>. QED BY <1>2, <3>2, <3>3 DEF Kind
  <2>2. ASSUME NEW r \in Root, NEW b \in Action \ {a}, NEW c \in Action \ {a},
               Held(r, b)', Settled(b)', Held(r, c)', Settled(c)'
        PROVE  b = c
    BY <1>9, <1>10, <2>2 DEF CreditInv, OneHolder
  <2>. QED BY <2>1, <2>2 DEF OneHolder
<1>16. TagInv'
  <2>. SUFFICES ASSUME NEW n \in 1..Len(changes), NEW b \in Action, NEW c \in Action,
                       Carries(n, b)', Settled(b)', ready'[b] < changes[n].at,
                       Carries(n, c)', Settled(c)', ready'[c] < changes[n].at
                PROVE  b = c
    BY <1>1 DEF TagInv
  <2>1. changes[n].at <= now /\ changes[n].at \in Nat /\ now \in Nat
    BY ChangeTyped DEF CreditInv, TravelInv, TypeOK
  <2>2. b # a /\ c # a
    BY <1>10, <2>1
  <2>. QED BY <1>10, <1>11, <2>2 DEF CreditInv, TagInv
<1>. QED BY <1>12, <1>13, <1>14, <1>15, <1>16 DEF CreditInv

LEMMA ChangeStep ==
  ASSUME TypeOK, CreditInv, NEW by \in Action \cup {App}, NEW r \in Root,
         Change(by, r), UNCHANGED <<now, clientVars, tableVars, queue>>
  PROVE  CreditInv'
<1>. PICK new : new = Len(changes) + 1
  OBVIOUS
<1>0. /\ UNCHANGED <<now, phase, calls, removed, subTs, ready, torn, fut, got, slot, queue>>
      /\ \A a \in Action : Settled(a)' = Settled(a)
      /\ \A q, a : Held(q, a)' = Held(q, a)
  BY DEF clientVars, stepVars, subVars, tableVars, Settled, Held
<1>1. /\ Len(changes') = new
      /\ \A n \in 1..Len(changes) : changes'[n] = changes[n]
      /\ changes'[new] = [by |-> by, root |-> r, at |-> now]
      /\ Len(changes) \in Nat
  BY DEF TypeOK, Change
<1>2. \A x \in air' : x \in air \/ (x.n = new /\ Held(r, x.tag))
  <2>1. PICK kinds \in SUBSET {k \in Kind : slot[r][k] # None} :
          air' = air \cup {[n |-> Len(changes) + 1, kind |-> k, tag |-> slot[r][k]] :
                              k \in kinds}
    BY DEF Change
  <2>. QED BY <2>1 DEF Held
<1>3. TravelInv'
  <2>1. \A n \in 1..Len(changes') : changes'[n].at <= now
    <3>1. changes'[new].at <= now
      BY <1>1 DEF TypeOK
    <3>2. \A n \in 1..Len(changes) : changes'[n].at <= now
      BY <1>1 DEF CreditInv, TravelInv
    <3>. QED BY <1>1, <3>1, <3>2
  <2>2. ASSUME NEW x \in air'
        PROVE  x.n \in 1..Len(changes') /\ now <= changes'[x.n].at + MaxDelay
    <3>1. CASE x \in air
      BY <1>1, <3>1 DEF CreditInv, TravelInv
    <3>2. CASE x.n = new
      BY <1>1, <3>2, TimeAssumption DEF TypeOK
    <3>. QED BY <1>2, <2>2, <3>1, <3>2
  <2>3. \A e : Timely(e) => Timely(e)'
    BY <1>1 DEF Timely
  <2>4. \A e, a : Timely(e) /\ Passes(e, a) => Passes(e, a)'
    BY <1>0, <1>1 DEF Timely, Passes
  <2>. QED BY <1>0, <2>1, <2>2, <2>3, <2>4 DEF CreditInv, TravelInv
<1>4. ASSUME NEW n \in 1..Len(changes), NEW a \in Action, Carries(n, a)'
      PROVE  Carries(n, a)
  <2>1. \A x \in air' : x.n = n => x \in air
    BY <1>1, <1>2
  <2>. QED BY <1>0, <1>1, <1>4, <2>1 DEF Carries
<1>5. ASSUME NEW a \in Action, Carries(new, a)'
      PROVE  Held(r, a)
  <2>1. \A x \in air' : x.n = new => Held(r, x.tag)
    BY <1>1, <1>2 DEF CreditInv, TravelInv
  <2>2. \A i \in 1..Len(queue) : queue[i].n # new
    BY <1>1 DEF CreditInv, TravelInv, Timely
  <2>3. \A b \in Action : Credited(b) => got[b].n # new
    BY <1>1 DEF CreditInv, TravelInv, Timely
  <2>. QED BY <1>0, <1>1, <1>5, <2>1, <2>2, <2>3 DEF Carries
<1>6. TagInv'
  <2>. SUFFICES ASSUME NEW n \in 1..Len(changes'), NEW a \in Action, NEW b \in Action,
                       Carries(n, a)', Settled(a)', ready[a] < changes'[n].at,
                       Carries(n, b)', Settled(b)', ready[b] < changes'[n].at
                PROVE  a = b
    BY <1>0 DEF TagInv
  <2>1. CASE n = new
    BY <1>0, <1>5, <2>1 DEF CreditInv, OneHolder
  <2>2. CASE n \in 1..Len(changes)
    BY <1>0, <1>1, <1>4, <2>2 DEF CreditInv, TagInv
  <2>. QED BY <1>1, <2>1, <2>2
<1>7. FutureInv' /\ SlotInv' /\ OneHolder'
  BY <1>0 DEF CreditInv, FutureInv, LoopFree, SlotInv, OneHolder, Held
<1>. QED BY <1>3, <1>6, <1>7 DEF CreditInv

LEMMA DeliverStep ==
  ASSUME TypeOK, CreditInv, NEW x \in air, Deliver(x)
  PROVE  CreditInv'
<1>1. PICK tag \in {x.tag, slot[changes[x.n].root][x.kind]} :
        queue' = Append(queue, [n |-> x.n, tag |-> tag, ts |-> now])
  BY DEF Deliver
<1>. DEFINE e == [n |-> x.n, tag |-> tag, ts |-> now]
<1>2. \A i \in 1..Len(queue') :
        \/ queue'[i] = e
        \/ i \in 1..Len(queue) /\ queue'[i] = queue[i]
  <2>1. queue \in Seq(Event)
    BY DEF TypeOK
  <2>2. Len(queue') = Len(queue) + 1
    BY <1>1, <2>1
  <2>3. \A i \in 1..Len(queue) : queue'[i] = queue[i]
    BY <1>1, <2>1
  <2>4. queue'[Len(queue) + 1] = e
    BY <1>1, <2>1
  <2>. HIDE DEF e
  <2>. QED BY <2>1, <2>2, <2>3, <2>4
<1>3. /\ UNCHANGED <<now, phase, calls, removed, subTs, ready, torn, fut, got, slot, changes>>
      /\ air' \subseteq air
  BY DEF Deliver, clientVars, stepVars, subVars, tableVars
<1>4. x.n \in 1..Len(changes) /\ changes[x.n].at <= now /\ now <= changes[x.n].at + MaxDelay
  BY DEF CreditInv, TravelInv
<1>5. FutureInv' /\ SlotInv' /\ OneHolder'
  BY <1>3 DEF CreditInv, FutureInv, LoopFree, SlotInv, OneHolder, Held, Settled
<1>6. TravelInv'
  <2>1. Timely(e)'
    BY <1>3, <1>4 DEF Timely
  <2>. QED BY <1>2, <1>3, <2>1 DEF CreditInv, TravelInv, Timely, Passes
<1>7. ASSUME NEW n \in 1..Len(changes), NEW a \in Action, Carries(n, a)'
      PROVE  Carries(n, a)
  <2>1. x.kind \in Kind
    BY DEF TypeOK, Notice
  <2>2. Carries(e.n, e.tag)
    BY <1>1, <2>1 DEF Carries, Held
  <2>. QED BY <1>2, <1>3, <1>7, <2>2 DEF Carries, Held
<1>8. TagInv'
  BY <1>3, <1>7 DEF CreditInv, TagInv, Settled
<1>. QED BY <1>5, <1>6, <1>8 DEF CreditInv

LEMMA DispatchStep ==
  ASSUME TypeOK, CreditInv, Dispatch
  PROVE  CreditInv'
<1>. DEFINE e == Head(queue)
            taken == {a \in waiters : fut[a] = "pending" /\ Passes(e, a)}
<1>1. /\ queue # <<>> /\ queue' = Tail(queue)
      /\ got' = [a \in Action |-> IF a \in taken THEN e ELSE got[a]]
      /\ fut' = [a \in Action |-> IF a \in taken THEN "resolved" ELSE fut[a]]
      /\ UNCHANGED <<now, phase, calls, removed, subTs, ready, torn, slot, changes, air>>
  BY DEF Dispatch, stepVars, subVars
<1>2. /\ 1 \in 1..Len(queue) /\ e = queue[1]
      /\ \A i \in 1..Len(queue') : i + 1 \in 1..Len(queue) /\ queue'[i] = queue[i + 1]
  BY <1>1 DEF TypeOK
<1>3. Timely(e)
  BY <1>2 DEF CreditInv, TravelInv
<1>4. \A a \in Action : got'[a] = got[a] \/ (got'[a] = e /\ Passes(e, a))
  BY <1>1
<1>5. FutureInv'
  <2>1. \A a \in taken : fut[a] = "pending"
    OBVIOUS
  <2>. HIDE DEF taken
  <2>. QED BY <1>1, <2>1 DEF CreditInv, FutureInv, LoopFree
<1>51. \A a \in Action : Settled(a)' <=> Settled(a)
  <2>1. \A a \in taken : fut[a] = "pending"
    OBVIOUS
  <2>. HIDE DEF taken
  <2>. QED BY <1>1, <2>1 DEF Settled
<1>52. SlotInv' /\ OneHolder'
  BY <1>1, <1>51 DEF CreditInv, SlotInv, OneHolder, Held
<1>. HIDE DEF e, taken
<1>6. TravelInv'
  BY <1>1, <1>2, <1>3, <1>4 DEF CreditInv, TravelInv, Timely, Passes
<1>7. ASSUME NEW n \in 1..Len(changes), NEW a \in Action, Carries(n, a)'
      PROVE  Carries(n, a)
  <2>1. e.n = n /\ e.tag = a => Carries(n, a)
    BY <1>2 DEF Carries
  <2>2. \A b \in Action : got'[b].n = n /\ got'[b].tag = a /\ Credited(b)' => Carries(n, a)
    BY <1>4, <2>1 DEF Carries
  <2>3. \A i \in 1..Len(queue') : queue'[i].n = n /\ queue'[i].tag = a => Carries(n, a)
    BY <1>2 DEF Carries
  <2>. QED BY <1>1, <1>7, <2>2, <2>3 DEF Carries, Held
<1>8. TagInv'
  BY <1>1, <1>51, <1>7 DEF CreditInv, TagInv
<1>. QED BY <1>5, <1>52, <1>6, <1>8 DEF CreditInv

LEMMA CreditNext == TypeOK /\ CreditInv /\ [Next]_vars => CreditInv'
<1>. SUFFICES ASSUME TypeOK, CreditInv, [Next]_vars PROVE CreditInv'
  OBVIOUS
<1>. USE DEF SetPhase, clientVars, stepVars, subVars, tableVars, eventVars
<1>a. FutureInv /\ phase \in [Action -> Phase] /\ fut \in [Action -> FutState]
  BY DEF CreditInv, TypeOK
<1>1. ASSUME NEW a \in Action, LoopFree, Subscribe(a) PROVE CreditInv'
  <2>1. fut[a] = "absent"
    BY <1>1, <1>a DEF Subscribe, FutureInv
  <2>2. CASE Register(a) /\ phase' = [phase EXCEPT ![a] = "subscribing"]
    BY <1>1, <2>1, <2>2, RegisterStep DEF Subscribe, Registering
  <2>3. CASE /\ UNCHANGED <<calls, removed, subTs, ready, torn, fut, tableVars>>
             /\ phase' = [phase EXCEPT ![a] = "before"]
    BY <1>1, <1>a, <2>3, QuietStep DEF Subscribe, Registering
  <2>. QED BY <1>1, <2>2, <2>3 DEF Subscribe
<1>2. ASSUME NEW a \in Action, LoopFree, Expect(a) PROVE CreditInv'
  <2>1. fut[a] = "absent"
    BY <1>2 DEF Expect
  <2>2. CASE Register(a) /\ phase' = [phase EXCEPT ![a] = "expecting"]
    BY <1>2, <2>1, <2>2, RegisterStep DEF Expect, Registering
  <2>3. CASE /\ UNCHANGED <<calls, removed, subVars, fut, tableVars>>
             /\ phase' = [phase EXCEPT ![a] = "raised"]
    BY <1>2, <1>a, <2>3, QuietStep DEF Expect, Registering
  <2>. QED BY <1>2, <2>2, <2>3 DEF Expect
<1>3. ASSUME NEW a \in Action, RemoveNotification(a) PROVE CreditInv'
  BY <1>3, RemoveStep
<1>4. ASSUME NEW a \in Action, AddNotification(a) PROVE CreditInv'
  BY <1>4, AddStep
<1>5. ASSUME NEW a \in Action, Effect(a) PROVE CreditInv'
  BY <1>5, ChangeStep, ActionAssumption DEF Effect
<1>6. ASSUME NEW r \in Root, Stir(r) PROVE CreditInv'
  BY <1>6, ChangeStep DEF Stir
<1>7. ASSUME NEW x \in air, Deliver(x) PROVE CreditInv'
  BY <1>7, DeliverStep
<1>8. CASE Dispatch
  BY <1>8, DispatchStep
<1>9. ASSUME NEW a \in Action, Act(a) \/ Await(a) \/ Resume(a) \/ AwaitCancelled(a)
      PROVE CreditInv'
  BY <1>9, <1>a, QuietStep DEF Act, Await, Resume, AwaitCancelled, Registering
<1>10. ASSUME NEW a \in Action, Timeout(a) \/ CallerCancel(a) PROVE CreditInv'
  <2>1. \A b \in Action : fut'[b] = "absent" <=> fut[b] = "absent"
    BY <1>10, <1>a DEF Timeout, CallerCancel
  <2>. QED BY <1>10, <1>a, <2>1, QuietStep DEF Timeout, CallerCancel, Registering
<1>11. CASE Stop
  BY <1>11, <1>a, QuietStep DEF Stop
<1>12. CASE Tick
  <2>1. \A x \in air : now + 1 <= changes[x.n].at + MaxDelay
    <3>1. ASSUME NEW x \in air PROVE now + 1 <= changes[x.n].at + MaxDelay
      <4>1. x.n \in 1..Len(changes)
        BY DEF CreditInv, TravelInv
      <4>2. changes[x.n].at \in Nat
        BY <4>1, ChangeTyped
      <4>. QED BY <1>12, <4>2, TimeAssumption DEF Tick, TypeOK
    <3>. QED BY <3>1
  <2>2. \A n \in 1..Len(changes) : changes[n].at <= now + 1
    <3>1. now \in Nat
      BY DEF TypeOK
    <3>2. \A n \in 1..Len(changes) : changes[n].at \in Nat /\ changes[n].at <= now
      BY ChangeTyped DEF CreditInv, TravelInv
    <3>. QED BY <3>1, <3>2
  <2>3. TravelInv'
    <3>1. UNCHANGED <<subTs, got, changes, air, queue>> /\ now' = now + 1
      BY <1>12 DEF Tick
    <3>. QED BY <2>1, <2>2, <3>1 DEF CreditInv, TravelInv, Timely, Passes
  <2>4. TagInv' /\ SlotInv' /\ OneHolder'
    BY <1>12 DEF Tick, CreditInv, TagInv, SlotInv, OneHolder, Carries, Held, Settled
  <2>5. FutureInv'
    BY <1>12, <1>a DEF Tick, FutureInv, LoopFree, TypeOK
  <2>. QED BY <2>3, <2>4, <2>5 DEF CreditInv
<1>13. CASE UNCHANGED vars
  BY <1>13, <1>a, QuietStep DEF vars
<1>. QED
  BY <1>1, <1>2, <1>3, <1>4, <1>5, <1>6, <1>7, <1>8, <1>9, <1>10, <1>11, <1>12, <1>13
     DEF Next, OnLoop

(* Variables keep their types and the events their places, whatever the delays. *)
THEOREM CreditInvariant == Spec => [](TypeOK /\ CreditInv)
<1>1. Init => TypeOK /\ CreditInv
  BY TypeInit, CreditInit
<1>2. TypeOK /\ CreditInv /\ [Next]_vars => (TypeOK /\ CreditInv)'
  BY TypeNext, CreditNext
<1>. QED BY <1>1, <1>2, PTL DEF Spec

-----------------------------------------------------------------------------
(* What follows. *)

LEMMA FreshLemma == TypeOK /\ CreditInv => FreshCredit
<1>. SUFFICES ASSUME TypeOK, CreditInv, MaxDelay < Guard, NEW a \in Action, Credited(a)
              PROVE  changes[got[a].n].at > subTs[a]
  BY DEF FreshCredit
<1>1. Timely(got[a]) /\ Passes(got[a], a)
  BY DEF CreditInv, TravelInv
<1>2. changes[got[a].n].at \in Nat /\ subTs[a] \in Nat /\ got[a].ts \in Nat
  BY <1>1, ChangeTyped DEF Timely, TypeOK, Event
<1>3. /\ got[a].ts >= subTs[a] + Guard
      /\ got[a].ts <= changes[got[a].n].at + MaxDelay
  BY <1>1 DEF Timely, Passes
<1>. QED BY <1>2, <1>3, TimeAssumption

(* If notifications travel for less than the guard, no action is credited with
   a change from before its subscription. *)
THEOREM FreshCreditAlways == Spec => []FreshCredit
BY CreditInvariant, FreshLemma, PTL

LEMMA OnceLemma == TypeOK /\ CreditInv => CreditedOnce
<1>. SUFFICES ASSUME TypeOK, CreditInv, MaxDelay < Guard,
                     NEW a \in Action, NEW b \in Action,
                     Credited(a), Credited(b), got[a].n = got[b].n,
                     \A c \in {a, b} :
                       c \notin torn /\ changes[got[c].n].at \notin (subTs[c] + 1)..ready[c]
              PROVE  a = b
  BY DEF CreditedOnce
<1>. DEFINE n == got[a].n
<1>1. /\ Timely(got[a]) /\ got[a].tag = a
      /\ got[b].tag = b
  BY DEF CreditInv, TravelInv, Passes
<1>2. Carries(n, a) /\ Carries(n, b)
  BY <1>1 DEF Carries
<1>3. n \in 1..Len(changes)
  BY <1>1 DEF Timely
<1>4. ASSUME NEW c \in {a, b} PROVE Settled(c) /\ ready[c] < changes[n].at
  <2>1. changes[n].at > subTs[c]
    BY FreshLemma DEF FreshCredit
  <2>2. changes[n].at \in Nat /\ subTs[c] \in Nat /\ ready[c] \in Nat
    BY <1>3, ChangeTyped DEF TypeOK
  <2>3. changes[n].at \notin (subTs[c] + 1)..ready[c] /\ c \notin torn
    OBVIOUS
  <2>4. fut[c] # "absent"
    BY DEF CreditInv, FutureInv
  <2>. HIDE DEF n
  <2>. QED BY <2>1, <2>2, <2>3, <2>4 DEF Settled
<1>. HIDE DEF n
<1>. QED BY <1>2, <1>3, <1>4 DEF CreditInv, TagInv

(* Under the same condition no change is credited to two actions but in the
   middle of a subscription, or after one that left another's tag. *)
THEOREM CreditedOnceAlways == Spec => []CreditedOnce
BY CreditInvariant, OnceLemma, PTL

-----------------------------------------------------------------------------
(* The waiter table. *)

WaitersInv ==
  /\ WaitersExact
  /\ \A a \in Action :
       /\ phase[a] \in {"idle"} \cup Registering => fut[a] = "absent"
       /\ a \in waiters => fut[a] \in {"pending", "cancelled"}

LEMMA WaitersInit == Init => WaitersInv
BY DEF Init, WaitersInv, WaitersExact, Registering

LEMMA WaitersNext == TypeOK /\ WaitersInv /\ [Next]_vars => WaitersInv'
<1>. SUFFICES ASSUME TypeOK, WaitersInv, [Next]_vars PROVE WaitersInv'
  OBVIOUS
<1>. USE DEF SetPhase, clientVars, tableVars, WaitersInv, WaitersExact, Registering
<1>a. /\ phase \in [Action -> Phase] /\ fut \in [Action -> FutState]
      /\ waiters \subseteq Action
  BY DEF TypeOK
<1>1. ASSUME NEW a \in Action, Subscribe(a) \/ Expect(a) PROVE WaitersInv'
  <2>1. fut' = fut /\ waiters' = waiters
    BY <1>1 DEF Subscribe, Expect, Register
  <2>2. CASE Subscribe(a)
    <3>1. \E p \in {"before", "subscribing"} : phase' = [phase EXCEPT ![a] = p]
      BY <2>2 DEF Subscribe
    <3>. QED BY <1>a, <2>1, <2>2, <3>1 DEF Subscribe
  <2>3. CASE Expect(a)
    <3>1. \E p \in {"expecting", "raised"} : phase' = [phase EXCEPT ![a] = p]
      BY <2>3 DEF Expect
    <3>. QED BY <1>a, <2>1, <2>3, <3>1 DEF Expect
  <2>. QED BY <1>1, <2>2, <2>3
<1>2. ASSUME NEW a \in Action, Act(a) \/ Await(a) PROVE WaitersInv'
  BY <1>a, <1>2 DEF Act, Await
<1>3. ASSUME NEW a \in Action, Resume(a) \/ AwaitCancelled(a) PROVE WaitersInv'
  BY <1>a, <1>3 DEF Resume, AwaitCancelled
<1>4. ASSUME NEW a \in Action, Timeout(a) PROVE WaitersInv'
  BY <1>a, <1>4 DEF Timeout
<1>5. ASSUME NEW a \in Action, CallerCancel(a) PROVE WaitersInv'
  BY <1>a, <1>5 DEF CallerCancel
<1>6. CASE Dispatch
  BY <1>a, <1>6 DEF Dispatch
<1>7. CASE Stop
  BY <1>a, <1>7 DEF Stop
<1>8. CASE \/ Tick \/ (\E r \in Root : Stir(r)) \/ (\E x \in air : Deliver(x))
           \/ (\E a \in Action : Effect(a) \/ RemoveNotification(a))
  BY <1>8 DEF Tick, Stir, Deliver, Effect, RemoveNotification
<1>9. ASSUME NEW a \in Action, AddNotification(a) PROVE WaitersInv'
  <2>1. phase[a] \in Registering
    BY <1>9 DEF AddNotification
  <2>2. CASE UNCHANGED <<phase, fut, waiters>>
    BY <2>2
  <2>3. CASE /\ \E p \in {"before", "awaiting"} : phase' = [phase EXCEPT ![a] = p]
             /\ fut' = [fut EXCEPT ![a] = "pending"] /\ waiters' = waiters \cup {a}
    BY <1>a, <2>1, <2>3
  <2>. QED BY <1>9, <2>2, <2>3 DEF AddNotification
<1>10. CASE UNCHANGED vars
  BY <1>10 DEF vars
<1>. QED
  BY <1>1, <1>2, <1>3, <1>4, <1>5, <1>6, <1>7, <1>8, <1>9, <1>10 DEF Next, OnLoop

(* The table holds exactly those who wait, and leftovers of cancelled callers. *)
THEOREM WaitersExactAlways == Spec => []WaitersExact
<1>1. Init => TypeOK /\ CreditInv /\ WaitersInv
  BY TypeInit, CreditInit, WaitersInit
<1>2. TypeOK /\ CreditInv /\ WaitersInv /\ [Next]_vars
        => (TypeOK /\ CreditInv /\ WaitersInv)'
  BY TypeNext, CreditNext, WaitersNext
<1>3. WaitersInv => WaitersExact
  BY DEF WaitersInv
<1>. QED BY <1>1, <1>2, <1>3, PTL DEF Spec
-----------------------------------------------------------------------------
(* What an action does comes back in time. *)

(* An action that subscribed before it acted changes its own application, after
   the pause; and its tag travels only once it has registered something. *)
PauseInv ==
  \A n \in 1..Len(changes) : \A a \in Action :
    changes[n].by = a /\ a \notin late =>
      /\ changes[n].root = RootOf[a]
      /\ phase[a] \notin {"idle", "subscribing", "before"}
      /\ fut[a] # "absent" => subTs[a] + Warmup <= changes[n].at

ReadyInv ==
  \A a \in Action :
    /\ phase[a] = "expecting" => a \in late
    /\ phase[a] \in Registering => subTs[a] <= now
    /\ fut[a] # "absent" => subTs[a] <= ready[a]
    /\ a \notin late /\ phase[a] \in {"after", "awaiting"} /\ fut[a] # "absent" =>
         subTs[a] + Warmup <= now

Unseen(a) ==
  /\ \A r \in Root : ~Held(r, a)
  /\ \A x \in air : x.tag # a
  /\ \A i \in 1..Len(queue) : queue[i].tag # a

UnseenInv ==
  \A a \in Action : fut[a] = "absent" /\ phase[a] \notin Registering => Unseen(a)

OwnInv == PauseInv /\ ReadyInv /\ UnseenInv

LEMMA OwnInit == Init => OwnInv
BY ActionAssumption DEF Init, OwnInv, PauseInv, ReadyInv, UnseenInv, Unseen, Held, Registering

(* Nobody changes anything, begins to subscribe or gets a tag. *)
LEMMA OwnQuiet ==
  ASSUME TypeOK, OwnInv, ReadyInv', UNCHANGED <<subTs, late, changes, air>>,
         \A r \in Root, a \in Action : Held(r, a)' => Held(r, a),
         \A a \in Action :
           /\ fut'[a] = "absent" <=> fut[a] = "absent"
           /\ phase'[a] \in Registering <=> phase[a] \in Registering
           /\ phase'[a] \in {"idle", "subscribing", "before"} =>
                phase[a] \in {"idle", "subscribing", "before"},
         \A i \in 1..Len(queue') : \E j \in 1..Len(queue) : queue'[i] = queue[j]
  PROVE  OwnInv'
<1>1. PauseInv'
  BY DEF OwnInv, PauseInv
<1>2. \A a \in Action : Unseen(a) => Unseen(a)'
  BY DEF Unseen
<1>. QED BY <1>1, <1>2 DEF OwnInv, UnseenInv

LEMMA OwnRegister ==
  ASSUME TypeOK, CreditInv, OwnInv, NEW a \in Action, fut[a] = "absent", Register(a),
         UNCHANGED <<now, eventVars>>,
         \/ phase[a] = "idle" /\ phase' = [phase EXCEPT ![a] = "subscribing"] /\ late' = late
         \/ phase' = [phase EXCEPT ![a] = "expecting"] /\ late' = late \cup {a}
  PROVE  OwnInv'
<1>1. /\ subTs'[a] = now /\ UNCHANGED <<fut, ready, slot>>
      /\ \A b \in Action \ {a} : subTs'[b] = subTs[b] /\ phase'[b] = phase[b]
      /\ phase'[a] \in Registering /\ (phase[a] = "idle" \/ a \in late')
      /\ phase'[a] = "expecting" => a \in late'
      /\ \A b \in Action : b \in late => b \in late'
      /\ \A b \in Action \ {a} : b \in late' => b \in late
      /\ now \in Nat
  BY DEF TypeOK, Register, Registering
<1>2. PauseInv'
  BY <1>1 DEF OwnInv, PauseInv, eventVars
<1>3. ReadyInv'
  BY <1>1 DEF OwnInv, ReadyInv, Registering
<1>4. UnseenInv'
  BY <1>1 DEF OwnInv, UnseenInv, Unseen, Held, eventVars
<1>. QED BY <1>2, <1>3, <1>4 DEF OwnInv

LEMMA OwnAdd ==
  ASSUME TypeOK, CreditInv, OwnInv, NEW a \in Action, AddNotification(a)
  PROVE  OwnInv'
<1>1. /\ phase[a] \in Registering /\ fut[a] = "absent" /\ calls # <<>> /\ now \in Nat
      /\ UNCHANGED <<now, subTs, late, changes, air, queue>>
  BY DEF AddNotification, CreditInv, FutureInv, eventVars, TypeOK
<1>2. \/ UNCHANGED <<phase, ready, fut>>
      \/ /\ fut'[a] = "pending" /\ ready'[a] = now
         /\ phase'[a] = (IF phase[a] = "subscribing" THEN "before" ELSE "awaiting")
         /\ \A b \in Action \ {a} : phase'[b] = phase[b] /\ ready'[b] = ready[b] /\ fut'[b] = fut[b]
  BY DEF AddNotification, SetPhase, TypeOK
<1>3. \A r \in Root, b \in Action \ {a} : Held(r, b)' => Held(r, b)
  <2>1. Head(calls) \in Kind /\ RootOf[a] \in Root
    BY <1>1, CallKind, ActionAssumption
  <2>2. \A r \in Root, k \in Kind : slot'[r][k] = slot[r][k] \/ slot'[r][k] = a
    BY <2>1, SlotSet DEF AddNotification
  <2>. QED BY <2>2 DEF Held
<1>4. PauseInv'
  BY <1>1, <1>2 DEF OwnInv, PauseInv, ReadyInv, Registering
<1>5. ReadyInv'
  BY <1>1, <1>2 DEF OwnInv, ReadyInv, Registering
<1>6. UnseenInv'
  BY <1>1, <1>2, <1>3 DEF OwnInv, UnseenInv, Unseen
<1>. QED BY <1>4, <1>5, <1>6 DEF OwnInv

LEMMA OwnChange ==
  ASSUME TypeOK, OwnInv, NEW by \in Action \cup {App}, NEW r \in Root, Change(by, r),
         by \in Action => r = RootOf[by] /\ phase[by] \in {"after", "expecting", "awaiting"},
         UNCHANGED <<now, clientVars, tableVars, queue>>
  PROVE  OwnInv'
<1>. PICK new : new = Len(changes) + 1
  OBVIOUS
<1>0. UNCHANGED <<now, phase, subTs, ready, late, fut, slot, queue>>
  BY DEF clientVars, subVars, tableVars
<1>1. /\ Len(changes') = new
      /\ \A n \in 1..Len(changes) : changes'[n] = changes[n]
      /\ changes'[new] = [by |-> by, root |-> r, at |-> now]
      /\ Len(changes) \in Nat
  BY DEF TypeOK, Change
<1>2. PauseInv'
  <2>. SUFFICES ASSUME NEW n \in 1..Len(changes'), NEW a \in Action, changes'[n].by = a, a \notin late
                PROVE  /\ changes'[n].root = RootOf[a]
                       /\ phase[a] \notin {"idle", "subscribing", "before"}
                       /\ fut[a] # "absent" => subTs[a] + Warmup <= changes'[n].at
    BY <1>0 DEF PauseInv
  <2>1. CASE n = new
    BY <1>1, <2>1 DEF OwnInv, ReadyInv
  <2>2. CASE n \in 1..Len(changes)
    BY <1>1, <2>2 DEF OwnInv, PauseInv
  <2>. QED BY <1>1, <2>1, <2>2
<1>3. \A x \in air' : x \in air \/ Held(r, x.tag)
  <2>1. PICK kinds \in SUBSET {k \in Kind : slot[r][k] # None} :
          air' = air \cup {[n |-> Len(changes) + 1, kind |-> k, tag |-> slot[r][k]] :
                              k \in kinds}
    BY DEF Change
  <2>. QED BY <2>1 DEF Held
<1>4. \A a \in Action : Unseen(a) => Unseen(a)'
  BY <1>0, <1>3 DEF Unseen, Held
<1>5. ReadyInv' /\ UnseenInv'
  BY <1>0, <1>4 DEF OwnInv, ReadyInv, UnseenInv
<1>. QED BY <1>2, <1>5 DEF OwnInv

LEMMA OwnDeliver ==
  ASSUME TypeOK, CreditInv, OwnInv, NEW x \in air, Deliver(x)
  PROVE  OwnInv'
<1>1. PICK tag \in {x.tag, slot[changes[x.n].root][x.kind]} :
        queue' = Append(queue, [n |-> x.n, tag |-> tag, ts |-> now])
  BY DEF Deliver
<1>2. UNCHANGED <<now, phase, subTs, ready, late, fut, slot, changes>> /\ air' \subseteq air
  BY DEF Deliver, clientVars, subVars, tableVars
<1>3. \A i \in 1..Len(queue') :
        queue'[i].tag = tag \/ (i \in 1..Len(queue) /\ queue'[i] = queue[i])
  <2>. DEFINE e == [n |-> x.n, tag |-> tag, ts |-> now]
  <2>1. queue \in Seq(Event) /\ queue' = Append(queue, e)
    BY <1>1 DEF TypeOK
  <2>2. e.tag = tag
    OBVIOUS
  <2>. HIDE DEF e
  <2>3. \A i \in 1..Len(queue') : queue'[i] = e \/ (i \in 1..Len(queue) /\ queue'[i] = queue[i])
    BY <2>1
  <2>. QED BY <2>2, <2>3
<1>4. ASSUME NEW a \in Action, Unseen(a) PROVE Unseen(a)'
  <2>1. changes[x.n].root \in Root /\ x.kind \in Kind
    BY ChangeTyped DEF CreditInv, TravelInv, TypeOK, Notice
  <2>2. tag # a
    BY <1>1, <1>4, <2>1 DEF Unseen, Held
  <2>. QED BY <1>2, <1>3, <1>4, <2>2 DEF Unseen, Held
<1>5. PauseInv' /\ ReadyInv' /\ UnseenInv'
  BY <1>2, <1>4 DEF OwnInv, PauseInv, ReadyInv, UnseenInv
<1>. QED BY <1>5 DEF OwnInv

LEMMA OwnNext == TypeOK /\ CreditInv /\ OwnInv /\ [Next]_vars => OwnInv'
<1>. SUFFICES ASSUME TypeOK, CreditInv, OwnInv, [Next]_vars PROVE OwnInv'
  OBVIOUS
<1>. USE DEF clientVars, stepVars, subVars, tableVars, eventVars, SetPhase
<1>a. /\ FutureInv /\ fut \in [Action -> FutState] /\ phase \in [Action -> Phase]
      /\ now \in Nat /\ ready \in [Action -> Nat] /\ subTs \in [Action -> Nat] /\ ReadyInv
  BY DEF CreditInv, TypeOK, OwnInv
<1>1. ASSUME NEW a \in Action, Subscribe(a) PROVE OwnInv'
  <2>1. fut[a] = "absent"
    BY <1>1, <1>a DEF Subscribe, FutureInv
  <2>2. CASE Register(a) /\ phase' = [phase EXCEPT ![a] = "subscribing"]
    BY <1>1, <2>1, <2>2, OwnRegister DEF Subscribe
  <2>3. CASE /\ UNCHANGED <<calls, removed, subTs, ready, torn, fut, tableVars>>
             /\ phase' = [phase EXCEPT ![a] = "before"]
    <3>1. ReadyInv'
      BY <1>1, <1>a, <2>3 DEF Subscribe, ReadyInv, Registering
    <3>. QED BY <1>1, <1>a, <2>3, <3>1, OwnQuiet DEF Subscribe, Registering, Held
  <2>. QED BY <1>1, <2>2, <2>3 DEF Subscribe
<1>2. ASSUME NEW a \in Action, Expect(a) PROVE OwnInv'
  <2>1. fut[a] = "absent"
    BY <1>2 DEF Expect
  <2>2. CASE /\ Register(a) /\ phase' = [phase EXCEPT ![a] = "expecting"]
             /\ late' = late \cup {a}
    BY <1>2, <2>1, <2>2, OwnRegister DEF Expect
  <2>3. CASE /\ UNCHANGED <<calls, removed, subVars, fut, tableVars>>
             /\ phase' = [phase EXCEPT ![a] = "raised"]
    <3>1. ReadyInv'
      BY <1>2, <1>a, <2>3 DEF Expect, ReadyInv, Registering
    <3>. QED BY <1>2, <1>a, <2>3, <3>1, OwnQuiet DEF Expect, Registering, Held
  <2>. QED BY <1>2, <2>2, <2>3 DEF Expect
<1>3. ASSUME NEW a \in Action, RemoveNotification(a) PROVE OwnInv'
  <2>1. calls # <<>>
    BY <1>3, <1>a DEF RemoveNotification, FutureInv, LoopFree
  <2>2. \A r \in Root, k \in Kind : slot'[r][k] = slot[r][k] \/ slot'[r][k] = None
    BY <1>3, <2>1, CallKind, SlotSet, ActionAssumption DEF RemoveNotification
  <2>3. \A r \in Root, b \in Action : Held(r, b)' => Held(r, b)
    BY <2>2, ActionAssumption DEF Held
  <2>4. ReadyInv'
    BY <1>3, <1>a DEF RemoveNotification, ReadyInv
  <2>. QED BY <1>3, <2>3, <2>4, OwnQuiet DEF RemoveNotification
<1>4. ASSUME NEW a \in Action, AddNotification(a) PROVE OwnInv'
  BY <1>4, OwnAdd
<1>5. ASSUME NEW a \in Action, Effect(a) PROVE OwnInv'
  BY <1>5, OwnChange, ActionAssumption DEF Effect
<1>6. ASSUME NEW r \in Root, Stir(r) PROVE OwnInv'
  BY <1>6, OwnChange, ActionAssumption DEF Stir
<1>7. ASSUME NEW x \in air, Deliver(x) PROVE OwnInv'
  BY <1>7, OwnDeliver
<1>8. CASE Dispatch
  <2>1. \A i \in 1..Len(queue') : i + 1 \in 1..Len(queue) /\ queue'[i] = queue[i + 1]
    BY <1>8 DEF TypeOK, Dispatch
  <2>2. \A a \in Action : fut'[a] = "absent" <=> fut[a] = "absent"
    BY <1>8 DEF Dispatch
  <2>3. ReadyInv'
    BY <1>8, <1>a, <2>2 DEF Dispatch, ReadyInv
  <2>. QED BY <1>8, <2>1, <2>2, <2>3, OwnQuiet DEF Dispatch, Held
<1>9. ASSUME NEW a \in Action, Act(a) PROVE OwnInv'
  <2>1. ReadyInv'
    BY <1>9, <1>a, TimeAssumption DEF Act, ReadyInv, Registering
  <2>. QED BY <1>9, <1>a, <2>1, OwnQuiet DEF Act, Registering, Held
<1>10. ASSUME NEW a \in Action, Await(a) \/ Resume(a) \/ AwaitCancelled(a) PROVE OwnInv'
  <2>1. ReadyInv'
    BY <1>10, <1>a DEF Await, Resume, AwaitCancelled, ReadyInv, Registering
  <2>. QED BY <1>10, <1>a, <2>1, OwnQuiet DEF Await, Resume, AwaitCancelled, Registering, Held
<1>11. ASSUME NEW a \in Action, Timeout(a) \/ CallerCancel(a) PROVE OwnInv'
  <2>1. \A b \in Action : fut'[b] = "absent" <=> fut[b] = "absent"
    BY <1>11, <1>a DEF Timeout, CallerCancel
  <2>2. ReadyInv'
    BY <1>11, <1>a, <2>1 DEF Timeout, CallerCancel, ReadyInv, Registering
  <2>. QED BY <1>11, <1>a, <2>1, <2>2, OwnQuiet DEF Timeout, CallerCancel, Registering, Held
<1>12. CASE Stop
  <2>1. \A a \in Action : fut'[a] = "absent" <=> fut[a] = "absent"
    BY <1>12 DEF Stop
  <2>2. ReadyInv'
    BY <1>12, <1>a, <2>1 DEF Stop, ReadyInv
  <2>. QED BY <1>12, <2>1, <2>2, OwnQuiet DEF Stop, Held
<1>13. CASE Tick
  <2>1. ReadyInv'
    BY <1>13, <1>a, TimeAssumption DEF Tick, ReadyInv
  <2>. QED BY <1>13, <2>1, OwnQuiet DEF Tick, Held
<1>14. CASE UNCHANGED vars
  <2>1. ReadyInv'
    BY <1>14, <1>a DEF vars, ReadyInv
  <2>. QED BY <1>14, <2>1, OwnQuiet DEF vars, Held
<1>. QED
  BY <1>1, <1>2, <1>3, <1>4, <1>5, <1>6, <1>7, <1>8, <1>9, <1>10, <1>11, <1>12, <1>13, <1>14
     DEF Next, OnLoop

LEMMA SparingLemma == TypeOK /\ CreditInv /\ OwnInv => SparingInv
<1>. SUFFICES ASSUME TypeOK, CreditInv, OwnInv, Warmup >= Guard, NEW i \in 1..Len(queue),
                     queue[i].tag \in Action, queue[i].tag \notin late,
                     changes[queue[i].n].by = queue[i].tag
              PROVE  Passes(queue[i], queue[i].tag)
  BY DEF SparingInv, GuardSparesOwn
<1>. DEFINE e == queue[i]
            a == e.tag
<1>1. Timely(e) /\ e \in Event
  BY DEF CreditInv, TravelInv, TypeOK
<1>2. e.n \in 1..Len(changes)
  BY <1>1 DEF Timely
<1>3. /\ changes[e.n].root = RootOf[a]
      /\ phase[a] \notin {"idle", "subscribing", "before"}
      /\ fut[a] # "absent" => subTs[a] + Warmup <= changes[e.n].at
  BY <1>2 DEF OwnInv, PauseInv
<1>4. fut[a] # "absent"
  <2>1. phase[a] \notin Registering
    BY <1>3 DEF OwnInv, ReadyInv, Registering
  <2>. QED BY <2>1 DEF OwnInv, UnseenInv, Unseen
<1>5. changes[e.n].at \in Nat /\ subTs[a] \in Nat /\ e.ts \in Nat
  BY <1>1, <1>2, ChangeTyped DEF TypeOK, Event
<1>6. e.ts >= subTs[a] + Guard
  <2>1. changes[e.n].at <= e.ts
    BY <1>1 DEF Timely
  <2>. HIDE DEF e, a
  <2>. QED BY <1>3, <1>4, <1>5, <2>1, TimeAssumption
<1>. QED BY <1>3, <1>6 DEF Passes

(* With a pause as long as the guard, an action's own event that comes back with
   its tag passes its filter, whatever the delays and whoever else subscribes. *)
THEOREM SparingAlways == Spec => []SparingInv
<1>1. Init => TypeOK /\ CreditInv /\ OwnInv
  BY TypeInit, CreditInit, OwnInit
<1>2. TypeOK /\ CreditInv /\ OwnInv /\ [Next]_vars => (TypeOK /\ CreditInv /\ OwnInv)'
  BY TypeNext, CreditNext, OwnNext
<1>. QED BY <1>1, <1>2, SparingLemma, PTL DEF Spec

-----------------------------------------------------------------------------
(* The recorder. *)

(* What is made is behind what is under way, and nothing is missing. *)
UnderWay == ToSet(buffer) \cup ToSet(pending)

KeptInOrder ==
  /\ InSequence(recorded) /\ Ascending(buffer)
  /\ Below(Covered(recorded), UnderWay)
  /\ pending = <<>> \/ (buffer = <<>> /\ Len(pending) = 1)
  /\ Covered(recorded) \cup UnderWay = Deeds

(* Whatever is made goes to the consumer or, if it is letters, to the queue. *)
Delivered ==
  /\ Ascending(yielded)
  /\ ToSet(yielded) \cap ToSet(eventsQueue) = {}
  /\ ToSet(yielded) \cup ToSet(eventsQueue) = DOMAIN recorded
  /\ \A n \in ToSet(buffer) \cup Queued : n \in DOMAIN sent /\ sent[n] = "letter"

Made ==
  /\ source = "drained" => buffer = <<>> /\ pending = <<>>
  /\ recipe = NoRecipe \/ (source # "open" /\ recipe.steps = BuildRecipeSteps)

RecorderIInv ==
  RecorderTypes /\ Len(sent) <= MaxEvents /\ KeptInOrder /\ Delivered /\ Made

(* One more of anything. *)
LEMMA OneMore ==
  ASSUME NEW S, NEW s \in Seq(S), NEW x
  PROVE  /\ DOMAIN Append(s, x) = 1 .. Len(s) + 1 /\ DOMAIN s = 1 .. Len(s) /\ Len(s) \in Nat
         /\ Append(s, x)[Len(s) + 1] = x
         /\ \A i \in 1 .. Len(s) : Append(s, x)[i] = s[i] /\ s[i] \in S
         /\ ToSet(Append(s, x)) = ToSet(s) \cup {x}
<1> DEFINE a == Append(s, x)
<1>1. /\ DOMAIN a = 1 .. Len(s) + 1 /\ DOMAIN s = 1 .. Len(s) /\ Len(s) \in Nat
      /\ a[Len(s) + 1] = x
      /\ \A i \in 1 .. Len(s) : a[i] = s[i] /\ s[i] \in S
  OBVIOUS
<1> HIDE DEF a
<1>2. ToSet(a) = ToSet(s) \cup {x}
  BY <1>1 DEF ToSet
<1> QED BY <1>1, <1>2 DEF a

LEMMA AscendingMore ==
  ASSUME NEW S, NEW s \in Seq(S), Ascending(s), NEW n, \A m \in ToSet(s) : m < n
  PROVE  Ascending(Append(s, n))
<1> DEFINE a == Append(s, n)
<1>1. /\ DOMAIN a = 1 .. Len(s) + 1 /\ DOMAIN s = 1 .. Len(s) /\ Len(s) \in Nat
      /\ a[Len(s) + 1] = n /\ \A i \in 1 .. Len(s) : a[i] = s[i]
  BY OneMore
<1> HIDE DEF a
<1>2. \A i \in DOMAIN s : s[i] < n
  BY DEF ToSet
<1>3. Ascending(a)
  BY <1>1, <1>2 DEF Ascending
<1> QED BY <1>3 DEF a

LEMMA ListMore ==
  ASSUME NEW S, NEW list \in Seq(S), InSequence(list), NEW x, Ascending(x),
         Below(Covered(list), ToSet(x))
  PROVE  /\ InSequence(Append(list, x))
         /\ Covered(Append(list, x)) = Covered(list) \cup ToSet(x)
<1> DEFINE a == Append(list, x)
<1>1. /\ DOMAIN a = 1 .. Len(list) + 1 /\ DOMAIN list = 1 .. Len(list) /\ Len(list) \in Nat
      /\ a[Len(list) + 1] = x /\ \A i \in 1 .. Len(list) : a[i] = list[i]
  BY OneMore
<1> HIDE DEF a
<1>2. \A k \in DOMAIN list : Below(ToSet(list[k]), ToSet(x))
  BY DEF Below, Covered
<1>3. \A k \in DOMAIN a : Ascending(a[k])
  BY <1>1 DEF InSequence
<1>4. ASSUME NEW k \in DOMAIN a, NEW l \in DOMAIN a, k < l
      PROVE  Below(ToSet(a[k]), ToSet(a[l]))
  <2>1. k \in DOMAIN list /\ a[k] = list[k]
    BY <1>1, <1>4
  <2>2. CASE l = Len(list) + 1
    BY <1>1, <1>2, <2>1, <2>2
  <2>3. CASE l # Len(list) + 1
    BY <1>1, <1>4, <2>1, <2>3 DEF InSequence
  <2> QED BY <2>2, <2>3
<1>5. Covered(a) = Covered(list) \cup ToSet(x)
  BY <1>1 DEF Covered
<1> QED BY <1>3, <1>4, <1>5 DEF a, InSequence

(* What is made is more by the events of T, the queue has Q of it. *)
Grown(T, Q) ==
  /\ recorded' \in Seq(Texts) /\ InSequence(recorded')
  /\ Covered(recorded') = Covered(recorded) \cup T
  /\ yielded' \in Seq(DOMAIN recorded') /\ eventsQueue' \in Seq(DOMAIN recorded')
  /\ Ascending(yielded')
  /\ ToSet(yielded') \cap ToSet(eventsQueue') = {}
  /\ ToSet(yielded') \cup ToSet(eventsQueue') = DOMAIN recorded'
  /\ Queued' = Queued \cup Q

Ready(items) ==
  /\ items \in Texts /\ Ascending(items) /\ Below(Covered(recorded), ToSet(items))

LEMMA NothingGrows ==
  ASSUME RecorderIInv, UNCHANGED made
  PROVE  Grown({}, {})
BY DEF Grown, RecorderIInv, RecorderTypes, KeptInOrder, Delivered, made, Queued

LEMMA PlacesKept ==
  ASSUME RecorderIInv, NEW items \in Texts, recorded' = Append(recorded, items)
  PROVE  /\ recorded' \in Seq(Texts) /\ DOMAIN recorded' = DOMAIN recorded \cup {Len(recorded) + 1}
         /\ DOMAIN recorded = 1 .. Len(recorded) /\ Len(recorded) \in Nat
         /\ recorded'[Len(recorded) + 1] = items
         /\ \A k \in DOMAIN recorded : recorded'[k] = recorded[k]
         /\ \A s \in Seq(DOMAIN recorded) :
              /\ s \in Seq(DOMAIN recorded')
              /\ Append(s, Len(recorded) + 1) \in Seq(DOMAIN recorded')
<1>1. recorded \in Seq(Texts)
  BY DEF RecorderIInv, RecorderTypes
<1>2. /\ DOMAIN recorded' = 1 .. Len(recorded) + 1 /\ DOMAIN recorded = 1 .. Len(recorded)
      /\ Len(recorded) \in Nat
      /\ recorded'[Len(recorded) + 1] = items
      /\ \A k \in 1 .. Len(recorded) : recorded'[k] = recorded[k]
  BY <1>1, OneMore
<1>3. recorded' \in Seq(Texts)
  BY <1>1
<1>4. DOMAIN recorded' = DOMAIN recorded \cup {Len(recorded) + 1}
  BY <1>2
<1>5. ASSUME NEW s \in Seq(DOMAIN recorded)
      PROVE  s \in Seq(DOMAIN recorded') /\ Append(s, Len(recorded) + 1) \in Seq(DOMAIN recorded')
  BY <1>4, <1>5
<1> QED BY <1>2, <1>3, <1>4, <1>5

LEMMA YieldGrows ==
  ASSUME RecorderIInv, NEW items, Ready(items), Yield(items)
  PROVE  Grown(ToSet(items), {})
<1> DEFINE n == Len(recorded) + 1
<1>1. items \in Texts /\ recorded' = Append(recorded, items)
  BY DEF Ready, Yield
<1>2. /\ yielded \in Seq(DOMAIN recorded) /\ eventsQueue \in Seq(DOMAIN recorded)
      /\ recorded \in Seq(Texts)
  BY DEF RecorderIInv, RecorderTypes
<1>3. /\ recorded' \in Seq(Texts) /\ DOMAIN recorded' = DOMAIN recorded \cup {n}
      /\ yielded' \in Seq(DOMAIN recorded') /\ eventsQueue' \in Seq(DOMAIN recorded')
  BY <1>1, <1>2, PlacesKept DEF Yield
<1>4. InSequence(recorded') /\ Covered(recorded') = Covered(recorded) \cup ToSet(items)
  BY <1>1, <1>2, ListMore DEF Ready, RecorderIInv, KeptInOrder
<1>5. ToSet(yielded') = ToSet(yielded) \cup {n} /\ n \notin DOMAIN recorded
  BY <1>1, <1>2, OneMore, PlacesKept DEF Yield
<1>6. Ascending(yielded')
  <2>1. \A m \in ToSet(yielded) : m < n
    BY <1>1, <1>2, PlacesKept DEF ToSet
  <2> QED BY <1>2, <2>1, AscendingMore DEF RecorderIInv, Delivered, Yield
<1>7. Queued' = Queued
  BY <1>1, <1>2, PlacesKept DEF Queued, Yield
<1>8. /\ ToSet(yielded') \cap ToSet(eventsQueue') = {}
      /\ ToSet(yielded') \cup ToSet(eventsQueue') = DOMAIN recorded'
  BY <1>3, <1>5 DEF RecorderIInv, Delivered, Yield
<1> QED BY <1>3, <1>4, <1>6, <1>7, <1>8 DEF Grown

LEMMA EnqueueGrows ==
  ASSUME RecorderIInv, NEW items, Ready(items), Enqueue(items)
  PROVE  Grown(ToSet(items), ToSet(items))
<1> DEFINE n == Len(recorded) + 1
<1>1. items \in Texts /\ recorded' = Append(recorded, items)
  BY DEF Ready, Enqueue
<1>2. /\ yielded \in Seq(DOMAIN recorded) /\ eventsQueue \in Seq(DOMAIN recorded)
      /\ recorded \in Seq(Texts)
  BY DEF RecorderIInv, RecorderTypes
<1>3. /\ recorded' \in Seq(Texts) /\ DOMAIN recorded' = DOMAIN recorded \cup {n}
      /\ yielded' \in Seq(DOMAIN recorded') /\ eventsQueue' \in Seq(DOMAIN recorded')
  BY <1>1, <1>2, PlacesKept DEF Enqueue
<1>4. InSequence(recorded') /\ Covered(recorded') = Covered(recorded) \cup ToSet(items)
  BY <1>1, <1>2, ListMore DEF Ready, RecorderIInv, KeptInOrder
<1>5. ToSet(eventsQueue') = ToSet(eventsQueue) \cup {n} /\ n \notin DOMAIN recorded
  BY <1>1, <1>2, OneMore, PlacesKept DEF Enqueue
<1>6. Ascending(yielded')
  BY DEF RecorderIInv, Delivered, Enqueue
<1>7. Queued' = Queued \cup ToSet(items)
  <2>1. /\ DOMAIN eventsQueue' = DOMAIN eventsQueue \cup {Len(eventsQueue) + 1}
        /\ eventsQueue'[Len(eventsQueue) + 1] = n
        /\ \A i \in DOMAIN eventsQueue : /\ eventsQueue'[i] = eventsQueue[i]
                                         /\ eventsQueue[i] \in DOMAIN recorded
    BY <1>2, OneMore DEF Enqueue
  <2>2. recorded'[n] = items /\ \A k \in DOMAIN recorded : recorded'[k] = recorded[k]
    BY <1>1, PlacesKept
  <2> QED BY <2>1, <2>2 DEF Queued
<1>8. /\ ToSet(yielded') \cap ToSet(eventsQueue') = {}
      /\ ToSet(yielded') \cup ToSet(eventsQueue') = DOMAIN recorded'
  BY <1>3, <1>5 DEF RecorderIInv, Delivered, Enqueue
<1> QED BY <1>3, <1>4, <1>6, <1>7, <1>8 DEF Grown

(* A new event is later than all before. *)
LEMMA NewEvent ==
  ASSUME RecorderIInv, NEW kind, Read(kind)
  PROVE  /\ sent' \in Seq(Kinds) /\ Len(sent') <= MaxEvents /\ Next1 \in Positions
         /\ DOMAIN sent' = DOMAIN sent \cup {Next1} /\ Next1 \notin DOMAIN sent
         /\ sent'[Next1] = kind /\ \A i \in DOMAIN sent : sent'[i] = sent[i] /\ i < Next1
         /\ Deeds' = IF kind \in {"letter", "boundary", "click", "scroll"}
                     THEN Deeds \cup {Next1} ELSE Deeds
<1>1. sent \in Seq(Kinds) /\ kind \in Kinds /\ sent' = Append(sent, kind) /\ Len(sent) < MaxEvents
  BY DEF RecorderIInv, RecorderTypes, Read
<1>2. /\ DOMAIN sent' = 1 .. Len(sent) + 1 /\ DOMAIN sent = 1 .. Len(sent) /\ Len(sent) \in Nat
      /\ sent'[Len(sent) + 1] = kind /\ \A i \in 1 .. Len(sent) : sent'[i] = sent[i]
  BY <1>1, OneMore
<1>3. sent' \in Seq(Kinds) /\ Len(sent') = Len(sent) + 1
  BY <1>1
<1>4. Len(sent') <= MaxEvents /\ Next1 \in Positions
  BY <1>1, <1>2, <1>3, RecorderAssumption DEF Next1, Positions
<1>5. /\ DOMAIN sent' = DOMAIN sent \cup {Next1} /\ Next1 \notin DOMAIN sent
      /\ sent'[Next1] = kind /\ \A i \in DOMAIN sent : sent'[i] = sent[i] /\ i < Next1
  BY <1>2 DEF Next1
<1>6. Deeds' = IF kind \in {"letter", "boundary", "click", "scroll"}
               THEN Deeds \cup {Next1} ELSE Deeds
  BY <1>5 DEF Deeds
<1> QED BY <1>3, <1>4, <1>5, <1>6

(* Text that is yielded, if there is any. *)
LEMMA TextGrows ==
  ASSUME RecorderIInv, YieldText(<<>>)
  PROVE  Grown(ToSet(buffer), {})
<1>1. buffer \in Seq(Positions) /\ buffer \o <<>> = buffer
  BY DEF RecorderIInv, RecorderTypes
<1>2. CASE buffer = <<>>
  <2>1. UNCHANGED made /\ ToSet(buffer) = {}
    BY <1>1, <1>2 DEF YieldText, ToSet
  <2> QED BY <2>1, NothingGrows
<1>3. CASE buffer # <<>>
  <2>1. Yield(buffer)
    BY <1>1, <1>3 DEF YieldText
  <2>2. buffer \in Texts
    BY <1>1, <1>3 DEF Texts
  <2>3. Ascending(buffer) /\ Below(Covered(recorded), ToSet(buffer))
    BY DEF RecorderIInv, KeptInOrder, Below, UnderWay
  <2> QED BY <2>1, <2>2, <2>3, YieldGrows DEF Ready
<1> QED BY <1>2, <1>3

LEMMA BoundaryGrows ==
  ASSUME RecorderIInv, Read("boundary"), YieldText(<<Next1>>)
  PROVE  Grown(ToSet(buffer) \cup {Next1}, {})
<1> DEFINE text == Append(buffer, Next1)
<1>1. buffer \in Seq(Positions) /\ Next1 \in Positions /\ Positions \subseteq Nat
  BY NewEvent DEF RecorderIInv, RecorderTypes, Positions
<1>2. buffer \o <<Next1>> = text /\ text \in Seq(Positions) /\ text # <<>>
  BY <1>1
<1>3. ToSet(text) = ToSet(buffer) \cup {Next1}
  BY <1>1, OneMore
<1>4. \A m \in ToSet(buffer) \cup Covered(recorded) : m < Next1
  BY NewEvent DEF RecorderIInv, KeptInOrder, UnderWay, Deeds
<1>5. Ascending(text)
  BY <1>1, <1>4, AscendingMore DEF RecorderIInv, KeptInOrder
<1>6. Below(Covered(recorded), ToSet(text))
  BY <1>3, <1>4 DEF Below, RecorderIInv, KeptInOrder, UnderWay
<1>7. Ready(text) /\ Yield(text)
  <2>1. Yield(text)
    BY <1>2 DEF YieldText
  <2> QED BY <1>2, <1>5, <1>6, <2>1 DEF Ready, Texts
<1> QED BY <1>3, <1>7, YieldGrows

(* An event that is yielded alone. *)
LEMMA AloneGrows ==
  ASSUME RecorderIInv, NEW items \in Seq(Positions), Len(items) = 1, Yield(items),
         Below(Covered(recorded), ToSet(items))
  PROVE  Grown(ToSet(items), {})
<1>1. Ascending(items) /\ items # <<>>
  BY DEF Ascending
<1> QED BY <1>1, YieldGrows DEF Ready, Texts

(* What remains to be said of a step by which something is made, or nothing. *)
LEMMA StepKept ==
  ASSUME RecorderIInv, NEW T, NEW Q, Grown(T, Q),
         RecorderTypes', Len(sent') <= MaxEvents,
         Ascending(buffer'), Below(Covered(recorded) \cup T, UnderWay'),
         pending' = <<>> \/ (buffer' = <<>> /\ Len(pending') = 1),
         Covered(recorded) \cup T \cup UnderWay' = Deeds',
         \A n \in DOMAIN sent : n \in DOMAIN sent' /\ sent'[n] = sent[n],
         \A n \in ToSet(buffer') \cup Q : n \in DOMAIN sent' /\ sent'[n] = "letter",
         Made'
  PROVE  RecorderIInv'
<1>1. KeptInOrder'
  BY DEF KeptInOrder, Grown
<1>2. Delivered'
  BY DEF Delivered, Grown, RecorderIInv
<1> QED BY <1>1, <1>2 DEF RecorderIInv

(* While the source is open no recipe is made. *)
LEMMA MadeOpen ==
  ASSUME RecorderIInv, source = "open", recipe' = recipe, source' # "drained"
  PROVE  Made'
BY DEF RecorderIInv, Made

LEMMA NoneUnder == ToSet(<<>>) = {}
BY DEF ToSet

(* The recorder's steps. *)
LEMMA LetterKeeps ==
  ASSUME RecorderIInv, Letter
  PROVE  RecorderIInv'
<1>1. /\ Read("letter") /\ buffer' = Append(buffer, Next1) /\ UNCHANGED <<pending, made, timer>>
      /\ source = "open" /\ pending = <<>> /\ UNCHANGED <<mode, source, recipe>>
  BY DEF Letter, Read
<1>2. Grown({}, {})
  BY <1>1, NothingGrows
<1>3. /\ buffer \in Seq(Positions) /\ Next1 \in Positions /\ Positions \subseteq Nat
  BY <1>1, NewEvent DEF RecorderIInv, RecorderTypes, Positions
<1>4. ToSet(buffer') = ToSet(buffer) \cup {Next1} /\ buffer' \in Seq(Positions)
  BY <1>1, <1>3, OneMore
<1>5. \A m \in ToSet(buffer) \cup Covered(recorded) : m < Next1
  BY <1>1, NewEvent DEF RecorderIInv, KeptInOrder, UnderWay, Deeds
<1>6. Ascending(buffer')
  BY <1>1, <1>3, <1>5, AscendingMore DEF RecorderIInv, KeptInOrder
<1>7. /\ ToSet(pending) = {} /\ UnderWay' = UnderWay \cup {Next1}
  BY <1>1, <1>4, NoneUnder DEF UnderWay
<1>8. Below(Covered(recorded), UnderWay')
  BY <1>5, <1>7 DEF Below, RecorderIInv, KeptInOrder
<1>9. Covered(recorded) \cup UnderWay' = Deeds'
  BY <1>1, <1>7, NewEvent DEF RecorderIInv, KeptInOrder
<1>10. \A n \in ToSet(buffer') : n \in DOMAIN sent' /\ sent'[n] = "letter"
  BY <1>1, <1>4, NewEvent DEF RecorderIInv, Delivered
<1>11. RecorderTypes' /\ Len(sent') <= MaxEvents
  BY <1>1, <1>2, <1>4, NewEvent DEF RecorderIInv, RecorderTypes, Grown
<1>12. Made'
  BY <1>1, MadeOpen
<1> QED BY <1>1, <1>2, <1>6, <1>8, <1>9, <1>10, <1>11, <1>12, NewEvent, StepKept

LEMMA BoundaryKeeps ==
  ASSUME RecorderIInv, Boundary
  PROVE  RecorderIInv'
<1>1. /\ Read("boundary") /\ YieldText(<<Next1>>) /\ buffer' = <<>> /\ timer' \in BOOLEAN
      /\ pending' = <<>> /\ source = "open" /\ pending = <<>> /\ UNCHANGED <<mode, source, recipe>>
  BY DEF Boundary, Read, Flush, RecorderIInv, RecorderTypes
<1>2. Grown(ToSet(buffer) \cup {Next1}, {})
  BY <1>1, BoundaryGrows
<1>3. UnderWay' = {} /\ UnderWay = ToSet(buffer) /\ ToSet(buffer') = {}
  BY <1>1, NoneUnder DEF UnderWay
<1>4. Covered(recorded) \cup (ToSet(buffer) \cup {Next1}) \cup UnderWay' = Deeds'
  BY <1>1, <1>3, NewEvent DEF RecorderIInv, KeptInOrder
<1>5. RecorderTypes' /\ Len(sent') <= MaxEvents
  BY <1>1, <1>2, NewEvent DEF RecorderIInv, RecorderTypes, Grown
<1>6. Ascending(buffer') /\ Below(Covered(recorded) \cup (ToSet(buffer) \cup {Next1}), UnderWay')
  BY <1>1, <1>3 DEF Ascending, Below
<1>7. Made'
  BY <1>1, MadeOpen
<1> QED BY <1>1, <1>2, <1>3, <1>4, <1>5, <1>6, <1>7, NewEvent, StepKept

LEMMA GestureKeeps ==
  ASSUME RecorderIInv, Gesture
  PROVE  RecorderIInv'
<1>1. PICK kind \in {"click", "scroll"} : Read(kind)
  BY DEF Gesture
<1>2. /\ source = "open" /\ pending = <<>> /\ UNCHANGED <<mode, source, recipe>>
  BY <1>1 DEF Read
<1>3. /\ buffer \in Seq(Positions) /\ Next1 \in Positions /\ <<Next1>> \in Seq(Positions)
      /\ Len(<<Next1>>) = 1 /\ ToSet(<<Next1>>) = {Next1}
  BY <1>1, NewEvent DEF RecorderIInv, RecorderTypes, ToSet
<1>4. \A m \in ToSet(buffer) \cup Covered(recorded) : m < Next1
  BY <1>1, NewEvent DEF RecorderIInv, KeptInOrder, UnderWay, Deeds
<1>5. Deeds' = Deeds \cup {Next1} /\ Deeds = Covered(recorded) \cup ToSet(buffer)
  BY <1>1, <1>2, NewEvent, NoneUnder DEF RecorderIInv, KeptInOrder, UnderWay
<1>6. Made'
  BY <1>2, MadeOpen
<1>7. CASE buffer = <<>>
  <2>1. Yield(<<Next1>>) /\ UNCHANGED <<buffer, pending, timer>>
    BY <1>7 DEF Gesture
  <2>2. Grown({Next1}, {})
    BY <1>3, <1>4, <2>1, AloneGrows DEF Below
  <2>3. UnderWay' = {} /\ ToSet(buffer) = {} /\ ToSet(buffer') = {}
    BY <1>2, <1>7, <2>1, NoneUnder DEF UnderWay
  <2>4. RecorderTypes' /\ Len(sent') <= MaxEvents
    BY <1>1, <1>2, <2>1, <2>2, NewEvent DEF RecorderIInv, RecorderTypes, Grown
  <2>5. Ascending(buffer') /\ Below(Covered(recorded) \cup {Next1}, UnderWay')
    BY <2>1, <2>3 DEF Below, RecorderIInv, KeptInOrder
  <2> QED BY <1>1, <1>2, <1>5, <1>6, <2>1, <2>2, <2>3, <2>4, <2>5, NewEvent, StepKept
<1>8. CASE buffer # <<>>
  <2>1. /\ YieldText(<<>>) /\ buffer' = <<>> /\ pending' = <<Next1>> /\ timer' \in BOOLEAN
    BY <1>8 DEF Gesture, Flush, RecorderIInv, RecorderTypes
  <2>2. Grown(ToSet(buffer), {})
    BY <2>1, TextGrows
  <2>3. UnderWay' = {Next1} /\ ToSet(buffer') = {}
    BY <1>3, <2>1, NoneUnder DEF UnderWay
  <2>4. RecorderTypes' /\ Len(sent') <= MaxEvents
    BY <1>1, <1>2, <1>3, <2>1, <2>2, NewEvent DEF RecorderIInv, RecorderTypes, Grown
  <2>5. Ascending(buffer') /\ Below(Covered(recorded) \cup ToSet(buffer), UnderWay')
    BY <1>4, <2>1, <2>3 DEF Below, Ascending
  <2>6. pending' = <<>> \/ (buffer' = <<>> /\ Len(pending') = 1)
    BY <1>3, <2>1
  <2> QED BY <1>1, <1>5, <1>6, <2>2, <2>3, <2>4, <2>5, <2>6, NewEvent, StepKept
<1> QED BY <1>7, <1>8

LEMMA YieldGestureKeeps ==
  ASSUME RecorderIInv, YieldGesture
  PROVE  RecorderIInv'
<1>1. /\ source = "open" /\ pending # <<>> /\ Yield(pending) /\ pending' = <<>>
      /\ UNCHANGED <<mode, sent, buffer, timer, source, recipe>>
  BY DEF YieldGesture
<1>2. pending \in Seq(Positions) /\ Len(pending) = 1 /\ buffer = <<>>
  BY <1>1 DEF RecorderIInv, RecorderTypes, KeptInOrder
<1>3. Below(Covered(recorded), ToSet(pending))
  BY DEF RecorderIInv, KeptInOrder, Below, UnderWay
<1>4. Grown(ToSet(pending), {})
  BY <1>1, <1>2, <1>3, AloneGrows
<1>5. UnderWay' = {} /\ UnderWay = ToSet(pending) /\ ToSet(buffer') = {}
  BY <1>1, <1>2, NoneUnder DEF UnderWay
<1>6. Covered(recorded) \cup ToSet(pending) \cup UnderWay' = Deeds'
  BY <1>1, <1>5 DEF RecorderIInv, KeptInOrder, Deeds
<1>7. RecorderTypes' /\ Len(sent') <= MaxEvents
  BY <1>1, <1>4 DEF RecorderIInv, RecorderTypes, Grown
<1>8. Ascending(buffer') /\ Below(Covered(recorded) \cup ToSet(pending), UnderWay')
  BY <1>1, <1>2, <1>5 DEF Ascending, Below
<1>9. Made'
  BY <1>1, MadeOpen
<1> QED BY <1>1, <1>4, <1>5, <1>6, <1>7, <1>8, <1>9, StepKept

LEMMA TapReEnabledKeeps ==
  ASSUME RecorderIInv, TapReEnabled
  PROVE  RecorderIInv'
<1>1. /\ Read("tap_re_enabled") /\ YieldText(<<>>) /\ buffer' = <<>> /\ timer' \in BOOLEAN
      /\ pending' = <<>> /\ source = "open" /\ pending = <<>> /\ UNCHANGED <<mode, source, recipe>>
  BY DEF TapReEnabled, Read, Flush, RecorderIInv, RecorderTypes
<1>2. Grown(ToSet(buffer), {})
  BY <1>1, TextGrows
<1>3. UnderWay' = {} /\ UnderWay = ToSet(buffer) /\ ToSet(buffer') = {}
  BY <1>1, NoneUnder DEF UnderWay
<1>4. Covered(recorded) \cup ToSet(buffer) \cup UnderWay' = Deeds'
  BY <1>1, <1>3, NewEvent DEF RecorderIInv, KeptInOrder
<1>5. RecorderTypes' /\ Len(sent') <= MaxEvents
  BY <1>1, <1>2, NewEvent DEF RecorderIInv, RecorderTypes, Grown
<1>6. Ascending(buffer') /\ Below(Covered(recorded) \cup ToSet(buffer), UnderWay')
  BY <1>1, <1>3 DEF Ascending, Below
<1>7. Made'
  BY <1>1, MadeOpen
<1> QED BY <1>1, <1>2, <1>3, <1>4, <1>5, <1>6, <1>7, NewEvent, StepKept

LEMMA IgnoredKeeps ==
  ASSUME RecorderIInv, Ignored
  PROVE  RecorderIInv'
<1>1. /\ Read("ignored") /\ UNCHANGED <<buffer, pending, made, timer>>
      /\ source = "open" /\ UNCHANGED <<mode, source, recipe>>
  BY DEF Ignored, Read
<1>2. Grown({}, {})
  BY <1>1, NothingGrows
<1>3. UnderWay' = UnderWay /\ ToSet(buffer') = ToSet(buffer)
  BY <1>1 DEF UnderWay
<1>4. Covered(recorded) \cup UnderWay' = Deeds'
  BY <1>1, <1>3, NewEvent DEF RecorderIInv, KeptInOrder
<1>5. RecorderTypes' /\ Len(sent') <= MaxEvents
  BY <1>1, <1>2, NewEvent DEF RecorderIInv, RecorderTypes, Grown
<1>6. /\ Ascending(buffer') /\ Below(Covered(recorded), UnderWay')
      /\ pending' = <<>> \/ (buffer' = <<>> /\ Len(pending') = 1)
  BY <1>1, <1>3 DEF RecorderIInv, KeptInOrder
<1>7. \A n \in ToSet(buffer') : n \in DOMAIN sent' /\ sent'[n] = "letter"
  BY <1>1, <1>3, NewEvent DEF RecorderIInv, Delivered
<1>8. Made'
  BY <1>1, MadeOpen
<1> QED BY <1>1, <1>2, <1>4, <1>5, <1>6, <1>7, <1>8, NewEvent, StepKept

LEMMA TimerFlushKeeps ==
  ASSUME RecorderIInv, TimerFlush
  PROVE  RecorderIInv'
<1>1. /\ source = "open" /\ buffer # <<>> /\ Enqueue(buffer) /\ buffer' = <<>>
      /\ timer' \in BOOLEAN /\ UNCHANGED <<mode, sent, pending, source, recipe>>
  BY DEF TimerFlush
<1>2. Grown(ToSet(buffer), ToSet(buffer))
  <2>1. buffer \in Texts
    BY <1>1 DEF Texts, RecorderIInv, RecorderTypes
  <2>2. Ascending(buffer) /\ Below(Covered(recorded), ToSet(buffer))
    BY DEF RecorderIInv, KeptInOrder, Below, UnderWay
  <2> QED BY <1>1, <2>1, <2>2, EnqueueGrows DEF Ready
<1>3. pending' = <<>> /\ UnderWay' = {} /\ UnderWay = ToSet(buffer) /\ ToSet(buffer') = {}
  BY <1>1, NoneUnder DEF UnderWay, RecorderIInv, KeptInOrder
<1>4. Covered(recorded) \cup ToSet(buffer) \cup UnderWay' = Deeds'
  BY <1>1, <1>3 DEF RecorderIInv, KeptInOrder, Deeds
<1>5. RecorderTypes' /\ Len(sent') <= MaxEvents
  BY <1>1, <1>2 DEF RecorderIInv, RecorderTypes, Grown
<1>6. Ascending(buffer') /\ Below(Covered(recorded) \cup ToSet(buffer), UnderWay')
  BY <1>1, <1>3 DEF Ascending, Below
<1>7. \A n \in ToSet(buffer') \cup ToSet(buffer) : n \in DOMAIN sent' /\ sent'[n] = "letter"
  BY <1>1, <1>3 DEF RecorderIInv, Delivered
<1>8. Made'
  BY <1>1, MadeOpen
<1> QED BY <1>1, <1>2, <1>3, <1>4, <1>5, <1>6, <1>7, <1>8, StepKept

LEMMA DrainedKeeps ==
  ASSUME RecorderIInv, Drained
  PROVE  RecorderIInv'
<1>1. /\ source = "open" /\ pending = <<>> /\ source' = "drained" /\ buffer' = <<>>
      /\ YieldText(<<>>) /\ timer' = FALSE /\ UNCHANGED <<mode, sent, pending, recipe>>
  BY DEF Drained
<1>2. Grown(ToSet(buffer), {})
  BY <1>1, TextGrows
<1>3. UnderWay' = {} /\ UnderWay = ToSet(buffer) /\ ToSet(buffer') = {}
  BY <1>1, NoneUnder DEF UnderWay
<1>4. Covered(recorded) \cup ToSet(buffer) \cup UnderWay' = Deeds'
  BY <1>1, <1>3 DEF RecorderIInv, KeptInOrder, Deeds
<1>5. RecorderTypes' /\ Len(sent') <= MaxEvents
  BY <1>1, <1>2 DEF RecorderIInv, RecorderTypes, Grown, Closed
<1>6. Ascending(buffer') /\ Below(Covered(recorded) \cup ToSet(buffer), UnderWay')
  BY <1>1, <1>3 DEF Ascending, Below
<1>7. Made'
  BY <1>1 DEF RecorderIInv, Made
<1> QED BY <1>1, <1>2, <1>3, <1>4, <1>5, <1>6, <1>7, StepKept

LEMMA CloseKeeps ==
  ASSUME RecorderIInv, Close
  PROVE  RecorderIInv'
<1>1. /\ source = "open" /\ source' = "closed" /\ timer' = FALSE
      /\ UNCHANGED <<mode, sent, buffer, pending, made, recipe>>
  BY DEF Close
<1>2. RecorderTypes'
  BY <1>1 DEF made, RecorderIInv, RecorderTypes, Closed
<1>3. KeptInOrder'
  BY <1>1 DEF made, RecorderIInv, KeptInOrder, UnderWay, Deeds
<1>4. Delivered'
  BY <1>1 DEF made, RecorderIInv, Delivered, Queued
<1>5. Made'
  BY <1>1, MadeOpen
<1> QED BY <1>1, <1>2, <1>3, <1>4, <1>5 DEF RecorderIInv

LEMMA SynthesizeKeeps ==
  ASSUME RecorderIInv, Synthesize
  PROVE  RecorderIInv'
<1>1. /\ source \in Closed /\ recipe' = [steps |-> BuildRecipeSteps, params |-> ExtractParams]
      /\ UNCHANGED <<mode, sent, buffer, pending, made, timer, source>>
  BY DEF Synthesize
<1>2. yielded \in Seq(DOMAIN recorded) /\ recorded \in Seq(Texts)
  BY DEF RecorderIInv, RecorderTypes
<1>3. DOMAIN yielded = 1 .. Len(yielded) /\ Len(yielded) \in Nat
  BY <1>2
<1>4. BuildRecipeSteps \in Seq(Texts)
  <2>1. \A i \in 1 .. Len(yielded) : recorded[yielded[i]] \in Texts
    BY <1>2, <1>3
  <2> QED BY <1>3, <2>1 DEF BuildRecipeSteps
<1>5. ExtractParams \in Seq({"email_address", "password"})
  <2> DEFINE texts == {k \in DOMAIN yielded : IsText(recorded[yielded[k]])}
  <2>1. IsFiniteSet(texts)
    <3>1. IsFiniteSet(1 .. Len(yielded)) /\ texts \subseteq 1 .. Len(yielded)
      BY <1>3, FS_Interval
    <3> QED BY <3>1, FS_Subset
  <2>2. Cardinality(texts) \in Nat
    BY <2>1, FS_CardinalityType
  <2> QED BY <2>2 DEF ExtractParams
<1>6. RecorderTypes'
  <2>1. recipe' \in [steps : Seq(Texts), params : Seq({"email_address", "password"})]
    BY <1>1, <1>4, <1>5
  <2> QED BY <1>1, <2>1 DEF made, RecorderIInv, RecorderTypes
<1>7. KeptInOrder' /\ Delivered'
  BY <1>1 DEF made, RecorderIInv, KeptInOrder, Delivered, UnderWay, Deeds, Queued
<1>8. Made'
  BY <1>1 DEF made, RecorderIInv, Made, Closed, BuildRecipeSteps
<1> QED BY <1>1, <1>6, <1>7, <1>8 DEF RecorderIInv

LEMMA RecorderStarts == RecorderInit => RecorderIInv
<1> SUFFICES ASSUME RecorderInit PROVE RecorderIInv
  OBVIOUS
<1>1. RecorderTypes /\ Len(sent) <= MaxEvents
  BY RecorderAssumption DEF RecorderInit, RecorderTypes, NoRecipe
<1>2. UnderWay = {} /\ Covered(recorded) = {} /\ Deeds = {} /\ ToSet(buffer) = {} /\ Queued = {}
      /\ ToSet(yielded) = {} /\ ToSet(eventsQueue) = {} /\ DOMAIN recorded = {}
  BY NoneUnder DEF RecorderInit, UnderWay, Covered, Deeds, Queued
<1>3. KeptInOrder /\ Delivered
  BY <1>2 DEF RecorderInit, KeptInOrder, Delivered, InSequence, Ascending, Below
<1>4. Made
  BY DEF RecorderInit, Made
<1> QED BY <1>1, <1>3, <1>4 DEF RecorderIInv

LEMMA RecorderSteps == RecorderIInv /\ [RecorderNext]_recorderVars => RecorderIInv'
<1> SUFFICES ASSUME RecorderIInv, [RecorderNext]_recorderVars PROVE RecorderIInv'
  OBVIOUS
<1>1. CASE Letter
  BY <1>1, LetterKeeps
<1>2. CASE Boundary
  BY <1>2, BoundaryKeeps
<1>3. CASE Gesture
  BY <1>3, GestureKeeps
<1>4. CASE YieldGesture
  BY <1>4, YieldGestureKeeps
<1>5. CASE TapReEnabled
  BY <1>5, TapReEnabledKeeps
<1>6. CASE Ignored
  BY <1>6, IgnoredKeeps
<1>7. CASE TimerFlush
  BY <1>7, TimerFlushKeeps
<1>8. CASE Drained
  BY <1>8, DrainedKeeps
<1>9. CASE Close
  BY <1>9, CloseKeeps
<1>10. CASE Synthesize
  BY <1>10, SynthesizeKeeps
<1>11. CASE UNCHANGED recorderVars
  <2>1. RecorderTypes' /\ Made' /\ Len(sent') <= MaxEvents
    BY <1>11 DEF recorderVars, made, RecorderIInv, RecorderTypes, Made, BuildRecipeSteps
  <2>2. KeptInOrder' /\ Delivered'
    BY <1>11 DEF recorderVars, made, RecorderIInv, KeptInOrder, Delivered, UnderWay, Deeds, Queued
  <2> QED BY <2>1, <2>2 DEF RecorderIInv
<1> QED BY <1>1, <1>2, <1>3, <1>4, <1>5, <1>6, <1>7, <1>8, <1>9, <1>10, <1>11 DEF RecorderNext

(* A list whose items are picked in ascending order from one in sequence. *)
LEMMA StepsInSequence ==
  ASSUME RecorderIInv
  PROVE  /\ InSequence(BuildRecipeSteps)
         /\ Covered(BuildRecipeSteps) = Covered(recorded) \ Queued
<1>1. /\ yielded \in Seq(DOMAIN recorded) /\ eventsQueue \in Seq(DOMAIN recorded)
      /\ recorded \in Seq(Texts)
  BY DEF RecorderIInv, RecorderTypes
<1>2. \A i \in DOMAIN yielded : yielded[i] \in DOMAIN recorded
  BY <1>1
<1>3. \A i \in DOMAIN eventsQueue : eventsQueue[i] \in DOMAIN recorded
  BY <1>1
<1>4. InSequence(BuildRecipeSteps)
  BY <1>2 DEF BuildRecipeSteps, InSequence, RecorderIInv, KeptInOrder, Delivered, Ascending
<1>5. \A k, l \in DOMAIN recorded : k # l => ToSet(recorded[k]) \cap ToSet(recorded[l]) = {}
  <2>1. \A k \in DOMAIN recorded : ToSet(recorded[k]) \subseteq Nat
    <3>1. \A k \in DOMAIN recorded : recorded[k] \in Seq(Positions)
      BY <1>1 DEF Texts
    <3>2. Positions \subseteq Nat
      BY DEF Positions
    <3>3. ASSUME NEW s \in Seq(Positions) PROVE ToSet(s) \subseteq Positions
      BY DEF ToSet
    <3> QED BY <3>1, <3>2, <3>3
  <2>2. DOMAIN recorded \subseteq Nat
    BY <1>1
  <2>3. \A k, l \in DOMAIN recorded : k < l => ToSet(recorded[k]) \cap ToSet(recorded[l]) = {}
    BY <2>1 DEF InSequence, Below, RecorderIInv, KeptInOrder
  <2> QED BY <2>2, <2>3
<1>6. \A k \in DOMAIN recorded :
        (\E i \in DOMAIN yielded : yielded[i] = k) <=> ~\E i \in DOMAIN eventsQueue : eventsQueue[i] = k
  BY DEF RecorderIInv, Delivered, ToSet
<1>7. Covered(BuildRecipeSteps) = UNION {ToSet(recorded[yielded[i]]) : i \in DOMAIN yielded}
  BY DEF BuildRecipeSteps, Covered
<1> QED BY <1>2, <1>3, <1>4, <1>5, <1>6, <1>7 DEF Covered, Queued

LEMMA RecordingHolds == RecorderIInv => RecordingInv
<1> SUFFICES ASSUME RecorderIInv PROVE RecordingInv
  OBVIOUS
<1>1. InOrder
  <2> DEFINE some == Append(recorded, buffer)
             all == Append(some, pending)
  <2>1. recorded \in Seq(Texts) /\ buffer \in Seq(Positions) /\ pending \in Seq(Positions)
    BY DEF RecorderIInv, RecorderTypes
  <2>2. InSequence(some) /\ Covered(some) = Covered(recorded) \cup ToSet(buffer)
    <3>1. Below(Covered(recorded), ToSet(buffer))
      BY DEF RecorderIInv, KeptInOrder, Below, UnderWay
    <3> QED BY <2>1, <3>1, ListMore DEF RecorderIInv, KeptInOrder
  <2>3. some \in Seq(Seq(Positions))
    BY <2>1 DEF Texts
  <2>4. Ascending(pending)
    BY <2>1 DEF RecorderIInv, KeptInOrder, Ascending
  <2>5. Below(Covered(some), ToSet(pending))
    BY <2>2, NoneUnder DEF RecorderIInv, KeptInOrder, Below, UnderWay
  <2> HIDE DEF some
  <2>6. InSequence(all) /\ Covered(all) = Covered(some) \cup ToSet(pending)
    BY <2>3, <2>2, <2>4, <2>5, ListMore
  <2>7. Covered(all) = Deeds
    BY <2>2, <2>6 DEF RecorderIInv, KeptInOrder, UnderWay
  <2> QED BY <2>6, <2>7 DEF InOrder, some
<1>2. HolesArePauses
  <2> SUFFICES ASSUME recipe # NoRecipe, source = "drained"
               PROVE  /\ InSequence(recipe.steps) /\ Covered(recipe.steps) = Deeds \ Queued
                      /\ \A n \in Queued : sent[n] = "letter"
    BY DEF HolesArePauses
  <2>1. recipe.steps = BuildRecipeSteps /\ UnderWay = {}
    BY NoneUnder DEF RecorderIInv, Made, UnderWay
  <2> QED BY <2>1, StepsInSequence DEF RecorderIInv, KeptInOrder, Delivered
<1> QED BY <1>1, <1>2 DEF RecordingInv, RecorderIInv

(* For any number of events and however the timer was started: the recording
   has what the user did, in order and each thing once, and a recipe has that
   but for the letters that a pause sent to the queue. *)
THEOREM RecordingAlways == RecorderSpec => []RecordingInv
BY RecorderStarts, RecorderSteps, RecordingHolds, PTL DEF RecorderSpec
=============================================================================
