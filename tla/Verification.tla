---------------------------- MODULE Verification ----------------------------
(***************************************************************************)
(* From finding a target to the verdict on the action: T1's resolution     *)
(* (translators/t1_ax.py), the cheap snapshot taken before the action      *)
(* (verifier/ensemble/l1_cheap.py), the action itself, and the ladder of   *)
(* Aggregator.verify (verifier/aggregator.py): push notifications and the  *)
(* cheap diff side by side, the weighted vote, the medium layer, and the   *)
(* language model that is not there yet.                                   *)
(*                                                                         *)
(* The desktop is a number per aspect that a layer looks at: the title of  *)
(* each window, the pixels around the target, the pasteboard's change      *)
(* count, the browser's last event; values, focus and the tree are         *)
(* notified or walked.  Calls and everybody else change it, and what a     *)
(* call changes shows when it does.  Confidence is a fraction <<n, d>>,       *)
(* weights are in tenths and signals in thirds, which is exact for what    *)
(* the code computes in floats; none of the sums reached lies within a     *)
(* rounding error of a threshold.                                          *)
(***************************************************************************)
EXTENDS AXWalk

CONSTANTS
  Window,      \* windows on the screen
  LabelOf,     \* the label of each element
  Plans,       \* what the calls are, per call: see Plan
  Foreign,     \* the sets of aspects that others may change
  Titles,      \* of a window; one of them stands for no window
  Pictures,    \* hashes of the pixels, by the bits that set them apart
  MaxUpsets,   \* bound on what others change and take, and on failed captures
  MaxPolls,    \* polls of the CDP event ring
  NotYet, Failed

Settled == {"absent", "verified", "unverified", "unavailable", "raised"}
Mode == {"race", "proxy", "demo", "ladder"}
Class == {"click", "type", "scroll", "set_value", "other"}
Aspect == Window \cup {"pb", "roi", "nav", "value", "focus", "tree"}
Heard == {"value", "focus"}

(***************************************************************************)
(* The four ways verify is used: by the race orchestrator, by the proxy,   *)
(* by the demo, which acts while verify runs, and as its documentation     *)
(* describes it, with a medium snapshot taken before the action.  cdp      *)
(* tells whether a daemon is attached to the application, expects whether  *)
(* the caller names the text to appear, label what the target is called,   *)
(* effects are the sets of aspects the action may change.                  *)
(***************************************************************************)
Plan ==
  [mode : Mode, class : Class, cdp : BOOLEAN, expects : BOOLEAN, label : STRING,
   effects : SUBSET (SUBSET Aspect)]

(* What the cheap layer says, in thirds. *)
Cheap == [win : 0 .. 3, pb : 0 .. 3, roi : 0 .. 3, nav : 0 .. 3]

ASSUME PlanAssumption ==
  /\ Plans \subseteq [Call -> Plan \cup {Null}]
  /\ Foreign \subseteq SUBSET Aspect
  /\ Titles \subseteq Nat /\ Pictures \subseteq Nat
  /\ 0 \in Titles \cap Pictures
  /\ IsFiniteSet(Window)
  /\ Window \cap {"pb", "roi", "nav", "value", "focus", "tree"} = {}
  /\ MaxUpsets \in Nat /\ MaxPolls \in Nat \ {0}

ASSUME SentinelAssumption ==
  /\ NotYet # Failed
  /\ {NotYet, Failed} \cap (Nat \cup [Window -> Nat]) = {}
  /\ Null \notin Plan \cup Cheap

VARIABLES
  plan,     \* the calls' plans
  pc,       \* where each call is
  handle,   \* the element a call acts on, Null without one
  shot,     \* the cheap snapshot being taken
  before,   \* the one taken before the action
  l0,       \* the future of the notifications
  l1,       \* the cheap signals, in thirds, Null before they are there
  polls,    \* polls of the event ring made
  text,     \* the recognised text being taken
  medium,   \* the medium snapshot taken before the action
  conf,     \* the confidence
  lifted,   \* history: the confidence before the medium layer raised it
  fault,    \* history: captures that failed on one side, pixels alike
  ver,      \* titles, pictures and counts of the desktop's aspects
  moved,    \* history: aspects that changed since the call subscribed
  acted,    \* the aspects the action changes, Null before it
  due,      \* those that do not show yet
  shown,    \* history: those that showed when the check for them looked
  upsets    \* changes and tokens taken by others, and captures that failed

callVars == <<plan, pc, handle>>
cheapVars == <<shot, before, l1, polls>>
mediumVars == <<text, medium>>
voteVars == <<conf, lifted, fault>>
actVars == <<acted, due, shown>>
deskVars == <<ver, moved, upsets>>
verificationVars ==
  <<walkVars, callVars, cheapVars, l0, mediumVars, voteVars, deskVars, actVars>>

EmptyShot == [win |-> NotYet, pb |-> NotYet, roi |-> NotYet]
NoFault == [uneven |-> FALSE, faint |-> FALSE]

-----------------------------------------------------------------------------
(* Resolution. *)

(* The elements read that carry the label; one that is gone reads as blank. *)
Matches(c) ==
  {i \in DOMAIN walk[c].out :
     walk[c].out[i].alive /\ LabelOf[walk[c].out[i].node] = plan[c].label}

(* ensure_real_window, and the walk from the window it returns. *)
FindWindow(c) ==
  /\ pc[c] = "idle" /\ plan[c].mode = "race"
  /\ \/ pc' = [pc EXCEPT ![c] = "walk"]
        /\ walk' = [walk EXCEPT ![c] = NewWalk("T1")]
     \/ pc' = [pc EXCEPT ![c] = "ready"] /\ UNCHANGED walk
  /\ UNCHANGED <<kids, tokens, granted, now, plan, handle, cheapVars, l0, mediumVars,
                 voteVars, deskVars, actVars>>

(* The other callers bring their target; only the ladder's and the demo's
   have an element. *)
BringTarget(c) ==
  /\ pc[c] = "idle" /\ plan[c].mode # "race"
  /\ pc' = [pc EXCEPT ![c] = "ready"]
  /\ handle' = [handle EXCEPT ![c] =
       IF plan[c].mode = "proxy" THEN Null ELSE Root]
  /\ UNCHANGED <<walkVars, plan, cheapVars, l0, mediumVars, voteVars, deskVars,
                 actVars>>

(* _match_locator; without a match another translator makes the target. *)
Locate(c) ==
  /\ pc[c] = "walk" /\ Done(walk[c])
  /\ IF Matches(c) = {}
     THEN pc' = [pc EXCEPT ![c] = "ready"] /\ UNCHANGED handle
     ELSE \E i \in Matches(c) :
            /\ \A j \in Matches(c) : i <= j
            /\ handle' = [handle EXCEPT ![c] = walk[c].out[i].node]
            /\ pc' = [pc EXCEPT ![c] = "probe"]
  /\ walk' = [walk EXCEPT ![c] = Null]
  /\ UNCHANGED <<kids, tokens, granted, now, plan, cheapVars, l0, mediumVars, voteVars,
                 deskVars, actVars>>

(* validate, once at the end of resolve and once by the orchestrator. *)
Probe(c) ==
  /\ pc[c] \in {"probe", "again"}
  /\ \/ /\ Refuse("validate")
        /\ handle' = [handle EXCEPT ![c] = Null]
        /\ pc' = [pc EXCEPT ![c] = "ready"]
     \/ /\ Acquire("validate")
        /\ handle' = [handle EXCEPT ![c] = IF Alive(@) THEN @ ELSE Null]
        /\ pc' = [pc EXCEPT ![c] =
             IF @ = "probe" /\ Alive(handle[c]) THEN "again" ELSE "ready"]
  /\ UNCHANGED <<kids, walk, now, plan, cheapVars, l0, mediumVars, voteVars, deskVars,
                 actVars>>

(* subscribe_pending, where a caller subscribes ahead; it may fail, and the
   proxy and the demo leave it to verify. *)
Subscribe(c) ==
  /\ pc[c] = "ready"
  /\ \/ plan[c].mode \in {"race", "ladder"} /\ l0' = [l0 EXCEPT ![c] = "open"]
     \/ plan[c].mode # "ladder" /\ UNCHANGED l0
  /\ moved' = [moved EXCEPT ![c] = {}]
  /\ pc' = [pc EXCEPT ![c] = "before"]
  /\ UNCHANGED <<walkVars, plan, handle, cheapVars, mediumVars, voteVars, ver, upsets,
                 actVars>>

-----------------------------------------------------------------------------
(* The cheap snapshot: three threads, each reading when it does. *)

(* What the action changed and shows. *)
Showing(c) == IF acted[c] = Null THEN {} ELSE acted[c] \ due[c]

(* Once before the action, and once after it. *)
Capturing(c) == pc[c] = "before" \/ (pc[c] = "after" /\ l1[c] = Null)

(* A capture has what there is, or fails. *)
Capture(fails) ==
  /\ \/ ~fails /\ UNCHANGED upsets
     \/ fails /\ upsets < MaxUpsets /\ upsets' = upsets + 1
  /\ UNCHANGED <<ver, moved>>

TakeWindows(c) ==
  /\ Capturing(c) /\ shot[c].win = NotYet
  /\ \E fails \in BOOLEAN :
       /\ Capture(fails)
       /\ shot' = [shot EXCEPT ![c].win =
                    IF fails THEN Failed ELSE [w \in Window |-> ver[w]]]
  /\ UNCHANGED <<walkVars, callVars, before, l1, polls, l0, mediumVars, voteVars, actVars>>

(* What of the action shows now, if this is a look after it. *)
Looked(c, x) ==
  shown' = [shown EXCEPT ![c] =
    IF pc[c] = "after" /\ x \in Showing(c) THEN @ \cup {x} ELSE @]

(* A change count that cannot be read is 0; a real one is not. *)
TakeBoard(c) ==
  /\ Capturing(c) /\ shot[c].pb = NotYet
  /\ \E fails \in BOOLEAN :
       /\ Capture(fails)
       /\ shot' = [shot EXCEPT ![c].pb = IF fails THEN 0 ELSE 1 + ver["pb"]]
  /\ UNCHANGED <<walkVars, callVars, before, l1, polls, l0, mediumVars, voteVars, actVars>>

TakePixels(c) ==
  /\ Capturing(c) /\ shot[c].roi = NotYet
  /\ \E fails \in BOOLEAN :
       /\ Capture(fails)
       /\ shot' = [shot EXCEPT ![c].roi = IF fails THEN Failed ELSE ver["roi"]]
  /\ Looked(c, "roi")
  /\ UNCHANGED <<walkVars, callVars, before, l1, polls, l0, mediumVars, voteVars, acted, due>>

Taken(c) == shot[c].win # NotYet /\ shot[c].pb # NotYet /\ shot[c].roi # NotYet

(* The snapshot ends with the baseline of the event ring.  The demo's verify
   starts before it acts; the ladder takes the medium snapshot too. *)
BeforeDone(c) ==
  /\ pc[c] = "before" /\ Taken(c)
  /\ before' = [before EXCEPT ![c] =
       [win |-> shot[c].win, pb |-> shot[c].pb, roi |-> shot[c].roi, base |-> ver["nav"]]]
  /\ shot' = [shot EXCEPT ![c] = EmptyShot]
  /\ IF plan[c].mode = "ladder"
     THEN /\ pc' = [pc EXCEPT ![c] = "before2"]
          /\ walk' = [walk EXCEPT ![c] = NewWalk("L2")]
     ELSE /\ pc' = [pc EXCEPT ![c] = IF plan[c].mode = "demo" THEN "after" ELSE "fire"]
          /\ UNCHANGED walk
  /\ UNCHANGED <<kids, tokens, granted, now, plan, handle, l1, polls, l0, mediumVars,
                 voteVars, deskVars, actVars>>

(* _capture_ocr, beside the walk; text that cannot be recognised is empty. *)
Recognise(c) ==
  /\ pc[c] \in {"before2", "l2"} /\ text[c] = NotYet
  /\ \E fails \in BOOLEAN :
       /\ Capture(fails)
       /\ text' = [text EXCEPT ![c] = IF fails THEN Failed ELSE ver["roi"]]
  /\ UNCHANGED <<walkVars, callVars, cheapVars, l0, medium, voteVars, actVars>>

MediumTaken(c) == text[c] # NotYet /\ Done(walk[c])
Snapshot2(c) ==
  [text |-> text[c], nodes |-> Len(walk[c].out), truncated |-> Truncated(walk[c])]

MediumDone(c) ==
  /\ pc[c] = "before2" /\ MediumTaken(c)
  /\ medium' = [medium EXCEPT ![c] = Snapshot2(c)]
  /\ text' = [text EXCEPT ![c] = NotYet]
  /\ walk' = [walk EXCEPT ![c] = Null]
  /\ pc' = [pc EXCEPT ![c] = "fire"]
  /\ UNCHANGED <<kids, tokens, granted, now, plan, handle, cheapVars, l0, voteVars,
                 deskVars, actVars>>

-----------------------------------------------------------------------------
(* The desktop. *)

Seeing == {"before", "before2", "fire", "after", "l2", "verdict"}

(* The aspects in S change, windows and pixels perhaps back to what they were;
   whoever subscribed hears of the first it can. *)
Changed(S) ==
  /\ \E look \in [S \cap (Window \cup {"roi"}) -> Titles \cup Pictures] :
       /\ \A x \in DOMAIN look :
            look[x] \in (IF x = "roi" THEN Pictures ELSE Titles) \ {ver[x]}
       /\ ver' = [x \in Aspect |->
                   IF x \in DOMAIN look THEN look[x]
                   ELSE IF x \in S \cap {"pb", "nav"} THEN ver[x] + 1 ELSE ver[x]]
  /\ moved' = [c \in Call |-> IF pc[c] \in Seeing THEN moved[c] \cup S ELSE moved[c]]
  /\ \E n \in Heard :
       /\ S \cap Heard # {} => n \in S
       /\ l0' = [c \in Call |-> IF l0[c] = "open" /\ n \in S THEN n ELSE l0[c]]
  /\ IF "tree" \in S THEN \E shape \in Shapes \ {kids} : Reshape(shape)
     ELSE UNCHANGED <<kids, walk>>
  /\ UNCHANGED <<tokens, granted, now, plan, handle, cheapVars, mediumVars, voteVars>>

(* The channel acts: before verify, or in the demo while it runs. *)
Act(c) ==
  /\ plan[c] # Null
  /\ \/ pc[c] = "fire" /\ pc' = [pc EXCEPT ![c] = "after"]
     \/ /\ plan[c].mode = "demo" /\ acted[c] = Null
        /\ pc[c] \in {"after", "verdict"} \cup Settled
        /\ UNCHANGED pc
  /\ \E S \in plan[c].effects :
       /\ acted' = [acted EXCEPT ![c] = S]
       /\ due' = [due EXCEPT ![c] = S]
  /\ UNCHANGED <<walkVars, plan, handle, cheapVars, l0, mediumVars, voteVars, deskVars, shown>>

(* An effect of the action shows: at once, while verify looks, after its last
   look, or never. *)
Show(c) ==
  /\ \E x \in due[c] :
       /\ Changed({x})
       /\ due' = [due EXCEPT ![c] = @ \ {x}]
  /\ UNCHANGED <<pc, acted, shown, upsets>>

(* Calls elsewhere take tokens of the same buckets. *)
Compete ==
  /\ upsets < MaxUpsets
  /\ upsets' = upsets + 1
  /\ \E b \in Bucket : Acquire(b)
  /\ UNCHANGED <<kids, walk, now, callVars, cheapVars, l0, mediumVars, voteVars, ver, moved,
                 actVars>>

(* The user, or the application of its own accord. *)
Other ==
  /\ upsets < MaxUpsets
  /\ upsets' = upsets + 1
  /\ \E S \in Foreign : Changed(S)
  /\ UNCHANGED <<pc, actVars>>

-----------------------------------------------------------------------------
(* The ladder: push notifications and the cheap diff side by side. *)

(* L0Push.collect without a future: it subscribes now, which may fail. *)
Expect(c) ==
  /\ pc[c] = "after" /\ l0[c] = "none"
  /\ l0' = [l0 EXCEPT ![c] = "open"] \/ l0' = [l0 EXCEPT ![c] = "raised"]
  /\ UNCHANGED <<walkVars, callVars, cheapVars, mediumVars, voteVars, deskVars,
                 actVars>>

Silence(c) ==
  /\ pc[c] = "after" /\ l0[c] = "open"
  /\ l0' = [l0 EXCEPT ![c] = "silent"]
  /\ UNCHANGED <<walkVars, callVars, cheapVars, mediumVars, voteVars, deskVars,
                 actVars>>

(* Windows added, removed or renamed: a list that cannot be read is empty. *)
WindowsChanged(old, new) ==
  IF old = Failed \/ new = Failed
  THEN IF old = new THEN 0 ELSE Cardinality(Window)
  ELSE Cardinality({w \in Window : old[w] # new[w]})

DHASH_THRESHOLD_BITS == 5

(* Both pictures were taken, and are more than the threshold apart. *)
Unlike(old, new) ==
  /\ Failed \notin {old, new}
  /\ (IF old > new THEN old - new ELSE new - old) > DHASH_THRESHOLD_BITS

(* The diff of two snapshots, in thirds; the event ring is read after it. *)
CheapSignals(old, new) ==
  LET n == WindowsChanged(old.win, new.win)
  IN  [win |-> IF n > 3 THEN 3 ELSE n,
       pb |-> IF old.pb # new.pb THEN 3 ELSE 0,
       roi |-> IF Unlike(old.roi, new.roi) THEN 3 ELSE 0,
       nav |-> 0]

(* An application without a daemon is not polled. *)
Diff(c) ==
  /\ pc[c] = "after" /\ l1[c] = Null /\ Taken(c)
  /\ l1' = [l1 EXCEPT ![c] = CheapSignals(before[c], shot[c])]
  /\ polls' = [polls EXCEPT ![c] = IF plan[c].cdp THEN 0 ELSE MaxPolls]
  /\ shot' = [shot EXCEPT ![c] = EmptyShot]
  /\ fault' = [fault EXCEPT ![c] =
       [uneven |-> \/ (before[c].win = Failed) # (shot[c].win = Failed)
                  \/ (before[c].pb = 0) # (shot[c].pb = 0),
        faint |-> ~Unlike(before[c].roi, shot[c].roi)]]
  /\ UNCHANGED <<walkVars, callVars, before, l0, mediumVars, conf, lifted, deskVars,
                 actVars>>

(* An event younger than the baseline of the snapshot. *)
NavSince(c) == ver["nav"] > before[c].base

(* _cdp_event_signal: ten looks at the ring, a tenth of a second apart; what
   comes after the last is not seen. *)
Poll(c) ==
  /\ pc[c] = "after" /\ l1[c] # Null /\ polls[c] < MaxPolls
  /\ IF NavSince(c)
     THEN /\ l1' = [l1 EXCEPT ![c].nav = 3]
          /\ polls' = [polls EXCEPT ![c] = MaxPolls]
     ELSE polls' = [polls EXCEPT ![c] = @ + 1] /\ UNCHANGED l1
  /\ Looked(c, "nav")
  /\ UNCHANGED <<walkVars, callVars, shot, before, l0, mediumVars, voteVars, deskVars,
                 acted, due>>

(* WEIGHTS, in tenths, for the signals that some layer can produce; what a
   class does not list does not weigh. *)
Signals == {"value", "focus", "win", "pb", "roi", "nav"}

Weights ==
  [click |-> [value |-> 6, focus |-> 4, win |-> 3, pb |-> 0, roi |-> 3, nav |-> 7],
   type |-> [value |-> 8, focus |-> 0, win |-> 0, pb |-> 1, roi |-> 0, nav |-> 5],
   scroll |-> [value |-> 0, focus |-> 0, win |-> 5, pb |-> 0, roi |-> 4, nav |-> 4],
   set_value |-> [value |-> 9, focus |-> 0, win |-> 0, pb |-> 0, roi |-> 0, nav |-> 5],
   other |-> [value |-> 0, focus |-> 0, win |-> 0, pb |-> 0, roi |-> 0, nav |-> 0]]

(* What the layers saw of a call, in thirds. *)
Signal(c) ==
  [s \in Signals |->
     IF s \in Heard THEN IF l0[c] = s THEN 3 ELSE 0 ELSE l1[c][s]]

Sum(f) == f["value"] + f["focus"] + f["win"] + f["pb"] + f["roi"] + f["nav"]
Total(f, W) == Sum([s \in Signals |-> f[s] * W[s]])

(* Variant of Mean: the weights of absent signals count as well. *)
MeanDiluted(f, W) ==
  IF Total(f, W) = 0 THEN <<0, 1>> ELSE <<Total(f, W), 3 * Sum(W)>>

(* aggregate: the mean of the signals present, by weight; nothing present,
   or a class without weights, gives 0. *)
Mean(f, W) ==
  LET present == [s \in Signals |-> IF f[s] > 0 THEN 1 ELSE 0]
  IN  IF Total(present, W) = 0 THEN <<0, 1>>
      ELSE <<Total(f, W), 3 * Total(present, W)>>

Vote(c) == Mean(Signal(c), Weights[plan[c].class])

Verified(q) == 2 * q[1] >= q[2]         \* VERIFIED_THRESHOLD, 0.50
BelowL3(q) == 10 * q[1] < 3 * q[2]      \* L3_ESCALATE_THRESHOLD, 0.30

(* Variant of Pushed: only a notification ends the wait for one. *)
PushedHeard(c) == l0[c] \in Heard

(* collect has an event or has timed out. *)
Pushed(c) == l0[c] \in Heard \cup {"silent"}

(* The task group ends with both layers, and the vote is taken. *)
Aggregate(c) ==
  /\ pc[c] = "after" /\ Pushed(c)
  /\ l1[c] # Null /\ polls[c] = MaxPolls
  /\ conf' = [conf EXCEPT ![c] = Vote(c)]
  /\ IF ~Verified(Vote(c)) /\ plan[c].mode = "ladder" /\ handle[c] # Null
     THEN /\ pc' = [pc EXCEPT ![c] = "l2"]
          /\ walk' = [walk EXCEPT ![c] = NewWalk("L2")]
     ELSE pc' = [pc EXCEPT ![c] = "verdict"] /\ UNCHANGED walk
  /\ UNCHANGED <<kids, tokens, granted, now, plan, handle, cheapVars, l0, mediumVars,
                 lifted, fault, deskVars, actVars>>

-----------------------------------------------------------------------------
(* The medium layer. *)

(* Variant of Boost: a partial view is trusted like a whole one. *)
BoostTrusting(old, new, expected) ==
  LET delta == IF old.nodes > new.nodes THEN old.nodes - new.nodes ELSE new.nodes - old.nodes
      base == IF old.nodes = 0 THEN 1 ELSE old.nodes
      text2 == old.text # Failed /\ new.text # Failed /\ old.text # new.text
  IN  IF expected \/ text2 \/ old.truncated \/ new.truncated \/ delta >= base THEN <<1, 1>>
      ELSE <<delta, base>>

(* The largest of the medium signals.  The flag of a truncated walk is one
   of them, at full strength, before it halves the largest. *)
Boost(old, new, expected) ==
  LET delta == IF old.nodes > new.nodes THEN old.nodes - new.nodes ELSE new.nodes - old.nodes
      base == IF old.nodes = 0 THEN 1 ELSE old.nodes
      read == old.text # Failed /\ new.text # Failed /\ old.text # new.text
  IN  IF old.truncated \/ new.truncated THEN <<1, 2>>
      ELSE IF expected \/ read \/ delta >= base THEN <<1, 1>>
      ELSE <<delta, base>>

(* A fifth of the boost is added, up to certainty. *)
Raised(q, b) ==
  LET n == 5 * q[1] * b[2] + b[1] * q[2]
      d == 5 * q[2] * b[2]
  IN  IF n > d THEN <<1, 1>> ELSE <<n, d>>

(* Text that was expected may be found in what was recognised. *)
Escalate(c) ==
  /\ pc[c] = "l2" /\ MediumTaken(c)
  /\ \E expected \in {FALSE, plan[c].expects /\ text[c] # Failed} :
       conf' = [conf EXCEPT ![c] = Raised(@, Boost(medium[c], Snapshot2(c), expected))]
  /\ lifted' = [lifted EXCEPT ![c] =
       [from |-> conf[c], truncated |-> medium[c].truncated \/ Truncated(walk[c])]]
  /\ text' = [text EXCEPT ![c] = NotYet]
  /\ walk' = [walk EXCEPT ![c] = Null]
  /\ pc' = [pc EXCEPT ![c] = "verdict"]
  /\ UNCHANGED <<kids, tokens, granted, now, plan, handle, cheapVars, l0, medium, fault,
                 deskVars, actVars>>

(* The call's own data is gone when verify returns or raises. *)
Forget(c) ==
  /\ handle' = [handle EXCEPT ![c] = Null]
  /\ shot' = [shot EXCEPT ![c] = EmptyShot]
  /\ before' = [before EXCEPT ![c] = Null]
  /\ l0' = [l0 EXCEPT ![c] = "none"]
  /\ l1' = [l1 EXCEPT ![c] = Null]
  /\ polls' = [polls EXCEPT ![c] = 0]
  /\ medium' = [medium EXCEPT ![c] = Null]
  /\ conf' = [conf EXCEPT ![c] = <<0, 1>>]
  /\ lifted' = [lifted EXCEPT ![c] = Null]
  /\ fault' = [fault EXCEPT ![c] = NoFault]
  /\ moved' = [moved EXCEPT ![c] = {}]
  /\ shown' = [shown EXCEPT ![c] = {}]
  /\ UNCHANGED <<walkVars, plan, text, ver, upsets, due>>

(* Below 0.30 the model is asked, which raises NotImplementedError: the
   verdict is what it was. *)
Verdict(c) ==
  /\ pc[c] = "verdict"
  /\ pc' = [pc EXCEPT ![c] =
       IF Verified(conf[c]) THEN "verified"
       ELSE IF BelowL3(conf[c]) THEN "unavailable" ELSE "unverified"]
  /\ acted' = [acted EXCEPT ![c] = IF plan[c].mode = "demo" THEN @ ELSE Null]
  /\ Forget(c)

(* An observer that cannot subscribe ends verify with its exception. *)
Raise(c) ==
  /\ pc[c] = "after" /\ l0[c] = "raised"
  /\ pc' = [pc EXCEPT ![c] = "raised"]
  /\ acted' = [acted EXCEPT ![c] = IF plan[c].mode = "demo" THEN @ ELSE Null]
  /\ Forget(c)

-----------------------------------------------------------------------------

VerificationInit ==
  /\ WalkInit
  /\ plan \in Plans
  /\ pc = [c \in Call |-> IF plan[c] = Null THEN "absent" ELSE "idle"]
  /\ handle = [c \in Call |-> Null]
  /\ shot = [c \in Call |-> EmptyShot]
  /\ before = [c \in Call |-> Null]
  /\ l0 = [c \in Call |-> "none"]
  /\ l1 = [c \in Call |-> Null]
  /\ polls = [c \in Call |-> 0]
  /\ text = [c \in Call |-> NotYet]
  /\ medium = [c \in Call |-> Null]
  /\ conf = [c \in Call |-> <<0, 1>>]
  /\ lifted = [c \in Call |-> Null]
  /\ fault = [c \in Call |-> NoFault]
  /\ ver = [x \in Aspect |-> 0]
  /\ moved = [c \in Call |-> {}]
  /\ acted = [c \in Call |-> Null]
  /\ due = [c \in Call |-> {}]
  /\ shown = [c \in Call |-> {}]
  /\ upsets = 0

Resolving(c) == FindWindow(c) \/ BringTarget(c) \/ Locate(c) \/ Probe(c) \/ Subscribe(c)
Snapping(c) ==
  \/ TakeWindows(c) \/ TakeBoard(c) \/ TakePixels(c) \/ BeforeDone(c)
  \/ Recognise(c) \/ MediumDone(c)
Deciding(c) ==
  \/ Expect(c) \/ Silence(c) \/ Diff(c) \/ Poll(c) \/ Aggregate(c) \/ Raise(c)
  \/ Escalate(c) \/ Verdict(c)

Walking(c) ==
  /\ ReadNode(c) \/ ReadKids(c)
  /\ UNCHANGED <<callVars, cheapVars, l0, mediumVars, voteVars, deskVars, actVars>>

Passing ==
  /\ Tick
  /\ UNCHANGED <<callVars, cheapVars, l0, mediumVars, voteVars, deskVars, actVars>>

(* Nothing is left to do, or to count. *)
Ended == (\A c \in Call : pc[c] \in Settled) /\ UNCHANGED verificationVars

VerificationNext ==
  \/ \E c \in Call :
       Resolving(c) \/ Snapping(c) \/ Act(c) \/ Show(c) \/ Deciding(c) \/ Walking(c)
  \/ Other \/ Compete \/ Passing \/ Ended

VerificationSpec == VerificationInit /\ [][VerificationNext]_verificationVars

(* Threads return, timeouts expire and the loop runs every ready task. *)
VerificationFairness ==
  \A c \in Call :
    WF_verificationVars(Resolving(c) \/ Snapping(c) \/ Act(c) \/ Deciding(c) \/ Walking(c))

FairVerification == VerificationSpec /\ VerificationFairness

-----------------------------------------------------------------------------

VerificationTypeOK ==
  /\ plan \in Plans
  /\ pc \in [Call -> {"idle", "walk", "probe", "again", "ready", "before", "before2",
                      "fire", "after", "l2", "verdict"} \cup Settled]
  /\ handle \in [Call -> Node \cup {Null}]
  /\ l0 \in [Call -> {"none", "open", "silent", "raised"} \cup Heard]
  /\ \A c \in Call : l1[c] = Null \/ l1[c] \in Cheap
  /\ polls \in [Call -> 0 .. MaxPolls]
  /\ \A c \in Call : conf[c][1] \in Nat /\ conf[c][2] \in Nat \ {0} /\ conf[c][1] <= conf[c][2]
  /\ ver \in [Aspect -> Nat]
  /\ upsets \in 0 .. MaxUpsets
  /\ \A b \in Bucket : tokens[b] \in 0 .. Capacity[b]

(* The desktop's aspects that a signal is about. *)
AspectsOf(s) == IF s = "win" THEN Window ELSE {s} \cap Aspect

(* What the verdict is going to be. *)
Approved(c) == pc[c] = "verdict" /\ Verified(conf[c])

(***************************************************************************)
(* Nothing is verified that nobody saw: when a call is verified, an aspect *)
(* its class gives weight has changed since it subscribed, unless a window *)
(* list or a change count could be read on one side of the action only.    *)
(* Old events of the ring, late notifications and the boost of the medium  *)
(* layer are not enough.                                                   *)
(***************************************************************************)
EvidenceIsReal ==
  \A c \in Call :
    Approved(c) =>
      \/ fault[c].uneven
      \/ \E s \in Signals :
           Weights[plan[c].class][s] > 0 /\ AspectsOf(s) \cap moved[c] # {}

(* What showed of the action and counts for its class as a sign that it
   worked.  A changed pasteboard counts for typing only, where it is a sign of
   the contrary. *)
Telling(c) ==
  {x \in shown[c] :
     /\ Weights[plan[c].class][x] > 0
     /\ x = "roi" => ~fault[c].faint}

(***************************************************************************)
(* An effect of the action that showed when the check for it looked, the   *)
(* pixels and the browser's events, is neither lost on the way nor         *)
(* outvoted by what else was seen: the call is verified, if the action     *)
(* came before verify.  What the ladder misses came after the last look,   *)
(* or left the pixels within the threshold.                                *)
(***************************************************************************)
OwnEffectSeen ==
  \A c \in Call :
    pc[c] = "verdict" /\ plan[c].mode # "demo" /\ Telling(c) # {} => Approved(c)

(***************************************************************************)
(* The medium layer only tips a verdict that the first two layers left     *)
(* undecided, and never from a truncated walk, though the flag of the      *)
(* truncation is itself among the signals whose largest is the boost.      *)
(***************************************************************************)
MediumOnlyTips ==
  \A c \in Call :
    Approved(c) /\ lifted[c] # Null =>
      ~BelowL3(lifted[c].from) /\ ~lifted[c].truncated

(* A verdict stands on evidence: what changed, and what the medium layer may
   add to it. *)
VerdictInv == VerificationTypeOK /\ EvidenceIsReal /\ MediumOnlyTips

(* Every call comes to a verdict or raises: no layer waits for an event that
   never comes, a token or a page. *)
EveryCallEnds == <>(\A c \in Call : pc[c] \in Settled)
=============================================================================
