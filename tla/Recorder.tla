------------------------------ MODULE Recorder ------------------------------
(***************************************************************************)
(* LearningRecorder and its KeystrokeCoalescer (basicctrl/learning/): what *)
(* becomes of the user's keys and clicks on their way into a recording,    *)
(* and of the recording in RecipeSynthesizer.                              *)
(*                                                                         *)
(* Letters are collected in a buffer.  A word boundary, a click or a       *)
(* scroll flushes it into the recording; the timer, a task of its own,     *)
(* flushes it after a silence into events_queue, which nothing reads.  The *)
(* recorder is a generator: between two yields its consumer runs, and may  *)
(* close it.                                                               *)
(***************************************************************************)
EXTENDS Naturals, Sequences, FiniteSets, SequencesExt

CONSTANTS
  Kinds,        \* kinds of events the tap sends
  MaxEvents,    \* bound on the events explored
  Modes         \* how the timer is started

EventKind == {"letter", "boundary", "click", "scroll", "tap_re_enabled", "ignored"}

(* The recorder runs start_timer as a task of its own; start_timer_task has
   the coalescer hold the task. *)
TimerMode == {"own_task", "held_task"}

ASSUME RecorderAssumption ==
  /\ Kinds \subseteq EventKind
  /\ MaxEvents \in Nat
  /\ Modes \subseteq TimerMode

VARIABLES
  mode,       \* how the timer was started
  sent,       \* the kinds of the events read so far
  buffer,     \* letters not flushed, as positions in sent
  pending,    \* the gesture to be yielded after the text before it
  recorded,   \* the observed actions made, in the order of step_idx
  yielded,    \* the places in recorded of those the consumer got
  eventsQueue, \* of those in events_queue
  timer,      \* is the timer's task alive
  source,     \* "open", or how reading ended
  recipe      \* the steps and parameters synthesized, once it did

made == <<recorded, yielded, eventsQueue>>
recorderVars == <<mode, sent, buffer, pending, made, timer, source, recipe>>

Closed == {"drained", "closed"}
NoRecipe == [steps |-> <<>>, params |-> <<>>]

RecorderInit ==
  /\ mode \in Modes
  /\ sent = <<>> /\ buffer = <<>> /\ pending = <<>>
  /\ recorded = <<>> /\ yielded = <<>> /\ eventsQueue = <<>>
  /\ timer = TRUE
  /\ source = "open"
  /\ recipe = NoRecipe

-----------------------------------------------------------------------------
(* _make_observed_action takes the next step_idx; the consumer appends what
   is yielded to its list. *)
Yield(items) ==
  /\ recorded' = Append(recorded, items)
  /\ yielded' = Append(yielded, Len(recorded) + 1)
  /\ UNCHANGED eventsQueue

(* _emit_coalesced_keystroke. *)
Enqueue(items) ==
  /\ recorded' = Append(recorded, items)
  /\ eventsQueue' = Append(eventsQueue, Len(recorded) + 1)
  /\ UNCHANGED yielded

(* What _flush_impl returns, with text appended, is yielded; nothing if there
   is none. *)
YieldText(extra) ==
  IF buffer \o extra = <<>> THEN UNCHANGED made ELSE Yield(buffer \o extra)

(* A flush that finds letters cancels the timer the coalescer holds. *)
Flush(extra) ==
  /\ buffer' = <<>>
  /\ YieldText(extra)
  /\ timer' = (timer /\ (mode = "own_task" \/ buffer = <<>>))

Next1 == Len(sent) + 1

(* The generator reads an event once the consumer has taken all before. *)
Read(kind) ==
  /\ source = "open"
  /\ pending = <<>>
  /\ kind \in Kinds
  /\ Len(sent) < MaxEvents
  /\ sent' = Append(sent, kind)
  /\ UNCHANGED <<mode, source, recipe>>

Letter ==
  /\ Read("letter")
  /\ buffer' = Append(buffer, Next1)
  /\ UNCHANGED <<pending, made, timer>>

(* The boundary itself is typed with the text. *)
Boundary ==
  /\ Read("boundary")
  /\ Flush(<<Next1>>)
  /\ UNCHANGED pending

(* A click or a scroll: the text before it, if any, is yielded first. *)
Gesture ==
  /\ \E kind \in {"click", "scroll"} : Read(kind)
  /\ IF buffer = <<>>
     THEN Yield(<<Next1>>) /\ UNCHANGED <<buffer, pending, timer>>
     ELSE Flush(<<>>) /\ pending' = <<Next1>>

(* The consumer asks for more: the gesture itself is yielded. *)
YieldGesture ==
  /\ source = "open"
  /\ pending # <<>>
  /\ Yield(pending)
  /\ pending' = <<>>
  /\ UNCHANGED <<mode, sent, buffer, timer, source, recipe>>

TapReEnabled ==
  /\ Read("tap_re_enabled")
  /\ Flush(<<>>)
  /\ UNCHANGED pending

(* Key releases, and lines that are no JSON. *)
Ignored ==
  /\ Read("ignored")
  /\ UNCHANGED <<buffer, pending, made, timer>>

(* Variant of TimerFlush: every timer's flush cancels it. *)
TimerFlushOnce ==
  /\ timer /\ source = "open"
  /\ buffer # <<>>
  /\ Enqueue(buffer)
  /\ buffer' = <<>>
  /\ timer' = FALSE
  /\ UNCHANGED <<mode, sent, pending, source, recipe>>

(* The window has passed since the last letter: its text goes to the queue.
   The flush cancels the held timer, that is the very task that runs it; the
   queue has no bound, so that it comes as far as its next sleep. *)
TimerFlush ==
  /\ timer /\ source = "open"
  /\ buffer # <<>>
  /\ Enqueue(buffer)
  /\ buffer' = <<>>
  /\ timer' = (mode = "own_task")
  /\ UNCHANGED <<mode, sent, pending, source, recipe>>

(* Variant of Drained: what is left in the buffer is dropped. *)
DrainedDropping ==
  /\ source = "open" /\ pending = <<>>
  /\ source' = "drained"
  /\ buffer' = <<>>
  /\ timer' = FALSE
  /\ UNCHANGED <<mode, sent, pending, made, recipe>>

(* The input ends, or is silent for 30 s: the rest is yielded. *)
Drained ==
  /\ source = "open" /\ pending = <<>>
  /\ source' = "drained"
  /\ buffer' = <<>>
  /\ YieldText(<<>>)
  /\ timer' = FALSE
  /\ UNCHANGED <<mode, sent, pending, recipe>>

(* The consumer closes the generator, or reading raises. *)
Close ==
  /\ source = "open"
  /\ source' = "closed"
  /\ timer' = FALSE
  /\ UNCHANGED <<mode, sent, buffer, pending, made, recipe>>

-----------------------------------------------------------------------------
(* Synthesis of a recipe from what was yielded. *)

BuildRecipeSteps == [i \in DOMAIN yielded |-> recorded[yielded[i]]]

IsText(items) == sent[items[1]] \in {"letter", "boundary"}

(* A parameter for each text: the first is called an address, and every other
   a password. *)
ExtractParams ==
  [i \in 1..Cardinality({k \in DOMAIN yielded : IsText(recorded[yielded[k]])})
     |-> IF i = 1 THEN "email_address" ELSE "password"]

Synthesize ==
  /\ source \in Closed
  /\ recipe = NoRecipe
  /\ yielded # <<>>
  /\ recipe' = [steps |-> BuildRecipeSteps, params |-> ExtractParams]
  /\ UNCHANGED <<mode, sent, buffer, pending, made, timer, source>>

RecorderNext ==
  \/ Letter \/ Boundary \/ Gesture \/ YieldGesture \/ TapReEnabled \/ Ignored
  \/ TimerFlush \/ Drained \/ Close \/ Synthesize

(* The timer's task sleeps and wakes. *)
RecorderSpec == RecorderInit /\ [][RecorderNext]_recorderVars

FairRecorder == RecorderSpec /\ WF_recorderVars(TimerFlush)

-----------------------------------------------------------------------------
(* Properties. *)

Positions == 1..MaxEvents
Texts == Seq(Positions) \ {<<>>}

RecorderTypes ==
  /\ mode \in Modes
  /\ sent \in Seq(Kinds)
  /\ buffer \in Seq(Positions) /\ pending \in Seq(Positions)
  /\ recorded \in Seq(Texts)
  /\ yielded \in Seq(DOMAIN recorded) /\ eventsQueue \in Seq(DOMAIN recorded)
  /\ timer \in BOOLEAN
  /\ source \in {"open"} \cup Closed
  /\ recipe \in [steps : Seq(Texts), params : Seq({"email_address", "password"})]

Ascending(s) == \A i, j \in DOMAIN s : i < j => s[i] < s[j]
Below(S, T) == \A m \in S, n \in T : m < n

(* The events are in order within each item of a list and from item to item,
   so that none is there twice. *)
InSequence(list) ==
  /\ \A k \in DOMAIN list : Ascending(list[k])
  /\ \A k, l \in DOMAIN list : k < l => Below(ToSet(list[k]), ToSet(list[l]))

Covered(list) == UNION {ToSet(list[k]) : k \in DOMAIN list}

(* What the user did: everything but what the recorder ignores. *)
Deeds == {i \in DOMAIN sent : sent[i] \in {"letter", "boundary", "click", "scroll"}}

(* In the order of step_idx the observed actions are what the user did, in
   order and each thing once, up to the gesture and the letters under way:
   flushes by boundary, gesture, timer and end do not overtake, repeat or
   drop anything. *)
InOrder ==
  LET all == Append(Append(recorded, buffer), pending)
  IN  InSequence(all) /\ Covered(all) = Deeds

Queued == UNION {ToSet(recorded[eventsQueue[i]]) : i \in DOMAIN eventsQueue}

(* A recipe made at the end of the input has all that the user did, in order,
   but for what the timer put into the queue, which is letters; a pause in
   typing leaves a hole in the recipe, and nothing else does. *)
HolesArePauses ==
  (recipe # NoRecipe /\ source = "drained") =>
    /\ InSequence(recipe.steps)
    /\ Covered(recipe.steps) = Deeds \ Queued
    /\ \A n \in Queued : sent[n] = "letter"

(* A recording has what the user did, in order, and a recipe has that but for
   the text of the pauses. *)
RecordingInv == RecorderTypes /\ InOrder /\ HolesArePauses

(* What is typed does not stay in the buffer of an open recording whose timer
   is a task of its own. *)
TextLeaves ==
  (mode = "own_task" /\ source = "open" /\ buffer # <<>>)
    ~> (buffer = <<>> \/ source # "open")
=============================================================================
