# basicCtrl: specifications, checks and proofs

basicCtrl drives macOS applications for a language model: an MCP server takes a
tool call, finds the control it names, acts on it through one of five delivery
channels, verifies that the application reacted, and heals what failed. The
modules here model the parts whose correctness depends on what runs
concurrently with what; TLC checks small instances, TLAPS proves what matters
most for every value of the constants. Paths below are relative to
`src/basicctrl` unless they start with `src/`.

## 1. The system

### Components

| component | code | state | operations |
|---|---|---|---|
| Race orchestrator | `actions/race_orchestrator.py` | per call: target, candidate coroutines, `outcomes`, `winner_idx`, `cancel_event` | `execute`, `race_first_complete`, `_log_race` |
| Idempotency store | `actions/idempotency.py` | `claimed`: action id -> (channel, time) | `try_claim`, `is_claimed` |
| Delivery channels C1..C5 | `actions/channels/` | none of their own | `fire(target, action_id, cancel_event)` |
| Race policy, channel registry | `actions/race_policy.py`, `actions/channel_registry.py` | tables; registered channels | `resolve_race_policy`, `select` |
| Duplicate receipts | `actions/duplicate_receipt.py` | ring of recent actions | `record`, `find_duplicate` |
| Application profiles | `profile/` | one profile per application on disk, shared by processes | `classify`, probes, `load_cached_profile`, `save_cached_profile` |
| Translators T1..T5 | `translators/` | element references, CDP and AppleScript daemons | `resolve`, `validate`, `run_with_resilience` |
| CDP daemon | `translators/cdp_daemon.py` | one websocket and session per port; cache, lock, idle loop | `connect`, `call`, `get_or_create`, `reattach_to` |
| AX observers | `verifier/axobserver.py`, `ax/observer.py` | waiter table, event queue, per-pid AXObserver and run-loop thread | `subscribe_pending`, dispatcher, `await_future` |
| AX walker, rate limit | `ax/walker.py`, `ax/rate_limit.py` | token buckets; a queue per walk | `walk_subtree`, `acquire` |
| Verifier ensemble | `verifier/` | snapshots of windows, pasteboard, pixels; event buffers | `verify`, L0 to L3, weighted vote |
| Circuit breaker | `recovery/circuit_breaker.py` | per target: failure count, window start, time of the trip | `record_failure`, `is_tripped`, `reset` |
| Recovery orchestrator | `recovery/orchestrator.py`, `recovery/classifier.py` | per attempt: cycle, branch race; heal counters | `attempt`, `_race_branches`, `_escalate_to_user` |
| Recovery branches B1..B5 | `recovery/branches/` | none; claim the action's token | `attempt` of each branch |
| Healing tools, proxy | `mcp_server/` | step counter, action log | `_run_step`, `do_task`, `run_action_wrap`, `learn` |
| Learning loop, memory | `agents/learning_loop.py`, `state/episodic.py` | buffer per process; vector index and metadata file | `record_action`, `flush_to_recipe`, `index_recipe`, `lookup` |
| Learning recorder | `learning/` | keystroke buffer with timer, recorder queue | `process_event`, `on_keystroke`, `flush`, recipe synthesis |
| Cassettes | `cache/` | one cassette per session, in memory and on disk | `get`, `put`, `heal` (write-back), replay |
| Durability | `persist/` | action log, checkpoints in Postgres | durable step, resume |
| Browser daemon | `browser/` | a process per name with socket and pid file | `ensure_daemon`, `restart_daemon`, requests |
| Agent server | `src/libs/python/mcp-server` | computer pool, sessions, one lock | `get_session`, `cleanup_session`, idle loop, tools |
| Observability, cognition, SPI, visualizer, replay tools, skills | `observability/`, `cognition/`, `spi/`, `visualizer/`, `replay/`, `skills/` | see `PROJECT.json` | see `PROJECT.json` |
| cua-driver | `src/libs/cua-driver` | vendored Swift driver behind the proxy | external |

`PROJECT.json` lists them all, with the status of each.

### How they interact

`RaceOrchestrator.execute` asks the translators of the profile's priority in
turn for a target, registers a waiter with the AX observer manager **before** it
acts, lets the registry pick candidate channels and fires them, as concurrent
tasks in one anyio task group or alone. All channels of an action share one
token in the store: whoever claims it acts, everybody else skips. The first
`fired` outcome sets `cancel_event` and cancels the group. Then the verifier
awaits the waiter's future. When an action is not verified, the healing tools
call `RecoveryOrchestrator.attempt`, which consults the circuit breaker, races
recovery branches (which fire channels themselves) and records failures.

Everything but the accessibility run loop and the `asyncio.to_thread` workers
runs on one event loop, so an interleaving is a choice between awaits: code
between two awaits is one step of a model. The store's and the breaker's
`anyio.Lock`s are never held across another await, hence never contended, and
acquiring them does not suspend.

### What is hard here

* Five tasks want to act on the same control; acting twice is a double click.
* The system call is handed to a thread: cancelling its task does not stop it,
  and it may have its effect after its task has gone.
* AppleScript is retried after an error that may come after the effect.
* The caller may go away at any await.
* Attempts on one target overlap, and the breaker trips while others still race.
* Verification is by events that may be late, early or somebody else's, and by
  looks at the desktop that may fail on one side of the action only.
* Several processes share files without locks: profiles, the memory's index, the
  browser daemon's socket and pid file, cassettes. Any of them may crash.
* One debugger connection is shared by actions that each need several round trips.
* Tasks of a process share one buffer of actions, sessions share a few computers.

`PROJECT.json` "hazards" has each at its line with the properties aimed at it.

### What makes each component correct

* Race: at most one channel acts; the outcome, the result and the telemetry name
  the channel that did; every call ends; nothing acts after it returned.
* Policy: an action whose repetition corrupts state is never raced.
* Observers: an action is verified by a change from after its subscription, no
  change verifies two actions but one that comes while an action subscribes, and
  waiters do not outlive their call.
* Breaker: trips only on three failures within a window; holds while it should.
* Recovery: a tripped target is left alone; every attempt ends in a success by a
  branch that fired or in one escalation; each failure is counted once.
* Branches: of a token that is free one branch at most makes use.
* Profiles: what a call works with fits the release it found; a label that can be
  read is found by some translator.
* Verifier: a verdict stands on something that changed; what showed of the action when
  its check looked counts; a walk that nothing cut short is whole.
* CDP daemon: a click is pressed on the page it was measured on, and released there as
  long as that page is open; actions share one daemon. Browser daemon: a call heals what
  it finds, and there is one daemon.
* Sessions: the pool counts their computers, tasks leave them, and no call waits for ever.
* Memory: an action is in one recipe at most and not lost but by what raises; a
  lookup returns the recipe whose vector it matched.
* Recorder: no keystroke is lost, repeated or reordered. Cassettes: memory and disk
  agree up to heals. Durability: the log has every step of a call that returned, once,
  and every checkpoint.

## 2. Modules

| module | models | composed of |
|---|---|---|
| `RaceSelection` | policy and channel selection, as pure operators | |
| `ActionRace` | `execute` with the store, the channels, the waiter, retries, cancellation | extends `RaceSelection` |
| `SingleDelivery` | abstract: an action has one owner, only the owner acts, boundedly often | implemented by `ActionRace` and by `Branches` |
| `Branches` | the five recovery branches over the token the race left | implements `SingleDelivery` |
| `CircuitBreaker` | the breaker over time; also the abstract specification of its use | |
| `Recovery` | overlapping attempts with classifier, branch race, breaker, escalation | extends `CircuitBreaker`, implements its `CBSpec` |
| `Observers` | subscriptions, notifications, the event queue, the dispatcher and the waiter table, over time | |
| `AXWalk` | bounded walks of an accessibility tree and the token bucket | |
| `Verification` | T1's search, the snapshots around an action, and the layers of `verify` up to the verdict | extends `AXWalk` |
| `Profiles` | which translators for which application, as pure operators | also used by `MCActionRace` |
| `Resolution` | `classify` with its cache shared by processes, and the search of the translators | extends `Profiles` |
| `CDPSession` | one debugger connection shared by T2 and C5 of several actions | |
| `BrowserDaemon` | the browser tool's daemon process: start, stop, healing | |
| `SessionPool` | the agent server's sessions, computers and lock | |
| `Memory` | verified actions, the buffer, recipes, the index on disk, notes | |
| `Persistence` | action log, checkpoints and resume; the session's cassette | |
| `Recorder` | keys and clicks on their way into a recording and a recipe | |
| `ActionRaceProofs`, `RecoveryProofs`, `ObserversProofs`, `DaemonProofs`, `MemoryProofs`, `PersistenceProofs`, `SessionPoolProofs`, `VerificationProofs` | theorems, those on the breaker in `RecoveryProofs`, those on both daemons in `DaemonProofs`, those on walks and on the branches in `VerificationProofs` | each extends the module it is named after, `DaemonProofs` `CDPSession` and `BrowserDaemon`, `ObserversProofs` also `Recorder`, `PersistenceProofs` also `Resolution`, `VerificationProofs` also `Branches` |
| `MC...` | instances for TLC, one per run | |

### ActionRace and the code

`pc[a]` is the place of the call in `execute`: *resolving* is the loop over the
priority (lines 177-187), *subscribing* `subscribe_pending` (203-242), *selecting*
the warm-up, snapshots and `select` (244-268), *racing* the task group or the
single await (270-284), *verifying* the await of the pre-fire future, *closing*
the rest up to the return (323-340). `chan[a][c]` is the coroutine of a channel:
*queued* (created, not yet run), *sleeping* (C4's stagger), *inflight* (awaits
its system call), or the status of its outcome; *aborted* is an outcome that the
task group's own cancellation wrote, with its placeholder channel C1
(`OutcomeChannel`, line 109-116), which `_log_race` undoes (`LoggedChannel`).
`os[a][c]` is the system call, which lives on without its coroutine, `effects`
counts what reached the application.

`Fire` is one step because `try_claim`, the look at the cancel event, the checks
of the handles and the hand-over to `to_thread` have no suspension point in
between (`channels/c2_ax_press.py` 51-117 and its four siblings). It includes the
case where the claimer finds the event set, or no handle it could act on, and so
wastes the token. `RetryScript` is the daemon's one transient retry
(`as_daemon.py` 74-123): error -1712 is the AppleEvent's own timeout, after which
the script may have acted. `ScriptTimeout` is the 8 s budget of C4, after which
the worker thread runs on.

`waiter[a]` is the action's entry in the observer manager's table. When
`subscribe_pending` failed before the channels (`Subscribe`, a caught error), the
verifier subscribes again (`Expect`, `l0_push.py` 103-116); if that fails too,
nobody catches it and the call raises after it has acted (`RaiseNoObserver`).

Left out: the wording of traces, HUD and visualizer calls, coordinates, the
search of a translator (its outcome is open: `Resolve` or `TryNext`; `Resolution`
has the searches), the window of duplicate receipts, which nothing in the program
looks up.

### CircuitBreaker, Recovery and the code

`Recorded` is the new state `record_failure` builds, `Tripped` is `is_tripped`;
`failures` is a history variable, what the properties compare the state with. In
`Recovery`, `EndLost` covers orchestrator.py 292-373 and the next turn of the
loop up to the branch race (167-266): between them nothing suspends. So a cycle
judges the breaker and then races without a gap, and other attempts interleave
while branches run. `Classify` works on bands of confidence: the code's strict
comparisons leave exactly 0.70 between two of them. `prev` grows after each lost
cycle, so the class of an attempt may change (to LOOP) while it runs. A heal
budget over its limit is an input (`OverBudget`), since nothing in the program
increments the counters.

### Observers and the code

`ActionRace` has the waiter of a single action and lets the dispatcher resolve it
at any time; `Observers` is what stands behind that. `Register`, `RemoveNotification` and
`AddNotification` are `AXEventBridge.subscribe` with `subscribe_pending`: the time is
taken first (`axobserver.py` 100), then each notification is removed and added by calls
of its own (`observer.py` 293-315). `slot[r][k]` is the refcon macOS holds for a root
element and a notification, so the last subscriber has it, one notification earlier than
the other. A subscription has no await: it holds the event loop (`LoopFree`), but not the
run-loop thread, the channels' threads or the applications, which may change and deliver
between any two of its calls. Each call may fail: an observer cannot be created (the
action goes on without a waiter), a removal leaves the other's tag, which "already
registered" then keeps (`torn`), an addition is logged only. `Change` is external: an
application sends one or both notifications to whoever is registered for them, each with
the tag it has at that moment. `Deliver` is the
callback on the run-loop thread, which stamps the event **on arrival** and hands
it to the queue; whether macOS attaches the refcon when it sends or when it
delivers is not documented, so both are allowed. `Passes` is the filter; an event
carries its process id only to compare it, here the root of its change. `Timeout`
also covers Python 3.12's `wait_for`, whose timer may win against a future
resolved in the same turn. `CallerCancel` leaves the waiter in the table, as a
dead entry or as a live one that a later event removes.

Left out: the run-loop thread's start and stop, collisions of the 32-bit refcon,
subscription at the target element itself when the application has no root.

### Branches and the code

`Recovery` leaves a branch to its reply; `Branches` computes it. `owner` is the
store's entry of the action, which the race of channels may have left taken or
free. B1, B2 and B5 claim in the name of the channel they then fire, and the
channel claims again (`ChannelFire`, `idempotency.py` 58-97), so it skips. B3 and
B4 claim under names that the token's `Literal` refuses (`ClaimAsPlanner`). A
`Context` says whether the process is known and whether cognition is there: the
server's contexts (`healing_tools.py` 66-76) have no process. `Abort` is the
cancelled scope of the race, which B5 turns into a failure in its stagger.

### Profiles, Resolution and the code

`Priority` is what `classify` puts into a profile: the table's order if the table
knows the application and its version, else the order derived from the probes.
`Resolution` runs `classify` in several calls of one process or of two: permission,
bundle metadata, cached profile, probes, and the save through a temporary file
that all processes share (`Open`, `WriteText`, `Replace`; a file being written is
`Partial`, and a writer goes on writing into the file it opened, whatever that is
called by then). Then `Ask` is the loop of `execute` over the translators of the
profile that are registered and not asked yet (`Left`), each with its own way to miss:
T1 asks an element reference that may belong to an earlier instance, T2 any port that
answers, T3 a verb or a dictionary, T4 and T5 the pixels.

### AXWalk, Verification and the code

A walk is a record with its queue (`walker.py` 58-219, and T1's own
`_walk_with_refs`); a step pops a node, paying a token, or reads its children,
paying another. `tokens` is the bucket of `rate_limit.py`, refilled by the time since
its last use. `Verification` follows a call from T1's search (`Resolving`) and the
snapshots, one before the action and one after it (`Capturing`), over the act to the
layers: notifications and the cheap difference side by side, the vote, the medium layer,
the place of the fourth. The desktop is a number per aspect: a window's title, the
pixels as a hash of which the difference in bits matters (`Unlike`, `l1_cheap.py` 39 and
171), change counts for the pasteboard and the browser's events; titles and pixels may
change back. `Act` decides what the action is to change (`due`), `Show` when one of these
effects is there to be seen: at once, while `Poll` looks at the event ring (`l1_cheap.py`
198-222), after its last look, or never. `shown` is history: which of them a check met. A
`Plan` says which caller it is: the race, the proxy, the demo, which acts while `verify`
runs, or the ladder that `aggregator.py` documents. Confidence is exact, in fractions.

### CDPSession, BrowserDaemon and the code

`act[a]` is an action in `T2.resolve` and `C5.fire`, round trip by round trip;
`daemons` and `sessions` are all there ever were, since an action keeps the number
of the session it got. `Lost` to `Retry` is the reattachment of `CDPDaemon.call`
(`cdp_daemon.py` 249-284), `lock` the module lock that connecting holds, `Evict` the
idle loop. A click is what the page it lands on sees: measured `at`, `pressed`,
`released`, which `FiredWhereMeasured` compares.

`BrowserDaemon` is a level above: processes. A daemon looks for another
(`Check`), connects to the browser and binds the path long after; a tool call pings,
probes, spawns, waits, presses, releases, and heals once when it meets a dead
connection, if the message of the error is among those it knows (`browser_tool.py`
54-61, 96); which message a dead connection gives is left open. `blamed` and `raced` are
history: the excuses the properties admit.

### SessionPool and the code

`lock` is `_session_lock`, taken across an await only while a computer is acquired
(`session_manager.py` 75-84, 186). `Acquire`, `Unregister`, `Remove`, `Age` and the idle
loop are its operations; `main` is the server, whose end removes all sessions;
`frozen` is `get_session_stats` waiting for the loop it runs on (298). `Cancel` is the
client giving up a call, wherever it works or waits. A cancelled task still runs its
`finally` (`server.py` 250-252), in which `unregister_task` waits for the lock like anybody
else (211-216) and may be cancelled again: such a task is `lost`, and stays registered.

### Memory, Persistence, Recorder and the code

`Memory`: `buf` is the learning loop's buffer of a process, `loop` the agent whose
flush keeps the event loop, `mem` the index in memory, `index` and `meta` the two
files, each opened (and `Torn`) before it is written. Agents are host calls,
`do_task`, and `learn`.

`Persistence`: `at` and `step` are the calls of `run_action_wrap`, `log` and
`committed` what they leave, `restored` what `resume_from_checkpoint` reads. An error of
the upstream tool is a result, not an exception (`healing_tools.py` 343,
`ClickTool.swift` 24-26): `Answer` goes on from a call that acted and from one that was
refused, and both are verified, logged, checkpointed and returned. `Checkpoint` is
Postgres having the row, `Return` the call hearing of it or of a failure. `file` and
`memory` are the cassette, `writing` the temporary file between write and rename.

`Recorder`: an event is its position in what was sent; `buffer`, `recorded` and
`recipe` hold positions, so order, loss and repetition are visible. `yielded` and
`eventsQueue` say which of the observed actions the consumer got and which the timer
put into the queue. `Mode` is the way
the timer was started.

## 3. Runs

Every run is one instance with all properties of its component. Conjunctions
(`...Inv`) bundle the type invariant with the safety properties that stand next to it
in the module, each with its own comment.

| run | instance | shows |
|---|---|---|
| `race` | one action; every priority `Profiles` gives; five action types, one of each policy class; any caller policy; all channels or three | `RaceInv`: who acts, how often, winner; `OutcomeInv`: the token decides, telemetry, waiter; stagger, quiet return, termination, implements `SingleDelivery` |
| `recovery` | two attempts on one target, three cycles, three failure contexts, budget either way | trips justified, one escalation or success, failures counted once, quarantine, breaker used atomically, termination |
| `branches` | one action, every class and context, three cycles | one branch past its claim; race and recovery keep `SingleDelivery`; termination |
| `observers` | two actions on one application, guard and warm-up 2 ticks, delay at most 1, clock to 3, two failing calls, one change with up to two notifications | fresh and single credit, own events pass, waiter table |
| `verification` | one call of any of the four kinds, with none or several effects each of which shows when it does; two windows with two titles; pixels 0, 5 and 6 bits apart; two trees, one too wide for the medium layer; one foreign change, failed capture or competing walk; two polls of the event ring; clock to 1 | evidence, own effect seen, medium layer only tips, walks whole when nothing cuts them, rate, termination |
| `resolution` | two calls in one process or two; three applications: in the table, Electron, unknown; three releases; one upset | profile fits, failed save harmless, what is visible is found, termination |
| `cdp` | two actions, a page of the workspace and one other, idle period 1, clock to 2 | clicks on the page measured, one daemon shared, termination |
| `browser` | two tool calls, four process numbers, one restart of the browser | failures have a cause, one daemon unless raced, termination |
| `sessions` | a task, with another there or elsewhere and a cleanup or the statistics of its session, or with screenshots of two other sessions; two computers, any call may be cancelled | pool exact, own computer, tasks work, termination unless hung |
| `memory` | a host and a task in one process, a task in another, a lesson; one crash | actions conserved, recall |
| `persistence` | three calls, two recordings of two steps, one heal; crash anywhere | log complete, cassette and replay |
| `recorder` | five events of every kind, both timers | order, holes, text leaves |

**Bounds.** The race has no numeric bound: an action ends, its retry is one. Two
actions share only the store's dictionary and the observer manager, and both keep
them apart by action id: one action shows what a race does, and that ids are not
mixed is part of what is proved (`RaceInvariant`, `RaceImplementsDelivery`). `FifoStart`
says whether child tasks first run in the order they were created: asyncio does, the
task group's interface does not promise it; the run takes the former, the theorems
both. `recovery`: with three cycles one attempt can trip the breaker while the other
races and before it starts its next cycle (the code's default is two, with which it
takes three attempts); `Window` 1 and the clock to 3 hold a window, its expiry and
both boundaries (`> 60`, `<= 60`); `MaxFailures` is attempts times cycles, so it never
blocks a step. The contexts are a class with one registered branch, one with none,
and one with two that counts attempts; a class may change between cycles.

`observers`: a tick is half the guard, so that a delay within the guard, a
delivery after it and both boundaries exist; the warm-up is 50 ms in the code
(`race_orchestrator.py` 234), here the least that suffices, the guard itself; the
clock to 3 lets either action subscribe a tick late and still be credited. Two failing
calls tear both notifications of one subscription or one of each. Each property speaks
of one change and of the notifications it sends, and so does the run; the theorems have
any number of changes, failures, actions and applications.

`verification`: the buckets are scaled so that a search exhausts one and a refill
matters; the caps so that one tree exceeds them. One upset, since each property
speaks of one foreign change, one failed capture or one competitor; several of the
call's own changes are there anyway. Two windows, since a change of one is the only signal
that weighs less than fully and a change of both weighs more than half; two titles let one
change and change back. Pixels 0, 5 and 6 have distances of one, five and six bits: below,
at and beyond the threshold. Two polls let the ring be seen early or late, and an event
come between the two or after both. The plans have effects that their class weighs,
effects it does not weigh, and none. `resolution`: two calls are what a shared
temporary file takes; the third release has left the table. `cdp`: two actions are
what it takes for one to attach the daemon elsewhere under the other; the clock lets
each daemon idle out once; there is no internal page. `browser`: four process numbers
are two daemons for each call, numbers being used again. `sessions`: two computers for
three sessions make the pool the bottleneck it is in the code, 5 for 10, and leave two
that could be confused. `memory`: two
agents of a process share a buffer, two processes share the files, one crash tears
one. `persistence`: three calls give every overlap of a call that is ahead, behind and
lost; two recordings tell a put from a heal, and one heal the copy that has it from the
one that has not. `recorder`: with five events text is
pending before, between and after two gestures.

**Symmetry.** `observers` permutes the actions, `persistence` its calls and
recordings; neither checks liveness.

**Deadlock.** `CHECK_DEADLOCK FALSE` where calls are finitely many and end or where a
bounded clock stops; `verification` and `resolution` say explicitly when everything is
over, and check it.

**Fairness.** `ActionRace`: the event loop keeps running a call's ready steps
(`WF(Progress)`), and a system call handed to a thread returns or fails (`WF(OsStep)`);
nothing is assumed of events, cancellation, or dropped calls. `Recovery`, `Branches`:
branches end (each has its own timeouts) and the loop goes on. `CDPSession` (`FairSpec`):
a round trip is answered or raises, as websockets do; the idle loop is not fair.
`BrowserDaemon`: threads and processes run; the browser owes nothing, the waits have
deadlines. `SessionPool` (`FairSpec`): strong fairness of calls, because `asyncio.Lock`
serves its waiters in order, and the server's own loop runs. `Verification`: the call's
own steps, whose waits have timeouts; notifications are never promised. `Resolution`: the
call's own steps; probes and translators answer or raise. `Recorder`: only the timer, for
which the property is. Everything else is safety.

**Mutants.** For each property `PROJECT.json` names a variant of a mapped
definition, with the kind of bug a change of the code could make, under which TLC
finds the property violated. Variants stand next to the definition they vary,
marked "Variant of".

## 4. Proofs

`ActionRaceProofs`: `TypeOK` and `RaceInv` are inductive together. Neither
`EffectsBounded` nor `WinnerActed` is so alone: a step that acts (`OsPerform`)
may add an effect because a submitted call is still within the channel's
allowance (`AllowanceInv`), the retry raises the allowance by what it hands over
again, and the winner acted because an outcome `fired` needs a call that is done
(`FlightInv`). Only the claimer acts because claims are never rewritten.
`CandidateInv` ties the candidates to `Select`, whose single-channel case has one
element at most, which gives `DestructiveNeverRaced`. `RaceImplementsDelivery` is
the refinement: `Fire` maps to `Own` or a stutter, `OsPerform` to `Perform`
(enabled by `AllowanceInv`), everything else to a stutter.

How a race ends is proved next. While the token is free, only the
staggered script can have started at all, and only to sleep; once it is taken,
whatever is in flight, has fired or has failed is its holder. A scope is cancelled
by a winner or with its caller alone, so the holder is never aborted in a race that
goes on to verify: it fires or fails, and no other channel's system call is left
under way. `OutcomeAlways` is read off this, the telemetry and the waiter having an
invariant of their own (`ToldInv`). `QuietAfterReturnAlways` follows because what still
acts after the channels have settled is a script. `ScriptYieldsAlways` needs that the script
claims only when no other channel is queued, and queued is what the others are as
long as the token is free.

`VerificationProofs`, the branches: `HeldInv` says of every branch past its claim that the
token is in its channel's name and that nothing was done under it, which needs that
nothing is done under a free token. Since two branches have different channels, one at
most is past its claim (`BranchesHoldToken`). The same invariant says that no branch has
fired: its channel always finds the token taken, by the branch itself. So the refinement
holds with every step of recovery an `Own` or a stutter (`BranchesImplementDelivery`), and
for the same reason no attempt recovers (`NoBranchFires`): the second claim makes recovery
safe and useless.

`RecoveryProofs`, the breaker: `WindowInv` says the count is that of the latest failures,
the first of which opened the window and, after a trip, the last of which
tripped. It is what `TripJustified` and `HeldInWindow` need.

`RecoveryProofs`, the attempts: every step of `Recovery` is a step of `CBSpec` or a stutter, so
what is proved of the breaker carries over (`RecoveryTripJustified`).
`QuarantineRespectedAlways` is an action property that holds step by step, given
that targets do not change. `RecoveredByFiringAlways` is by an invariant on the
branch states of a race. `RecoveryInvariant` joins types, trips and recovery with
`ToldInv`: an attempt that has not ended has told nobody, so that the one escalation
with which it may end is the only message. `FailuresAccountedAlways` counts the lost
cycles as a set of pairs of attempt and cycle: a step either leaves the set and the
breaker's list alone (`NothingLost`) or adds one pair to the set and one failure to the
list of the same target (`OneLost`), for which an attempt that races must have begun a
cycle (`AccountInv`).

`ObserversProofs`: `CreditInv` has two parts. An event is stamped within the assumed delay
of its change (`TravelInv`), which makes freshness arithmetic. And a subscription that is
complete and has removed what it found leaves no other such tag at its root (`SlotInv`,
`OneHolder`), so that of all the tags that the notifications of one change carry or may
still pick up, one at most belongs to an action whose subscription was complete before the
change (`TagInv`). Single credit needs both: an action credited with a change was complete
before it, or the change came in the middle of its subscription, or a removal of its
subscription failed, and the latter two are the exceptions of `CreditedOnce`. No bound on
actions, changes, failures or delays is used. `SparingAlways` adds that an
action with a waiter acts after the pause and that its tag travels only once it has
one (`OwnInv`). `WaitersExactAlways` is by an invariant of its own on futures and
phases.

`ObserversProofs`, the recorder: `RecorderIInv` says that what was made is in sequence and
before what is under way, and that both together are what the user did (`KeptInOrder`); and
that whatever was made is either the consumer's or, if it is letters, in the queue
(`Delivered`). A new event is later than all before (`NewEvent`), so that each step appends
in sequence (`ListMore`). `RecordingAlways` follows because the steps of a recipe are picked
in ascending order from what was made. An order is stated by positions: a list in sequence
that covers a set lists it in the only way there is.

`DaemonProofs`, the actions: `SessionAlways` follows a session that an action lost. A page that
was closed stays closed, and a daemon that went on has a later session for good (`Later`,
the order in which the world of sessions, daemons and pages moves); whoever still calls
on the old session is therefore refused. `Fits` says of each action that the position it
measured is on its session's page or that this session is gone in that sense, so that a
click pressed elsewhere is never answered at its release; and a release that was answered
was on the page measured, or that page is closed. `OneDaemon` says
that the lock is held by whoever connects and that every other action with an open daemon
uses the cached one; while somebody connects there is none. Eviction keeps this, because
it closes what it takes out of the cache.

`DaemonProofs`, the processes: `DaemonAlways` rests on a promise each tool call holds as
long as it has no excuse. When it presses and when it releases it has a daemon that
answers, and once it has healed, one whose connection to the browser stands (`Heals`).
Three steps alone take that away (a daemon shut down, a daemon gone, the browser
restarted), and each blames whoever is on the way, except the call that does it. That one
daemon answers (`Alone`) follows because a daemon that looks finds none only if none
listens, and of those that have looked and not yet bound the path there is one at most
unless two starts overlapped.

`MemoryProofs`: the buffers and the recipes are the shelves a verified action is on, and
`Stocked` says that each is on one, once, and in the order of its agent. An action put on
a shelf is later than all of its agent there because an agent's call number grows with
every call (`Counted`); a flush moves a whole shelf to one that is empty, which needs that
an agent that is still in its plan has no recipe and that one that flushes keeps the event
loop of its process (`Flow`). `RecallAlways` needs `Filed`. As long as no process saved
over what another had saved, a process that has loaded and is up to date has at least the
rows of the file, and metadata that agrees with them; a torn file promises nothing, and a
process half way through loading has the rows of an index that may grow meanwhile but not
change (`RowsFit`, `MetaFit`). What was stored is in the metadata of the file and of every
process that is up to date (`KeptFit`). Trying to prove it showed that an earlier form of
`StoredStays` was too strong: it excepted a crash in the midst of a save only, but a
process that starts to load while another one writes meets the metadata half written too,
goes on without them, and its own next save drops them. Four agents that flush suffice;
the property now excepts every process that met half-written metadata, whatever the cause.

`PersistenceProofs`: `LogComplete` rests on the numbers of the steps, which two calls
under way never share (`NumberInv`), on the place of a call, which is logged once and after
its tool answered, whether it acted or not (`PlaceInv`), and on whose an effect is: a call's
that is past its firing (`EffectInv`). `CassetteInv` needs what is about to be renamed: a new
recording, or what the file has with a heal more (`WritingInv`), and that a replay
under way has fired exactly what is before its cursor (`CursorInv`).

`PersistenceProofs`, the profiles: `ProfileAlways` says of every whole file, and of what
a call is to write, that it was composed for some release (`FilesInv`); as the cache is
used only if version and build are those the call read, and these determine the scripting
dictionary (`SameRelease`), it fits. A file that is not whole has a writer that has
opened it and not yet written or has died; whoever renames the temporary file takes the
others' open file along (`Kept`), so that after a failed rename there is an entry.
`VisibleAlways` follows the search: as long as the label could be read, a tier of vision
that the order names is still to be asked, or the call has its target. It assumes that
both tiers of vision are registered, as the server does; the derived order always ends
with them. What composing an order yields is by lemmas on concatenation (`HasConcat`).

`SessionPoolProofs`: a call that waits for a computer keeps the lock, so that nobody
else can begin its session meanwhile (`Waiting`); that is what makes the computers of
the sessions distinct (`Counted`). A call uses its session's computer unless the
session was removed under it (`Placed`), whence `OwnComputerAlways`. Whoever is
registered with a session works for it or was cancelled while it waited to leave (`lost`).
`Placed` is claimed until the server exits only: the pool is emptied then, and calls take
no more steps.

`VerificationProofs`, walks and verdicts: `VerificationIInv` is inductive as a whole.
`WalkAlways` follows a walk that nothing has cut by what it has met (`Covers`): each node
once, and with every node it opened all of its children, so that once its queue is empty
it has met a set closed under children, which in a tree is all of it. The rate follows
from two sums (`TokensInv`): what is left and what was granted in this second are together
at most a capacity, and with what was granted in the second before at most a capacity and
a refill. `VerdictAlways` needs that whatever was read is still so or has moved since the
call subscribed (`ReadSeen`): values may come back, what has moved has moved for good.
Then each signal that is not zero, and each notification, points at something that moved.
`OwnEffectAlways` needs `OwnInv`: what showed of the action when its check looked there
has its signal, unless the pixels changed too little to count. The vote is then
arithmetic: every signal but that of the windows is full or absent, and for the weights of
every class one full signal keeps the mean at a half (`Halves`, `ClassTally`). That the
medium layer tips only what was left undecided is arithmetic on fractions (`Tipped`): a
boost of a half, or any boost on a vote of nothing, tips nothing. Trying to prove
`VerdictInv` showed that an earlier form of the captures was too permissive: they could be
taken again after the difference had used the snapshot, which the code does not do.

The assumptions are those on the constants, next to their declarations; TLC
evaluates them in every run.

Model-checked only: every liveness property. Fairness and ENABLED are out of the prover's
reach. Every invariant and every action property that a run checks is proved.

## 5. Plan

Modules that could follow: pages of the browser daemon, composed with `BrowserDaemon`
(`browser/daemon.py` 238-250), and the Electron tool's connections.

## 6. Where code and text disagree

Found while modelling; the models do what the code does, and the properties are
stated so that they hold of it.

*Race and recovery*

* A transient AppleEvent error runs a script again that may have acted
  (`as_daemon.py:74`); `src/.planning/ROADMAP.md:48` promises "no double-clicks, no
  double-submits, ever". `RaceInv` allows two effects for a retried script only.
* Channels follow the profile's priority, not the translator that found the target
  (`race_orchestrator.py:258`, `t1_ax.py:359`): with a single-channel action on a target
  of a later tier, the first tier's channel takes the token, has no handle, and nobody
  acts.
* A failure after the window elapsed builds a state without `tripped_at`
  (`circuit_breaker.py:91`) and lifts a quarantine that still has time to run;
  `circuit_breaker.py:5` says "prevent auto-heal for 60s". `HeldInWindow` says what is
  left of it.
* The dispatch table calls branches `B4_PLANNER` and `B5_APPLESCRIPT`
  (`classifier.py:52`), the branches call themselves otherwise; ENVIRONMENTAL and LOOP
  failures find none, which `orchestrator.py:248` says should not happen.
* B1, B2 and B5 claim the token and then fire a channel that claims it again; B3 and
  B4 claim under names the token refuses: no branch ever acts (`NoBranchFires`). The
  contexts the tools build have no process, so B1, B2 and B5 end earlier still.
  `b1_rescroll.py` calls `walk_subtree` with arguments it does not take.
* `recovery_succeeded` names the first branch of the list rather than the winner
  (`orchestrator.py:274`); failures need not be consecutive to trip the breaker
  (`circuit_breaker.py:4`); the heal counters are never incremented;
  `race_policy.py:31` speaks of a request that "overrides denylist", which
  `resolve_race_policy` does not let it.
* An action that raises for want of a channel or is cancelled leaves its waiter in
  the table (`axobserver.py:106`). One whose subscription fails twice raises after it acted,
  with neither receipt nor telemetry (`l0_push.py:109`).

*Observers and verification*

* The changes of one action verify another that subscribed later at the same
  application, and cannot verify their own; `axobserver.py:212` says waiters "must not
  poach each other's events". A change in the middle of a subscription, which moves one
  notification after the other, can verify both its owner and the action before it; and
  a removal that fails keeps the old tag (`CreditedOnce` excepts both).
* Nobody passes `before_l2`, so the medium layer runs in tests only; a truncated walk
  is meant to halve the boost, but its flag is itself the largest signal; a failed
  window list is read as all windows gone; reads refused by the rate limit skip
  without the flag that `rate_limit.py` asks for; one token pays for seven reads; a
  bucket of 20 per second grants 40 in one second.
* A changed pasteboard alone verifies a "type" action, since weights are renormalised
  over the signals that are present; `weighted_vote.py:50` calls it negative evidence.
  `OwnEffectSeen` does not ask for that.
* Polling for a browser event takes a second, not the 250 ms of its description
  (`l1_cheap.py:198`); an effect that shows after the last poll, or after the one look at
  windows and pixels, is missed.

*Profiles and translators*

* T4 captures the screen, not the documented target window; T5 repeats T4; T2 and the
  probe take any port that answers; ten entries of the table lack the T5 that its
  comment requires; a rename lost to another process makes `classify`, and with it the
  call, raise; a revoked permission ends the whole process.

*Daemons and sessions*

* T2 ignores the process it is asked for and may leave the application's workspace
  when its page closes under a call; `close_all` clears the cache before it closes. When
  the page closes between press and release, the release goes to the page attached next
  and the click counts as fired; `c5_cdp_input.py:88` promises the same session.
* `admin.py` slices three letters off names with the prefix `cuabr-`; two daemons may
  serve one name when starts overlap, against "One daemon per CUA_BROWSER_NAME"
  (`browser/daemon.py`); a stale pid file may name somebody else's process.
  Only errors of a list of messages are healed (`browser_tool.py:96`).
* `cleanup_session` takes the lock it holds (`session_manager.py:233`), `get_session` waits
  for a computer under the lock that would free one (186), `get_session_stats` waits for
  its own loop (298). `EndsUnlessHung` excepts exactly these three.
* A task that is cancelled again while it waits to leave its session stays registered
  for good, and the session never idles out (`session_manager.py:211`); a computer whose start
  is cancelled belongs to nobody. `TasksWork` excepts the former.

*Memory, persistence, learning*

* A failed `do_task` leaves its steps in the buffer, and tasks of a process share it:
  recipes mix tasks; healed steps are missing from them.
* The step counter starts again in a new process; checkpoints may be committed out of
  order; `resume` may call a step "last verified" that was not. A tool that answers with an
  error and did nothing is logged and checkpointed like any other (`proxy.py:231`).
* `WriteBack.heal` awaits what is not awaitable after the rename and reports failure;
  `AgentCache` goes on serving the old cassette; the replay engines call interfaces with
  parameters these do not take and read `hoare_post` where the log has `post`.
* The timer puts text into a queue nobody reads; every text of a recipe after the
  first is called a password; a timer held by the coalescer cancels itself at its
  first flush.

## 7. Not modelled, and why

Pure input and output (SPI probes, visualizer, trace bus, replay tools), language model
calls (cognition), data classes, vendored code (cua-driver), and helpers that translate
one call into another. What an application does with an event, whether a text or an image
matches and what a model plans are outcomes left open. The workspace, process and
distributed-notification listeners run, but no layer asks for their events. The Electron
tool keeps connections of its own and has not been modelled; form filling and keystroke
healing call the browser daemon. In `Memory` a tool call is not cancelled. `PROJECT.json`
lists every component with what is left out of it.
