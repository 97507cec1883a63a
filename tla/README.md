# A verification project for the Gander duplex agent

TLA+ models of the concurrent core of this repository: a voice agent whose live
model (the Thinker) talks to a user over a websocket while background workers
carry out the tasks the user delegates. TLC checks the models on small
instances; TLAPS proves every safety property that the runs check for every
instance.

Paths below are relative to `src/gander_runtime/gander_runtime/`; those of
`realtime.py`, `online.py`, `detached_talker.py` and `app.js` to
`src/minicpm_ft/mcpmft/infer/`.

## 1. The system

| Part | State it keeps | Operations | Talks to |
|---|---|---|---|
| `GanderGateway` (gateway.py): task scheduler | `_jobs`, `_runtime_runs`, resource locks and slots in memory | start a task, dispatch it to a worker, cancel, reduce worker events, recover at start, close | ledger (SQLite transactions), workers (awaited calls and an event stream), delivery broker |
| `TaskLedger` (supervision.py) | SQLite tables: tasks, runs, worker events, contracts, aggregates, interactions, deliveries, provider commands, receipts, coordination jobs | one transaction per method, with transition checks and an event fence | everything above it |
| Task tools (gateway.py, lean_control.py) | receipts per user turn, the owner's lock | `task_start`, `task_send`, `task_resolve`, naming, pruning | scheduler, workers |
| `DeliveryBroker` and `TaskToolsRealtimeCoordinator` (supervision.py, task_tools_online.py) | delivery rows with leases; `_delivery_outputs_pending`, the pending task calls, consumed turns | enqueue, claim, feed to the model, acknowledge; bind a call to a turn, answer it | live session, websocket handler, gateway |
| `create_online_duplex_app` (online_duplex.py) | `runtime.sessions`, `model_lock`, one `_ActiveSession` per session, grace timers, one outbox per connection | connect, resume, park, stop, reset, media mode, screen share | Thinker (a thread), coordinator, page |
| Live session (realtime.py, online.py, detached_talker.py) | input queue, open tool call, Talker queues and generations | a unit of audio, a tool response, an interruption, the Talker's thread | duplex handler and pump |
| Capture (media_timeline.py, screen.py, screen_transport.py) | the timeline of a connection, published pictures | split a frame, publish, take the picture of a unit | page, live session, coordinator |
| Interactions (gateway.py, supervision.py) | interaction rows, authorization waits, provider command outbox | ask, resolve, expire, cancel, replay | workers, deliveries, coordinator |
| Coordination (supervision.py, gateway.py, codex_coordinator.py) | receipts, one job per owner, the coordinator's thread and turns | submit, claim, plan, apply, retry, recover | the coordinator's app server, scheduler |
| Supervision contracts (gateway.py, supervision.py) | contract revisions, activity aggregates and their timers | report, judge, gather, flush, tell | worker channel, deliveries |
| Codex provider (providers/codex.py, app_server.py) | JSON-RPC client, threads, turns, pending native requests, side query | start, steer, query, respond, cancel, close, restart | the Codex app server |
| Worker tools (worker_tool_router.py, worker_tools_mcp.py, gateway.py) | the bound route, cached calls | bind, serve a call, `context_fetch`, `memory_search`, share | workers, ledger |
| ASR process, CLI, configuration | none to speak of | | |
| `minicpm_ft` apart from `infer/` | tensors, training files | training, data preparation | |

What is hard here:

* **asyncio interleavings.** One event loop runs everything, so a handler is
  atomic only between two awaits. Locks are held over awaits in some paths
  (`_cancel_task`) and not taken at all in others (`_reduce_event`, the replay of
  the command outbox).
* **Threads.** The Thinker's steps and the Talker run on threads of their own;
  what they finish reaches the loop in the order it was posted, not in the order
  of what the loop did meanwhile.
* **A ledger written in several transactions.** A process may die between any
  two of them, and `GanderGateway.start` must make sense of what is left.
* **Leases, acknowledgements, outboxes.** A delivery is claimed, spoken and
  committed by three coroutines over a socket that may drop; a command is
  written, sent, and marked by others.
* **Timeouts that do not stop what they give up on.** A worker's send, a
  coordinator's turn, a tool call of an MCP process go on after their caller left.
* **One Thinker.** A handler, a grace timer and the clean-up of an abandoned
  model open may each be the one that must close it and free the slot.

What makes each part correct is what section 3 says its run shows;
`PROJECT.json` lists the hazards line by line.

## 2. Modules

| Module | Models |
|---|---|
| `TaskPromise` | abstract: a task is settled once; what is told is that outcome |
| `TaskLifecycle` | `_start_task`, `_dispatch`, `_cancel_task`, the Done reduction, `_fail_task`, `append_event`'s fence, `start` after a crash; implements `TaskPromise` |
| `TaskLifecycleProofs` | TLAPS proofs about it |
| `Delivery`, `DeliveryProofs` | (the proofs also of `Media`) `DeliveryBroker`, the delivery rows and leases, `_delivery_loop`, the live session's inputs, the websocket send and acknowledgement, park and resume, crash |
| `CallPromise`, `TaskCalls`, `TaskCallsProofs` | (the proofs also of `TaskControl`) tool calls of the speaking model: one open call, the user turn it is bound to, the grace timeout, batches, errors |
| `ModelSlot` | abstract: the slot is held from before a Thinker is built until it is closed, and returned once by its holder |
| `DuplexSession` | the websocket handler's life, `expire_reconnect_grace`, `close_abandoned_open`; implements `ModelSlot` |
| `DuplexSessionProofs` | TLAPS proofs about it and about `Speech` |
| `SpeechPromise`, `Speech` | Thinker to Talker to pump to outbox to socket, generations, drop, resume, reset, stop |
| `MediaPromise`, `Media` | microphone frames and units, shared pictures, media modes |
| `Interactions`, `InteractionsProofs` | questions and permissions of a worker, the provider command outbox, expiry, recovery and replay |
| `Coordination`, `CoordinationProofs` | (the proofs also of `Plans`) coordination jobs, their runner, and `CodexCoordinator` |
| `PlanPromise`, `Plans` | `_apply_plan` and the outbox of the tasks it names, against their dispatch jobs |
| `NamePromise`, `TaskControl` | the task tools of the lean mode: naming, receipts, decisions, pruning |
| `ProgressPromise`, `Supervision`, `SupervisionProofs` | (the proofs also of `WorkerTools` and `ContextTools`) reports of a worker under a contract, aggregates, their timers, what is told |
| `CodexRun`, `CodexRunProofs` | a run of the Codex provider and the app-server client |
| `ToolPromise`, `WorkerTools` | the tool router and its MCP bridges |
| `ContextPromise`, `ContextTools` | what `context_fetch` and `memory_search` return |
| `SeqOrder` | what stands before what in a sequence, and what is left of one: used by several modules |
| `MC...` | instances for TLC |

The modules are the parts of one program that share the ledger and the event
loop. Where one part is the environment of another, it does there whatever its
own module allows: a worker of `TaskLifecycle` ends as it likes, in `CodexRun` a
gateway sends, cancels and closes as it likes, the sockets of `Speech` and
`Delivery` drop as they do in `DuplexSession`.

`MCCoordinator`, `MCSession` and `MCTasks` check several modules in one run: a
behaviour is of one of them (`part`), chosen initially. The modules share no
variables, so this is the union of their behaviours and not a product. `MCTasks`
extends `TaskLifecycle`, whose properties it checks under their own names.

A `...Promise` module holds what one component promises, with the variables that
the promise speaks of. The component, the `MC` module and the proofs extend it, so
the model, its theorem and the run that composes it with others share one
definition.

### TaskLifecycle

`task`, `run`, `event` and `final` are the ledger file: `TaskRecord`,
`RunRecord`, the row of a run's Done event, and the delivery under the marker
`terminal:<task>`. `job` is the `_dispatch` coroutine of a task, its `pc` the
await it is at; `stream` is the worker's event stream; `cancel` is a
`_cancel_task` call that holds the task lock over its await. An action is the
code between two awaits. Where a handler commits several transactions the
action has a parameter `k`, how many of them were committed: with fewer than all
the process died there, so every crash point between two transactions is
covered without breaking the atomicity the event loop gives.

The workspace lock, the provider's slot and the task lock are taken in the
code's order. `_reduce_event` takes no task lock, and neither does
`_terminal_from_cancel` when the job calls it: the races with a cancel are real
behaviours of the model. Exactly one gateway uses a ledger file at a time; that
is an assumption, see section 6.

A worker whose cancel failed is `deaf`. One that the gateway let go of and that may
work on is `stray`: a start that timed out has no run to close, and a `run.close()`
that raises or times out is only logged before the workspace and the slot are freed
(gateway.py:4015-4024). So `WorkspaceExclusive` speaks of the workers the gateway
still holds, and says of a stray one only that it excuses the other.

### Delivery and TaskCalls

`record`, `queue` and `lapsed` are the delivery rows (in `updated_at_ms` order)
and the claims whose lease ran out; `loop` is the await of `_delivery_loop`;
`awaiting` is `_delivery_outputs_pending`; `inputs` the session's input queue;
`handler` what the websocket handler is sending. Claim tokens are fresh, so the
attempt number stands for them. `heard` is an observation: how often a client
was sent a delivery.

In `TaskCalls` the model's thread steps and posts; `posted` is what the event
loop has still to run. `jobs` are the coroutines `_spawn` started. A call is
known by its number and its shape (one call, a batch of two, one that is refused
at once, one for an external tool). The handler sends an event and then lets the
coordinator see it (`Loop`); when the socket dies in between the coordinator never
does, and the session is parked (`Lose`; online_duplex.py:1220-1229).

### DuplexSession, Speech, Media

A session is named after the connection that opened it, a grace timer after the
connection whose end started it, a resumed event after the connection that
parked with it (`active.resumed` is replaced at every park). The decision to
resume (`Connect`) and the attachment (`Attach`) are two steps, because
`run_startup` is a task of its own; the timeout of a grace timer and its check
of `attached` are two steps for the same reason.

`Speech` follows a chunk of audio from the Thinker's text to the socket. The
worker's check of its cancel event and its put of a chunk are two steps; an old
connection's pump and detach overlap the resumed one. A pump takes one output at a
time to its connection, holds back what comes for a client that is gone, and drains
what is left when its session stops. A chunk carries the session
and the generation it was made in, and `cache` says whose speech the Talker's
caches continue, which is how one sees that a voice runs on from another.

In `Media` a sample is the time it was captured at, and so is a picture; a unit
is cut twice, by the timeline for its time and by the chunker for its samples,
and the property is that the two agree. A message on the wire has the numbers the page
gave it; `Lines`, the cutting of a frame at the edges of units, is a recursive
function, as the loop of `split` is. Decoding and persisting of pictures run
on threads, in any order.

### Interactions and CodexRun

`ask`, `event`, `command` and `prompt` are rows; `sender` are the four coroutines
that may be awaiting `WorkerRun.send` (the user's reply, the reducer of an event,
the expiry loop, the replay). A send has three parts in the provider
(codex.py:993-1007): it finds the native request, writes the reply and awaits the
drain (`Write`), and then removes the request (`Take`), unless the server or the end
of the turn has removed it before (`Dropped`). The caller's timeout may come before,
between and after them; between the two the request stays, `cut` remembers the ask,
and another reply can be written to it. `heard` and `given` are the first and the
last decision that was written. `k` is again the number of committed transactions.

In `CodexRun` a turn is named by the message that starts it. `op` is the
coroutine that holds the task lock, `reply` a `respond`, `finisher` a side
query's, `closing` the dispatch job's; the watcher of notifications is a step per
notification. `lost` and `cut` record what the gateway's 30 s send timeout cut off.

### Coordination and Plans

`Coordination` says what becomes of a user turn: receipt, job, plan. A plan is
the set of turns it was made from, which is how one sees that a plan belongs to
another request. `Plans` says what becomes of a plan: its commands against tasks
whose dispatch job is opening a run, replaying the outbox to it, or serving.
An operation's id is its request and its place in the plan, so a plan made again
after a crash may use an id for something else.

### TaskControl, Supervision, WorkerTools, ContextTools

`TaskControl` numbers tasks in order of creation; a name is a stem and the
numbers appended to make it new. A call that awaits a task's lock or worker is in
`hand`, and workers run, ask and end meanwhile. What is in view is a filter of the
saved tasks (`SeqOrder`), the newest ended ones capped. `Supervision` follows one task's
reports through the channel's bounded queue into the ledger (`log`), under the
contract revision in force at their commit, into aggregates and deliveries; every
commit is a step and may be the last before a crash. `WorkerTools` has calls and
the dispatch tasks behind them separately, because a call may give up and be
repeated. `ContextTools` pages through records while others are written and finished
tasks of the lineage pruned (`Prune`), which takes the task's records, its turns and its
events out of what is gathered. A record's place is given by its key (its time, its kind, when its task was updated last, its
number), as the stable sort of the code has it, and a page ends where its items or
its characters run out.

## 3. Runs

| Run | Instance | Shows |
|---|---|---|
| `task_liveness` | 2 tasks, a workspace each, 1 slot, 1 crash | implements `TaskPromise`; every accepted task ends unless a worker works for ever; the user is told unless the process died |
| `coordinator` | an ordinary malformed and an urgent question delivery, 3 claims each, 1 tool call, 1 drop, 1 crash; 2 tool units, 2 turns | what is committed was sent, once; no claim is lost; pending news is heard; a call is answered unless its event died with the socket, by its own answer, under one turn |
| `sessions` | 3 connections, one session id; 2 units of speech, 1 event; 2 pictures, frames of 1 and 3 samples over units of 2 | slot and timers, implements `ModelSlot`; no stale audio, no voice carried over, nothing wanted lost; units and pictures belong together |
| `interactions` | a question and a permission, 2 user turns that say different things, plan, policy, expiry, 2 crashes | the ledger records what the worker was handed last, and first unless a reply was cut off after its write; prompts fit; closed stays closed; resolving ends |
| `codex` | 1 update, 1 side query, 1 native request of 2 questions, 2 operations, 1 death of the app server | requests served once; a cancel stops the turns; the stream ends |
| `coordination` | 2 turns, 2 turns per thread, 3 coordinator turns, 1 death of the app server, 1 crash | no turn lost or applied twice; all planned to an end; waiters return |
| `tasks` | scheduler: 2 tasks, 2 runs, one workspace, 2 crashes. Around a task: 3 tasks, 2 of them no side query, 1 ended one kept; 2 requests of up to 2 commands, queue of 1; 3 reports, 2 revisions, queue of 1; 3 tool calls, 2 bindings, cache of 1; 15 records of 3 tasks, 9 of them held, 2 writes, one task pruned; 1 crash | all safety properties of the scheduler; what tools, plans and progress promise of a task |
| `duplex_resume`, `coordination_plan`, `codex_query`, `speech_reset`, `media_resume` | | disagreements, section 5 |

Why the bounds are enough to be interesting: two tasks are what a lock or a slot
has to keep apart; two crashes let a recovery itself be interrupted; a task
opens at most one run (that is `OneRunPerTask`, and with a second run free TLC
could see it broken). Three claims of a delivery are a claim, a refused input and
a claim after its lease ran out. With three connections a session can be opened,
parked, resumed, parked again and taken over by a new session, with two timers
alive. One event of `Speech` is an interruption, a drop with its resume or a
reset; two units let the second be of a new generation. Frames of three samples
over units of two begin inside, at and after a unit's edge. Two replies that
disagree, with a plan, the policy and the expiry, are every pair of actors that
can answer one ask; the second crash cuts the recovery of the first. Three coordinator turns are one that is cut off, its retry,
and one on a new thread after the limit of two. A queue, a cache and a number of
kept tasks of one are the smallest that overflow. Runs with `CHECK_DEADLOCK FALSE`
are those whose instance runs out: of connections, units, turns, calls or records.

**Fairness.** The event loop runs every coroutine that can run, so the steps of
a job, a handler or a timer are weakly fair. `TakeWorkspace`, `TakeSlot` and
`Fail` wait for asyncio locks, which are handed out first come first served, so a
waiter is not passed over for ever: strong fairness. A dead process is restarted.
Nothing makes a worker end: the gateway reads its events without a limit
(gateway.py:565-603, 3998), and no provider limits a main turn. So
`EventuallySettled` and `EventuallyTold` exempt a behaviour in which from some point on
the gateway always listens to a worker that is not to be stopped, or whose cancel
failed. A worker whose task is being cancelled is not exempt before it was asked:
where the cancel came before there was a run, the job must ask. In `TaskCalls` the
socket may die at any event; a call lost that way is exempt from `CallsAnswered`. In
`Delivery` the
client keeps sending audio, which is what makes the model step, and the Talker
is not busy at every poll. In `Interactions`, `Coordination` and `CodexRun` an
awaited request is answered or times out; the app server owes nothing, a turn it
works on may never end. Nothing makes a client connect, speak, leave or come back.
`Speech`, `Media` and the five modules around the scheduler in `tasks` are checked
for safety only.

## 4. What is proved

`TaskLifecycleProofs` proves, for all constants allowed by the module's
assumptions, the type invariant, `OutcomeAgrees`, `FinalAgrees`,
`ProcessedIsTold`, `OneRunPerTask`, `NobodyForgotten`, `WritesAccepted`, and that
`TaskLifecycle` implements `TaskPromise`. None of them is inductive alone. The
inductive invariant `IInv` adds three groups of facts:

* `RecordInv` relates a task to its run: which statuses have an active run, that
  an active run is the task's own, that a run the ledger knows belongs to a task
  that was accepted.
* `EventInv` says what a logged, unprocessed event may have left behind: its
  reduction did a prefix of its transactions, so that doing it again leads to
  the same outcome. This is why a crash inside the reduction is harmless.
* `ControlInv` ties the coroutines to the ledger: what a job may rely on at each
  of its awaits, that only a started task is being cancelled, that nothing runs
  while the process is down, and that a task that is not over has its job or is
  still to be visited by `start`.

The refinement follows from `IInv` and `WritesAccepted`: a step that changes an
open task's status to a terminal one is a `Settle`, one that writes a delivery
is a `Tell`, everything else stutters.

`WorkspaceExclusive` needs a second invariant, `LockInv`, over the first: it is
stated about the runs that work, the locks are held by jobs. A run that works and is
not stray belongs to a job that holds both locks. `JobLock` says that a
job which has not begun has no stream in this process, `NoStreams` that no worker
outlives its process, `Exclusive` that the locks themselves exclude. The proof
assumes finitely many slots, not finitely many tasks.

`DuplexSessionProofs` proves the type invariant, `ThinkerHasSlot`,
`ParkedIsWatched` and that `DuplexSession` implements `ModelSlot`, for any number
of connections and session ids. The inductive idea is `Known`: whoever can still
name a session (a handler, a timer, the table of sessions) names one that holds
the slot or has given it back, and one that gave it back has its Thinker closed. A
session that resumed onto a closed one (section 5) is covered: it never takes the
slot again. `WatchInv` adds what keeps a parked session from being forgotten:
the connection that parked it last left a timer whose event nobody has set since,
and a Thinker that was drained still has the handler that drained it.

`DeliveryProofs` proves `TypeOK`, `DeliveredIsHeard`, `HeardOnce`, `ClaimsHeld` and
`SettledStays`, for any deliveries, attempts, mutes, calls, drops and crashes. Its
invariant has three parts. `LedgerOK`: the queue lists the pending rows, each
once, and only a claim has a lease. `OneInHand`: at every await of the loop and
of the handler, one claim at most is on its way, in one place, and its attempt is
still the row's. `Spoken`: a delivery that was heard once more than the process
died is over and in nobody's hands, or about to be acknowledged by the handler.
None of the properties holds without the other two parts: a lapsed lease gives the
same delivery a second claim, and only where the first claim is tells whether
it was heard.

`InteractionsProofs` proves `TypeOK`, `AnsweredAsRecorded`, `PromptsFit` and
`SettledStays` for any asks, routes, user turns, decisions and crashes, where the
expiry denies (`SaysAssumption`; the code's timeout decision). `SenderOK`, `SoloOK`
and `CommandOK` are the core: an ask that is resolving has exactly one reply that
still counts, its own, and at most one coroutine that sends it; two coroutines
send to one ask only when it is closed. So whatever a late sender does, it cannot
record an answer other than the one the worker was handed last. That it was also the
first needs a second invariant, `HeardOnce`: as long as no reply to an ask was cut off
after its write, what was written first and last are the same; a native request that
still waits after a write has the coroutine that wrote at its drain, and that
coroutine is the only one (`SoloOK`). Expired and cancelled asks are exempt: an
answer and the expiry's "deny" may both reach the worker, and the record says which
of them counts.

`CoordinationProofs` proves `TypeOK` and `TurnsHandled` for any turns, calls,
timeouts, deaths of the app server and crashes. What a job still has to do was
asked for and never done (`JobIsOpen`); the runner's turns are the job's as long
as the job is its own (`RunnerHasJob`); until the process dies, what was applied
belongs to finished jobs (`AppliedIsDone`). `RoomLeft`, that a thread which may
still be used has a turn left, is what the type invariant needs. The theorem says
nothing of `PlanIsOwn`, which fails (section 5).

`CodexRunProofs` proves `TypeOK`, `RequestsServed` and `CancelStops` for any
follow-ups, side queries, requests, questions, deaths of the app server and
gateway timeouts. For `CancelStops`: the only turn that was accepted and may run
is the active one (`OnlyActiveRuns`), and a turn that the server took up after the
active one finds it over (`ActiveStarted`), because a thread runs one turn at a
time. For `RequestsServed` the order of the notifications matters: a request is
notified once and looked at by nobody before (`AsksComeOnce`); a pending
interaction was not answered unless its reply is at its write or was cut off there
(`PendingUnanswered`); and the notification an open request waits for comes after
the end of every earlier main turn (`AsksAfterDone`), so the end of a turn, which
clears what is pending, cannot take the request of the next one with it. What is
not promised is said in `RequestHeld` itself: once the run's stream ends, or its
result is queued, a request may be open in nobody's hands. Without that exemption
TLC shows the misrouted end of a side query (section 5) doing exactly this.

`TaskCallsProofs` proves `TypeOK` and `CallsBound` for any calls, batches, turns,
timeouts, refusals and errors. It follows the open call: it is posted, buffered
for a turn, at an external tool, or in the hands of one job, and never at two of
these at once; a job that sleeps on the grace timeout knows its call by a nonce,
so a job that was overtaken finds another nonce and drops out. The other half is
about turns: a turn that was bound is consumed, and a turn in a job's hands was
bound to nothing before.

`SupervisionProofs` proves `ProgressTold` for any bodies of the contract, reports,
revisions, timers and deaths of the process. Only the last event of the log can be
unprocessed (`LogOK`), so recovery reduces at most one event again, and before
anything new is logged; what was done with it before the death is found again in
the open aggregates and in the keys of the deliveries (`AggregatesOK`, `SaidOK`). A
flushed aggregate holds processed events only, so nothing is gathered a second time
after it was told. For the order: when a milestone or the result is told every
aggregate is flushed (`PlaceOK`), so whatever may still be told came later
(`LaterComes`). Before the first death, what was flushed is told or is what the
gateway is about to tell (`FlushedIsTold`); afterwards it may be lost (section 5),
and the promise does not say otherwise.

The other six components are proved about in the modules of their neighbours, each
in a part of its own.

*`Speech`* (in `DuplexSessionProofs`): `SpeechKept` and `NoStaleAudio`, for any units,
chunks and events. Requests and outputs carry generations that only grow along
each queue, so what stands before a cancellation is older than it. The outbox's
floor is the generation the client was told is cancelled; anything older that the
worker still puts out meets it there. That nothing wanted is lost and `session.done`
comes last needs the order of what the pump holds, what the outbox holds and what
was written (`SpeechInvariance`).

*`Media`* (in `DeliveryProofs`): `SeenInTime`, for any size of units and frames, any
pauses, resets, changes of mode, shares and drops. The messages on the wire are
numbered on from what the handler has read; the timeline's edge and the chunker's
rest are cut at the same samples; of the parts of a frame, the one in which a unit
ends carries the time at which that unit began (`MediaInvariance`). What the recursive
function `Lines` cuts is known in closed form (`LinesCut`): were there an entry that
differs, there would be a first one, and it follows from the one before it.

*`TaskControl`* (in `TaskCallsProofs`): `NeededKept` and `NamesStick`, for any tasks,
stems, limits and side queries. A finished task whose delivery is pending, or that a
side query which runs belongs to, is in the part of the list that pruning keeps; a
new name is taken against everything in view at that moment, and what is in view later
and was not then is either new or `Borne` by a side query. The exemption is needed:
see section 5.

*`Plans`* (in `CoordinationProofs`): `PlansCarried`, for any requests, plans, queue and
deaths of the process. A command that waits in the outbox belongs to a run that is
opening or is in the list its run still has to replay; what a worker was handed came
from its instruction or from a command, and not from both unless a death of the
process came between (`PlansInvariance`). Requests cut off that way leave a trace behind
the plan's hand, and the invariant counts those traces against the deaths.

*`WorkerTools`* (in `SupervisionProofs`): `CallsRunOnce`, for any calls, bindings and
sizes of the cache. What runs for the bound route is in the cache, because
eviction stops at it (`CacheOK`); so a call that finds no entry of its id has no
running twin.

*`ContextTools`* (in `SupervisionProofs`): `NothingMissed`, for any records, limits, and
budgets of text. A record of the first selection that was not returned stands behind
the cursor (`StillAhead`): a write puts records before others and a task's new record
comes before what its old one came before, so no place gets smaller (`PushedAway`, by
an injection of what came before a record into what comes before it now). A prune that
takes no record the fetch has passed leaves the passed ones in their places, so at
least as many come before what stands behind the cursor (`NotPassed`). For the answers of the memory service, the sums of the recursive function `Spent` are shown
to exist by the least length that would lack them.

What the proofs take from outside: the `ASSUME`s of each module, which TLC
evaluates for every instance it runs, and the theorems of the library about finite
sets, sequences and well-founded orders. For a module that is instantiated in the
module of its proofs the assumption is an operator (`WorkerToolsAssumption`), a
hypothesis of the theorem, and `MCTasks` and `MCSession` assume it of their instances.

The library's induction rules cannot be used by the installed provers. Where a fact
about a sequence or a recursive function needs induction, it is proved from the
least counterexample (`First`, `Least`), for the function at hand.

Only model-checked: the liveness properties (`EventuallySettled`, `EventuallyTold`,
`EventuallyHeard`, `CallsAnswered`, `SlotComesBack`, `ResolutionEnds`, `RunEnds`,
`TurnsAnswered`, `WaitersReturn`) and the fairness they rest on, which are outside the
prover's reach.

## 5. Where the code and its comments disagree

Each of these is a run that TLC must find violated; the trace is the argument.

* `ResumedIsWhole`: a client decides to resume in the turn of the event loop in
  which the grace timer finds nobody attached. The timer ends the session, and
  the client is then attached to a closed Thinker without the slot.
* `PlanIsOwn`: the gateway gives the coordinator five seconds more than a turn
  has; interrupting a turn may take ten. The gateway's cancellation then lands in
  the handler of the turn's timeout, which does not retire the thread. The next
  request's turn is answered with the late completion of the first.
* `QueriesStayAside`: a side query is being disposed of and awaits `turn/interrupt`
  when the next operation cancels it there, so it stays registered; if that
  operation is a query, it takes `_side_query`, and the end of the first query's
  turn is taken for the end of a main turn. The run's stream ends as cancelled
  while the main turn goes on, although README.md:145 calls a fork an inquiry
  "without modifying the primary task".
* `ResetIsHeard`: a reset raises the outbox's generation floor and nothing lowers
  it, while the new Talker counts from one: the first reply after the reset is
  dropped as stale.
* `ResumedIsHeard`: a page that resumes goes on numbering its microphone frames,
  the resumed connection's timeline expects number one, and the mismatch is fatal
  to the session.

Met while modelling, behaviours of the models that no property forbids:

*Deliveries and sessions.* A claim whose model event was lost with the socket
stays in `_delivery_outputs_pending`, and the delivery loop of the resumed session
delivers nothing any more (task_tools_online.py:909; `EventuallyHeard` exempts
it). The loop looks at the timing of the oldest pending delivery only, so an
interrupt behind an ordinary one waits for a pause (task_tools_online.py:786,
against gateway.py:2051). A socket that drops while `build_coordinator` is awaited
parks a session that has no coordinator and whose token no client was sent
(online_duplex.py:1405). A question cancelled between claim and acknowledgement
makes the acknowledgement raise and the session end; a mute during the await of a
pause does not stop the delivery; two clients with one token may both be attached.

*Scheduler.* A worker that ignores its close or whose start timed out may go on in a
workspace that the next task then gets, although codex.py:445 promises to "Serialize
Projects that resolve to the same concrete workspace" (`WorkspaceExclusive` exempts
it: without `stray` the model would hide it). A worker that never ends keeps its
task, its slot and its workspace for ever; there is no turn timeout.

*Task calls.* `observe_frontbrain` runs only after the event was sent. A socket that
dies at that send leaves the call of the event open in the model, and nobody answers
it in the resumed session (`CallsAnswered` exempts it; without the exemption TLC finds
it violated). Until a reset the model's further task calls meet the open one. A tool
error longer than `max_tool_response_tokens` leaves its call
open; the end of an old reply consumes a newer turn (task_tools_online.py:401-404).

*Interactions.* A reply that is cut off by the 30 s timeout between its write and the
removal of the native request has reached the worker, is recorded as failed, and puts
the ask back to the user; a second reply, which may say something else, is then written
to the same request, accepted and recorded (codex.py:1001-1007). `AnsweredAsRecorded`
exempts such an ask from its first half; without the exemption TLC finds the trace. An
answer of the policy that the worker refuses leaves the ask
pending with no prompt. A resumed run knows no native request of before, so a
reply accepted while the run is being opened again is refused at the replay,
although README.md:166 has accepted replies survive. Events reduced again by
recovery may prompt for a closed ask, or put to the user what the contract denied
(gateway.py:4419-4430).

*Codex.* The result of a turn that did not see an accepted update ends it too (against
README.md:149-150): `steer` ignores mode "replace". The watcher tells no run of the
server's death; a completion before `register_turn` is lost; a cancel cut off by
the 30 s timeout leaves its turn expected for ever.

*Coordination and plans.* A plan applied in part before a failure is told as one
that could not be prepared; a crash between apply and finish plans again.
Updates accepted while a run opens are lost when their replay fails. The replay
takes no task lock, and the outbox is ordered by last update: a newer update may
reach the worker first. A send that timed out is told as rejected though the
worker took it. An operation id of a plan made again may belong to another task,
and its marker then drops or misdirects the command. Contract revisions are
messages that `WorkerRunChannel.send` does nothing with (gateway.py:643).

*Task tools.* A send that failed cannot be retried in the same user turn; a crash
between `create_task` and `save_receipt` makes the repetition a second task with
another name; an ended task that a running side query keeps re-enters the view. It
may find its name taken: while more than the newest ended tasks hide it a new task
gets the same name, and when the others go both are in view. `NamesStick` exempts a
task that is in view by its side query alone (`Borne`); with two ended tasks kept, four
main tasks and no exemption TLC finds two tasks of one name after 21 steps.

*Supervision.* A crash between the flush of an aggregate and its enqueue loses it;
a cancel or a failure flushes none; a report that waited at the full queue may be
overtaken by a later number, which the ledger then refuses, failing the run.

*Worker tools.* The id of a call is made from tool and request id only; an MCP
process of an ended run reads the route of the next one. The tail of a text cut by
a page's budget is never returned; an updated task moves to the front of the order.
Records of one kind and millisecond stand in the order of their tasks' last updates
(`list_tasks`), so an update of a task between two pages may exchange two of them
across the cursor, and one is never returned; a turn id heard in a second voice
session stops naming the first turn, and what was behind it moves up by one. A control
call prunes finished tasks first (gateway.py:2590, 2640, 2672), also the one that the
worker's task continues (2824-2833); the records of it that a fetch has passed then no
longer count, what follows moves up under the cursor, and the last page still says
`truncated: false`. A fetch is promised whole but for those (`Swapped`, `Renames`,
`Passed`): without any one of the exemptions TLC finds `NothingMissed` violated.

*Media.* A picture still being decoded at a reset or a change of mode is published
into the new conversation; one persisted across a reset is remembered by the new
coordinator; while there is none it is not remembered at all.

## 6. What is not modelled, and why

* Two gateways on one ledger file. It can happen for a moment (the slot is freed
  before `coordinator.close` returns), and the code says nothing about it;
  `TaskLifecycle` assumes one.
* Questions, side queries and contract updates of a plan (`_apply_plan` from
  gateway.py:2306), and the await of a worker's cancel inside a plan: `Plans` has
  creation, instruction and cancel. `Interactions` has the plan that answers an ask.
* A reset whose model open fails; per-worker mutes; the classification of reports
  and the ranking of context by score, which are inputs of the models.
* The pool of Codex workers, sandboxes and files; the parsing of plans, contracts
  and configuration; the ASR child process; the CLI.
* Models, audio, tensors, training and data preparation (`minicpm_ft`): numerical
  batch code.
* The browser client is the environment, but for how it numbers microphone frames
  and shares pictures.

## 7. Plan

Done: every component of section 1 that has a state machine has its module, and every
safety property that a run checks, invariant or action property, is a theorem. What
is left:

1. What one step may never do, in the modules that have an inductive invariant:
   a report's place in the log, a revision of the contract, the order of a Codex
   run's notifications and a job's applied plan are never taken back.
2. Artifacts and the ranking by score in `ContextTools`; questions and side queries
   of a plan in `Plans`.
3. A second gateway on the ledger for the moment described in section 6.
