# Nexus Studio backend: TLA+ models, checks and proofs

This directory holds TLA+ specifications of the parts of the Nexus Studio
backend where a wrong order of steps costs money, loses results or locks a user
out. They are translated from the Python under `src/app`, model-checked with TLC
on small instances, and their safety properties are proved with TLAPS for every
value of the constants.

## 1. The system

The backend is a FastAPI application (Python 3.12, asyncio) over Postgres
(Tortoise ORM) and Redis, with LangGraph agents, Celery workers and an external
generation gateway. Several API processes may run at once; state that is shared
between requests is in Postgres or Redis, never in a process.

| component | state | operations | what is hard | what makes it correct |
|---|---|---|---|---|
| Billing (`server/billing`) | orders, webhook events, ledger, balances | `create_checkout`, `apply_payload` | duplicated and concurrent deliveries, rollbacks, row locks | each purchase credited once, no credit lost, tables agree, no false acknowledgement |
| Replay store (`agent/runtime/stream/replay.py`) | per request: meta hash, frame stream, lease; per turn: cancel key | claim, append, finish, mark lost, read, follow | several writers may close one log; leases run out | a log is closed once, followers get all of it and always learn the end |
| Canvas turns (`agent/canvas/turn`, `use_cases/canvas_episode.py`) | session lock, background execution, its refresher and watcher | start, resume, reconnect, cancel, forced release | crashes, stalled processes, cancels in another process | one live turn per session, no leaked lock, cancels take effect |
| Generation tasks (`server/generation`) | `generate_task` rows | submit, callback, query, cancel, delete | callbacks early, late, twice; compare-and-set lost | status moves forward, agrees with the gateway and the results |
| Node projection (`canvas/services/generation_*.py`, `ports/adapters.py`) | generation fields of a canvas node | gate, bind, sync | what was read is written several steps later | the node shows results of the task it is bound to |
| Workflow runner (`agent/canvas/workflow`) | none of its own | `advance_node` | its error handler writes a stale node | one task in progress per node |
| Canvas document (`canvas_service.py`, `episode_events.py`) | nodes, edges, revisions, event log | `apply_patch`, text output | optimistic revisions | no content overwritten that its writer had not seen |
| Episode fence and sessions (`episode_fence.py`, `canvas_episode.py`) | mutex and set of running generations in Redis, session rows | enter, leave, acquire, wait, delete, create and close sessions | check-then-act against deletion, writers outside the fence, TTLs, crashes | generations and deletion exclude each other, what is deleted is idle (broken by the runner, which is outside the fence), one session stays, the fence opens again |
| Replay publisher (`ReplayFramePublisher`) | buffer of answer tokens, a lock, a delayed task | publish, flush, close, append_failure | two tasks append, every append may fail | frames in order, none lost if the turn ends well, no token stuck |
| Chat turns (`agent/chat/turn`) | conversation lock, cancel signal, gate, active turn | message, resume, abort, suspend, startup cleanup | forced releases, signals, takeovers, leases | the lock belongs to an execution that will let it go; who is told to stop stops |
| Turn engine (`agent/runtime/turn_engine`, subscribers and recovery of chat and canvas) | run state, a queue of frames, a chain of tasks per subscriber | start, drive, fail, recover, clean up, cancel | cancellation at any await, tasks nobody waits for, a cleanup with a timeout | terminal frames in order, no silent end unless no subscriber tells what the turn waits for, the answer stored, a cancelled stream ends |
| Workshop tasks (`task_orchestrator.py`) | proposals, tasks, grants, project brief | confirm, transitions, grant, review, weak accept | everybody works with a row read earlier | an atomic lifecycle (`TaskLifecycle`), one task per proposal, no grant lost |
| Workshop runs (`workflow_schedule_service.py`, `workflow_run_execution.py`) | schedules, runs, messages | tick, trigger, execute, cancel, delete | claims and runs in separate transactions, redelivery | a trigger has one row with its task, a slot starts one run while nobody disables the schedule, an executed run has its task, a message ends its run unless what executed it failed |
| Upgrade invitations, browser sessions, registration codes, cache, rate limiter, ids | rows or Redis keys | see `PROJECT.json` | clocks, Docker, single commands | see `PROJECT.json` |

The HTTP use cases call the services; the services meet in Postgres rows and
Redis keys. A turn is started by one HTTP call, runs in a background task, and is
followed by any number of calls that read its log. The gateway answers a
submission at once and reports its end by a callback, which is projected on the
canvas node; queries of the API do the same by asking. Agents, prompts, the
object store, third-party shops and page automation are left out: they are I/O
whose state is elsewhere. `PROJECT.json` lists every component with its status,
and the hazards of the code at their lines.

## 2. The modules

| module | models | extends |
|---|---|---|
| `Purchases` | abstract: what billing promises, orders placed and events credited in one step each | |
| `Billing` | checkout and webhook, one step per SQL statement | instantiates `Purchases` |
| `ReplayStore` | the Lua scripts of the replay store as operators on one request's keys | |
| `TurnLogs` | abstract: what the replay store promises to readers, logs opened once, extended and closed once | |
| `ReplayTurn` | calls, executions, lock and cancellers of one session | `ReplayStore`, instantiates `TurnLogs` |
| `GenerateTask` | the `generate_task` row and its conditional updates | |
| `Generation` | submissions, calls, gateway and one canvas node | `GenerateTask` |
| `TurnEngine` | one turn inside its process: run, bus, subscribers, cleanup, stream | |
| `ReplayPublisher` | the way of a turn's frames from the stream to the log: buffer, lock, delayed flush | |
| `CanvasEpisode` | fence, text and media generations, patches, sessions, deletion of one episode | |
| `ChatTurn` | messages, answers at gates, aborts and startups of one conversation | |
| `TaskLifecycle` | abstract: what the workshop promises of a task, one step per operation | |
| `WorkshopTask` | proposal, task, grants, review and brief, one step per statement | instantiates `TaskLifecycle` |
| `WorkshopRun` | schedule, dispatch, execution, cancellation and deletion of runs | |
| `MC*` | constants for TLC: payloads, kinds, turns, symmetry, casts; `MCChatTurn` puts a conversation and a stream's frames side by side, `MCCanvasEpisode` an episode and a turn's engine, `MCWorkshop` a task and a workflow's runs | the modules they name |
| `*_proofs` | theorems and their proofs; `Workshop_proofs` is about both modules of the workshop | the module they name, `MCWorkshop` |

The names of definitions are those of the code. `PROJECT.json` maps each of them
to its lines. Operators marked *Mutant* sit before the definition they alter; no
specification uses them. Each is a plausible slip in that code and makes the
property it is listed with fail.

### Billing

`row`, `events`, `ledger` and `balance` are the committed tables. A webhook call
`h` goes through the statements of `_apply_payload`: `Parse`, `ResolveOrder`
(unlocked read), `SelectEvent` and `InsertEvent` (`try_begin`), `MarkPaid`
(`FOR UPDATE`), `SelectLedger`, `LockBalance`, `InsertBalance`, `Commit`. What it
has written is not visible before `Commit`; a lock is the fact that a call is
past the statement that takes it (`HoldsEvent`, `HoldsOrder`, `HoldsBalance`).
`Rollback` may happen at any statement. A second insert of an event waits for the
first call; if that one commits, the `IntegrityError` is caught in Python but
Postgres has aborted the transaction, so the call ends with an error and Creem
delivers again. Creem is external: it sends any payload of `Payloads`, any number
of times, at any moment after it has the checkout.

`Purchases` is the same without calls: an order is placed, an event marks its order paid
and adds the pack's credits to what the owner has, each event once. `Purchase`
instantiates it with the orders and events of the tables and the balances, a missing
balance row counting as zero. Only `AttachCheckout` and `Commit` are steps of it, all
others stutter; so `ImplementsPurchases` says that the transaction is atomic although it
takes its locks one by one, after it has read the order without one.

### ReplayStore and ReplayTurn

`store[r]` holds a request's status, log (types of frames), size and lease. One
step is one Redis command or script, so a `GET` followed by a `DEL`
(`discard_starting`, `force_release`) is two. A call `c` claims a request, takes
the lock and spawns the execution, or follows the log: `read` (blocking read),
`after_read` and `after_empty` (meta hash), `has_lease`, `mark_lost`. An execution
`epc[r]` runs, fails, finishes, clears the cancel key and releases the lock; it
may die at any step, and it may stall so that its lease runs out while it lives.
`aged` stands for the comparison of the claim's age with the lease's TTL. The turn
engine is any sequence of frames; its end is nondeterministic. `evicted` is a
history variable: the executions whose lock somebody else deleted.

`TurnLogs` is what a reader is promised of the logs, with one step per change: a log is
opened, gets frames while it is open, is closed once by a terminal frame or given up, and
is forgotten only if the request was never run. `TurnLog` instantiates it with the
outcome each stored status stands for (`Outcomes`) and the frames (`Logs`);
`ImplementsTurnLogs` says that claims, appends, finishes, reports of a loss and deletions
by any number of parties are such steps or change nothing that a reader sees. The
terminal frame and its outcome are one step because they are one script.

### GenerateTask and Generation

`task[t]` is a row with its status, the stored gateway id (`union`), results
(`keys`), assets, error and flags; updates are conditional as in the repository
(`update_if_status`, `bind_union_task_queued`, ...). Statuses are the code's
integers. A submission goes through the gate, the row's creation, the gateway,
the stored id and the binding to the node; a runner's submission first reads the
node and the inputs. A call is a callback, query, cancel or delete; it reads the
row, decides, updates by compare-and-set and projects. `gw[t]` is the gateway
(external): it only moves forward and may end as cancelled by itself. A node's
assets are represented by the task they are of. Two pairs of reads are one step
each. The gate reads the node and then the task it names: an answer that lets a
submission pass, or refuses it, is one that a single read gives at some moment
between the two, and the binding decides again with the row locked. A projection
looks its node up twice in a row: a node unbound between the two lookups is like
one unbound before the first.

### ReplayPublisher

`ReplayTurn` takes a frame to the log in one step. This module is what is behind
that step: `publish` puts answer tokens in a buffer that is emptied when it is full,
when another frame comes, by `close`, or by a task that wakes up after a delay.
`lock` is the asyncio lock around each of these, `taken` what its holder is
appending. An append may find the log full or closed, and Redis may fail before or
after it has run the script, so that the publisher does not know. `flushError` is
what the delayed task leaves for the next `publish` or `close`. Frames are numbers,
so that order, loss and duplication can be told apart.

### TurnEngine

`ReplayTurn`, `ReplayPublisher` and `ChatTurn` take the engine as any stream of frames
that stops when told to. This module is the engine. `run` is the task of `_run`: it
starts the turn, takes the agent's events, and ends by a barrier (`TurnFailed`,
`TurnInterrupted`, `TurnCompleted`), by a recovery, or by being cancelled. `chain` are
the broadcast events that a subscriber has still to handle, each in a task of its own
behind the one before: `sse` of `SseTurnSubscriber`, `db` of the chat's recorder or of
the canvas' subscriber. A barrier waits for the chain of each subscriber it comes to
(`BarrierSse`, then `BarrierDb`), but the subscriber that stores for the chat has no
chain, and the recorder no barrier. `cleanup` is the shielded task of `_finish_turn`,
which repairs the checkpoint, broadcasts `TurnEnded` and drains the chains, for at most
`cleanup_timeout_sec`. `stream` is the generator the caller reads through the pump: a
cancel or a caller that leaves gives the run a grace, then cancels it and whatever it
awaits. `out` is the queue, `read` how much of it was handed on, `told` the frame
that is sent without the queue: the pump's `CANCELLED` or the runner's `ERROR`. Writes
of the answer may fail. `interrupt` is what the graph waits for when the run looks: a
gate or an invitation in the chat, a tool to be confirmed on the canvas in manual mode.
A chat turn may have published files, whose names the barrier stores as the turn's
answer before it looks at anything else (`state.published`). Steps with tools are one
event; titles, usage and the payloads of frames are left out, and so are resumed turns,
whose subscribers are others.

### CanvasEpisode

One episode with a text node, a media node and its session rows. A generation
tests the mutex, registers, tests again, works and leaves; a text generation claims
its node at a revision and writes its result back under it, a media submission tests
mutex and node, creates its task and binds it. An exception or a cancellation may end
either at any await (`Interrupted`). Two parties are outside the fence: a workflow
runner, which a gateway's callback starts, reads the media node, may write its
configuration, and submits by the same steps without being registered; and projections,
which write a status of the bound task that was read earlier, whatever the mutex. `media`
is the row of that node (its task, and whether it shows as running), `proj` and `seen`
are what a projection and a runner have read, and `outside` is a history variable: the
media node has been written outside the fence since a deletion tested the rows.
`delete_episode` and `delete_session` take the mutex; the former waits for the registered
generations, looks for busy nodes (`Busy`: one that shows as running, or whose task is in
progress) and deletes in several transactions. `create_session`,
`ensure_default_session` and `apply_patch` only look at the mutex once. A process
may die anywhere. The mutex and the set have times to live; they run out only for
processes that are dead (`MutexExpires`, `InflightExpires`): both are
`CANVAS_TURN_LOCK_TTL_SEC`, longer than the deletion's wait and a text generation
take. A live process that outlasts them is no longer protected; it is outside the
model.

### ChatTurn

Executions are `Starts` (`/message/stream`) and `Resumes` (`/turn/resume`). The
request part prepares and acquires `turnLock`; the stream part marks the turn
active, may be suspended at a gate, and ends; then two nested clean-ups run, that of
the agent's stream before that of the replay execution, which is why lock and
signal are released twice. Beside it a watcher polls the cancel signal
(`WatchCancel`) and a refresher renews the lease (`RefreshLease`). Aborts set the
signal, wait, and clear what the turn has left. A starting process does the same for
conversations with an active turn. The deployment is a single uvicorn process, but
nothing in the code relies on it, so a startup may meet live executions. An
execution may die, or its lease be lost while it lives; keys expire. Every request
has a log of its own, so the log appears only as the lease.

### TaskLifecycle, WorkshopTask and WorkshopRun

In `WorkshopTask` a call reads a row, decides, and writes by compare-and-set on
revision and status; the brief of the project is a JSON column that is read and
written back without one. `Lifecycle` instantiates `TaskLifecycle` with status,
grants and confirmation of the row: `ImplementsLifecycle` says that whatever calls
overlap, each step is one of the abstract operations or none.

In `WorkshopRun` a dispatcher claims a slot or a trigger key, and creates the run,
its task and its message in later transactions, each of which may fail. Workers
execute messages, which Celery may deliver again after a worker has died (`WorkerDies`)
or beside it; if only the pool's child that executes is killed, its message is
acknowledged (`PoolChildDies`). Administrators enable, disable, cancel and delete. A
trigger key that is used again, or a slot that a stale enable makes due again, finds its
row and task and starts a further run with a task of its own. The steps of the workflow's
graph are one step with any outcome.

## 3. The runs

| run | instance | result |
|---|---|---|
| `billing_concurrent` | 2 users, 2 orders, 2 calls, refused bodies too | tables agree, no credit is lost, what is acknowledged is credited, `Purchases` is implemented, calls end |
| `billing_two_events` | 1 order with two event ids, 2 calls | **violation** of `OrderCreditedOnce` |
| `replay_turns` | 2 turns, 2 clients | log and lock invariants hold |
| `replay_clients` | 1 turn, 1 client, 1 canceller | `TurnLogs` is implemented; cancelled turns stop, followers learn the end, a dead turn frees its session |
| `replay_resume` | a turn and its resumption | **violation** of `LiveTurnHoldsLock` |
| `generation` | 1 task with 2 overlapping calls; or 2 tasks on one node, one by the runner, with 1 call | rows, the node, tasks settle |
| `generation_runner` | 3 submissions | **violation** of `OneActiveTask` |
| `workshop` | 1 task with 2 calls; or 2 dispatches, 2 administrators; or 1 run, 2 workers | the lifecycle is implemented, no trigger makes two rows and no slot two runs unless the schedule is disabled, runs settle |
| `canvas_episode` | 2 text generations, an edit, a deletion; or a text and a media generation, a closer, a deletion; or a runner, a media generation, a deletion; or 2 closers, an opener, a deletion; or one engine with 2 events | exclusion, only idle rows deleted unless written outside the fence, no lost update, the fence opens; frames in order, answers stored, cancelled streams end |
| `canvas_busy` | 1 text generation, 1 deletion | **violation** of `RefusedOnlyIfInFlight` |
| `canvas_delete` | 1 runner, 1 deletion | **violation** of `NeverDeletesInFlight` |
| `chat_turns` | see below | lock, stopping, unlocking; and the frames' log |

`generation`, `workshop`, `canvas_episode` and `chat_turns` choose a cast (or focus) in the initial
state and keep it: parties that share no state are explored one cast at a
time, so that the state spaces add up instead of multiplying. The casts of
`chat_turns` are two messages and an abort; a message, the answer at its gate and an
abort; a message and two answers; with crashes, lost leases and expiring keys, a
message and an abort, and a message, an answer and a process that starts; and the
frames of one stream. The temporal properties are checked for one message and one
answer (`FocusedTurnsStop`, `FocusedLockFreed`): the others are of the same kind.

Why the bounds are enough to be interesting. Every property is about a race of
two parties over one piece of state: two webhook calls, an execution and a
follower, two followers, a canceller and the turn it missed, two updates of a
row, a projection and a new binding, a deletion and a generation or a runner, a worker and
the one that has its message again. Each run has those two parties and one thing
more. `MaxBytes` bounds the size of a log that unforced frames may reach: with 1
the limit, the forced frame beyond it and an empty log all occur; 2 adds a log of
several frames. `MaxFrames` (4) and `MaxDelta` (3) let a buffer fill up, be flushed by
its size and by the delay, and be followed by another frame. `MaxEvents` (2) lets a
token or a tool come before the step that answers, before a guard's stop or before an
end without an answer; the four properties of the engine also hold with 3. `MaxRevision` (7) is
enough for a task to be confirmed, executed, sent back to alignment and confirmed
again. `MaxSlot` (2) gives two slots to skip or fire twice; `MaxFaults` (1) is one
death or redelivery per behaviour. Four session ids suffice for a deletion that
recreates a default session. Symmetry is used for safety only, over calls and over requests
whose turns are their own. The gateway's and the row's statuses, the frames and
the steps are finite by themselves, so there are no other bounds. Deadlock is not
checked: an idle server is a legal end of every run.

The violations, each a disagreement between a promise of the code and what it
does (see `findings`):

- `billing_two_events`: two different event ids for one order, handled at once,
  credit it twice. Handled one after the other they credit it once.
- `replay_resume`: the lock's owner is the turn id, which a resumption shares with
  the stalled execution it replaces; the latter's release frees the former's lock.
- `generation_runner`: the runner's error handler unbinds the very task that made
  its submission fail, and the gate then lets another submission through.
- `canvas_busy`: the deletion that waits for a text generation makes the write of its
  result fail, so that the node stays running and the deletion is refused.
- `canvas_delete`: the workflow runner's submission asserts once that the mutex is free
  (`generation/services/service.py:122`) and binds its task several awaits later (`:197`).
  It is not registered in the fence, so a deletion that takes the mutex in between waits
  for nobody, finds no task, and deletes the episode with the runner's task in flight.

Seen while modelling, without a run:

- `discard_starting` (`replay.py:510`) may delete a log that a follower has just
  closed as lost; `force_release` (`canvas/turn/lock.py:135`) deletes whichever turn
  holds the lock at its second command.
- A stale projection (`generation_sync.py:121`) binds the node to the task it read,
  even if another was bound since; and a node that is generated a second time counts
  as in sync while it still has the first task's assets.
- A log may be closed as completed although a delayed flush has lost tokens, if the
  terminal frame is appended before anybody looks at the flush's error. The
  execution itself then ends as failed, which is why `LogIsFaithful` speaks of the
  execution's final status and not of the log's.
- A workflow run that is cancelled, or ended by a redelivered execution, after `StartRun`
  and before the worker reads the row again (`workflow_run_execution.py`, `RereadRun`) has
  its end overwritten: the worker's last update compares the revision it has just read, not
  the status. So that an ended run keeps its status is not a property of `WorkshopRun`.
- An operation authorised in the brief may be overwritten by another call's
  (`workshop/persistence/repository.py:822`); the grants themselves are not lost
  (`GrantsKept`).
- A gate that is found behind a stop by the guards or by the wall clock is announced as
  `TurnInterrupted`, of which `SseTurnSubscriber` tells only tool approvals and the
  chat's subscriber only invitations: the stream ends without any closing frame, and
  the gate is not made pending. And a turn that has published a file and is then
  suspended has the file's name stored as its answer (`finalize_published_deliverables`,
  `chat/turn/subscribers_persistence.py:180`), which skips the branches that would tell
  of the gate or the invitation (`:209`, `:238`): it too ends as interrupted without a
  closing frame. `StreamTellsEnd` exempts these two cases (`Unspoken`).
- A canvas turn in manual mode that waits for a confirmation and has not yet said a word
  is failed as `EMPTY_RESPONSE` (`canvas/turn/empty_hook.py:32`) when the agent's events
  end, before the engine looks at what the graph waits for.
- A trigger key that is used again finds its row, event and task, and yet starts a further
  run with an executing task and a message of its own
  (`workflow_schedule_service.py:501-540`); so does a slot that was claimed, whose
  schedule is disabled, and that an enable computed long before makes due again
  (`:561-597`). `workshop/persistence/repository.py:1992` says that the same key
  idempotently returns the run there is, which holds of the row alone. `SlotsFireOnce`
  therefore speaks of the row and its task, and of runs only for the ticks of a schedule
  that nobody disables.
- `celery_app.py:22` sets `task_acks_late` without `task_reject_on_worker_lost`, so that
  the message of a killed child of the pool is acknowledged and its run stays `running`;
  nothing looks for it later. `FocusedRunsSettle` exempts such a run.
- A text generation that is cancelled between its claim and its last write leaves the
  node running (`node_execution/text.py:119`), and a projection that is late may show a
  media node as running whose task has ended; either makes a deletion refuse.
- The chat may store one answer twice: the recorder's insert can be in flight when
  `TurnCompleted` comes, and the other subscriber, which does not wait for the
  recorder's chain, still finds `final_persisted` false
  (`chat/turn/subscribers_persistence.py:190`). `AnswerStored` claims at least one, and
  exactly one only for the canvas.
- A `CANCELLED` of the pump, or an `ERROR` of the mount's runner after a cleanup that
  timed out, may follow a `DONE` that was already sent; the replay log, which is closed
  once, is what keeps it from clients.
- In `ChatTurn`, a turn that is told to stop may be taken over by an answer at its own
  gate, which has its turn id; such an execution may go on, and `DisownedTurnsStop`
  exempts it.

### Fairness

- `Billing`: a running call goes on, and Postgres queues the waiters of a lock,
  hence strong fairness of a call's step. Nobody has to deliver or to check out.
- `ReplayTurn`: weak fairness of HTTP calls that have not died, of an execution's
  clean-up, its refresher and watcher, of an engine that was told to stop, and of
  the expiry of a dead process's lease. A turn that is not cancelled may run for
  ever; nobody has to cancel; the lock need not expire. That an engine stops when told
  to is what `CancelledStreamEnds` shows of `TurnEngine`.
- `TurnEngine`: the event loop goes on with what waits for nobody (`EventLoop`): the
  pump, the deadlines of grace and cleanup, the delivery of a cancellation, the
  subscriber that only fills the queue. Nothing is assumed of the agent, of a recovery
  or of the database, which may never answer.
- `Generation` (`LiveSpec`): a call that has started goes on; clients keep asking
  for the status of a task (the front end polls); the gateway answers some of the
  questions, and results can be stored some of the time. Without polling, a task
  whose callback came too early stays open for ever: that is the code's design.

- `ReplayPublisher`: Redis answers or fails, and the execution takes the steps that do
  not wait for the agent (weak fairness). The asyncio lock is first-in-first-out, so
  the delayed task, which is enabled again and again between two publications, gets
  it (strong fairness). The agent may be silent for ever.
- `CanvasEpisode`: a call that holds the mutex goes on, and the mutex of a dead one
  expires. Nothing is assumed of generations: the wait for them has a deadline.
- `ChatTurn`: an execution's clean-up, the reaction to a set `cancel_event`, the
  refresher that finds its lease or lock gone, and an abort that was started. Nothing
  is assumed of the agent or of the watcher's poll, which may miss a signal that
  expires or is cleared.
- `WorkshopRun`: a worker that has a message goes on, and waiting messages are
  fetched. Faults are bounded, so a run is not redelivered for ever.

## 4. The proofs

The safety properties of all parts are proved for arbitrary constants: any number of
calls, requests, workers, slots or events. Each `*_proofs` module has an inductive
invariant (`IInv`, `Kept`, `Inv`, `TaskInv`, `RunInv`), with `Init => IInv`,
`IInv /\ [Next]_vars => IInv'` (one lemma per action or group of actions), and
`IInv` implies the property. The properties are seldom inductive as they stand: they
speak of tables, keys or frames, and a step writes what a call has read some steps
before, so that the invariant must say what of it still holds.

- `Billing_proofs`. `IInv` adds to the table properties: rows have their checkout
  (`RowsOK`); what a call has read still holds where it relies on it (`CallsOK`);
  two calls never hold one lock (`LocksOK`); every ledger row stems from a payload
  (`LedgerHasSource`). The heart is `Commit`: the event is new because its unique
  index was held since `InsertEvent`, and the balance is the one that was read
  because its row was locked. `CreditedOnce` proves `OrderCreditedOnce` from the
  assumption `OneEventPerOrder`, which marks exactly what the violation needs.
  `CreditsAreAtomic` is the refinement: `Commit` is the step `Credit` of `Purchases`,
  again because the event is new and the balance is still the one that was read, and the
  steps before it show nothing. `SettledPurchasesRest` is proved of `Purchases` and holds
  of the webhook because it implements it.
- `ReplayTurn_proofs`. `StoreOK` says of each log that it is well-formed together
  with its status; `ExecOK` ties an execution to its publisher and store,
  `CreatorsOK` says that at most one call is creating a request, `CursorsOK` that
  a follower is never ahead of its log. `LockExcludesTurns` proves
  `LiveTurnHoldsLock` when no turn is resumed (`OwnTurns`), the exact condition
  that `replay_resume` breaks. `StoreIsALog` is the refinement of `TurnLogs`: every
  script is a step of it or leaves outcome and frames alone (`ScriptsAreSteps`). The
  step that needs an invariant of its own is the deletion by `discard_starting`, which
  decides on a status read one command before: `UnrunOK` says that the log it is about to
  delete has at most the report of its loss, because a discarded request is never run.
  `EndedTurnsRest` and `FramesAreNeverWithdrawn` follow from `TurnLogs` alone.
- `Generation_proofs`. `SubOK` and `CallOK` say what a submission's and a call's
  locals still know about a row that others update: above all that a row read as
  succeeded stays so, and that a decided result is one the gateway has reached.
  `SeenOK` says the same of the node a runner has read. `OneActiveTask` fails
  (`generation_runner`), and two theorems say why. `OnlyStaleWritesTakeNode`: no
  submission takes a node from a task that is being generated, only the runner's writes
  and a projection of another task do (`TakesNode`). `GateHoldsWhileTaskIsKept`: where none
  of these does (`NodeKeepsActive`), `OneActiveTask` holds, because a task that is being
  generated is then the one its node is bound to (`ActiveIsBound`).

- `ChatTurn_proofs`. `Kept` is `ChatTypeOK /\ LockHasExecution`, which is inductive as
  it stands: the lock is taken by an execution that then has a release before it, and
  every step that leaves the holding states deletes the lock if it is the turn's own.
  `LockAlwaysHasExecution` is the theorem: a lock without an execution that will
  release it is one whose execution died.

- `Workshop_proofs`, the task. `TaskInv` is `TaskTypeOK`, the two properties and
  `LocalsOK` of every call: the row it holds is not newer than the stored one, and is the
  stored one if the revision is; the edge it is about to take is one of the graph; the
  capabilities on their way to the brief are granted. So a compare-and-set that succeeds
  writes on the row it has read, which gives `OneTaskPerProposal`, `GrantsKept` and the
  refinement `TaskRefinesLifecycle`: the initial states are those of `TaskLifecycle`, and
  each step maps to one of its operations or to a stutter. `ConfirmedBeforeExecution` and
  `EndedTasksRest` are then proved of `TaskLifecycle` alone and hold of the orchestrator
  because it implements it.
- `Workshop_proofs`, the runs. `RunInv` adds to `SlotsFireOnce` and
  `ExecutedRunHasTask` what a dispatch has done when it enqueues (`DispatchesOK`), and
  that the triggers recorded are those that have made a task until the workflow is
  deleted (`TriggersOK`): the unique index is what stops the second ticker from making
  one more. That a slot starts one run needs more, that nobody has disabled the schedule:
  only then does the next slot never go back.
- `CanvasEpisode_proofs`. `FenceOK`: who is past `acquire_exclusive` holds the mutex and
  a generation past its `SADD` is registered, or has died. `StaysIdle`: what
  `raise_if_canvas_busy` has found lasts until the deletion is over, because nothing is
  inside the fence and a task that is bound outside it sets `outside`; a task that is
  not bound yet does not make the node busy (`UnsentUnbound`). So `DeletionsFindItIdle`
  names the condition under which the deletion keeps its promise, and
  `NeverDeletesInFlight`, without it, fails (`canvas_delete`). `AnotherAlive` says the same of the counted
  sessions. `RevisionsOK`: a revision that is equal to the one read has the content that
  was read with it. Each action property is proved from the conjunct for it.
  `RefusedOnlyIfInFlight` fails (`canvas_busy`); `RefusalsAreRight` says what is left of it
  where no text generation gives up a node that it has claimed and left running
  (`GivesUpClaim`: a write refused because of the mutex, of another write or of a
  deletion, or an interruption): a running text node then has a generation that works on
  it (`RunningIsWorkedOn`), so that a refusal without one is due to the row of the media
  node, which shows as running what a projection has written there.
- `ReplayPublisher_proofs`. The log, the tokens taken out of the buffer by whoever holds
  the lock, and the buffer form one line (`Line`). Every step hands frames on along it,
  adds the frame in hand to its end, or drops those of an append that failed, and a frame
  is dropped only if the execution will notice it (`Lossless`). `LockOK` has that only
  the holder of the lock appends; `FinalOK` that an execution ends well only with the
  whole line in the log.
- `TurnEngine_proofs`. `RunOK` says where the run may be with its reason, its barrier and
  its cleanup. `ChainOK` is the heart of `FramesInOrder`: the end of the turn is the last
  event of the chain, and behind the frame of a failure the chain has nothing but the
  end, because the engine has waited for it and broadcasts no more. `SpokenOK` (what a
  turn has said when it is over) and `SentinelOK` (the sentinel is the last frame, and a
  stream that ends by itself has come to it) give `StreamTellsEnd`. `CanvasOK` and
  `ChatOK` say, for each surface, where an answer is that is not stored yet.

The type invariants are proved as well and are conjuncts of the inductive invariants.
TLC has checked each inductive invariant on a small instance, `ActiveIsBound` and
`RunningIsWorkedOn` with the steps restricted as their theorems assume. The runs check the
properties only, not the inductive invariants, and neither the
properties that follow from a refinement nor some that the theorems establish anyway
(`LogClosedOnce`, the type invariant of `CanvasEpisode`).

Assumptions on constants are the named `ASSUME`s of the modules; TLC evaluates
them in the runs.

Only model-checked: the liveness properties (`CallsEnd`, `FollowersLearn`,
`DeadTurnFreesSession`, `CancelledTurnStops`, `CalledTasksSettle`, `FenceOpens`,
`FocusedRunsSettle`, `FocusedTurnsStop`, `FocusedLockFreed`, `TokensLeaveBuffer`,
`CancelledStreamEnds`), which are outside the prover's reach because they need
fairness; and the five violations. For each of these a theorem names a condition under
which the violated property holds, in part or whole: `CreditedOnce`, `LockExcludesTurns`,
`GateHoldsWhileTaskIsKept`, `RefusalsAreRight` and `DeletionsFindItIdle`.

## 5. Plan

What is left, in order of importance:

1. Resumed turns in `TurnEngine`, with the subscribers they have instead.
2. An abstract specification of the fence (generations and deletions that exclude each
   other), and that `CanvasEpisode` implements it. Its action properties are proved
   directly at present.

## 6. Not modelled

The larger part of the repository by lines has no state of its own that a model could
go wrong about: agents, prompts and tools (what a language model answers), vendored
document skills and their validators, Pydantic contracts, one-statement CRUD and
listings, the page automation of the browser driver, and clients of object stores,
shops and the gateway. The models cover the parts where several parties change one
piece of state, which are a small share of the lines.

Within the modelled parts: authentication and signatures; the shape of a node's data,
edges and positions; the stored chat messages; the graph of a workflow and the
computation of its next slot; projects, members and artifacts of the workshop; TTLs
of logs and metadata (an hour or more after the end); wall-clock times except as the
order of events; loss of Redis or Postgres data. `PROJECT.json` gives the reason for
each component that is left out.
