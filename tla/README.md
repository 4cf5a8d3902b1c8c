# TLA+ specifications of hive-desktop

hive-desktop polls the places a developer's work arrives from (GitHub, Gitea,
Grafana, RSS, shell commands, webhooks), routes what it finds through user-drawn
flows into feeds and actions, lets the user triage the resulting inbox, and runs
terminals and agent chats beside it. The backend is Go (`internal/app`) over one
SQLite database; this directory models the part of it whose correctness is a
matter of *order*: what a crash, a failed write, a second goroutine or a window
with an old copy can do between two transactions.

## Inventory

| Component | State it keeps | Operations | Talks to |
|---|---|---|---|
| output worker, job record (`dispatch/output_worker.go`, `job_service.go`, `output_command.sql`, `job.sql`) | `output_command` rows, `job` rows, the mutex `runMu` | enqueue (by a flow commit), tick, confirm, rerun, retry, recovery at open | executors, actions catalog, retention |
| inbox triage (`store_inbox_item.go`, `canonical.go`) | `inbox_item` row: revision, unread, archive (actor, reason), ignored, payload | observe, mint, set unread, archive, ignore, mark all read, prune | producer, commits, windows, retention |
| ingest producer (`ingest/producer.go`) | `source_head`; cadence and failure maps | tick, refresh, drain, confirm absences | connectors, inbox triage, event log, engine's wake |
| event log, commit, replay (`store_event_log.go`) | `event_log`, `consumer_offset`, `feed_membership_claim`, `node_kv` | append, read a page, commit, activate a replay | producer, engine, output queue |
| flow engine (`runtime/engine.go`, `run.go`) | installed runners, wake and reload latches | install, replay, drain, pump | event log, flow store |
| retention (`ingest/retention.go`, `queries/retention.go`) | none | one pruning transaction every five minutes | all tables |
| flow nodes, scripts, graph (`runtime/nodes.go`, `function.go`, `kv.go`) | processors, staged KV | evaluate a node | engine |
| executors, session drafts (`dispatch/*_executor.go`) | cooldown windows, drafts | execute an action | output worker, terminals |
| scheduler (`schedule/`) | `schedule_cursor`, `schedule_run`, the mutex of a pass | pass, run now, prune, quit | agent workspaces |
| event bus (`events/bus.go`) | subscriptions with one slot or a queue | publish, subscribe, cancel, close | everything that announces |
| tmux terminals (`tmuxcc/broker.go`, `client.go`, `paint.go`) | a client per session: which panes the gate holds, its paint passes, a bounded backlog with one subscriber | attach, re-attach, route output, first paint, subscribe, overflow, resync, tear down | tmux, WebSockets, manager |
| command gateway, window set (`tmuxcc/gateway.go`, `controller.go`) | FIFO of commands with tombstones; windows with the generation they were added at; the windows of a move | send, give up, feed, fail; apply, attach, reconcile, move | client |
| pop-up terminals (`ptyterm/`) | a pty and its scrollback per terminal | open, write, resize, close | windows |
| agent workspaces (`agentws/`, `agent_workspaces_service.go`) | manifests on disk, `agent_workspace_session` rows, a tmux session per chat | start, resume, close, delete, end oneself, delete the workspace | scheduler, tmux |
| hive sessions and pull requests (`sessions_service.go`) | the vendored hive database | list, create, open | terminals |
| flow, action, settings stores | YAML on disk, parsed copies | load, save, watch | engine, worker |
| connectors, webhook listener (`sources/`) | caches, captured bodies | produce, receive | producer |
| adapters, frontend, tools, vendored hive core | | transport, rendering, builds | services |

What makes each correct, and what makes it hard:

* **Output worker.** An explicit invocation is one side effect and never
  repeated; a background command is delivered at least once with a bound; a row
  that says *running* is being worked on; a job tells the truth about its
  command. Hard because the side effect sits between two transactions, each of
  which may fail or be the last before a crash, because the pane and the ticker
  compete for the same rows, and because retention deletes beside both.
* **Inbox triage.** No write lands on a row other than the one its author saw; a
  manual archive is undone only as the policy says. Hard because three kinds of
  writers with different rules share the row.
* **Producer, log, engine.** Nothing observed is suppressed for good; no row of
  the log waits for an announcement that never comes; membership follows the
  source; replay neither grants nor takes what the user archived. Hard because
  the engine decides in several transactions on what it read in the first one,
  and the drains, the user, retention and crashes run between them.
* **Scheduler and agent chats.** An occurrence launches one chat, or leaves a row
  that says why not; a schedule runs no occurrence from before it existed; an
  agent that runs has a record to reach it by. Hard because the launch, the run
  row and the cursor are three steps, a quit cancels the context between them,
  and row ids are handed out again while other calls still hold them.
* **Terminals.** Whoever attaches sees what tmux wrote: a stream has no hole that
  is not announced, a screen that was lost is painted again, no pane is held for
  ever, an overflow ends in a recovery or in an end, and an end says why. Hard
  because the reader, up to five paint passes, the broker's callback, the pump
  and the teardown share the gate and the backlog under different locks.
* **Command gateway and window set.** A reply finds the command it answers, by
  position alone; the tabs are tmux's windows. Hard because callers give up while
  their command is in flight, and because snapshots are merged beside the
  notifications that arrive while they are on their way.
* **Event bus.** No lost wake-up, no dropped event, nobody blocked for good.

The full list of hazards, each at its line and with the properties that would
catch it going wrong, is `hazards` in `PROJECT.json`.

## Plan

Done, in this order:

1. `OutputWorker`, its proofs; `ActionQueue`, the abstract queue it implements, and
   the proof that it does.
2. `InboxTriage` and `InboxItem`, its proofs.
3. `Pipeline` (producer, log, engine, triage and retention together), its proofs.
4. `Broker`, its proofs; `EventStream`, the abstract stream it implements, and the proof
   that it does; `TerminalStream` on top of it, its proofs.
5. `AgentSessions` and `Scheduler` on top of it, their proofs.
6. `Gateway` and `WindowSet` on top of it, their proofs.
7. `EventBus`, its proofs.

Left:

* Commits composed with the queue: action terminals, deduplication, `node_kv`, and
  what a restart's fast-forward skips; two profiles; absence confirmation; the
  notify cooldown; webhook bursts; session drafts; pop-up terminals.

## Modules

* `InboxTriage` - pure operators: `Classify` of the canonical classifier as
  `Transition`, and `applyTransition` as `ArchivedAfter`, `Resurfaces` and
  `UnreadAfter`. A payload is its canonical state, `open` or `closed`.
* `OutputWorker` - the tables `output_command` (`cmd`) and `job`, and the holder
  of `runMu` as one program counter. `TickBegin .. TickTake` are `Tick` and the
  first half of `process`; `ConfirmCreate`, `ConfirmClaim`, `Rerun` and
  `ConfirmBegin` are the first half of `Confirm`; `LinkJob .. CloseJob` are what
  both do next, one action per database write. `MarkWriteFails` and the `Fault`
  disjuncts of the job writes are statements that fail; `CrashRestart` is a stop
  anywhere followed by `RecoverInterruptedOutputCommands`. A refusal ("already
  running", the confirmation prompt) changes nothing and is no action.
* `InboxItem` - one row, a copy per window, the source, flow commits, the bulk
  read and retention. Every write of the row is one action with its SQL guard.
* `Pipeline` - one source, one flow (source, filter, feed), its log, the
  producer's drains and the engine's goroutine. The log is kept relative to the
  consumer offset: `log` is what is unread, `last` the newest snapshot before it,
  which is all that a replay can still see. A pruned snapshot keeps its offset as
  an entry of kind `pruned`, which `ReadPage` skips. `ReadTail`, `ListItems`,
  `Prepare` and `Activate` are the four reads and transactions of `replay`;
  `ReadPage` and `Commit` those of `pump`.
* `Broker` - `broker.go` whole. What is published is numbered; a backlog entry
  carries the numbers it stands for, so merging, dropping and delivering are
  visible. A pump is one program counter: `look` (the head of its loop), `send`
  (parked on the channel), `took` (handed over, `advance` still to come), `gone`.
  The send on the channel, `advance` and every method under the lock are one
  action each, which is what the lock and the unbuffered channel make them.
* `TerminalStream` - a client on that broker. A *pass* is a goroutine that runs
  `firstPaint` for a list of panes: the one of a first attach, the one under
  `repaintMu` (re-attach or resync), the background goroutine either leaves
  behind, and the worker's reconcile. `Mark`, `Capture`, `Paint`, `Follow` and
  `CaptureFails` are the steps of `firstPaint`; `Paint` and `Follow` are the two
  emissions of `release`, during which `GateLocked` keeps everybody else out.
  `LockAttach .. EndResync` are `Repaint` and `resyncOverflow`, `TearDown`,
  `SayExited` and `CloseStream` are `teardown`. `item` says what each number the
  broker carries shows, so that the properties can say what is on the screen.
* `ActionQueue` - what the queue promises of a command, in six states: absent,
  waiting, held, done, failed, gone. `OutputWorker` defines the mapping beside its
  actions: `QueueStatus` reads a row's status (a missing row is gone if its id was
  used, absent if not), and the executions map to themselves.
* `EventStream` - what the broker promises its subscribers, without backlog, bounds,
  merging, pumps or generations: numbers are taken in order, each after all earlier
  ones were taken by somebody or lost, and lost only by a refusal, a clear of all that
  waits, or a closed stream that passes over what is next. `Broker` maps what was
  published, taken and lost to its histories.
* `AgentSessions` - the chats of one workspace: the records, the tmux sessions, and
  every call that makes or ends one, each database or tmux command a step, since
  the service holds no lock. `StartSession`, `Spawn` and `Settle` are a launch;
  `KillForDelete` and `DropRecord` a deletion; `EndOwnSession` and `EndAfter` an
  agent that ends itself. The deletion of the workspace is a kill of its chats
  (`KillWorkspace`, which a tmux that fails may end, or, silent, let through with a chat
  still running), the directory (`RemoveDirectory`, which may fail half-way), the
  transaction on the rows (`ClearWorkspace` or `ClearFails`) and the reload
  (`ReloadWorkspace`); a fault or the end of the process may come before each. `present`
  says that the directory holds a manifest, `workspace` what the store last read of it,
  and `Watch` is the watcher's reload, which also clears up after a deletion that did not
  reach its own. Row ids are SQLite's: one more than the highest row.
* `Scheduler` - extends it with the schedules, `schedule_cursor`, `schedule_run`, the
  clock and the loop. `BeginPass .. EndPass` are `pass`; `EvaluateNone`,
  `EvaluateFails` and `EvaluateDue` are `evaluate` with `planOne` inside;
  `LaunchSpawns` and `LaunchSettles` are the launch, `RecordRun` and `SaveCursor` the
  two writes after it, `LeaveOpen` the way out of a quit. `DeleteWorkspace` adds the
  cursors and the runs to the steps of a deletion, and `CreateWorkspace` builds the
  directory again, over whatever rows there are, as the code does.
* `Gateway` - `Send` as two steps under `writeMu` (slot, line), and `Feed` as one step
  per block of tmux. `WindowSet` extends it with tmux's windows, the controller's,
  and the three callers that list them: the attach, the reconcile worker and
  `MoveWindow`. `Merge` is `reconcile`, `Install` is `set`, `FeedNote` is `apply`. The
  line of a move names the window it moves, so a line still on its way when its caller
  has given up moves that window, whatever the next `MoveWindow` holds.
* `EventBus` - `bus.go` whole: `Place` and `Signal` are the two halves of a coalescing
  `enqueue`, `Enqueue` and `GiveUp` the branches of a buffered one, `Wakes .. Ends` the
  goroutine, `Unsubscribe`, `Quit`, `Close`, `CloseReturns` the teardown. `Write` and
  `Rereads` stand for the state a publisher writes and a handler reads again, which is
  what the policy of coalescing counts on.
* `OutputWorkerProofs`, `InboxItemProofs`, `PipelineProofs`, `BrokerProofs`,
  `StreamProofs`, `SchedulerProofs`, `WindowSetProofs` (the gateway's too),
  `EventBusProofs` - the theorems.
* `MC*` - instances: the model values and nothing else.

## Runs

| Run | Property | Shows |
|---|---|---|
| `MCOutputWorker` | `OneShot`, `NeverBackground` | an explicit invocation executes its command at most once and is never taken up by the ticker, across crashes and failed writes |
| | `RunningIsHeld`, `ListedStayPending`, `JobTruth` | the row, the lock and the job agree |
| | `ExecutionBound` | a background command runs at most `MaxAttempts` times plus once per fault |
| | `PendingSettles` | with a fair worker no queued command starves |
| | `ImplementsQueue` | it is an `ActionQueue` |
| `MCPipeline` | `HeadMatchesRow`, `ReplayFreezesArchived` | change detection hides nothing; replay leaves archived items alone |
| `MCPipelineLive` | `NoLostWake` | two drains of one source and the engine's latch |
| | `Converges` | the feed comes to agree with the source |
| `MCInboxItem` | `NoLostUpdate`, `ReasonMatchesActor`, `ManualArchiveKept` | optimistic writes and the archive |
| `MCBroker` | `WithinBounds` | the accounting is exact |
| | `ImplementsStream` | it is an `EventStream`: what a pump removes is what somebody received or a rule lost, and nobody is served ahead of turn |
| | `NothingStranded`, `TakenInOrder` | replacement of a subscriber loses nothing, and a stream is in order |
| | `CloseEndsStreams` | also when nobody reads |
| | `ReaderCatchesUp` | also when a clear takes the head from under the pump |
| `MCTerminalStream` | `ScreenComplete` | a subscriber that has caught up shows every byte of every pane that was painted and that no two passes had in hand at once |
| | `NoPaneLeftHeld` | whatever fails, some pass will still let go of a held pane |
| | `OverflowEnds` | an overflowed broker is resynced or ended, whatever pass is under way |
| `MCScheduler` | `LaunchedOnce` | an occurrence starts one chat, across crashes, quits and failed writes |
| | `OneChatPerSchedule` | the skip of a running chat is not fooled by trimmed history, manual runs or reused ids |
| | `Accounted`, `NoneLeftDue` | the cursor passes an occurrence only with a row or an error, and a pass leaves nothing behind |
| | `NoBackfire` | a schedule that was gone owes nothing for that time |
| | `Addressable` | no agent runs without a record, however calls cross |
| `MCWindowSet` | `OwnReply`, `Paired` | a reply reaches the command it answers, also after a caller gave up, and slots are in the order of the lines |
| | `NoPhantomClose` | neither an old snapshot nor a move's unlink closes a tab whose window lives |
| | `Agrees` | once all is quiet the tabs are tmux's windows |
| `MCEventBus` | `EachInOrder` | a buffered subscriber misses nothing |
| | `CatchesUp` | a coalescing one is never left with an old state |
| | `PublishReturns` | a publisher is not held up by a subscriber that is gone |

The type invariants of `Pipeline`, `Scheduler`, `WindowSet`, `EventBus` and
`TerminalStream` state the types of the variables for the reader; TLC finds them
true on the same instances, and no run repeats them.

Some properties name an exception, because the code has one:

* `LaunchedOnce` excuses an occurrence left `open` or `torn`. A quit that comes within
  the half second of `awaitEarlyExit` counts as a launch that never happened although
  the chat runs, so the next start launches it again, against the comment of `evaluate`
  (`scheduler.go:250`); a crash between the launch and the cursor does the same.
* `OneChatPerSchedule` excuses chats a user resumed, whose launch tmux failed to
  report, or whose run row or record is gone.
* `Addressable` excuses a launch or a kill that crosses the deletion of its record:
  the service takes no lock between its reads and its writes.
* `NoBackfire` and `NoneLeftDue` excuse a pass that runs beside the deletion of its
  workspace, from the moment the directory goes: nothing keeps the two apart.
* `NoBackfire` also excuses a schedule whose cursor a deletion has left behind (`kept`).
  `DeleteWorkspace` removes the directory (`agent_workspaces_service.go:871`) before the
  rows (`:874-882`). A crash between the two, a transaction that fails, or a removal that
  fails after it took the manifest leaves the cursors of a workspace that is gone. Nothing
  drops them afterwards: the deletion cannot be tried again (the workspace is not found,
  or `RemoveWorkspace` fails on a directory that is not there), `PruneCursors` reaches
  only workspaces the snapshot holds, and `CreateWorkspace` (`:1066-1077`) clears nothing.
  A workspace rebuilt under the name therefore runs an occurrence from while it was gone,
  which `store_schedule.go:133-136` warns of and the decision record of scheduled chats
  rules out ("A schedule never fires for a time before it, or its current `cron`,
  existed."). Without this excuse TLC shows it in ten states: a cursor is written, the
  workspace is deleted, the transaction fails, the clock passes an occurrence, the
  workspace is created again and its first pass launches. The excuse ends for a schedule
  when its cursor is next written or pruned, or a deletion reaches the rows; every other
  way for a schedule to go and come back is covered.
* `Agrees` and `NoPhantomClose` excuse a notification that is applied between a
  snapshot's reply and its merge (`late`), snapshots merged out of order (`overlapped`),
  and a move that failed or was given up (`unsettled`): a window that really closed
  while it was being moved keeps its tab until the next reconcile.

Three runs are expected to end in a violation; each checks a sentence of the
repository that the code does not keep (`findings` in `PROJECT.json` quotes it):

* `MCOutputWorkerStranded` - the first automatic attempt fails, the row waits for
  its retry with its job running, the user runs the action from the pane:
  `Confirm` claims the row, begins a second job and finishes both the command and
  that job. The first job stays *running* in the job list for ever; recovery does
  not touch it, its command being terminal.
* `MCPipelineNewest` - a page with two snapshots of a topic is reconciled to the
  older one; what only the newer holds is missing until the next poll.
* `MCTerminalSkip` - the worker's reconcile and another pass paint the same new
  pane. First: mark, capture. Then tmux writes a byte and the second pass marks
  behind it. The first release emits its snapshot without that byte and the tail
  behind the second mark, and lets the pane go; the second snapshot is discarded.

Six more disagreements were met while modelling and are kept as hazards in
`PROJECT.json`, without a run: the cursors that a deletion of a workspace leaves behind
when it is cut short, described above; a resync granted between the teardown's *exited*
event and its close clears that event; a re-attach's or resync's clear comes before
the panes are held, so live output may precede the snapshot that contains it; an
ordinary commit takes the claims of archived items, which `source-pipeline.md`
calls frozen; a drain that fails half-way leaves rows in the log and wakes nobody;
and archiving an item while a flow is deployed refuses the deploy, which is then
not tried again.

### Bounds

`MaxCommand = 2` with two invocations gives a queued command beside a claimed
one, a rerun beside its base row and a page of two; `MaxAttempts = 2` has a retry
and an exhaustion; `CommandLimit = 1` lets retention delete while a page is
listed; one fault is enough for every single crash or failed statement at every
point (two were checked once, 6.5 million states, with the same result).
`Batch = 2` makes the second row of a page wait while the first is executed. In `Pipeline`
`PageSize = 3` fits an item event with its snapshot and the beginning of the next
drain; `SnapshotLimit = 1` makes retention as eager as it can be; `MaxBacklog`
stops a drain from beginning while the engine has unread rows beyond it *and* a
wake-up, so it never hides a missing one. The remaining bounds count changes of
the environment, not steps of the program. `MaxRevision = 4` and `MaxRows = 2`
give `InboxItem` two stale copies, a deletion and a second row with the same
revision number.

`MCPipelineLive` has one item, both drains, two changes and one deploy, and no fault:
faults and two items are the business of `MCPipeline`. So a drain that fails after some
of its rows were appended, and wakes nobody, is not in `NoLostWake`'s run. `PendingSettles`
is checked with `Batch` as large as the number of commands: a row that waits behind a full
page for the next tick is not in that run.

`MCBroker` has an event bound of three, a byte bound of two and merges of up to
two bytes: a backlog fills by either bound, merges behind its head, and overflows
while the head is being delivered. `MaxGen = 3` has two subscriptions, one replaced
by the other or a stale one that ends. One clear, of either kind, and four events:
enough to overflow, resync and publish again. `MCTerminalStream` opens the second pane after the client attached:
it is held by the reader, painted by the worker, deferred by a re-attach or a
resync. tmux writes one byte. Every overflow comes with the byte bound of three reached,
for example by the byte and a snapshot of each pane unread, some of them with room left
under the event bound of four; one subscriber, one re-attach, one failed capture at any point.
A replaced subscriber is the business of `MCBroker`. A snapshot weighs one byte, less than in the program
and enough to overflow; a byte bound below one snapshot per pane is not a state of
the program (its bound is megabytes) and would resync for ever.

`MCScheduler` has one schedule, two expressions that name the times 1 and 2 or only 1,
and a clock that stops at 2: an occurrence missed and one met, a window that holds both,
a re-timed schedule. Three chats exceed the cap of two and let a row id be reused; two
requests are enough for a manual run beside a pass, a deletion beside a launch, or an edit
and its undoing; one fault for a quit, a crash, a failed statement or a silent tmux at
every step, those of a deletion too: the two requests and the one fault are a workspace
deleted, cut short anywhere, and built again. A history of two rows is trimmed by the third run. Grace is zero: with
so short a clock a grace would make every occurrence skippable, and the comparison is
the same. `MCWindowSet` has one window at attach and two that may be opened, two
changes, four commands and one fault: an attach and a move of three commands, or four
lists of the attacher and the worker that cross (with a fifth command a reconcile also
crosses a move's list: checked once, 5.7 million states, with the same result). Windows not there at attach and names are
symmetric; every property of the run treats them alike. `MCEventBus` has two publishers
on one coalescing subscriber, which share its slot, and three events for a queue of
one. Both of these stop where the environment has used its bounds, so deadlock is
not an error there; nor is it in the two runs of the broker, which ends when it is
closed.

### Fairness

`OutputWorker`: weak fairness of the goroutine that holds the lock (an executor
returns), strong fairness of `TickBegin`: the ticker fires for as long as the
process runs, and `sync.Mutex` in starvation mode hands itself to a waiter of more
than a millisecond. No fairness of the user, of faults or of retention.
`EventBus`: every goroutine is scheduled, a publisher that has begun goes on, handlers
return; nothing obliges anyone to write, to unsubscribe or to quit.
`Pipeline`: weak fairness of the engine's goroutine, of the poll ticker and of a
drain in progress (a fetch returns). A forced refresh, the user, retention and
the source are not fair.
`Broker`: every goroutine of the broker is scheduled; `Deliver`, the subscriber's
part, is fair only in the premise of `ReaderCatchesUp`. `TerminalStream`: every pass and the resync's and
teardown's goroutines are scheduled, and a capture is answered or fails
(`attachTimeout`, or the context that the teardown cancels). tmux, the transport
and the cooldown's clock are not fair.

## Proofs

TLAPS proves, for every value of the constants, what the runs check on small
ones: every invariant and action property of the runs, and both refinements. The modules have one argument: an
inductive invariant holds initially, every action of `Next` preserves it, and it
implies the properties. The assumptions are those the modules state of their
constants (`..Assumption`): bounds are naturals, sets that must not be empty are not.
`ScheduleAssumption` asks for a schedule and an expression, since a pass that is idle
still has a schedule in hand; a workspace without schedules has no pass to speak of.
`WindowsAssumption` also keeps apart what the model uses side by side: the three callers,
and the names of windows from the marks for a window that has none.

* `OutputWorkerProofs`. `IInv` adds to the properties what they rest on:
  `LockInv` (which status the row in hand has at each program counter, and that
  an explicit run's row is in `claimed`), `RowInv` (an unused id is blank; an
  open row has attempts left), `UserCount` and `AutoCount` (executions are at
  most the recorded attempts plus faults plus the one not yet recorded) and
  `JobInv` (the job in hand belongs to the row in hand or to none). `OneShot` is
  not inductive alone: it needs that a claimed row is never pending again.
  `NeverBackground` is proved from the same invariant as an action property.
  The theorems hold for any number of commands, invocations, attempts, any page
  and any number of faults; assumptions are `LimitsAssumption` only.
  `QueueImplemented`: under the invariant, every action of `OutputWorker` maps to
  the step of `ActionQueue` it stands for - a claim to `Invoke`, an execution to `Run` or
  `RunHeld`, a terminal write to `Done` or `Fail`, recovery to `Fail` of every held
  command, retention to `Forget` - or changes nothing the queue sees. The invariant is
  what makes it true: an explicit execution is a `RunHeld` because `OneShot`'s
  strengthening says it is the first, and what is recorded done has been executed.
* `InboxItemProofs`. `NoLostUpdate` needs that a copy is never newer than the row
  of its id and that ids are not reused (`CopyInv`): an equal id and revision
  then means an equal row. `ManualArchiveKept` follows from `Observe` alone.
* `PipelineProofs`. `TypeInv` adds to the types which locals the engine and the drains
  have in which phase. Under it `HeadMatchesRow` is inductive: a head moves with its
  row's payload (`IngestObservation`), a commit and a toggle leave the payload, and
  `Prune` deletes row and head in one transaction. `ReplayFreezesArchived` is about the
  transaction of `Activate`: what it prepared was prepared from rows an earlier read
  saw, and the guard of the transaction is what keeps a row archived since then out.
  `NoLostWake` rests on `WakeInv`: besides a waiting engine with unread rows
  (`WaitAnnounced`) it follows the start, which consumes the log through the tail it
  read and does not drain, so that rows past that tail need an announcer already while
  the start installs (`StartAnnounced`); an announcer is a set latch, a failure, or a
  drain that has written and not yet published.
* `BrokerProofs`. All of it needs `HeadIsHeld`: the pump that owns the backlog holds a
  copy of its head. That rests on the generations: a pump that is not `none`
  was subscribed, and the backlog's front changes only by the pump of the current
  generation or by a clear, which moves the epoch; a merge touches the last entry
  of two or more. `NothingStranded` adds that what a pump has `took` is received
  or lost already (`Handed`), so removing the head removes nothing untaken.
  `TakenInOrder` needs that the numbers of the backlog ascend within and across its
  entries (`InOrder`), that a pump which has not delivered holds only numbers above
  what its subscriber has taken (`HeldIsNew`), and that the rest of the backlog comes
  after those too: without the head while its pump holds the head (`HeldAhead`), the
  whole of it once a clear took the head from under the pump (`ClearedAhead`). The
  bounds are `CountInv` (the byte count is the cardinality of the numbers in output
  entries, which a merge keeps and a delivery lowers by its entry) and
  `DroppableInv`; `SubInv` counts the reports of an overflow.
  `StreamImplemented` puts these together: under them every step of the broker is a step of
  `EventStream` or changes nothing it sees. A delivery is a `Take` because what is less
  than the event in hand is not in the backlog (`HeldFirst`, also for a pump that was
  replaced or whose event was cleared), so by `NothingStranded` somebody has it or it is
  lost; a clear loses all that waits by the same invariant; a pump that passes over its
  event is one of a closed stream (`ClosingRules`).
* `SchedulerProofs`, for `Scheduler` and the `AgentSessions` it extends. `SessionInv`
  makes `Addressable` inductive: row ids are free when they are given out (`Rows`), a
  call that is about to remove a record has a chat that no longer runs, unless it was
  started beside the call (`RemovalInv`). `SchedulerInv` adds the phases of a pass, that
  a deletion which runs beside one is noted (`Crossing`), and that every schedule a pass
  saw is still to come, in hand, failed or at the pass's time (`DueInv`), which is
  `NoneLeftDue`. Then one strengthening per property: `GoneInv` (the moment a schedule
  was gone is not after its cursor or the pass, unless its cursor waits for a deletion to
  reach the rows, in which case a pass beside it is noted, or was left behind by one that
  did not) gives `NoBackfire`; `SpentInv` (the
  occurrence in hand is the latest that is due, and before the cursor is saved its row
  or its error is there) gives `Accounted`; `LaunchInv` (the occurrence of a chat is
  behind the cursor, in hand, cut short, or the cursor was dropped, in which case
  everything it had passed is in the past and a fresh cursor starts at now) gives
  `LaunchedOnce`; `SoloInv` (the rows before a schedule's newest launch are of chats that
  are quiet, and while a launch is under way so are all of its schedule's) gives
  `OneChatPerSchedule`, which needs that a chat a call has yet to spawn is nobody
  else's (`CallsApart`) although row ids are used again.
* `EventBusProofs`. The events of a publisher that lie in a buffered queue are exactly
  those between the last one handled and the last one delivered (`Contiguous`), in order
  (`Ordered`), however many publishers share the queue; a publisher that is held up has
  one more on its way, which is why `EachInOrder` is not inductive.
* `StreamProofs`, for `TerminalStream`. `HoldInv` makes `NoPaneLeftHeld` inductive. A
  pane passes from hand to hand: from a pass that ends to the one it leaves behind, from
  `owed` to the worker, from `later` to `todo` when a pass unwinds; so it needs that
  nobody paints yet where deferred panes will be left (`Vacant`: `bgPaint.Wait` and the
  one first attach), that a pass which ran in the background or has failed leaves nobody
  behind (`LeavesNone`), that a pass between two panes has none in hand (`EmptyHanded`),
  and that a held pane is one the controller knows (`HeldKnown`), since `holdPanes` and
  the pass behind it go by the windows. That the absence of a pane is no pane is assumed
  (`StreamAssumption`).
  `ScreenComplete` rests on four layers. `SupplyInv` is the broker's invariant along the
  stream's steps, with what every number stands for (`ItemTypes`) and where it is: taken,
  held by the pump or in the backlog (`CarriedIn`, `PumpSide`). `Ctl` is the control: who
  holds `repaintMu` in which step (`OwnerInv`), that nobody is subscribed while an attach
  is on its way to a subscription (`Vacated`), and that an overflow has a report
  in the channel or a resync that has still to clear the backlog (`Answered`).
  `ScreenInv` then says of every pane that one pass has it in hand unless it is
  `crossed` (`OneHand`, `MarkInv`), and `Claims` what the subscriber will show of it:
  while somebody reads, or will, and no clear is waiting for its panes to be held
  (`Region`), a pane that is live has all its bytes behind the newest degraded edge, and
  one that is held, once its snapshot is out, the bytes up to its mark. Between the clear and the hold nothing is claimed, and the hold of
  every known pane restores it.
  The proof corrected the model. In an earlier form only a second mark made a pane
  `crossed`, and TLC, asked for three panes, agreed with the prover that this was not
  enough: a pass that unwinds lets go of a pane another has in hand, output passes live,
  a re-attach clears and holds again, and the other pass's older snapshot ends the hold.
  `Unwind` now records that too; it is the same flaw of the code.
* `WindowSetProofs`, first the gateway. Commands are numbered in the order of their slots, and the invariant
  says where each number is: the slots are the last `Len(queue)` numbers (`SlotsInOrder`),
  the line under `writeMu` is the newest (`WriterLast`), the lines tmux has not read come
  just before it (`LinesInOrder`), and the replies Feed has not read are the slots before
  those, in order and without a gap, whatever tmux announces between them
  (`RepliesInOrder`). The head of the stream's replies is then the head of the queue
  (`HeadsMeet`), which gives `OwnReply`, `Paired` (the numbers are counted with a bijection
  between the replies up to one and the slots up to its own) and that `FeedDesync` never happens: a caller that
  gives up leaves its slot as a tombstone, and without that the numbering breaks. tmux
  answers each line once and in order by assumption.
  Then the window set, over the gateway's invariant. `NoPhantomClose` follows what the
  client was told and in which order. A snapshot on its way holds every window the client
  was told of before it (`Complete`, since tmux answers and announces on one stream), so of
  two snapshots that are read the one asked for later holds what the other does
  (`Fresher`), and a window shown beside a snapshot that lacks it was added after its mark
  (`Guarded`): `reconcile` keeps it. Merged out of order this fails, which is what
  `overlapped` records. A close in the stream is that of a window closed for good or the
  unlink of a move that has ended without its snapshot, or whose hold is still there with
  its snapshot behind the close (`ClosesHeld`); this needs that a line on its way moves the
  window its caller holds (`MovesHeld`), which an earlier form of the model, with one
  moved window at a time, did not say and the proof asked for.
  `Agrees` rests on `TabInv`: whatever a reply, a notification, a snapshot in hand or a
  tab says of a window that tmux closed, opened or renamed since is corrected by a
  notification further down the stream (`After`), or, for the name of a window that a
  notification opened, by a list of the worker's that is still to come (`Coming`). It
  needs that a window is announced as added once and before anybody was told of it
  (`AddsNew`), that the snapshot of a move is not older than the window it holds
  (`HeldOld`), and that only a move fails while the stream is up (`ListsSucceed`).

Only model-checked: the liveness properties (`PendingSettles`, `Converges`,
`CloseEndsStreams`, `ReaderCatchesUp`, `OverflowEnds`, `CatchesUp`, `PublishReturns`:
liveness is out of the prover's reach).

## What is not modelled

* In `OutputWorker`: what an executor does, retention of finished jobs,
  `JobService.Track`, the activity log.
* In `InboxItem`: `inbox_event`, deletion of a profile, titles and timestamps.
* In `Pipeline`: several flows, feeds and sources (so `DeleteForFeeds` and
  `DeleteForRemovedSources` have nothing to delete), action and notify terminals,
  `node_kv`, `node_run`, healing of empty scopes, absence confirmation, the
  webhook listener, and age and per-topic bounds of the log, which are off by
  default. Row ids are left out: a row deleted and inserted again between
  listing and activation would have to be archived for 90 days in between.
* In `Scheduler` and `AgentSessions`: the prompt and its expansion, the parsing of
  expressions (an expression is the set of times it names), time zones and a clock set
  back, several workspaces, the manifests' other contents, the generated artifacts and
  the list the windows show. A launch that spawns while its workspace is being deleted
  makes the directory again, without a manifest, which is no workspace: `present` does
  not see it (and `CreateWorkspace` would then be refused until the directory is removed
  by hand). `LaunchWorkspaceSession`, the launch by an action, deletes the record of a
  chat that exited early (`agent_workspaces_service.go:538-539`): the launch is
  `StartSession`, that deletion is left out. Two schedules of one workspace share nothing but the mutex
  and the cap. The cap itself is a check before an act without a lock: two starts at
  once may exceed it, and no property says otherwise.
* In `Gateway` and `WindowSet`: panes, layouts, sizes and the active window of a window,
  commands that only forward (select, rename, kill, send keys), the parser of blocks
  and the pairing of guards by line.
* In `EventBus`: subscriptions made while events flow. `Publish` gives up on a full
  buffered subscriber when the publisher's context ends (`bus.go:81-83`), so a context
  shorter than the application's would drop an event for a subscriber that is alive; the
  one topic that is buffered is published under the application's (`app.go:1119-1125`
  does so on purpose), and that is what the model has.
* In `TerminalStream`: windows that close or move (`discard` of their panes), the
  list of windows and its events, which the stream carries beside the panes,
  pause and resume, input and sizes. A command of the client is answered in one
  step, and tmux refuses none while it is up: `list-windows` and the captures fail
  with the control stream, or by timeout. A pane that some pass released
  unpainted (`blank`), or that one pass marked or let go while another had it in hand
  (`crossed`), is exempt from `ScreenComplete` until it is painted again: the first is
  the code's documented choice, the second the finding of `MCTerminalSkip`.
* Everything marked `not_modelled` in `PROJECT.json`, with the reason there.
