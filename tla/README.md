# A TLA+ verification project for RustyHand

RustyHand is an "agent operating system": one process that hosts LLM agents,
runs their turns, and drives them from chat channels, an HTTP API, cron jobs,
event triggers and workflows. Almost everything runs as tasks of a
multi-threaded tokio runtime over shared `DashMap`s; handlers can be dropped at
every `await`, jobs and triggers survive restarts through JSON files, and
several timeouts are nested in each other. The modules here model those parts
of the kernel, the runtime, the memory store, the channels and the wire protocol in which that
concurrency decides correctness.

Paths below are relative to `src/crates/`; `kernel/` stands for
`rusty-hand-kernel/src/`, `runtime/` for `rusty-hand-runtime/src/`, `memory/` for
`rusty-hand-memory/src/`, `wire/` for `rusty-hand-wire/src/`, `channels/` for
`rusty-hand-channels/src/`, `api/` for `rusty-hand-api/src/`.

## 1. Inventory

| Component | State it keeps | Operations that change it | What is hard | Module |
|---|---|---|---|---|
| Cron scheduler (`kernel/cron.rs`, tick loop and execution in `kernel/kernel.rs`) | map of jobs, caps, `cron_jobs.json` | add, remove, toggle, update, reassign, claim, record outcome, manual run, persist, load | claims held over an execution, edits while it runs, check-then-insert, crash and shutdown between claim and outcome | `CronScheduler` |
| Approval manager (`kernel/approval.rs`, gate in `runtime/tool_runner.rs`) | pending requests with a oneshot channel each, policy | request, resolve, time out, reload policy | three racing ways to end a wait, waits dropped from outside, per-agent limit | `ApprovalManager` |
| JSON persistence (`kernel/workflow.rs`, `cron.rs`, `triggers.rs`) | file, temporary files, lock | snapshot, write, rename, load | overlapping persists, shared names, failures, crashes | `SnapshotFile`, `DurableMap` |
| Trigger engine (`kernel/triggers.rs`) | triggers, per-agent index, file | register, remove, toggle, remove an agent's, evaluate, persist, load | two maps without a common lock, counting fires concurrently and over restarts | `TriggerEngine` |
| Provider circuit breaker (`runtime/auth_cooldown.rs`, retry loops in `runtime/agent_loop.rs`) | error count, cooldown, probe and window times | check, record success, record failure | results out of order, retries that do not check again, recovery | `ProviderCooldown` |
| Workflow engine (`kernel/workflow.rs`, `run_workflow` in `kernel/kernel.rs`) | definitions, retained runs | register, remove, create run, execute steps, time out | five step modes, three error modes, eviction while runs execute, timeouts and dropped callers | `WorkflowEngine` |
| Agent loop (`runtime/agent_loop.rs`, `execute_llm_agent` in `kernel/kernel.rs`) | the turn's copy of the session, the context sent to the model | load, request, tool round, continue, retry, save, record | two copies of the history trimmed at different places, aborts at every await, failing saves | `AgentLoop` |
| Session repair and compaction (`runtime/session_repair.rs`, `context_overflow.rs`, `compactor.rs`) | none: functions on message lists | repair, prune, cut, compact | pairing of tool calls and results | `MessageHistory`, `AgentLoop`, `AgentSessions` |
| Agent registry and lifecycle (`kernel/registry.rs`, `kernel/kernel.rs`, rows in `memory/structured.rs`) | agents, name index, restart counts, agent rows | spawn, kill, restart, rename, edit, boot | several maps and a table updated one after the other, ids that change at a restart | `AgentLifecycle` |
| Sessions, quotas, abort handles (`kernel/kernel.rs`, `kernel/scheduler.rs`, `memory/session.rs`) | session rows, canonical session, hourly usage, handles | turns, compaction, new, reset, switch, stop, kill | nothing serialises the turns of an agent | `AgentSessions` |
| Background executor (`kernel/background.rs`) | loops, busy flags, global permits | start, tick, stop, shutdown | permits and flags must come back | `BackgroundExecutor` |
| Audit log (`runtime/audit.rs`) | hash chain in memory, buffered writer, file | record, replay | writes that stop short, lines cut off by a crash | `AuditLog`, `PrefixLog` |
| Device pairing (`kernel/pairing.rs`) | one-time tokens, devices, table | create, complete, remove, expire, reload | token and device limit checked and used in separate steps | `DevicePairing` |
| Loop guard (`runtime/loop_guard.rs`) | counters of calls, outcomes and cycles of a turn | check, record outcome | several thresholds that must agree | `LoopGuard` |
| Wire protocol (`wire/peer.rs`, `wire/registry.rs`) | nonce cache, connections, peers | handshake, connect, disconnect | late and repeated handshakes, connections of both directions | `WirePeer` |
| Channel bridge and Telegram adapter (`channels/bridge.rs`, `channels/telegram.rs`, `api/channel_bridge.rs`) | poll offset, queue of messages, dispatch task, shutdown flags | poll, enqueue, dispatch, push approval buttons, stop, reload | answers get lost, two tasks that wait for each other and for a turn | `ChannelBridge` |
| Discord gateway client (`channels/discord.rs`) | session id, sequence number, connection | connect, identify, resume, deliver, reconnect, stop | state that outlives a connection and must match the server's | `DiscordGateway` |
| Supervisor and heartbeat (`kernel/supervisor.rs`, `kernel/heartbeat.rs`) | restart counts, shutdown signal | record, carry over, reset | counts follow an agent through new ids | in `AgentLifecycle`, `BackgroundExecutor` |
| Metering, event bus, task queue, A2A tasks | cost records, channels, rows | check and record; publish; claim | see section 7 | none |

The remaining parts (sandboxes, LLM drivers, web and media tools, MCP clients,
extensions, skills, HTTP handlers, command line, configuration, capability
tables) are I/O, formats or tables. `PROJECT.json` lists all 34 parts with the
reason for each that is left out.

How the modelled parts interact:

- The tick loop claims cron jobs; an execution sends a message to an agent or
  runs a workflow under the job's own timeout. That timeout is `DropDriver` in
  `WorkflowEngine` and a transient failure in `CronScheduler`.
- A turn (`AgentLoop`) is one `Enter` ... `RecordUsage` of `AgentSessions`,
  where turns overlap and the messages are abstracted to the turns they belong
  to; `LoopGuard` is what `AgentLoop.RunTool` asks before a call. The turn is
  started by a channel, the API, a cron job, a workflow step or a background
  loop (`BackgroundExecutor`).
- An agent's turn calls the provider through the breaker
  (`ProviderCooldown`), and its tool calls pass the approval gate
  (`ApprovalManager`) inside a tool timeout, which is its `Cancel`.
- A chat message becomes a turn through `ChannelBridge.Dispatch`; a button in
  the chat becomes `ApprovalManager.Resolve`, `/stop` becomes
  `AgentSessions.StopRun`.
- Killing or restarting an agent removes its triggers (`TriggerEngine.Kill`)
  and moves its cron jobs (`CronScheduler.ReassignAgent`); `AgentLifecycle`
  models the order of these effects with one cron job, `AgentSessions` what a
  kill does to the turns that are under way.
- Cron, triggers and workflow definitions share the persistence pattern that
  `SnapshotFile` takes apart; the first two modules use it as one atomic
  replacement of the file.

The hazards this gives rise to, each at its line, are in `PROJECT.json` under
"hazards", with the properties that would notice them.

## 2. The modules

Conventions: an action is one stretch of code that runs under one lock or
between two awaits, so two accesses to a map are two actions. A definition
named `X_Something` right before `X` is a faulty variant of `X`, used only to
show that a property notices the fault. Variables called "history" in the
declarations record what happened for a property and guard no action. Where a
property holds only for operations that do not collide, a history variable says
which ones did, so that everything else is still covered.

### CronScheduler

A job is reduced to what decides about it: agent, kind of schedule, one-shot
flag, enabled, error count, and whether `next_run` is `None`, in the future or
due. `Every` stands for the two recurring schedules; an `At` schedule carries
whether its instant has passed, since `compute_next_run` then returns a time in
the past. `AddCheck`/`AddInsert` and `UpdateCheck`/`UpdateApply` are the two
halves of `add_job` and `update_job`. `TickBegin`, `ClaimVisit`, `Spawn` and
`TickEnd` are a pass of the tick loop, entry by entry; `ExecSucceed`,
`ExecFail` and `Deliver` are the end of a spawned execution, including a panic
after its success was recorded; `RemoveSpent` is the second access with which
the recorders remove a single-run job. `Shutdown`, `Crash` and `Boot` end and
restart the process; `PersistCollect`/`PersistWrite` are `persist()`.

### ApprovalManager

A task is one flow of tool calls. `Gate` is `requires_approval` in
`execute_tool`; `AutoApprove`, `LimitCheck`, `Submit` are `request_approval` up
to its wait; the wait ends by `Receive`, `Timeout` or `Cancel` (the future is
dropped by the 120 s tool timeout, `/stop` or a cron timeout). `Resolve` takes
the request out of the map, `Send` puts the decision into the channel.

### SnapshotFile and DurableMap

`DurableMap` is the abstract promise: the file holds a version of the map that
was current, it moves forward only, and a restart continues from it.
`SnapshotFile` is the protocol: files are inodes with names, so that a rename
moves whatever inode has the name at that moment and a writer goes on writing
to the inode it opened. `Locked` and `UniqueTmp` select the code's variants:
both for `WorkflowEngine::persist`, neither for the cron scheduler and the
trigger engine. The refinement maps `disk` to what a reader of the file finds.

### TriggerEngine

A task is one call at a time of the engine: `Register`, `Insert`, `Index`;
`Remove`, `Unindex`; `SetEnabled`; `Kill`, `TakeIndex`, `RemoveAll`;
`Publish` or `Spawn`, then `EvalOne` per entry and `EvalDone`; each ends in
`Persist` and `Write`. A `Write` may fail, which the engine only logs: the file
keeps what it held, and the history `unsaved` says so until the next persist
succeeds. Patterns are sets of kinds of events. An entry inserted
during an iteration may or may not be met by it. `Boot` rebuilds the index.

### ProviderCooldown

The state of one provider, with instants kept as ages that saturate at the
largest duration they are compared with. `Begin` is `check()`; `Succeed`,
`Transient`, `Retry`, `Fail` and `Abort` are what happens to a call in the
retry loops; `Tick` and `Flip` are time and the provider.

### WorkflowEngine

A driver is a caller of `run_workflow`. Its future walks through the steps:
`Start`, `SkipStep`, `Collect`, `Send`, `EnterLoop`, `LoopSend`,
`LoopExhausted`, `Succeeds`, `Retry`, `SkipError`, `StepFails`, `Complete`, and
`Finalize` for the wrapper `execute_run`. `Timeout` and `MarkRunFailed` are the
one-hour limit of `run_workflow`; `DropDriver` is a caller that goes away. A
text is the set of keywords it contains, as conditions look at nothing else.

### MessageHistory and AgentLoop

`MessageHistory` holds the pure functions: the phases of
`validate_and_repair` as operators on sequences of messages, most of them a
selection of positions (`Pick`) as the code's `retain` is, `prune_heartbeat_turns`,
the outcomes of `recover_from_overflow`, and what the providers accept
(`WellFormed`). `AgentLoop` is a turn. `sess` is what will be saved and `msgs`
what the model is sent; `Begin` loads and repairs, `Send` and `GiveUp` are the
head of the loop, the answers are `Answer`, `NoReply`, `EmptyRetry`,
`CallTools`, `Continue`, `Partial` and `Lose` (an error, an abort or a crash);
`RunTool`, `CircuitBreak` and `ToolsDone` are a tool round with its interim
save, `Record` the end of the turn. `Compact`, `RetryLastTurn` and
`AttachImages` are the operations between turns. A save may fail at every place
where the code ignores or returns its error.

### AgentLifecycle

An operation of a handler is the sequence of its map operations and row writes:
`SpawnStart`, `RegisterCheck`, `RegisterInsert`, `SpawnSave`; `TakeEntry`,
`Unindex`, `RemoveRow` for a kill; `TakeEntry`, `Unindex`, `RestartRecord`, the
steps of a spawn, `Carry` and `Reassign` for a restart; `RenameStart`,
`RenameApply`, `RenameOld`; `Edit`, `Copy`, `Write` for an edit, which saves the
copy it took. The table of agents maps ids to rows with their rowids: an upsert
keeps the rowid of a row that exists, a new row gets the next one, and `Boot`
registers the rows in that order. `Shutdown` saves all agents again, those
without a row in any order. Names are compared as they are by the registry, but
in lower case by the boot (`Lower`): of the rows whose names fold into one it
restores the first (`Restored`) and skips the others (`Shadowed`). `excused`
holds the lineages on which operations collided, `stale` those that had been
restarted before a boot, and those of which it skipped a row.

### AgentSessions

A row is the sequence of the turns it records. `Enter` is the quota check,
`Load`, `Resume`, `Save` and `Fail` the turn, `CanonLoad`/`CanonSave` the two
lock acquisitions of `append_canonical`, `RecordUsage` the end. A streamed turn
runs from `Load`, which may ask for a compaction first (by length or by its
estimate of tokens), but can be aborted only once `StoreHandle` has put its
handle into `running_tasks`. A compaction is
`CompactLoad`, `CompactStore`, `CompactRow`. The canonical session is its
messages and the turns its summary tells of: `CanonSave` writes back the summary
it loaded, and `CompactStore` replaces the one that is there, by a placeholder
that tells of no turn if the model gave none. The history `forgotten` holds the
turns whose summary was replaced or was a placeholder, `crossed` says that a
summary was stored in the middle of an append, which then writes the one before
back. `StopRun`, `KillRemove`,
`KillAbort` and `KillDelete` are `/stop` and a kill, `ResetDelete`,
`NewSession`, `UseSession` and `SwitchSession` the session commands, `NewWindow`
the hourly reset.

### KernelServices: AuditLog, DevicePairing, LoopGuard, WirePeer

These and `TriggerEngine` share no state. `KernelServices` instantiates them
side by side; a behaviour follows one of them. In `DevicePairing` a request for
a token is `CreateRequest` (the first check of the limit), `CleanFirst`
(the expired tokens go), `Recheck` and `InsertToken`, each an access of its own;
a completion checks, registers and persists the device; and a `Reboot` may fail
to read the table, after which the daemon goes on without devices. `AuditLog` is also shown to
implement `PrefixLog`: a chain that grows by whole entries and is cut to a prefix
at a restart. Its replay is a reader that takes the file piece by piece, as
`BufRead::lines` and the loop of `open()` do together. In `WirePeer` one clock
stands for both the wall clock (freshness) and the monotonic one (nonce cache)
of the node; the clocks of the senders differ by up to `MaxSkew`.

### DaemonLoops: BackgroundExecutor, ChannelBridge, DiscordGateway

The loops that must go on, composed in the same way with `ProviderCooldown`,
and with the fairness each of them has.

`ChannelBridge`: an update is its number and what becomes of it. `Ask`,
`Answer`, `LoseAnswer`, `EndPoll`, `TakeUpdate` and `BatchDone` are the poll
loop; `Confirm` is Telegram, which forgets what a request's offset confirms,
whether its answer arrives or not. `Dispatch` is the bridge's task: `Effect` is
`dispatch_message` up to the point where it waits for a turn, `EndTurn` the
rest. `AskApproval` and `Settle` are the turn's approval. `Stop`, `LeaveLoop`,
`AbortTasks` and `Restart` are stop, reload and crash.

`DiscordGateway`: `Connect`, `Hello`, `Ready`, `Resumed`, `Invalid`, `Deliver`
and `Drop` are the gateway loop, `Happen` and `Forget` the server. The server
numbers the events of a session and goes on after the number a RESUME names.

## 3. The runs

| Run | Shows | Instance |
|---|---|---|
| `cron_flight` | An undisturbed job does not overlap itself (`ClaimExcludesOverlap`), At and one-shot jobs fire once (`SingleRunFiresOnce`), and the scheduler itself never drops a recurring job (`RecurringJobsSurvive`) | one job of each kind in turn, two handlers, up to two executions, a delivery, shutdown, crash |
| `cron_restart` | No claim is lost (`NoStuckJob`), through persists and crashes at any step, and an armed job is claimed again and again (`ArmedJobIsClaimed`) | one recurring job, one handler, three overlapping persists |
| `approval` | A gated tool never runs unauthorised (`RunIsAuthorised`), a reported decision is final (`FirstVerdictStands`), the limit is overshot by racing tasks only (`LimitOvershootBounded`), every wait ends (`WaitEnds`) | two tasks of one agent, three requests, limit 1, all policies and reloads |
| `snapshot_workflow` | The locked protocol with unique names implements `DurableMap` (`ImplementsDurableMap`), every persist ends (`PersistEnds`) | two writers, four inodes, versions 0..2, failures and crashes |
| `workflow` | An executing run is not evicted (`ExecutingRunIsKept`), results fit the definition (`RecordFitsDefinition`), terminal runs are final (`TerminalIsFinal`), runs end (`RunEnds`) | two drivers; one workflow with a fan-out, a collect, a condition and a loop with retries, one with a single step; cap 1, two runs |
| `agent_loop` | Every damaged history is repaired into one the providers accept, without losing content (`RepairCorrect`); every request of a turn is well formed as long as call ids are distinct (`DistinctIdsWellFormed`); results of a finished tool round survive whatever ends the turn (`ToolWorkSurvives`); every turn ends (`TurnEnds`) | all histories of up to four messages from a pool of ten; one turn of up to three iterations over an empty and over an interrupted row |
| `lifecycle` | Name index and registry agree (`NameIndexSound`), rows and registry agree, so that a boot brings back what runs now except for names that differ in case only, and the killed stay away (`RowsMatchRegistry`), the restart limit follows the agent (`RestartLimitHolds`), so does its cron job (`CronFollowsRestart`) | two handlers; three names, two of which differ in case only; three ids, one edit, failed writes, one reboot |
| `lifecycle_reboot` | violation of `CronOwnerLives`: after a restart of the agent and one of the daemon the cron job names an id that is not registered | two handlers, two distinct names, two ids |
| `sessions` | A turn that overlaps nothing stays in its row until a compaction takes it off, and is then told of by the stored summary until another summary replaces that one (`TurnsAreKept`), summarised turns stay out of the rows (`SummarisedStaysOut`), a kill that can abort everything leaves no row (`KillLeavesNothing`), the quota is overshot by the turns checked together only (`QuotaOvershootBounded`) | two turns and one compaction of one agent with an earlier turn, two sessions |
| `services` | No trigger is lost from its agent's list (`IndexComplete`); limits hold within a process, and also over restarts, as do removals, when no calls overlap, no crash cuts one and the last persist did not fail (`FiresAndRemovalsLast`); the audit log implements `PrefixLog` (`ImplementsPrefixLog`) and loses nothing while no line is damaged (`NothingLostWhileUndamaged`); a token pairs once, the limit is overshot by racers only, and the table agrees with the devices (`PairingSound`); repetitions end and cycles are noticed (`RepetitionStops`); a handshake is accepted once (`HandshakeAcceptedOnce`) and the list of peers is right (`PeerStateSound`) | two calls at a time on two triggers of one agent, two events, one restart; five entries, two faults; two requests, two devices, limit one; a call and a poll with two results; one peer with two inbound connections and an outbound one |
| `loops` | Permits are conserved and ticks do not overlap (`BackgroundSound`); probes are throttled (`ProbesAreThrottled`); messages are dispatched once and in order, and Telegram forgets none too early (`BridgeDelivers`); Discord events arrive in order, once each (`GatewayResumes`); and all four go on (`LoopsGoOn`): background loops tick again and end at the shutdown, a provider that recovers is let in again, every message is dispatched and a stop ends both tasks of the bridge, the gateway client gets a session again and catches up | three loops and one permit; two calls, one retry, cooldowns 2 and 4 (3 and 5 for billing); three messages, a queue of one, two starts; two sessions of four events |
| `channel_stop` | violation of `ChatReachesTurn`: a turn of the chat waits for an approval while the button for it waits in the queue for the end of the turn | two messages, a queue of one |

Every module has a `TypeOK`. It is proved for the cron scheduler and left out of
the runs, which check what could be wrong beyond it; `INVARIANT TypeOK` may be
added to any of the configurations and holds.

There is one run per question; runs with the same instance are merged.

### Bounds and why they are enough

- `cron_flight`: a race needs one job, one handler that edits it and another
  that edits or runs it, the tick loop and two executions; all are there.
  `MaxPersists = 0` keeps the file out of this run, so a handler whose edit has
  to be persisted makes one such edit and then stays where it is. Long
  sequences of persisted edits are in `cron_restart`, whose handler goes on.
  One job id and one id allocation per job suffice, as no operation other than
  the caps relates two jobs. Error counts go to `MaxErrors = 2` (5 in the code).
- `approval`: three ids let a task ask again after a timeout while a late
  decision for its first request is still under way.
- `snapshot_workflow`: two writers overlap in every way two persists can; four inodes
  are the published file, one per writer and one spare.
- `workflow`: the cap of one is exceeded as soon as both drivers have a run;
  retries 0 and 1 and iterations 2 cover the ends of both counters.
- `agent_loop`: four messages hold two calls with their results in any order
  and place, which is what the phases of the repair distinguish; two tool calls
  in a batch give a round that can be cut in the middle, three iterations a
  round followed by a continuation and the limit. The thresholds are scaled to
  these lengths and keep their order in the code.
- `lifecycle`: two operations collide in every way two can; three ids are two
  agents and a restart. Of the three names two are one in lower case and the
  third stands for every other. Handlers are interchangeable, and so are names
  that fold alike. No property speaks of an excused lineage, and none is ever
  taken back, so the constraint `SomeUnexcused` does not explore what follows a
  state in which all of them are: every property holds there.
- `sessions`: two turns and a compaction overlap in every pair; the earlier turn
  and a finished one make the first compaction possible, which a streamed turn
  may run too, so a later one replaces its summary. `Delayed = {}` makes a
  turn's handle be stored before the turn's first answer; the theorems hold for
  every set of turns whose handles are stored later.
- `services`: two ids of one agent share an index entry; two events and a limit
  of one reach "one fire left"; one restart separates a write from its effect.
  The loop guard's thresholds are the smallest that keep every one reachable;
  time 3 lets a nonce expire around the freshness window. A trigger file that
  cannot be written matters at a restart, so writes fail only while one is to
  come. Tasks are
  interchangeable, and so are triggers; no liveness property is checked here.
- `loops`: with one permit one loop runs while two wait for it. The saturating
  ages keep every comparison the breaker makes. A message whose turn runs, one
  that fills the queue and one the poll loop waits with are the three that
  block each other; two starts are a reload with messages under way. Two
  sessions give one that is forgotten, four events a resume in the middle.

`CHECK_DEADLOCK FALSE` appears where the bounds stop the model (all ids used,
all runs created, the bridge stopped); the snapshot run checks for deadlock.

### Fairness

- Cron: weak fairness of the tick loop (a 15 s interval), of executions (each
  has a timeout), of the recorders' second access, and of time. Nothing is
  assumed of handlers.
- Approval: timers fire and a polled future moves on; operators need not act.
- Snapshot: a started persist runs on. Strong fairness of `Acquire`, because
  the tokio mutex hands itself to waiters in order.
- Agent loop: the loop goes on by itself, a model call answers or fails (it has
  a timeout), a tool ends (it has one too).
- Loops: weak fairness of the background semaphore, of the end of a turn (it
  has a timeout) and of the watcher; strong fairness of a loop's `Exit`, as
  `select!` polls its branches in random order and the loop may be sleeping and
  ticking in turn. Breaker: time passes, agents keep calling, sleeps end.
  Bridge: both tasks run on, an approval times out, and a turn ends at last
  (strong, since it may ask for several approvals). Gateway: the loop reconnects
  (it sleeps at most a minute). Of the environment it is assumed that of the
  calls that reach a working provider, the requests to Telegram and the
  connections to Discord, not every single one is aborted or lost (strong).
- `channel_stop` assumes the same of the bridge, but not that the approval times
  out: the question is whether the chat's answer suffices.
- Services: none; they claim safety only.
- Workflow: a future that is not dropped is polled; an agent that does not
  answer runs into the step's timeout, which is part of `Execute`.

## 4. The proofs

Every safety property of the passing runs, invariant or action property, is
proved for all values of the constants; only liveness is left to TLC. The
theorems rest on the named assumptions of the modules (`ConstantAssumption`,
`FileAssumption`, `KeepAssumption`, `EvenAssumption`, `RowsAssumption`,
`SessionsAssumption`, `ServicesAssumption`, `GuardAssumption`,
`AuditAssumption`, `LoopsAssumption`), which TLC evaluates in the runs: limits
and durations are natural numbers, ordered as the code's constants are where
that matters; what is counted is finite; identifiers of different kinds differ.
None bounds the number of agents, handlers, tasks, messages, crashes or
restarts. Two are particular to the agent loop: the two lengths
`recover_from_overflow` cuts to are even (10 and 4, context_overflow.rs:55 and
:74), and the rows a run starts from are rows the loop wrote (calls in assistant
messages, results in user messages, and a synthetic result only where a repair
puts one), whatever was cut out of them.

Each proof follows the same scheme: `Init` establishes an inductive invariant,
every action keeps it (a lemma per action, with a step per conjunct it can
disturb), and it implies the property. What the invariants add, and why:

- `CronScheduler_proofs`. `TypeCorrect`. `NoJobIsEverStuck` (`NoStuckJob`): a
  handler may be about to insert a job, so `PendingArmed` says that such a job
  carries a `next_run`. Only `Claim` clears `next_run`, and it puts the job into
  `due`; a job leaves `due` for `running`, and `running` through a recorder that
  re-arms it, disables it or is about to remove it; `Boot` re-arms what a crash
  orphaned. `ClaimsExcludeOverlap`, `SingleRunsFireOnce` and
  `RecurringJobsDoSurvive` follow from `FlightInv`: ids are given out once
  (`IdsInv`), and of a job that nobody re-armed the claim is held once, by the
  tick loop, one execution or a recorder that removes it, and `next_run` is
  `None` as long as it is held (`ClaimInv`).
- `ApprovalManager_proofs`. `ToolRunsAreAuthorised` and `VerdictsAreFinal`, from
  `DecisionFlow`: a decision moves unchanged from the operator to the channel,
  and a request still in the map has none. `LimitOvershootIsBounded`, from
  `LimitInv`, which counts the tasks that passed the check and have not inserted
  their request yet together with the requests in the map.
- `WorkflowEngine_proofs`. `ExecutingRunsAreKept` and `TerminalRunsAreFinal`: the
  missing fact is ownership, no two drivers have the same run. Every action is
  shown to move one driver and to write at most its own open run; eviction takes
  finished runs. `RecordsFitDefinitions` adds `RecordInv`: what the record holds
  at each place a driver can be (`Progress`), fan-outs member by member and
  loops iteration by iteration. The last part of the module is about the
  engine's file and extends `SnapshotFile` as well (its `FileSpec` and the like
  are named for that): `UniqueNamesSuffice` (with unique names `FileReadable`,
  with or without the lock) and `LockedPersistIsDurable` (with both, the
  refinement of `DurableMap`). There the invariant says that an open descriptor
  is linked under the writer's own name only, that the lock leaves one writer at
  work, and that its snapshot lies between the file and the map. The variant
  (`UniqueTmp`, `Locked`) is a hypothesis of these theorems.
- `AgentLoop_proofs`. `RepairIsCorrect`, `RequestsAreWellFormed` and
  `ToolWorkIsDurable`, for rows, batches and histories of any length. First each
  phase of `validate_and_repair` is characterised on any proper history: which
  blocks it drops, adds and moves, and which of five facts it establishes or
  keeps: no message is empty, a result stands right after its call (`Placed`),
  no call has two (`Single`), every call has one (`Filled`), roles alternate.
  Together they make a history `Settled`; a settled one is a fixed point of
  every phase (`SettledFixed`), and with distinct ids it is what the providers
  accept (`SettledWellFormed`). That no content is lost needs a fact about the
  rows, `LostSound`: a synthetic result never stands beside a real one of the
  same call, and every operation on the row keeps it so.

  The invariant of the loop (`IInv`) says that both histories are such rows,
  that until a turn ends nothing of the row is missing in its session
  (`SessionGrows`), and that what the model is sent is acceptable whenever the
  session's ids are distinct (`RequestReady`). Within a tool round the last
  message is one of calls, so `RoundReady` describes it as an acceptable request
  followed by them, with the results so far. A request grows by exchanges of two
  messages and is cut to an even number of them or left alone; as roles
  alternate and it ends with the user, a cut begins with the model's message and
  never separates results from their calls, and the summary put before it
  restores the alternation (`EvenCut`, `OverflowIs`). An odd length breaks this,
  which is why the two constants are assumed to be even. TLC checked `IInv` on
  the instance of `agent_loop` before it was proved.
- `AgentLifecycle_proofs`. `NamesAreSound`, `RowsAreSound`, `RestartsAreLimited`
  and `CronJobsFollow`, from one invariant. Its backbone is `OneHandler`: a
  lineage that is not excused has at most one handler at work. The rest says
  what that handler may rely on (`Reliances`) and what it still owes: an agent is
  found under its name, or a handler is about to index it (`Found`, `Leads`); its
  row is current, or a handler is about to write it (`Written`, `Orphans`); the
  lineage's count and cron job are with its agent, or with the id its handler
  comes from (`Counts`, `Owner`). That the largest rowid exists is proved with a
  least counterexample over the natural numbers.
- `AgentSessions_proofs`. `TurnsStayUntilReplaced` and `SummarisedTurnsStayOut`: rows and
  copies hold turns of their own session, once each (`HomeInv`); a turn is nowhere
  before its first save (`StartInv`); tasks that work on a session at the same
  time have collided (`OverlapInv`); so whatever copy a task will write back holds
  every turn finished before that collided with none (`KeptInv`, `CanonInv`), and
  none that was summarised (`CleanInv`, `StoredInv`). Unless a summary was stored in
  the middle of an append, every append writes back the summary that is stored,
  and each summarised turn is told of by it or forgotten (`SummaryInv`).
  `KillsLeaveNothing`
  (`KillInv`: after the abort only what no handle reaches is active) and
  `QuotaOvershootIsBounded` (`QuotaInv`: usage plus the turns between check and
  record).
- `KernelServices_proofs`. `HandshakesAreAcceptedOnce`: an accepted nonce is in
  the cache, where it was put while fresh, or its timestamp is too old for good;
  this needs a lifetime of more than twice the freshness window.
  `PeerListIsSound`, `PairingIsSound` (a token is held by one request; completions
  that passed the check count against the limit), `IndexIsComplete` (a trigger in
  the map is indexed, or in the hands of a task that will index or remove it) and
  `FiresAndRemovalsDoLast` (file and map agree unless a call is under way or the last
  persist failed).
  `AuditImplementsPrefixLog` and `UndamagedLogIsWhole`, from `AuditInv`: the file
  with any part of the buffer replays to a part of the chain, since a write may
  stop anywhere and the daemon may die at once (`ReplaysPart`), and while nothing
  is damaged the replay of both ends with the whole chain at the start of a line
  (`ReplaysAll`). The step of `record()` needs that entries are numbered upwards:
  a part of the chain with the tip of the chain is all of it (`TipTells`), so the
  replay accepts the new line in no wrong place. `RepetitionDoesStop`: executions
  are counted before they happen, a result seen as often as allowed has barred
  its call, and detection and count of a cycle's rounds agree
  (`RepeatsAreCounted`).

  What the replay and the maximum in `TailRepeats` compute is proved for every
  input without induction over data: a property of the numbers up to the length
  of the file has no least counterexample (`UpTo`, `LargestOf`, from `WFMin`).
  `AgentLoop_proofs` establishes what `FlattenSeq` returns the same way
  (`FlattenLaid`), and from it what every selection from a sequence does (`Pick`).
- `DaemonLoops_proofs`. `BackgroundIsSound`: a loop whose flag is clear has no
  prompt anywhere, and the queue holds waiting loops, each once, so a permit goes
  to one prompt. `ProbesWait`: while errors are counted the breaker is open, and
  the cooldown, the probe and the last failure have the same age.
  `MessagesAreDispatchedOnce`: queue and batch are in order around the offset, and
  all updates are settled that Telegram has forgotten, that the offset of a loop
  which asks again confirms, or that come before the batch; only a loop that has
  ended may have an unsettled update below its offset.
  `EventsArriveInOrder`: over a live connection the server's cursor is the
  client's sequence number, and a client with a session has handed on exactly the
  events up to it.

Only model-checked: the liveness properties (`ArmedJobIsClaimed`, `WaitEnds`,
`PersistEnds`, `RunEnds`, `TurnEnds`, `LoopsGoOn`), as the prover handles neither
fairness nor `ENABLED`; and that the two runs of section 5 end in a violation.

## 5. What disagrees with the repository's own words

Two runs end in a violation: `lifecycle_reboot` and `channel_stop`. "findings" in
`PROJECT.json` quotes the lines. Further disagreements that were met while modelling, most of
them as counterexamples to a property that was then weakened to exclude exactly
this case. Persistence, cron, approvals, triggers, workflows:

- `set_enabled` and `update_job` recompute `next_run` of a job that is executing
  (cron.rs:200), so it can be claimed again and overlap itself.
- A wait dropped from outside leaves its request in the map (approval.rs:123):
  it counts against the agent's limit until somebody resolves it.
- Two overlapping persists of the trigger engine may write the older snapshot
  last (triggers.rs:165): a fired trigger fires again after a restart, a removed
  one comes back.
- A persist of the trigger engine that fails is only logged (triggers.rs:173):
  after a restart an exhausted trigger fires again, although the comment at
  triggers.rs:303 says that it must not re-fire on boot, and a removed one is back.
- The recorders decide that a job is spent and remove it by a second access
  (cron.rs:370): a job that `update_job` put in its place meanwhile is removed.
- Cron scheduler and trigger engine persist through one fixed temporary name
  (cron.rs:132), so overlapping persists can publish an empty or torn file,
  although the comment at cron.rs:127 calls the write atomic.
- A cron job's timeout drops `run_workflow` (kernel.rs:2475), whose run then
  stays Running.
- `add_job` checks `max_cron_jobs` and the per-agent limit before it inserts,
  so racing handlers exceed both by the number of racers.
- An `At` job claimed when shutdown begins is recorded as failed and removed,
  where the comment speaks of re-queueing; a job that ran its only time runs
  again if the process dies before the next periodic persist.
- `MAX_PENDING_PER_AGENT` is exceeded by racing requests (bounded by
  `LimitOvershootBounded`).
- `auth_cooldown.rs` speaks of a single probe (lines 5 and 36), but `check()`
  records none, so all concurrent callers pass; errors older than the failure
  window are said to be forgotten (line 34), but only the window's total is
  reset, not the error count behind the cooldown.
- `spawn_agent` evaluates triggers for the new agent and drops the matches
  (kernel.rs:1357), so fires are counted that send nothing.
- A fan-out ignores `error_mode`, also `Skip`; `Collect` joins all outputs so
  far, not those of the preceding fan-out.
- A proactive agent's triggers are persisted and registered again at every
  boot (kernel.rs:4015); a registration that races with the agent's kill leaves
  a trigger of an agent that is gone (kernel.rs:3467).

Agents:

- An agent that was restarted comes back under its old id after a reboot even
  if its new id was killed; one stopped for good by the restart limit is running
  again after a reboot.
- A restart removes the agent's triggers but moves its cron jobs.
- Overlapping restarts of one agent pass the limit together, and a boot forgets
  the counts. A boot that finds the rows of an agent's old and new id under two
  names registers both, each with a limit of its own. A spawn refused for
  its name leaves the session row, capabilities and quota it had set up.
- The registry takes `Bot` and `bot` for two names, `load_all_agents` for one
  (structured.rs:330): of two such agents that run, a boot restores the first only.
- Removing an agent takes its name off the index even if another agent has it by
  now; an edit that saves after a kill puts the row back.
- Agents spawned or restarted at run time get no background loop until the next
  boot; a boot does not restore mode, identity and parent.

Turns and sessions:

- Ids of tool calls recovered from Groq's errors repeat within a session
  (openai.rs:1213), and pruning of a silent turn removes tool results with it
  (session_repair.rs:687): a request is then not what the providers accept.
- `messages_before` (kernel.rs:2333) is stale if the turn prunes, so the
  canonical session misses messages of the turn; `retry_last_turn` drops the
  message with the tool results; an error of the model loses the user's message;
  an empty answer cut off by the token limit is stored as an empty message.
- Overlapping turns of an agent overwrite each other's session row. A compaction
  replaces the canonical session by what one session holds, and its summary by
  the new one (session.rs:675), where `append_canonical` puts the earlier summary
  into its own (session.rs:790): after a second compaction nothing tells of the
  turns of the first. If the model gives no summary, a placeholder that tells of
  no turn is stored (compactor.rs:700), and the turns are taken off the row all
  the same. An append that was under way when a summary was stored writes the
  older one back (session.rs:768).
- `/stop` and a kill abort the last streamed turn only, and that one only once its
  handle is stored (kernel.rs:1923); the other turns of a killed agent go on and
  save their rows again after the kill deleted them. Handles of finished turns
  stay, so that a shutdown waits its full 5 s. Failed and aborted turns record no
  usage. A kill leaves the canonical session. A session switch is not persisted.

Services:

- Replay of the audit log stops at a break of the chain, where the comment
  (audit.rs:147) says that bad lines are skipped, so entries after a damaged line
  are never replayed; a flush is called fsync.
- A device whose row could not be deleted comes back at the next boot, also on
  top of the limit: `load_devices` (pairing.rs:69) does not check it.
- With the default thresholds of the loop guard a ping-pong of calls that are not
  polls is stopped by the repetition count before it can be blocked as one.
- The end of any connection marks the peer disconnected although another one may
  be open; an inbound peer is stored with its ephemeral address;
  `broadcast_notification` sends no handshake, so it is always rejected; the
  cache's lifetime has to be more than twice the freshness window, where the
  comment says at least.

Channels:

- The dispatch task of an adapter waits for the whole turn of a message
  (bridge.rs:371): until it ends, no other chat of that adapter is served
  either, and buttons and `/stop` are read only after the turn they are meant
  for. `/stop` also looks up the agent as if the sender were on the command line
  (bridge.rs:1319), so an agent bound to the chat's channel is not found.
- Telegram has forgotten the messages that wait in the queue once the poll loop
  has asked again; a stop, a reload or a crash loses them. Messages of a batch
  that was not finished are sent again after a restart, those already dispatched
  among them included.
- After a 409 the poll loop ends for good, also if the other instance goes away.
- The Discord client keeps the resume URL of a session that was declared
  invalid and identifies there; it never goes back to the gateway URL.

## 6. Abstractions and limits

Left out on purpose: message texts, prompts, templates, token counts, display
strings, logging, validation of names and limits of lengths. Map iterations
are per entry where a property depends on it (`claim_due_jobs`, `evaluate`,
`remove_agent_triggers`) and one step elsewhere (snapshots). A crash keeps what
was written; loss of unsynced data in a power failure is outside the models.
A database statement is atomic. In `AgentSessions` session commands and a kill
do not overlap each other.

## 7. Not modelled, and the plan

Half of the repository's lines are command line and terminal UI, HTTP handlers,
channel adapters and type and configuration definitions; most of the rest are
provider drivers, the bodies of some seventy tools, and tests. They hold hardly
any state of their own: a model would restate tables and formats. The modules
cover the stateful core, so the share of all lines they map stays small.

Stateful parts that are not modelled: metering (the same check-then-record as
the quota, over sums of a query), the event bus (broadcast channels that relay),
the task queue and the A2A task store (single statements under one lock), the
process manager and browser sessions (a limit checked before an insertion, as in
`DevicePairing`), the adapters other than Telegram and Discord (Slack's socket
loop has no session to resume), the routing tables and the per-user rate limit
of the bridge.

Done, in this order: cron scheduler, approval gate, persistence and its abstract
specification, triggers, circuit breaker, workflow runs; then the agent loop
with session repair, agent lifecycle, overlapping turns, the services, and the
channels.

Then the safety properties were proved, component by component.

Theorems left: the type invariants, of which only the cron scheduler's is a
theorem of its own (the others are part of the inductive invariants as far as an
argument needs them).
