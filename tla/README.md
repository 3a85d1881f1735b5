# A TLA+ verification of nexo-rs

nexo-rs is a daemon that runs LLM agents behind chat channels, pollers and
plugins. Its hard parts are not the prompts but the machinery that must survive
crashes, reconnects and concurrent callers: goals and the loop that runs them,
durable flows, the outbound queue, leased pollers, shared circuit breakers,
sessions, cron entries, approvals and a file lock. This directory models that machinery
in TLA+, checks it with TLC on small instances, and proves the central safety
properties with TLAPS for every value of the constants.

Every definition is translated from the source; `PROJECT.json` maps each one to
the lines it stands for, lists the runs, the hazards the properties are aimed
at, the disagreements found and the theorems.

## 1. The system and its parts

| Part | State it keeps | Operations | What is hard |
|---|---|---|---|
| `resilience`: CircuitBreaker | mode, two counters, window, backoff behind one mutex | `allow`, `on_success`, `on_failure`, `trip`, `reset`, `call` | the mutex is free while the guarded call runs: late outcomes |
| `taskflow`: FlowManager, FlowStore, WaitEngine, resume bridge | SQLite rows `flows`, `flow_events`; the engine's snapshot | create, start, wait, resume, update, finish, fail, cancel, request cancel, tick, prune | read-modify-write by several processes; stale decisions; crash between statements |
| `broker`: DiskQueue | SQLite tables `pending_events`, `dead_letters`; a cap lock; a drain flag | `enqueue`, `drain_nats`, `move_to_dlq`, replay, purge | check and insert apart; overlapping drains; two processes on one file |
| `broker`: NatsBroker | breaker, connection state, spawned drains | `publish`, state monitor, `subscribe`, `request` | flaps, a publish in flight across a reconnect, restart |
| `broker`: LocalBroker | subscriber table with bounded channels | `publish`, `subscribe`, `request` | slow consumers, inboxes of timed-out requests |
| `poller`: PollerRunner, PollState | SQLite rows `poll_state`, `poll_lease`; a map of tasks; a breaker per task | the tick loop, reload, pause, resume, reset, run once | leases with a deadline, two daemons on one file, reload during a tick |
| `agent-registry`, `dispatch-tools`, `driver-loop` | goals with status, FIFO queue, cap, SQLite mirror; pause and cancel signals; hook claims | admit, release, promote, pause, resume, cancel, ask user, reattach; the turn loop | cap and queue under concurrency, restart, timeout against answer |
| `core`: SessionManager, CronRunner, ApprovalCorrelator, config reload, agent runtime | session map, cron rows, pending approvals, snapshots | touch, sweep, evict; fire and advance; park, decide, expire; reload | check-then-act on maps, crash between fire and advance |
| `dream`: consolidation lock | a lock file whose mtime is the last run | acquire, roll back, probe | write-then-verify is not atomic; stale takeover |
| everything else | configuration, clients, formats, wizards | | I/O, parsing, third-party protocols |

How they interact: agents, pollers and tools publish through the broker;
NatsBroker guards the NATS client with a breaker and falls back to the disk
queue; the poller guards each job with a breaker of its own; flows are resumed
by the engine's clock or by broker events through the bridge; goals are
dispatched by tools, run by the driver loop and mirrored by the registry.

What makes each part correct: a breaker opens and closes only for a reason and
always lets a probe through; a flow never loses an acknowledged change, never
leaves a terminal status and honours a cancel; an accepted event is never lost
without a trace nor duplicated without a fault; a job is ticked by one task at
a time and never skips an item; a goal runs if and only if the cap allows it
and is not forgotten by a restart.

The full list of components, with the ones that are left out and why, and the
list of hazards at their source lines, are in `PROJECT.json`.

## 2. Modules

| Module | Models | Uses |
|---|---|---|
| `Breaker` | the breaker as a value: every method a function from breaker to breaker | |
| `CircuitBreaker` | one breaker shared by concurrent callers | `Breaker` |
| `FlowLifecycle` | abstract: what a flow promises its owner | |
| `TaskFlow` | manager, store, engine, bridge, pruner | refines `FlowLifecycle` |
| `DiskQueue` | the two tables, producers, drains, the `dlq` command | |
| `NatsBroker` | `publish`, state monitor, drains, restart | `DiskQueue`, `Breaker` |
| `Poller` | one job: tasks, lease, cursor, reload, operator | `Breaker` |
| `GoalRegistry` | registry, store, reattach, dispatch, control tools, ask-user | |
| `DriverLoop` | `run_goal` of one goal against its operator | |
| `GoalHooks` | completion hooks of one goal, claims, drain and boot sweep | |
| `Sessions` | the session map, its cap, sweeper and callbacks | |
| `Cron` | the cron table and `tick_once` | |
| `ConfigApproval` | proposals, approvals, apply and rollback of agents.yaml | |
| `DreamLock` | the consolidation lock file | |
| `MCProgress` | `TaskFlow`, `DriverLoop`, `CircuitBreaker` side by side, with fairness | all three |
| `MCServices` | `DriverLoop`, `GoalHooks`, `Sessions`, `DreamLock`, `ConfigApproval`, `Cron` side by side | all six |
| `MCNatsBroker` | the broker, and the queue by itself | `NatsBroker` |
| `ServiceProofs` | theorems about `DreamLock`, `Sessions`, `DriverLoop`, `GoalHooks` | TLAPS |
| `ControlProofs` | theorems about `Cron` and `ConfigApproval` | TLAPS |
| `GoalProofs` | theorems about `GoalRegistry` | TLAPS |
| other `*Proofs` | theorems about the module of that name | TLAPS |
| other `MC*` | symmetry sets for TLC | |

Conventions. One action per handler or per stretch of a handler between two
awaits; one SQL statement or transaction is one step. A caller's local state is
its program counter and the values it carries across an await. A crash empties
what is in memory and keeps what is in SQLite. Variables marked *history* exist
for the properties only and enable nothing. Clocks are counted down (`left`),
so no run is bounded by absolute time unless the module says so. Some
definitions are preceded by a variant whose name says what it gets wrong
(`RevisionUnchecked`, `AcquireReentrant`) or which carries an `M` at the end
(`BlockedM`, `RetryLeftM`): a seeded fault that, put in the place of the definition, must violate a named property. No
specification uses them.

### CircuitBreaker

A caller goes `idle -> calling -> idle`: `Admit` is `allow()`, `Succeed`, `Fail`
record an outcome, `DropCall` is a future dropped at its await, which records
nothing. `Trip` and `Reset` are the out-of-band signals of the broker. The run
lengths `errRun` and `okRun` are history: what the callers really recorded.

### TaskFlow

`with_retry` is `Fetch` (read the row, apply the closure to a copy) and `Write`
(the UPDATE with its revision check and the audit event, one transaction), or
`FetchRefused` and `WriteRejected` with at most `Attempts` rounds. The engine is
`EngineList`, `EngineEvaluate` per row of its snapshot, then a manager call like
everybody's; the bridge checks the row in `BridgeReceive` and resumes later.
`Vanish` stops any process between two of its steps. `state_json` is the set of
processes whose patch it contains, which is what lost updates need; the JSON is
not. `FlowLifecycle` knows status and cancel flag only.

Left out: the owner check of the tool, the maximal timer horizon, patches that
are not objects, the mirrored-step table.

### DiskQueue and NatsBroker

`enqueue()` is count, wait for `cap_serializer`, recount, evict, insert; each a
step. `drain_nats()` takes the flag, selects a batch, and for each row publishes
then deletes, or counts a failed attempt, or moves it to `dead_letters`.
`DrainError` and `EnqueueError` let any statement fail. The operator is another
process that replays (insert, then delete) and purges. `NatsBroker` puts
`publish()`, the 500 ms monitor and restarts around it. The NATS client is
external: it accepts or refuses a message in either connection state.

Left out: `drain()` through a `BrokerHandle` (only tests call it), a wall clock
that steps back, and of NatsBroker `subscribe` and `request`.

### Poller

Rows and tasks are keyed by job id, so one job is modelled. A task goes
`sleep -> due -> acquire -> load -> tick -> ok | pause -> release -> sleep`; the
operators `Start`, `ReloadDiff/Apply/Spawn/Insert`, `Pause`, `Resume`,
`ResetCursor`, `RunOnceLoad/Item/End` and `Crash` act in between, and every
statement may fail. The feed is a sequence of items and the cursor a position in
it. A tick dispatches one item after the other (`TickItem`) and ends with the
position it has come to, with nothing, or with an error at any point
(`TickError`): as `webhook_poll` does when a publish fails, it then keeps no
cursor although some items are out, and the next tick sends those again. That
is the cause `"partial"` of `OnceWithoutCause`. In `due` the timer branch of the
unbiased `select!` is ready, so a task cancelled by then may still tick once.
`spawn_job` starts the task before it inserts the map entry, two steps of a
reload; in `Start` they are one, since `main.rs` hands the runner to the admin
server only after `start()` returned. Two runners are two daemons on one
database, or one and its successor.

Steps that touch nothing shared are merged with their neighbour (`allow()` with
the grant, the failure counters with the error). Left out: failure alerts and
their counters, `at` schedules, the kind `agent_turn`, which has no cursor, and
`shutdown()`, which the daemon never calls.

### GoalRegistry

Every call of the registry changes the map, captures the row and awaits
`store.upsert` of what it captured. A task is therefore a list of calls still to
make (`todo`) and one captured row under way (`pend`); `Write` makes the call,
`Upsert` lands the row. Tasks are the dispatcher, the loop of each goal, the
timeout of each question, the operator's tools, the reply router and the boot.
`CrashAndBoot` empties all of them and lists the table, `Reattach` comes to one
row of the list after another and makes the calls `ReattachRow` says for it, in
any order since `store.list` may return any, and `RearmTimers` follows.

The store may fail at every write. Memory keeps the change (`UpsertFails`): the
forwarder, the timeout and the reply router log the error or drop it and make
their next call, everybody else returns at the `?` and makes none. An eviction
may clear the map and not the table (`PurgeFails`). An error under reattach
(`ReattachFails`, at the list, a direct write or an upsert) ends the whole walk;
the daemon warns and serves, with the rows it did not reach on disk only and the
goal under way with the status that `admit` gave it.

`Release` and `PromoteQueued` model methods that no code outside tests calls:
with `ReleaseCalled` TRUE (run `goals`) they are in the model, so that the
protocol they define is checked; with FALSE (runs `goals_slot`, `goals_disk`) the
model is the daemon as it is wired.

Left out: contents of the snapshot (turns, diff, plan), sleeping durations, the
tracker lookups of `program_phase`.

### DriverLoop

`run_goal` of one goal, a step per await: `PassGate` or the pause, `StopAtTop`
(budget and cancel), `StartAttempt`, then what the attempt returned
(`WorkReturns`, `CompactReturns`, `AttemptFails`), `WakeUp` after a sleep and
`CleanUp`. An attempt may return anything its code can return for the prompt it
got; `Replay` is the default policy. The operator pauses, resumes, cancels,
interrupts and raises the budget at any await, and other goals move the compact
breaker (`OtherCompact`), which all goals share.

Left out: checkpoints, acceptance checks, memory extraction, the token and
wall-clock axes of the budget.

### GoalHooks

One goal's hooks: the in-memory registry, whose store writes are spawned tasks
landing in any order (`LandWrite`), the claims, and three callers of
`dispatch` (forwarder, shutdown drain with a timeout of its own, boot sweep),
each `TryClaim`, `RunAction`, `ReleaseClaim`. `Kill` is possible at any step.
The drain's timeout may drop the future at each of the three awaits
(`DropDispatch`); a claim or release already handed to SQLite then lands later
(`ClaimLands`, `ReleaseLands`) or not at all. An action's effect is a count.

### Sessions, Cron, ConfigApproval, DreamLock

* `Sessions`: each line that touches the concurrent map is a step, so cap check,
  choice of the victim, its removal and the insert of several callers and of the
  sweeper interleave. The model ends where the callback starts. One callback
  commits the workspace; the other calls `dispose_session` of the MCP runtime
  manager. The daemon asks that manager for the shared session only
  (`MCP_SHARED_SESSION`), so there is no runtime of a session to dispose of; were
  one built per session, `dispose_session` could run before `get_or_create` has
  installed it, and the runtime would live until the idle reaper finds it.
* `Cron`: a tick keeps the list it read (`due`); `Fire`, then `SettleFire`, with
  crashes and failed writes in between, while tools pause and delete.
* `ConfigApproval`: `park` and the receivers are one-shot channels by number;
  `on_inbound` is `Inbound` then `PutBack` or `Answer`; `apply` is five steps
  from `ApplyBegin` to the reload; `Restart` parks the staged proposals again. A
  proposal changes one key, and a later one for the key replaces its change.
* `DreamLock`: stat, read, truncate, write and verify of `try_acquire` are five
  steps; so are the two halves of `rollback`. Forced runs skip the lock.

## 3. Runs

| Run | Shows | Distinct states |
|---|---|---|
| `taskflow` | writes atomic, no lost patch, sticky cancel, terminal is final, journal explains the row, refinement of `FlowLifecycle` | 817,234 |
| `progress` | cancel of a waiting flow happens, due timers fire; a goal ends; a breaker keeps its windows, opens and closes only on real runs, and lets a probe through in the end | 250,753 |
| `nats_broker` | an acknowledged publish is stored or delivered, one copy per fault or replay; cap overshoot bounded, nothing vanishes unexplained, dead letters were really tried | 2,215,694 |
| `nats_broker_live` | every enqueue returns, reconnects drain the queue | 91,106 |
| `disk_queue_replay` (violation) | replay and drain together erase a dead letter | |
| `poller` | one task ticks, no item is skipped, an item sent twice has a cause, a pause holds, a task leaves the map only through an overlap | 1,969,497 |
| `poller_live` | cancelled tasks end, the job keeps ticking | 120,669 |
| `poller_overlap` (violation) | two reloads at once leave a task that runs and that nothing can cancel | |
| `goals` | the cap holds for concurrent dispatches, disk follows memory, a timeout respects an answer, a restart keeps statuses | 1,606,216 |
| `goals_slot` (violation) | a completed goal keeps its slot | |
| `goals_disk` (violation) | two writes of a goal in flight leave the older row on disk | |
| `services` | pause holds, retries are bounded; hooks fire once and claims are honest; the session map is bounded and no session goes unannounced; a sound lock holder excludes; agents.yaml follows the operator's decisions; cron fires are bounded | 2,585,603 |

### Bounds, and why they are enough

* CircuitBreaker: three callers, so that one outcome can be late while two form
  a run; thresholds 2, the least for which a run differs from one outcome;
  windows 1, 2, 3 ticks, so the doubling meets its cap; two trips.
* TaskFlow: one flow (rows are independent but for the engine's list, which the
  proofs cover), two clients against engine and bridge, so three writers can
  meet on one revision; the real number of attempts, 2; clients stop at
  revision 3 (4 in `progress`, with one client), enough for wait, resume, wait again; one
  process vanishes.
* DiskQueue and NatsBroker: two producers at a cap of 1, two drains with a batch
  of 2 over three events, one of them unreadable, so a drain may leave a row behind; 2
  attempts instead of 3; one fault. At most |Drainers| drains are spawned or
  running at a time. `nats_broker` adds up two state spaces, chosen at the start: the
  whole broker, with an operator who purges, and the queue by itself,
  with one who replays once as well. A replay inside the whole broker is left to the
  proofs, which cover both. `nats_broker_live` has two readable events, one
  drain, a batch of 1 and no replay.
* GoalRegistry: three goals at a cap of 1 that may be raised to 2, so that one
  runs, one waits and one is refused or queued behind; three calls, one crash,
  one question, one failure of the store. `goals_slot`: two goals; `goals_disk`:
  one.
* DriverLoop: two turns, raised to three; two errors and two 413 answers in a
  row; one fresh-session retry; three operator calls: pause, resume and one more.
* GoalHooks: two hooks on different transitions (one fires at boot, one at the
  drain), two calls of the registry, two faults, one progress event.
* Sessions: two callers, three ids at a cap of 1, five calls, so that an eviction,
  a sweep and a re-creation of the same id meet.
* Cron: one entry of each kind, one retry, two faults, two operator calls, four
  ticks. ConfigApproval: two proposals for one key or two, two concurrent applies, three channels,
  one trouble (restart, expiry, failing step, rejected reload).
* DreamLock: two runs in one or two processes, three runs or stamps in all; a
  holder goes stale after two of three ticks.
* Poller: two runners, two task slots, a lease of one tick so that overruns
  happen, two admin connections, and either two events among reloads, pauses
  and resumes, so that two reloads overlap and a pause meets a reload, or one crash,
  SQLite error, reset or manual run. One item is enough for a tick that dispatches and then
  fails. Ticks, their failures and the clock are not bounded.
  `poller_live` has an empty feed: whether a task goes on depends on no item.

The parts composed in `MCProgress` and in `MCServices` share no variable in the
code as in the model. A behaviour picks one of them at the start and leaves the
others as they were, so each is checked on its own and the state spaces add up
instead of multiplying.

`CHECK_DEADLOCK FALSE` is said in `taskflow`, `progress`, `services`, `nats_broker`,
`disk_queue_replay` and the goal runs: a flow or goal that is finished, a queue that has handled
all its events and a service whose bounded callers have made their calls have
nothing left to do. Symmetry is used in safety runs only, over callers, events or slots that
no definition tells apart (`Poison` is kept fixed).

### Fairness

* `WF(Tick)`, `WF(Clock)`: time passes.
* TaskFlow: `WF(EngineStep)`, the tick loop of `WaitEngine::run`, which the
  daemon keeps for its whole life. Nothing is assumed of clients or events.
* NatsBroker: a spawned tokio task is polled until it ends (`PublisherStep`,
  `DrainTask`), the monitor polls every 500 ms, and async-nats reconnects for
  ever (`conn = "down" /\ Flip`). No fairness for a successful publish: that
  the queue drains is stated under the condition that reconnects keep coming.
* DriverLoop: `WF(RunGoalStep)`. `run_goal` is a spawned task: the runtime polls
  it, attempts return (they have a wall-clock limit) and sleeps end. Nothing is
  assumed of the operator; `GoalEnds` is stated under the condition that a
  pause is lifted in the end or the goal cancelled.
* `goals_slot`: every task makes its next call, and every loop goes on. The
  violation therefore is not a system that merely stops.
* Poller: a task that can run is run, `tick()` returns, timers fire and a reload
  goes on once begun. No fairness for operators, starts or the outcome of ticks.

## 4. Proofs

TLAPS proves the following for every value of the constants that satisfies the
named assumptions; TLC has checked the same formulas on the instances above.

* `CircuitBreakerProofs` (assumes only that the configuration is natural
  numbers, as the unsigned fields of the struct are). `Invariance` proves the
  types, that windows are bounded and that the counters are honest; the strengthening is that
  only an open breaker has time left. `OpenNeedsFailures` and
  `CloseNeedsSuccesses` follow from the counters being honest: the threshold
  test of the code sees `fails + 1`, which is at most the recorded run.
  `WindowIsKept` additionally assumes `InitialBackoff <= MaxBackoff`: without it
  a late failure replaces a long first window by the shorter maximum.
* `TaskFlowProofs`. The invariant says that a copy about to be written whose
  revision is still current *is* the legal mutation of the current row
  (`RevisionIdentifiesContent`); it is inductive because every accepted write
  increments the revision and every copy's revision is at most the row's. With
  it each `Write` is an atomic legal mutation (`WriteIsMutation`), and
  `PatchesSurvive` (no lost update), `StickyCancel`, `FinalTerminal` and the `Refinement` of
  `FlowLifecycle` follow from one lemma about what a step may do to a row
  (`RowSteps`). The auxiliary conjuncts say that a request on its way names an
  existing or once existing flow and carries a condition if it needs one.
  `JournalIsComplete` adds that a flow not yet inserted has no event; an insert
  and its `created` event are two steps, and the event may come to stand after those
  of other writers, which changes neither the last move nor the count.
* `DiskQueueProofs`. `OvershootBounded` is not inductive: a producer past the
  cap check has not inserted yet. `RoomIsReserved` counts those producers as
  well; `BusyHasWork` says that whoever is in the middle of something has an
  event to work on. Cardinality lemmas carry the counting. The other three share one
  invariant, `QueueInv`. At most one drain is past `drain_running`
  (`SingleDrain`) and its batch lists a row once; then a copy sent is paid for by the
  row that is gone, by the delete that is due, by a fault or by a replay
  (`Account`, for `CopiesArePaidFor`, the queue's part of
  `OneCopyPerFault`). `AcceptedIsAccountedFor` needs that a row about to be
  deleted was sent (`DeletedIsSent`) and that the DELETE of a replay either
  finds its row back in `pending_events` or hits one of the recorded ways
  (`ReplayIsSafe`). `GivenUpAfterTries` needs that the failures since the row was
  (re)inserted cover the attempts column and the copy of it in a drain's hands
  (`TriesCover`).
* `NatsBrokerProofs`, on top of it. `BrokerRunsTheQueue` shows that every
  behaviour of the broker is one of the queue, so the queue's theorems hold there. `OkIsStored` and `OneCopy` hold with the operator beside it and add
  that a publish in flight is the only call with its event (`PublishersFresh`)
  and that an event goes either to the client or to the queue (`OneRoad`).
* `PollerProofs`. `LeaseExcludes` needs that until the first overrun a task in
  the section is the one the lease names *and* its grant runs exactly as long
  as the lease (`SectionHolds`): so the lease can expire, and be taken over,
  only in the step that also records the overrun. `NothingSkipped` needs that
  every cursor in a task's hands was dispatched up to (`HeldCovered`). Both hold
  for any number of overlapping reloads. `PauseTakesHold`: a task past the paused check
  when the pause came has not ticked since (`PauseInv`). `OneDispatch`: without one
  of the causes, a tick that fails half-way among them, the stored cursor is
  where dispatching has come to and the one tick under way counts on from it
  (`OnceInv`). `NoEscapeWithoutOverlap` has no hypothesis on the number of
  admins: a task that no map entry and no reload knows is cancelled, or two
  reloads of one runner have overlapped; `EntryInv` says what a reload in its
  middle knows of the map.
* `ServiceProofs`, four services.
  `HolderExcludes` (DreamLock) needs that nobody has written the file
  since a clean holder took it, so that it carries the holder's pid and time
  (`CleanOwns`), and that a run which met a sound holder has read just that time
  at its stat (`StatIsTaken`): the body check then finds the lock recent and its
  holder alive.
  `SessionsStayBounded` counts the ids that callers past `enforce_cap` are about to insert
  with the live ones (`RoomForAll`); it assumes that the callers are finitely many.
  `EveryCloseAnnounced` needs that what the sweeper has still to remove is among
  what it will call back for.
  `PauseIsObeyed` needs only that an attempt past the gate has not slipped yet.
  `RetriesStayBounded` is a potential argument (`Charged`): each turn charged
  pays for its retries, itself and one swallowed wake-up turn; it assumes that
  the limits `set_goal_max_turns` may give have a maximum.
  `HookOnce` and `ClaimIsEarned` count what a dispatch past its claim is about
  to do together with what was done (`PaidFor`), and say what each
  claim stands for (`ClaimsBacked`).
* `ControlProofs`.
  `FiresAreBounded` (Cron, assumes that no entry is both one-shot and recurring)
  needs that a row the tick has read still has the table's
  failure_count (`NotStale`), since only the settlement of its own dispatch
  changes it and an entry is in the list once (`ListedOnce`). Every dispatch of a one-shot is then
  a failure counted, a write lost or the one under way (`InTable`, `Gone`).
  `YamlIsApproved` (ConfigApproval): a channel belongs to one patch, whoever holds a side of it
  (`OneOwner`), what it carries is true of that patch (`AnswersTrue`), so a call past
  its decision and the snapshot it may restore are approved (`PastDecision`).

* `GoalProofs`, all four invariants of `GoalRegistry`: `CapIsKept`, `DiskFollows`,
  `AnswerWins` and `RestartRestores`. It assumes that the goals are finitely many
  and that the marker for "no goal" is none of them. None of the four is
  inductive; they share `GoalInv`. *What a task may still have to do* (`Plans`):
  a step is a call taken from some task's list, so nothing can be said of it
  before the lists are known. *Reattach runs alone* (`Booting`): between the
  calls for one row the row is as `Block` says, after a bare `admit`, with the
  call to come that gives it its status back; every other row in the map is
  already restored (`Settled`). *Writes* (`Follows`): unless one failed or they
  overlapped, a goal has one write under way and it carries the row in the map. A
  reattach that is given up needs nothing new: its goal becomes adrift, and the
  others in the map are settled or not there. An eviction
  clears the map first and the table later, and its purge may meet a goal
  dispatched again in between; it spares that goal because it is not terminal, and
  no timeout can make it so, since only a goal that ran is paused and asked
  (`NeverRan`, `PurgeSpares`). *Questions* (`OneGoalAsks`, `AnsweredGone`): the number
  of a question is with one goal, in the map, the table, a write or a reply under
  way, and is gone from the map once its answer is recorded. The cap needs no more
  than the types: `admit` tests and inserts in one step, and what else adds a
  goal to the count adds it to `lifted`. Steps are classified by phase and by
  what they write, and the invariant is preserved class by class. That
  `queue.retain` keeps a queue a queue of goals is an induction on its length,
  made with the least element of the set of lengths for which it fails.

Only model-checked: everything temporal beyond `[]` (liveness under fairness is
out of the prover's reach), that is `ProbeEventuallyAllowed`, `CancelHappens`,
`DueTimerFires`, `EnqueueReturns`, `ReconnectsDrain`, `CancelledTaskEnds`,
`JobKeepsTicking` and `GoalEnds`. The four runs that end in a violation show a
behaviour, and there is nothing to prove of them.

## 5. Where code and words disagree

Shown by a run:

* `disk_queue_replay`: `replay_dead_letter` inserts and deletes in two
  statements; a drain in between can move the row back onto the old dead
  letter, and the delete removes both. `event-bus.md` says dead letters are
  "not silently discarded".
* `goals_slot`: on GoalCompleted the forwarder fires hooks and drops them; nothing
  calls `release` or sets a terminal status. The goal counts as Running until it
  is cancelled or the daemon restarts, and queued goals are never promoted. A
  comment in `program_phase.rs` relies on "the orchestrator's release() callback".
* `goals_disk`: `admit` and `persist` await the upsert of a captured row under no
  lock. A cancel that comes while the row of `admit` is on its way may be on disk
  before it; the goal then stays Running there, and a restart starts from that.
  `registry.rs` says "every state transition is mirrored to disk".
* `poller_overlap`: two overlapping reloads (the admin server handles each
  connection in a task) both plan an add; the second insert drops the first
  task from the map without cancelling it, and it runs until the daemon ends.
  Comments in `runner.rs` promise one task per job. The lease still keeps the two
  apart (`OneTicks` is proved for any number of reloads).

Observed while modelling, without a run of their own:

* `trip()` on an open breaker doubles the window, its comment speaks of the
  initial backoff. `resume()` also starts a flow that is only Created.
  `start_running` of a waiting flow leaves `wait_json` behind.
* The queue's "hard cap" may be exceeded by racing producers and by replays
  (`OvershootBounded` says by how much); an eviction decided after the 500 ms
  sleep may hit a queue that has room again; README's "no duplicates" does not
  hold for a crash between publish and DELETE (`OneCopyPerFault`); a comment
  in `disk_queue.rs` speaks of 18 drain cycles where 3 attempts are made.
* After an overrun and a reload, the old task's `release_lease` deletes the
  lease of its successor, since the leaseholder names the runner and not the
  task. A reset during a tick is overwritten by the tick's save. The test
  named after a persisted cursor of `run_once` notwithstanding, `run_once`
  saves nothing. A `webhook_poll` tick whose publish fails sends the items before
  it again. A permanent error alerts only past the breaker threshold.
* Flows: a decision of engine or bridge on an older row may resume a flow since
  parked on Manual (`engine.rs`: "Only resumed by an explicit `manager.resume(...)`
  call."). A crash between the insert and its event leaves a flow without
  any event, against `docs/src/taskflow/model.md`. Rows found at boot are not
  drained while the connection stays up; `ops/dlq.md` speaks of a startup drain.
* Goals: a write that fails is not repeated, and memory and disk differ until
  the goal changes again (`StoreFollowsMemory` excuses such goals as `adrift`,
  as it does those of `goals_disk`). `release` has already popped the head
  when `promote_queued` looks for it, so promotion always answers false.
  `reattach` puts paused and finished rows into the queue when the cap is
  full, leaves a Queued row out of it when there is room, and a crash in its
  middle loses the statuses it was about to restore. `dispatch_audit` ignores
  Rejected and runs the goal unregistered. Resume and answers check no cap. A
  Sleep event that is late makes a cancelled or paused goal Sleeping again, and
  restored Sleeping goals have no loop. An answer between the timeout's check
  and its cancel is accepted and the goal cancelled all the same.
* Driver loop: a success does not reset `consecutive_413`, though `goal.rs` says
  so; `CompactAndRetry` only counts, it schedules no compact turn. A Sleep after
  a compact turn was scheduled replaces the compact prompt, and the next work
  turn is then accounted as a compact turn and its outcome ignored.
  Interrupts drained by a compact turn reach no prompt. An error of
  `run_attempt` leaves `run_goal` without GoalCompleted and without cleaning up
  the signals. The compact breaker is shared by all goals.
* Hooks: a Progress hook fires once in a goal's life, since its claim stays. The
  claims are forgotten before the spawned removal of the hooks lands: a kill in
  between lets the boot sweep fire a failure for a goal that completed. A drain
  that times out leaves a claim whose hook never fired (`ClaimMeansFired` names
  the excuses).
* Sessions: the sweeper removes what it collected by id; a session that `get` or
  `push_message` touched in between goes with its history, although
  `short-term.md` speaks of sessions that were inactive for `session_ttl`. It also
  calls back for an id that has been created again. `update` may write back an
  older `last_access`.
* Cron: an entry paused or deleted after the tick read it fires once more.
* Approvals: a rejected proposal stays staged, so another `apply` parks it
  again; a second `apply` drops the responder of the first. The rollback of one
  apply restores the whole file and can remove a change that another one has
  reported as applied (`undone` in the property).
* Dream lock: the comment of `run` calls the rollback of a forced run a no-op; it
  clears the body, or unlinks the file, under whoever holds the lock. Two
  runs of one process both verify. A run that took its stat before another's
  acquisition may reclaim a lock that is fresh.

## 6. Not modelled

Wizards, parsers, HTTP and MCP clients, packaging, and the agent's own
conversation with the LLM keep no state that an interleaving could break, or
only behind third-party code; `PROJECT.json` gives the reason for each. They are
by far the larger part of the repository's lines. Of the stateful parts left:

* `LocalBroker` and the re-subscribe loop of NatsBroker: bounded channels and
  what is published between two subscriptions is lost, by design. `topic_matches`
  is a recursive comparison, of use only against a reference definition.
* configuration reload and the agent runtime's debounce: one gate, whole
  snapshots.
* the mirrored-step table of taskflow: two statements per observation.

## 7. Plan

Every invariant and action property that a run checks has its theorem.

Modules to come: `LocalBroker`, and an abstract goal (queued, running, done, at
most `cap` running) once the code frees slots.

## Running

`tlc -config <run>.cfg <module>` for a run and `tlapm <Module>Proofs.tla` for
the proofs, in this directory; `PROJECT.json` pairs modules and configurations.
