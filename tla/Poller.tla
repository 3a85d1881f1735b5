------------------------------- MODULE Poller -------------------------------
(***************************************************************************)
(* One job of the poller subsystem (crates/poller): the tokio task that    *)
(* ticks it, the SQLite rows poll_state and poll_lease that the daemons    *)
(* share, hot reload and the operator's endpoints.  Rows, tasks and        *)
(* breakers are keyed by the job id, so the jobs do not interact.          *)
(*                                                                         *)
(* A runner is one PollerRunner, with the nonce that makes its leaseholder *)
(* string unique: a restarted daemon is another runner.  Every statement   *)
(* on SQLite is one step; between two steps of a task anyone may act.      *)
(* The feed is a sequence of items and a cursor is a position in it: a     *)
(* tick (webhook_poll) dispatches one item after the other from its cursor *)
(* on and acknowledges the position it has come to, or fails on the way.   *)
(* Not modelled: the kind agent_turn, which has no cursor; failure alerts  *)
(* (the counters they read and write steer nothing else); telemetry; `at'  *)
(* schedules, which end the task; shutdown(), which the daemon does not    *)
(* call.                                                                   *)
(***************************************************************************)
EXTENDS Breaker, FiniteSets

CONSTANTS Runners,       \* incarnations of the daemon
          Tasks,         \* slots for run_job_loop tasks, reused when one ends
          Admins,        \* admin connections that may reload at the same time
          None,
          LeaseTtl,      \* clock ticks from now_ms to until_ms
          Items,         \* bound: length of the feed
          MaxEvents,     \* bound: operator requests, crashes and SQLite errors
          PausedOnBoot   \* paused_on_boot of the job

ASSUME PollerAssumption ==
    /\ LeaseTtl \in Nat \ {0}
    /\ Items \in Nat
    /\ MaxEvents \in Nat
    /\ PausedOnBoot \in BOOLEAN
    /\ None \notin Runners \cup Tasks \cup Nat

VARIABLES
    row,       \* poll_state: cursor and paused
    lease,     \* poll_lease: leaseholder and running_until - now
    runners,   \* per runner: up, its map entry, whether cfg has the job, run_once
    tasks,     \* per slot: the locals of run_job_loop
    admins,    \* per connection: the reload in progress
    events,    \* requests, crashes and errors so far
    dispatched,\* history: how often each item was dispatched, up to 2
    history    \* history: causes of re-dispatch and overlaps of reloads so far

vars == <<row, lease, runners, tasks, admins, events, dispatched, history>>

(* What may cause an item to be dispatched again.  "partial" is a tick     *)
(* that failed after it had dispatched some of its items.                  *)
Causes == {"overrun", "crash", "sqlite", "manual", "reset", "partial"}
Positions == 0..Items

NoLease == [holder |-> None, left |-> 0]
DownRunner == [up |-> FALSE, entry |-> None, known |-> FALSE, once |-> None]
NoReload == [runner |-> None, plan |-> "none", at |-> "idle", task |-> None]

(* A slot without a task.  `held' is the position the tick has come to,    *)
(* then the cursor it acknowledged; `sent' tells whether this tick has     *)
(* dispatched anything; `left' is what remains of the time for which the   *)
(* task was granted the lease; `late' counts ticks since the pause.        *)
NoTask == [pc |-> "none", runner |-> None, cancelled |-> FALSE, cb |-> NewBreaker,
           held |-> None, sent |-> FALSE, left |-> 0, late |-> 0]

(* The task holds, or believes it holds, the lease. *)
InSection(t) == tasks[t].pc \in {"load", "tick", "ok", "pause", "release"}
Past(t, p) == [tasks EXCEPT ![t].pc = p]
Unpausing == [t \in Tasks |-> [tasks[t] EXCEPT !.late = 0]]

Init == /\ row = [cursor |-> 0, paused |-> FALSE]
        /\ lease = NoLease
        /\ runners = [r \in Runners |-> DownRunner]
        /\ tasks = [t \in Tasks |-> NoTask]
        /\ admins = [a \in Admins |-> NoReload]
        /\ events = 0
        /\ dispatched = [i \in 0..(Items - 1) |-> 0]
        /\ history = {}

(* Requests, crashes and errors are bounded together by MaxEvents. *)
Event(cause) == /\ events < MaxEvents
                /\ events' = events + 1
                /\ history' = history \cup cause
Routine == UNCHANGED <<events, history>>

(***************************************************************************)
(* The process: start(), and its end.                                      *)
(***************************************************************************)
NewTask(r) == [NoTask EXCEPT !.pc = "sleep", !.runner = r]

(* start(): persists paused_on_boot, then spawns the task.  Nobody else    *)
(* has the runner before start() returns (main.rs), so that the spawn and  *)
(* the insert of the map entry are one step here.                          *)
Start(r, t) ==
    /\ ~runners[r].up /\ lease.holder # r
    /\ tasks[t] = NoTask
    /\ runners' = [runners EXCEPT ![r] = [up |-> TRUE, entry |-> t, known |-> TRUE, once |-> None]]
    /\ row' = [row EXCEPT !.paused = @ \/ PausedOnBoot]
    /\ tasks' = [tasks EXCEPT ![t] = NewTask(r)]
    /\ Routine /\ UNCHANGED <<lease, admins, dispatched>>

(* The daemon ends without shutdown(): its tasks vanish where they are and *)
(* only the rows are left.                                                 *)
Crash(r) ==
    /\ runners[r].up /\ Event({"crash"})
    /\ runners' = [runners EXCEPT ![r] = DownRunner]
    /\ tasks' = [t \in Tasks |-> IF tasks[t].runner = r THEN NoTask ELSE tasks[t]]
    /\ admins' = [a \in Admins |-> IF admins[a].runner = r THEN NoReload ELSE admins[a]]
    /\ UNCHANGED <<row, lease, dispatched>>

(***************************************************************************)
(* reload(): diff() under the lock, then cancel and drop under the lock,   *)
(* then spawn_job: the task runs before its entry is inserted under the    *)
(* lock.  Reloads of one runner may overlap.                               *)
(***************************************************************************)
Plans(r) == IF runners[r].entry = None THEN {"add", "absent"} ELSE {"replace", "keep", "remove"}

Overlap(r) == \E b \in Admins : admins[b].at # "idle" /\ admins[b].runner = r

ReloadDiff(a, r) ==
    /\ runners[r].up /\ admins[a].at = "idle"
    /\ Event(IF Overlap(r) THEN {"overlap"} ELSE {})
    /\ \E p \in Plans(r) :
         admins' = [admins EXCEPT ![a] = [runner |-> r, plan |-> p, at |-> "apply", task |-> None]]
    /\ UNCHANGED <<row, lease, runners, tasks, dispatched>>

ReloadApplyForgets(a) ==
    LET r == admins[a].runner IN
    LET p == admins[a].plan IN
    /\ admins[a].at = "apply"
    /\ runners' = [runners EXCEPT ![r].known = p \notin {"absent", "remove"},
                                  ![r].entry = IF p \in {"replace", "remove"} THEN None ELSE @]
    /\ admins' = [admins EXCEPT ![a] = IF p \in {"add", "replace"}
                                         THEN [@ EXCEPT !.at = "spawn"] ELSE NoReload]
    /\ Routine /\ UNCHANGED <<row, lease, tasks, dispatched>>
ReloadApply(a) ==
    LET r == admins[a].runner IN
    LET p == admins[a].plan IN
    /\ admins[a].at = "apply"
    /\ tasks' = IF p \in {"replace", "remove"} /\ runners[r].entry # None
                  THEN [tasks EXCEPT ![runners[r].entry].cancelled = TRUE] ELSE tasks
    /\ runners' = [runners EXCEPT ![r].known = p \notin {"absent", "remove"},
                                  ![r].entry = IF p \in {"replace", "remove"} THEN None ELSE @]
    /\ admins' = [admins EXCEPT ![a] = IF p \in {"add", "replace"}
                                         THEN [@ EXCEPT !.at = "spawn"] ELSE NoReload]
    /\ Routine /\ UNCHANGED <<row, lease, dispatched>>

(* spawn_job: the task starts, then the map entry of the job is            *)
(* overwritten, whatever it held.                                          *)
ReloadSpawn(a, t) ==
    /\ admins[a].at = "spawn" /\ tasks[t] = NoTask
    /\ tasks' = [tasks EXCEPT ![t] = NewTask(admins[a].runner)]
    /\ admins' = [admins EXCEPT ![a].at = "insert", ![a].task = t]
    /\ Routine /\ UNCHANGED <<row, lease, runners, dispatched>>

ReloadInsert(a) ==
    /\ admins[a].at = "insert"
    /\ runners' = [runners EXCEPT ![admins[a].runner].entry = admins[a].task]
    /\ admins' = [admins EXCEPT ![a] = NoReload]
    /\ Routine /\ UNCHANGED <<row, lease, tasks, dispatched>>

(***************************************************************************)
(* The operator: pause, resume, reset and run, refused for a job that the  *)
(* runner's configuration does not have.                                   *)
(***************************************************************************)
Known(r) == runners[r].up /\ runners[r].known

Pause(r) ==
    /\ Known(r) /\ Event({})
    /\ row' = [row EXCEPT !.paused = TRUE]
    /\ UNCHANGED <<lease, runners, tasks, admins, dispatched>>

Resume(r) ==
    /\ Known(r) /\ Event({})
    /\ row' = [row EXCEPT !.paused = FALSE]
    /\ tasks' = Unpausing
    /\ UNCHANGED <<lease, runners, admins, dispatched>>

ResetCursor(r) ==
    /\ Known(r) /\ Event({"reset"})
    /\ row' = [cursor |-> 0, paused |-> FALSE]
    /\ tasks' = Unpausing
    /\ UNCHANGED <<lease, runners, admins, dispatched>>

(* A tick dispatched item c. *)
Dispatch(c) == [dispatched EXCEPT ![c] = IF @ < 2 THEN @ + 1 ELSE 2]

(* run_once ticks without the lease and saves nothing, however its tick    *)
(* ends.                                                                   *)
RunOnceLoad(r) ==
    /\ Known(r) /\ runners[r].once = None /\ Event({"manual"})
    /\ runners' = [runners EXCEPT ![r].once = row.cursor]
    /\ UNCHANGED <<row, lease, tasks, admins, dispatched>>

RunOnceItem(r) ==
    /\ runners[r].once # None /\ runners[r].once < Items
    /\ dispatched' = Dispatch(runners[r].once)
    /\ runners' = [runners EXCEPT ![r].once = @ + 1]
    /\ Routine /\ UNCHANGED <<row, lease, tasks, admins>>

RunOnceEnd(r) ==
    /\ runners[r].once # None
    /\ runners' = [runners EXCEPT ![r].once = None]
    /\ Routine /\ UNCHANGED <<row, lease, tasks, admins, dispatched>>

(***************************************************************************)
(* run_job_loop.  A task in "sleep" waits for its next run, or waits five  *)
(* seconds because the job is paused; only these waits watch the cancel    *)
(* token.  In "due" the timer of the select! has fired; when the token is  *)
(* cancelled by then too, either branch may be taken.  allow() of the      *)
(* task's own breaker is part of the step before it.                       *)
(***************************************************************************)
DueUncancellable(t) ==
    /\ tasks[t].pc = "sleep"
    /\ tasks' = Past(t, "due")
    /\ Routine /\ UNCHANGED <<row, lease, runners, admins, dispatched>>
Due(t) ==
    /\ tasks[t].pc = "sleep" /\ ~tasks[t].cancelled
    /\ tasks' = Past(t, "due")
    /\ Routine /\ UNCHANGED <<row, lease, runners, admins, dispatched>>

WakeEvenIfPaused(t) ==
    /\ tasks[t].pc = "due"
    /\ tasks' = Past(t, "acquire")
    /\ Routine /\ UNCHANGED <<row, lease, runners, admins, dispatched>>
Wake(t) ==
    /\ tasks[t].pc = "due"
    /\ tasks' = Past(t, IF row.paused THEN "sleep" ELSE "acquire")
    /\ Routine /\ UNCHANGED <<row, lease, runners, admins, dispatched>>

(* A failed read of the row counts as not paused. *)
WakeError(t) ==
    /\ tasks[t].pc = "due" /\ Event({"sqlite"})
    /\ tasks' = Past(t, "acquire")
    /\ UNCHANGED <<row, lease, runners, admins, dispatched>>

End(t) ==
    /\ tasks[t].pc \in {"sleep", "due"} /\ tasks[t].cancelled
    /\ tasks' = [tasks EXCEPT ![t] = NoTask]
    /\ Routine /\ UNCHANGED <<row, lease, runners, admins, dispatched>>

(* acquire_lease inserts the row or takes over one that has expired; a     *)
(* task that is refused sleeps again.  An open breaker then skips the tick *)
(* and gives the lease back.                                               *)
Granted(t) ==
    /\ lease' = [holder |-> tasks[t].runner, left |-> LeaseTtl]
    /\ tasks' = [tasks EXCEPT ![t].pc = IF Allowed(tasks[t].cb) THEN "load" ELSE "release",
                              ![t].cb = AfterAllow(@), ![t].left = LeaseTtl]
Refused(t) == tasks' = Past(t, "sleep") /\ UNCHANGED lease

AcquireReentrant(t) ==
    /\ tasks[t].pc = "acquire"
    /\ IF lease.left = 0 \/ lease.holder = tasks[t].runner THEN Granted(t) ELSE Refused(t)
    /\ Routine /\ UNCHANGED <<row, runners, admins, dispatched>>
AcquireNoTakeover(t) ==
    /\ tasks[t].pc = "acquire"
    /\ IF lease = NoLease THEN Granted(t) ELSE Refused(t)
    /\ Routine /\ UNCHANGED <<row, runners, admins, dispatched>>
Acquire(t) ==
    /\ tasks[t].pc = "acquire"
    /\ IF lease.left = 0 THEN Granted(t) ELSE Refused(t)
    /\ Routine /\ UNCHANGED <<row, runners, admins, dispatched>>

AcquireError(t) ==
    /\ tasks[t].pc = "acquire" /\ Event({"sqlite"})
    /\ Refused(t)
    /\ UNCHANGED <<row, runners, admins, dispatched>>

(* The tick begins with the cursor just read, or without one when the read *)
(* fails.                                                                  *)
TickFrom(t, c) ==
    tasks' = [tasks EXCEPT ![t].pc = "tick", ![t].held = c, ![t].sent = FALSE,
                           ![t].late = IF row.paused /\ @ < 2 THEN @ + 1 ELSE @]

Load(t) ==
    /\ tasks[t].pc = "load"
    /\ TickFrom(t, row.cursor)
    /\ Routine /\ UNCHANGED <<row, lease, runners, admins, dispatched>>

LoadError(t) ==
    /\ tasks[t].pc = "load" /\ Event({"sqlite"})
    /\ TickFrom(t, 0)
    /\ UNCHANGED <<row, lease, runners, admins, dispatched>>

(* tick() dispatches items one by one; then it answers with the cursor it  *)
(* has come to, with no cursor when it found nothing, or with an error     *)
(* that classify() calls transient or permanent.                           *)
TickItem(t) ==
    /\ tasks[t].pc = "tick" /\ tasks[t].held < Items
    /\ dispatched' = Dispatch(tasks[t].held)
    /\ tasks' = [tasks EXCEPT ![t].held = @ + 1, ![t].sent = TRUE]
    /\ Routine /\ UNCHANGED <<row, lease, runners, admins>>

TickOk(t) ==
    /\ tasks[t].pc = "tick" /\ tasks[t].sent
    /\ tasks' = [tasks EXCEPT ![t].pc = "ok", ![t].sent = FALSE, ![t].cb = OnSuccess(@)]
    /\ Routine /\ UNCHANGED <<row, lease, runners, admins, dispatched>>

TickNothing(t) ==
    /\ tasks[t].pc = "tick" /\ ~tasks[t].sent
    /\ tasks' = [tasks EXCEPT ![t].pc = "ok", ![t].held = None, ![t].cb = OnSuccess(@)]
    /\ Routine /\ UNCHANGED <<row, lease, runners, admins, dispatched>>

(* handle_tick_error: save_tick_err leaves cursor and paused alone, also   *)
(* when some items went out before the error; a permanent error goes on to *)
(* pause the job.                                                          *)
TickErrorAdvances(t) ==
    /\ tasks[t].pc = "tick"
    /\ tasks' = [tasks EXCEPT ![t].pc = "ok", ![t].held = IF @ < Items THEN @ + 1 ELSE @,
                              ![t].sent = FALSE, ![t].cb = OnFailure(@)]
    /\ Routine /\ UNCHANGED <<row, lease, runners, admins, dispatched>>
TickError(t) ==
    /\ tasks[t].pc = "tick"
    /\ \E next \in {"release", "pause"} :
         tasks' = [tasks EXCEPT ![t].pc = next, ![t].held = None, ![t].sent = FALSE,
                                ![t].cb = OnFailure(@)]
    /\ history' = history \cup (IF tasks[t].sent THEN {"partial"} ELSE {})
    /\ UNCHANGED <<row, lease, runners, admins, events, dispatched>>

(* save_tick_ok keeps the stored cursor when the tick acknowledged none. *)
SaveOkPlain(t) ==
    /\ tasks[t].pc = "ok"
    /\ row' = [row EXCEPT !.cursor = IF tasks[t].held = None THEN 0 ELSE tasks[t].held]
    /\ tasks' = [tasks EXCEPT ![t].pc = "release", ![t].held = None]
    /\ Routine /\ UNCHANGED <<lease, runners, admins, dispatched>>
SaveOk(t) ==
    /\ tasks[t].pc = "ok"
    /\ row' = [row EXCEPT !.cursor = IF tasks[t].held = None THEN @ ELSE tasks[t].held]
    /\ tasks' = [tasks EXCEPT ![t].pc = "release", ![t].held = None]
    /\ Routine /\ UNCHANGED <<lease, runners, admins, dispatched>>

PauseJob(t) ==
    /\ tasks[t].pc = "pause"
    /\ row' = [row EXCEPT !.paused = TRUE]
    /\ tasks' = Past(t, "release")
    /\ Routine /\ UNCHANGED <<lease, runners, admins, dispatched>>

(* The result of both statements is ignored. *)
SaveError(t) ==
    /\ tasks[t].pc \in {"ok", "pause"} /\ Event({"sqlite"})
    /\ tasks' = [tasks EXCEPT ![t].pc = "release", ![t].held = None]
    /\ UNCHANGED <<row, lease, runners, admins, dispatched>>

(* release_lease deletes the row if it carries this runner's leaseholder,  *)
(* which every task of the runner shares.                                  *)
Release(t) ==
    /\ tasks[t].pc = "release"
    /\ lease' = IF lease.holder = tasks[t].runner THEN NoLease ELSE lease
    /\ tasks' = [tasks EXCEPT ![t].pc = "sleep", ![t].left = 0]
    /\ Routine /\ UNCHANGED <<row, runners, admins, dispatched>>

ReleaseError(t) ==
    /\ tasks[t].pc = "release" /\ Event({"sqlite"})
    /\ tasks' = [tasks EXCEPT ![t].pc = "sleep", ![t].left = 0]
    /\ UNCHANGED <<row, lease, runners, admins, dispatched>>

(* One tick of the wall clock; a task still in the section when its time   *)
(* is up has overrun the lease.                                            *)
Elapse(n) == IF n > 0 THEN n - 1 ELSE 0
Tick ==
    /\ lease' = [lease EXCEPT !.left = Elapse(@)]
    /\ tasks' = [t \in Tasks |-> [tasks[t] EXCEPT !.left = Elapse(@), !.cb = TickBreaker(@)]]
    /\ history' = history \cup
                    (IF \E t \in Tasks : InSection(t) /\ tasks[t].left = 1 THEN {"overrun"} ELSE {})
    /\ UNCHANGED <<row, runners, admins, events, dispatched>>

(***************************************************************************)
(* The specification.                                                      *)
(***************************************************************************)
Step(t) == \/ Due(t) \/ Wake(t) \/ End(t) \/ Acquire(t) \/ Load(t)
           \/ TickItem(t) \/ TickOk(t) \/ TickNothing(t) \/ TickError(t)
           \/ SaveOk(t) \/ PauseJob(t) \/ Release(t)
StepError(t) == \/ WakeError(t) \/ AcquireError(t) \/ LoadError(t)
                \/ SaveError(t) \/ ReleaseError(t)
Operator(r) == \/ Pause(r) \/ Resume(r) \/ ResetCursor(r)
               \/ RunOnceLoad(r) \/ RunOnceItem(r) \/ RunOnceEnd(r)
Reload(a) == \/ ReloadApply(a) \/ ReloadInsert(a)
             \/ \E t \in Tasks : ReloadSpawn(a, t)

Next == \/ \E t \in Tasks : Step(t) \/ StepError(t)
        \/ \E r \in Runners : Crash(r) \/ Operator(r) \/ \E t \in Tasks : Start(r, t)
        \/ \E a \in Admins : Reload(a) \/ \E r \in Runners : ReloadDiff(a, r)
        \/ Tick

Spec == Init /\ [][Next]_vars

(* tokio runs every task that can run, the poller's tick() returns, timers *)
(* fire, and a reload goes on once begun.                                  *)
Fairness == /\ \A t \in Tasks : WF_vars(Step(t))
            /\ \A a \in Admins : WF_vars(Reload(a))
            /\ WF_vars(Tick)
LiveSpec == Spec /\ Fairness

(***************************************************************************)
(* Properties.                                                             *)
(***************************************************************************)
(* Rows, runners, tasks, reloads and history keep their types. *)
PollerTypeOK ==
    /\ row \in [cursor : Positions, paused : BOOLEAN]
    /\ lease \in [holder : Runners \cup {None}, left : 0..LeaseTtl]
    /\ runners \in [Runners -> [up : BOOLEAN, entry : Tasks \cup {None}, known : BOOLEAN,
                                once : Positions \cup {None}]]
    /\ tasks \in [Tasks -> [pc : {"none", "sleep", "due", "acquire", "load", "tick", "ok",
                                  "pause", "release"},
                            runner : Runners \cup {None}, cancelled : BOOLEAN, cb : Breakers,
                            held : Positions \cup {None}, sent : BOOLEAN,
                            left : 0..LeaseTtl, late : 0..2]]
    /\ admins \in [Admins -> [runner : Runners \cup {None},
                              plan : {"none", "add", "absent", "replace", "keep", "remove"},
                              at : {"idle", "apply", "spawn", "insert"},
                              task : Tasks \cup {None}]]
    /\ events \in 0..MaxEvents
    /\ dispatched \in [0..(Items - 1) -> 0..2]
    /\ history \subseteq Causes \cup {"overlap"}

(* acquire_lease (state.rs): as long as no task outlived the time it was   *)
(* granted, at most one task of all daemons is between acquire_lease and   *)
(* release_lease, whatever is reloaded, restarted or crashes meanwhile.    *)
LeaseExcludes ==
    "overrun" \notin history =>
        \A t, u \in Tasks : InSection(t) /\ InSection(u) => t = u

(* run_job_loop saves only what a tick acknowledged: every item before the *)
(* stored cursor was dispatched, even after overruns, crashes, resets and  *)
(* lost writes, which may only move the cursor back.                       *)
NothingSkipped ==
    \A i \in 0..(row.cursor - 1) : dispatched[i] > 0

(* Without an overrun, crash, SQLite error, manual run, reset or tick that *)
(* failed half way an item is dispatched once: reloads in the middle of a  *)
(* tick, overlapping ones too, repeat nothing, nor does a tick that fails  *)
(* before its first item.                                                  *)
OnceWithoutCause ==
    history \cap Causes = {} => \A i \in DOMAIN dispatched : dispatched[i] <= 1

(* A pause, by the operator or by a permanent error, stops every task      *)
(* after the one tick it may already have been let into, as long as the    *)
(* row can be read.                                                        *)
PauseStops ==
    "sqlite" \notin history => \A t \in Tasks : tasks[t].late <= 1

(* runner.rs, JobTask ("one running task per job"): every task that is not *)
(* cancelled is the map entry of its runner, or is about to be, so that    *)
(* the next reload can cancel it.  Overlapping reloads break this.         *)
InMap(t) == \/ runners[tasks[t].runner].entry = t
            \/ \E a \in Admins : /\ admins[a].at = "insert" /\ admins[a].task = t
                                 /\ admins[a].runner = tasks[t].runner
OneTaskPerJob ==
    \A t \in Tasks : tasks[t].pc # "none" /\ ~tasks[t].cancelled => InMap(t)

(* reload(), spawn_job: a task escapes the map, to be cancelled by nobody, *)
(* only after a reload has begun while another of the same daemon was in   *)
(* progress; reloads of different daemons, crashes and restarts in between *)
(* do not suffice.                                                         *)
EscapeNeedsOverlap ==
    "overlap" \notin history => OneTaskPerJob

(* A task whose job was removed or replaced ends, also while paused, while *)
(* its breaker is open or while another daemon has the lease.              *)
CancelledTaskEnds ==
    \A t \in Tasks : tasks[t].cancelled ~> tasks[t].pc = "none"

(* The job does not starve: while it is not paused and some daemon has a   *)
(* task for it, ticks go on, also after the lease's holder has crashed.    *)
JobKeepsTicking ==
    []<>(\/ row.paused
         \/ \A t \in Tasks : tasks[t].pc = "none" \/ tasks[t].cancelled
         \/ \E t \in Tasks : tasks[t].pc = "tick")
=============================================================================
