---------------------------- MODULE GoalRegistry ----------------------------
(***************************************************************************)
(* The goals of the dispatch subsystem: AgentRegistry                      *)
(* (crates/agent-registry/src/registry.rs), its persistent store, the      *)
(* boot-time reattach (reattach.rs), the control tools of dispatch-tools   *)
(* (agent_control.rs, admin.rs, program_phase.rs, event_forwarder.rs), the *)
(* routing of answers in core/src/agent/runtime.rs and the pause and       *)
(* cancel signals of DriverOrchestrator.                                   *)
(*                                                                         *)
(* Everything here is a tokio task that makes registry calls.  A call      *)
(* changes the map in memory, captures the row and then awaits             *)
(* store.upsert of what it captured; other tasks run in between.  A task   *)
(* is therefore a sequence of calls still to make (todo) and at most one   *)
(* captured row on its way to the disk (pend).                             *)
(***************************************************************************)
EXTENDS Naturals, Sequences, FiniteSets

CONSTANTS Goals,          \* goal ids, each dispatched at most once
          NoGoal,         \* the second half of the name of a task of no goal
          InitCap,        \* max_concurrent_agents of the configuration
          Caps,           \* what set_concurrency_cap may be called with
          MaxOps,         \* bound: dispatches, control calls and admin calls together
          MaxCrashes,     \* bound: crashes of the daemon
          MaxAsks,        \* bound: questions asked
          MaxFaults,      \* bound: failures of the store
          ReleaseCalled   \* TRUE: some caller follows the release/promote_queued protocol

ASSUME RegistryAssumption ==
    /\ IsFiniteSet(Goals) /\ NoGoal \notin Goals
    /\ InitCap \in Nat /\ Caps \subseteq Nat
    /\ MaxOps \in Nat /\ MaxCrashes \in Nat /\ MaxAsks \in Nat
    /\ MaxFaults \in Nat
    /\ ReleaseCalled \in BOOLEAN

VARIABLES mem,      \* AgentRegistry.inner: the row of each goal, or NoRow
          queue,    \* AgentRegistry.queue
          cap,      \* AgentRegistry.cap
          store,    \* the table agent_registry
          todo,     \* per task: the registry calls it still makes
          pend,     \* per task: the captured row on its way to store.upsert
          sig,      \* pause_signals and cancel_tokens of the orchestrator
          loop,     \* where the run_goal task of a goal is
          timer,    \* per question: the task of spawn_ask_timeout_task
          reply,    \* the paused goal an inbound message was matched with
          phase,    \* "up", or "boot" while reattach runs
          intent,   \* the rows that reattach has listed ...
          walk,     \* ... and the goals whose rows it has still to come to
          ops, crashes, asks, faults,   \* counters for the bounds
          \* history, read by no action
          lifted,   \* goals counted as running without having passed admit
          capHigh,  \* the largest cap since boot
          adrift,   \* goals with a write that failed or met another, since the last lone one
          answered, \* questions whose answer has been recorded since boot
          late      \* questions whose timeout went ahead after the answer

registry == <<mem, queue, cap, store, lifted, capHigh, adrift>>
driver   == <<sig, loop>>
asking   == <<timer, reply, answered, late>>
bounds   == <<ops, crashes, asks, faults>>
boot     == <<phase, intent, walk>>
vars == <<registry, todo, pend, driver, asking, bounds, boot>>

NoRow   == [status |-> "absent", sleep |-> FALSE, ask |-> 0]
NoWrite == [g |-> NoGoal, row |-> NoRow]
NoSig   == [on |-> FALSE, paused |-> FALSE, cancelled |-> FALSE]
FreshSig == [on |-> TRUE, paused |-> FALSE, cancelled |-> FALSE]

Terminal == {"Done", "Failed", "Cancelled", "LostOnRestart"}
Counted  == {"Running", "Sleeping"}
Status   == Terminal \cup Counted \cup {"Queued", "Paused", "absent"}

Questions == 1..MaxAsks
Disp(g)  == <<"disp", g>>
Loop(g)  == <<"loop", g>>
Timer(q) == <<"timer", q>>
Op    == <<"op", NoGoal>>
Reply == <<"reply", NoGoal>>
Boot  == <<"boot", NoGoal>>
Tasks == {Disp(g) : g \in Goals} \cup {Loop(g) : g \in Goals}
         \cup {Timer(q) : q \in Questions} \cup {Op, Reply, Boot}

\* The calls a task can have in its todo list.
CallStatus(g, s) == [c |-> "status", g |-> g, s |-> s]
CallAsk(g, q)    == [c |-> "ask", g |-> g, q |-> q]
CallSleep(g)     == [c |-> "sleep", g |-> g]
CallAdmit(g, row) == [c |-> "admit", g |-> g, row |-> row]
CallSpawn(g)     == [c |-> "spawn", g |-> g]
CallArm(g, q)    == [c |-> "arm", g |-> g, q |-> q]
CallStore(g, row) == [c |-> "store", g |-> g, row |-> row]
CallPop          == [c |-> "pop"]
CallPromote(g)   == [c |-> "promote", g |-> g]
CallPurge(S)     == [c |-> "purge", set |-> S]

CountRunning == Cardinality({g \in Goals : mem[g].status \in Counted})
Known(g) == mem[g] # NoRow
Idle(t)  == todo[t] = <<>> /\ pend[t] = NoWrite

Init ==
    /\ mem = [g \in Goals |-> NoRow] /\ store = [g \in Goals |-> NoRow]
    /\ queue = <<>> /\ cap = InitCap
    /\ todo = [t \in Tasks |-> <<>>] /\ pend = [t \in Tasks |-> NoWrite]
    /\ sig = [g \in Goals |-> NoSig] /\ loop = [g \in Goals |-> "none"]
    /\ timer = [q \in Questions |-> [at |-> "none", g |-> NoGoal]]
    /\ reply = [g |-> NoGoal, q |-> 0]
    /\ phase = "up" /\ ops = 0 /\ crashes = 0 /\ asks = 0 /\ faults = 0
    /\ lifted = {} /\ capHigh = InitCap /\ adrift = {}
    /\ answered = {} /\ late = {} /\ intent = store /\ walk = {}

(***************************************************************************)
(* Registry calls.  Do...(t, .., rest) is the part of a call before its    *)
(* await, made by task t, which then has the calls in rest to make.        *)
(***************************************************************************)
Then(t, rest) == todo' = [todo EXCEPT ![t] = rest]

WriteM(t, g, row) ==
    /\ mem' = [mem EXCEPT ![g] = row]
    /\ pend' = [pend EXCEPT ![t] = [g |-> g, row |-> IF Known(g) THEN mem[g] ELSE row]]
    /\ adrift' = IF \E u \in Tasks : pend[u].g = g THEN adrift \cup {g} ELSE adrift \ {g}
\* Put a row in memory, capture it, and remember what the history variables need.
Write(t, g, row) ==
    /\ mem' = [mem EXCEPT ![g] = row]
    /\ pend' = [pend EXCEPT ![t] = [g |-> g, row |-> row]]
    /\ adrift' = IF \E u \in Tasks : pend[u].g = g THEN adrift \cup {g} ELSE adrift \ {g}

\* A call on a goal of the map; NotFound ends the callers that use `?`, the others
\* ignore it.
Ignores(t) == t[1] \in {"loop", "timer", "reply"}
Update(t, g, row, rest) ==
    /\ lifted' = IF row.status \notin Counted \/ ~Known(g) THEN lifted \ {g}
                 ELSE IF mem[g].status \in Counted THEN lifted ELSE lifted \cup {g}
    /\ IF Known(g) THEN Write(t, g, row) /\ Then(t, rest)
       ELSE Then(t, IF Ignores(t) THEN rest ELSE <<>>) /\ UNCHANGED <<mem, pend, adrift>>
    /\ UNCHANGED <<queue, cap, store, capHigh>>

\* The row after set_status: leaving Sleeping clears the sleep metadata.
WithStatus(row, s) ==
    [row EXCEPT !.status = s, !.sleep = IF s = "Sleeping" THEN @ ELSE FALSE]

SetStatus(t, g, s, rest) == Update(t, g, WithStatus(mem[g], s), rest)
SetAskPending(t, g, q, rest) == Update(t, g, [mem[g] EXCEPT !.ask = q], rest)
SetSleeping(t, g, rest) ==
    Update(t, g, [mem[g] EXCEPT !.status = "Sleeping", !.sleep = TRUE], rest)
ClearSleeping(t, g, rest) ==
    Update(t, g, [mem[g] EXCEPT !.status = IF @ = "Sleeping" THEN "Running" ELSE @,
                                !.sleep = FALSE], rest)
\* The snapshot's turn data is abstracted; the row is persisted again.
ApplyAttempt(t, g, rest) == Update(t, g, mem[g], rest)

\* The decision taken under admit_lock.
FullM == Cardinality({g \in Goals : mem[g].status = "Running"}) >= cap
Full == CountRunning >= cap
AdmitOutcome(enqueue) ==
    IF ~Full THEN "Admitted" ELSE IF enqueue THEN "Queued" ELSE "Rejected"

\* admit: decision, queue and map under admit_lock; the upsert after it is released.
Admit(t, g, row, enqueue, rest) ==
    LET out == AdmitOutcome(enqueue) IN
    /\ IF out = "Rejected" THEN UNCHANGED <<mem, queue, pend, adrift, lifted>>
       ELSE /\ Write(t, g, [row EXCEPT !.status = IF out = "Admitted" THEN "Running" ELSE "Queued",
                                       !.sleep = FALSE])
            /\ queue' = IF out = "Queued" THEN Append(queue, g) ELSE queue
            /\ lifted' = lifted \ {g}
    /\ Then(t, rest)
    /\ UNCHANGED <<cap, store, capHigh>>

\* The calls of reattach that go to the store directly.
StoreWrite(t, g, row, rest) ==
    /\ store' = [store EXCEPT ![g] = row]
    /\ Then(t, rest)
    /\ UNCHANGED <<mem, queue, cap, lifted, capHigh, adrift, pend>>

\* The second half of evict_terminal_older_than: DELETE of the old terminal rows.
PurgeStore(t, S, rest) ==
    /\ store' = [g \in Goals |-> IF g \in S /\ store[g].status \in Terminal
                                 THEN NoRow ELSE store[g]]
    /\ Then(t, rest)
    /\ UNCHANGED <<mem, queue, cap, lifted, capHigh, adrift, pend>>

\* release, after its persist: the head of the queue is handed to the caller, which is
\* expected to call promote_queued for it.
PopNext(t, rest) ==
    /\ queue' = IF queue = <<>> THEN queue ELSE Tail(queue)
    /\ Then(t, IF queue = <<>> THEN rest ELSE <<CallPromote(Head(queue))>> \o rest)
    /\ UNCHANGED <<mem, cap, store, lifted, capHigh, adrift, pend>>

\* queue.retain(|x| x != g).
QueueWithout(q, g) ==
    LET kept[n \in 0..Len(q)] ==
          IF n = 0 THEN <<>>
          ELSE IF q[n] = g THEN kept[n - 1] ELSE Append(kept[n - 1], q[n])
    IN  kept[Len(q)]

PromoteQueued(t, g, rest) ==
    /\ queue' = QueueWithout(queue, g)
    /\ Then(t, IF \E i \in DOMAIN queue : queue[i] = g
               THEN <<CallStatus(g, "Running")>> \o rest ELSE rest)
    /\ UNCHANGED <<mem, cap, store, lifted, capHigh, adrift, pend>>

\* spawn_goal and the start of run_goal: the signals are registered, then the workspace
\* is prepared, which may fail.
RunGoal(g) ==
    /\ sig' = [sig EXCEPT ![g] = FreshSig]
    /\ \E to \in {"top", "dead"} : loop' = [loop EXCEPT ![g] = to]

\* The next call of a task whose last write has landed.
NextCall(t) ==
    /\ pend[t] = NoWrite /\ todo[t] # <<>>
    /\ LET a == Head(todo[t])
           rest == Tail(todo[t])
       IN /\ \/ a.c = "status"  /\ SetStatus(t, a.g, a.s, rest)
             \/ a.c = "ask"     /\ SetAskPending(t, a.g, a.q, rest)
             \/ a.c = "sleep"   /\ SetSleeping(t, a.g, rest)
             \/ a.c = "admit"   /\ Admit(t, a.g, a.row, TRUE, rest)
             \/ a.c = "store"   /\ StoreWrite(t, a.g, a.row, rest)
             \/ a.c = "purge"   /\ PurgeStore(t, a.set, rest)
             \/ a.c = "pop"     /\ PopNext(t, rest)
             \/ a.c = "promote" /\ PromoteQueued(t, a.g, rest)
             \/ a.c \in {"spawn", "arm"} /\ Then(t, rest) /\ UNCHANGED <<registry, pend>>
          /\ IF a.c = "spawn" THEN RunGoal(a.g) ELSE UNCHANGED driver
          /\ timer' = IF a.c = "arm"
                      THEN [timer EXCEPT ![a.q] = [at |-> "armed", g |-> a.g]] ELSE timer
    /\ UNCHANGED <<reply, answered, late, bounds, boot>>

\* persist: the second half of every call, store.upsert of the captured row.
Upsert(t) ==
    /\ pend[t] # NoWrite
    /\ store' = [store EXCEPT ![pend[t].g] = pend[t].row]
    /\ pend' = [pend EXCEPT ![t] = NoWrite]
    /\ UNCHANGED <<mem, queue, cap, lifted, capHigh, adrift, todo, driver, asking,
                   bounds, boot>>

\* The store fails.  The map keeps the change; the callers that use `?` drop the rest of
\* what they do, the forwarder, the timeout and the answer log it or ignore it.
Fault == faults < MaxFaults /\ faults' = faults + 1 /\ UNCHANGED <<ops, crashes, asks>>
UpsertFails(t) ==
    /\ pend[t] # NoWrite /\ t # Boot /\ Fault
    /\ pend' = [pend EXCEPT ![t] = NoWrite]
    /\ adrift' = adrift \cup {pend[t].g}
    /\ IF Ignores(t) THEN UNCHANGED todo ELSE Then(t, <<>>)
    /\ UNCHANGED <<mem, queue, cap, store, lifted, capHigh, driver, asking, boot>>

PurgeFails ==
    /\ pend[Op] = NoWrite /\ todo[Op] # <<>> /\ Head(todo[Op]).c = "purge" /\ Fault
    /\ Then(Op, <<>>)
    /\ UNCHANGED <<registry, pend, driver, asking, boot>>

(***************************************************************************)
(* Dispatch and the goal's own task.                                       *)
(***************************************************************************)
NewRow == [status |-> "Running", sleep |-> FALSE, ask |-> 0]
Fresh(g) ==
    /\ phase = "up" /\ loop[g] = "none" /\ ~Known(g) /\ store[g] = NoRow /\ Idle(Disp(g))
    /\ ops < MaxOps /\ ops' = ops + 1
    /\ UNCHANGED <<driver, asking, crashes, asks, faults, boot>>

\* program_phase_dispatch: admit, then spawn when admitted.
Dispatch(g) ==
    /\ Fresh(g)
    /\ \E enqueue \in BOOLEAN :
         Admit(Disp(g), g, NewRow, enqueue,
               IF AdmitOutcome(enqueue) = "Admitted" THEN <<CallSpawn(g)>> ELSE <<>>)

\* dispatch_audit: admit without queueing, then spawn whatever admit answered.
DispatchAudit(g) ==
    /\ Fresh(g)
    /\ Admit(Disp(g), g, NewRow, FALSE, <<CallSpawn(g)>>)

At(g, where) == loop[g] = where /\ Idle(Loop(g))
Goes(g, to) == loop' = [loop EXCEPT ![g] = to] /\ UNCHANGED <<asking, bounds, boot>>
NoCall == UNCHANGED <<registry, todo, pend>>

\* The top of the loop: held while paused unless cancelled; then AttemptStarted, on
\* which the forwarder clears a sleep.
StartTurn(g) ==
    /\ At(g, "top") /\ ~sig[g].paused /\ ~sig[g].cancelled
    /\ IF mem[g].status = "Sleeping" \/ mem[g].sleep
       THEN ClearSleeping(Loop(g), g, <<>>) ELSE NoCall
    /\ Goes(g, "turn") /\ UNCHANGED sig

\* AttemptCompleted: the forwarder applies the attempt and, for Sleep, parks the goal.
EndTurn(g) ==
    /\ At(g, "turn") /\ UNCHANGED sig
    /\ \/ ApplyAttempt(Loop(g), g, <<>>) /\ (Goes(g, "top") \/ Goes(g, "closing"))
       \/ ApplyAttempt(Loop(g), g, <<CallSleep(g)>>) /\ Goes(g, "asleep")

\* run_attempt(..)? returns an error: no GoalCompleted, the signals stay registered.
AttemptError(g) == At(g, "turn") /\ NoCall /\ UNCHANGED sig /\ Goes(g, "dead")

\* wait_for_wake: the timer or the cancellation.
Wake(g) ==
    /\ At(g, "asleep") /\ NoCall /\ UNCHANGED sig
    /\ Goes(g, IF sig[g].cancelled THEN "closing" ELSE "top")

\* The loop breaks (outcome, cancellation or budget): GoalCompleted, on which the
\* forwarder fires hooks and makes no registry call, then the signals are dropped.
Complete(g) ==
    /\ At(g, "closing") \/ (At(g, "top") /\ (sig[g].cancelled \/ ~sig[g].paused))
    /\ sig' = [sig EXCEPT ![g] = NoSig]
    /\ NoCall /\ Goes(g, "done")

GoalTask(g) == StartTurn(g) \/ EndTurn(g) \/ AttemptError(g) \/ Wake(g)
               \/ Complete(g)

(***************************************************************************)
(* Control and admin tools.                                                *)
(***************************************************************************)
Control ==
    /\ phase = "up" /\ Idle(Op) /\ ops < MaxOps
    /\ ops' = ops + 1
    /\ UNCHANGED <<loop, asking, crashes, faults, boot>>

CancelAgent(g) ==
    /\ Control /\ Known(g)
    /\ sig' = [sig EXCEPT ![g].cancelled = @ \/ sig[g].on]
    /\ SetStatus(Op, g, "Cancelled", <<>>)
    /\ UNCHANGED asks

PauseAgent(g) ==
    /\ Control /\ sig[g].on
    /\ sig' = [sig EXCEPT ![g].paused = TRUE]
    /\ SetStatus(Op, g, "Paused", <<>>)
    /\ UNCHANGED asks

ResumeAgent(g) ==
    /\ Control /\ sig[g].on
    /\ sig' = [sig EXCEPT ![g].paused = FALSE]
    /\ SetStatus(Op, g, "Running", <<>>)
    /\ UNCHANGED asks

\* Pause when the orchestrator knows the goal, record the question, start its timeout.
AskUserQuestion(g) ==
    /\ Control /\ Known(g)
    /\ asks < MaxAsks /\ asks' = asks + 1
    /\ sig' = [sig EXCEPT ![g].paused = @ \/ sig[g].on]
    /\ IF sig[g].on
       THEN SetStatus(Op, g, "Paused", <<CallAsk(g, asks + 1), CallArm(g, asks + 1)>>)
       ELSE SetAskPending(Op, g, asks + 1, <<CallArm(g, asks + 1)>>)

SetConcurrencyCap(c) ==
    /\ Control
    /\ cap' = c /\ capHigh' = IF c > capHigh THEN c ELSE capHigh
    /\ UNCHANGED <<mem, queue, store, lifted, adrift, todo, pend, sig, asks>>

\* flush_queue: drained under the lock, then cancelled one by one.
FlushAgentQueue ==
    /\ Control
    /\ queue # <<>> /\ queue' = <<>>
    /\ Then(Op, [i \in DOMAIN queue |-> CallStatus(queue[i], "Cancelled")])
    /\ UNCHANGED <<mem, cap, store, lifted, capHigh, adrift, pend, sig, asks>>

\* evict_completed: which terminal rows are old enough is left open.
EvictCompleted ==
    /\ Control
    /\ \E S \in SUBSET {g \in Goals : mem[g].status \in Terminal} :
         /\ S # {}
         /\ mem' = [g \in Goals |-> IF g \in S THEN NoRow ELSE mem[g]]
         /\ Then(Op, <<CallPurge(S)>>)
    /\ UNCHANGED <<queue, cap, store, lifted, capHigh, adrift, pend, sig, asks>>

\* release(g, Done) by a caller that follows the documented protocol: status and
\* persist, then the pop, then promote_queued of what was popped.
Release(g) ==
    /\ Control /\ ReleaseCalled
    /\ loop[g] = "done" /\ mem[g].status \in Counted
    /\ SetStatus(Op, g, "Done", <<CallPop>>)
    /\ UNCHANGED <<sig, asks>>

ControlTool ==
    \/ \E g \in Goals : CancelAgent(g) \/ PauseAgent(g) \/ ResumeAgent(g)
                        \/ AskUserQuestion(g) \/ Release(g)
    \/ \E c \in Caps : SetConcurrencyCap(c)
    \/ FlushAgentQueue \/ EvictCompleted

(***************************************************************************)
(* The question's timeout and its answer.                                  *)
(***************************************************************************)
\* spawn_ask_timeout_task after its sleep: the handle is read ...
StillPendingM(q) == mem[timer[q].g].status = "Paused"
StillPending(q) == mem[timer[q].g].status = "Paused" /\ mem[timer[q].g].ask = q

TimerCheck(q) ==
    /\ timer[q].at = "armed"
    /\ timer' = [timer EXCEPT ![q].at = IF StillPending(q) THEN "checked" ELSE "over"]
    /\ late' = IF StillPending(q) /\ q \in answered THEN late \cup {q} ELSE late
    /\ UNCHANGED <<registry, todo, pend, driver, reply, answered, bounds, boot>>

\* ... and, when the question was still pending, the goal is cancelled.
TimerCancel(q) ==
    /\ timer[q].at = "checked"
    /\ timer' = [timer EXCEPT ![q].at = "over"]
    /\ sig' = [sig EXCEPT ![timer[q].g].cancelled = @ \/ sig[timer[q].g].on]
    /\ SetAskPending(Timer(q), timer[q].g, 0, <<CallStatus(timer[q].g, "Cancelled")>>)
    /\ UNCHANGED <<loop, reply, answered, late, bounds, boot>>

\* AskUserQuestion reply routing of the agent runtime: find the paused goal ...
ReplyFind(g) ==
    /\ phase = "up" /\ reply.g = NoGoal /\ Idle(Reply)
    /\ mem[g].status = "Paused" /\ mem[g].ask # 0
    /\ reply' = [g |-> g, q |-> mem[g].ask]
    /\ UNCHANGED <<registry, todo, pend, driver, timer, answered, late, bounds, boot>>

\* ... then resume it; only when the orchestrator knows the goal is the question cleared.
ReplyResume ==
    /\ reply.g # NoGoal
    /\ reply' = [g |-> NoGoal, q |-> 0]
    /\ IF sig[reply.g].on
       THEN /\ sig' = [sig EXCEPT ![reply.g].paused = FALSE]
            /\ SetAskPending(Reply, reply.g, 0, <<CallStatus(reply.g, "Running")>>)
            /\ answered' = answered \cup {reply.q}
       ELSE NoCall /\ UNCHANGED <<sig, answered>>
    /\ UNCHANGED <<loop, timer, late, bounds, boot>>

Questioning == \/ \E q \in Questions : TimerCheck(q) \/ TimerCancel(q)
               \/ \E g \in Goals : ReplyFind(g)
               \/ ReplyResume

(***************************************************************************)
(* Crash and boot.                                                         *)
(***************************************************************************)
\* admit makes the row Running or Queued; its status is put back afterwards.
RestoreM(g, row) == <<CallAdmit(g, row)>>
Restore(g, row) == <<CallAdmit(g, row), CallStatus(g, row.status)>>

\* What reattach does with one row (resume_running = false, as the daemon calls it).
ReattachRow(g, row, old) ==
    CASE row.status = "Running" ->
           <<CallStore(g, WithStatus(row, "LostOnRestart")),
             CallAdmit(g, row), CallStatus(g, "LostOnRestart")>>
      [] row.status = "Sleeping" ->
           <<CallAdmit(g, row),
             IF row.sleep THEN CallSleep(g) ELSE CallStatus(g, "Running")>>
      [] row.status \in Terminal /\ old -> <<CallStore(g, NoRow)>>
      [] OTHER -> Restore(g, row)

\* The daemon dies and boots: everything in memory is gone, reattach lists the table.
CrashAndBoot ==
    /\ crashes < MaxCrashes /\ crashes' = crashes + 1
    /\ mem' = [g \in Goals |-> NoRow] /\ queue' = <<>> /\ cap' = InitCap
    /\ todo' = [t \in Tasks |-> <<>>] /\ pend' = [t \in Tasks |-> NoWrite]
    /\ sig' = [g \in Goals |-> NoSig]
    /\ loop' = [g \in Goals |-> IF loop[g] = "none" THEN "none" ELSE "gone"]
    /\ timer' = [q \in Questions |-> [at |-> "none", g |-> NoGoal]]
    /\ reply' = [g |-> NoGoal, q |-> 0]
    /\ lifted' = {} /\ capHigh' = InitCap /\ adrift' = {} /\ answered' = {}
    /\ phase' = "boot" /\ intent' = store /\ walk' = {g \in Goals : store[g] # NoRow}
    /\ UNCHANGED <<store, ops, asks, faults, late>>

\* The loop of reattach comes to its next row; how old a terminal row is is left open.
Reattach(g) ==
    /\ phase = "boot" /\ g \in walk /\ Idle(Boot)
    /\ walk' = walk \ {g}
    /\ \E old \in BOOLEAN : Then(Boot, ReattachRow(g, intent[g], old))
    /\ UNCHANGED <<registry, pend, driver, asking, bounds, phase, intent>>

Booted == phase = "boot" /\ walk = {} /\ Idle(Boot)

\* rearm_ask_user_timeouts, after which the daemon serves again.
Serve ==
    /\ timer' = [q \in Questions |->
                   IF \E g \in Goals : mem[g].status = "Paused" /\ mem[g].ask = q
                   THEN [at |-> "armed", g |-> CHOOSE g \in Goals :
                           mem[g].status = "Paused" /\ mem[g].ask = q]
                   ELSE timer[q]]
    /\ phase' = "up" /\ intent' = [g \in Goals |-> NoRow]
    /\ UNCHANGED <<driver, reply, answered, late>>

RearmTimers == Booted /\ Serve /\ UNCHANGED <<registry, todo, pend, bounds, walk>>

\* The store fails under reattach, at the list, a direct write or an upsert: the walk is
\* given up with a warning and the daemon goes on.
ReattachFails ==
    /\ phase = "boot" /\ Fault
    /\ \/ walk = {g \in Goals : intent[g] # NoRow} /\ Idle(Boot)
       \/ pend[Boot] # NoWrite
       \/ pend[Boot] = NoWrite /\ todo[Boot] # <<>> /\ Head(todo[Boot]).c = "store"
    /\ pend' = [pend EXCEPT ![Boot] = NoWrite]
    /\ adrift' = adrift \cup {pend[Boot].g}
    /\ Then(Boot, <<>>) /\ walk' = {} /\ Serve
    /\ UNCHANGED <<mem, queue, cap, store, lifted, capHigh>>

Next ==
    \/ \E t \in Tasks : NextCall(t) \/ Upsert(t) \/ UpsertFails(t)
    \/ \E g \in Goals : Dispatch(g) \/ DispatchAudit(g) \/ GoalTask(g) \/ Reattach(g)
    \/ ControlTool \/ Questioning \/ CrashAndBoot
    \/ PurgeFails \/ RearmTimers \/ ReattachFails

Spec == Init /\ [][Next]_vars

\* tokio runs every spawned task; the goal tasks and the calls in flight make progress.
Fairness == /\ \A t \in Tasks : WF_vars(NextCall(t) \/ Upsert(t) \/ UpsertFails(t))
            /\ \A g \in Goals : WF_vars(GoalTask(g))
FairSpec == Spec /\ Fairness

(***************************************************************************)
(* Properties.                                                             *)
(***************************************************************************)
\* Concurrent dispatches never overshoot: the goals that count against the cap and got
\* there through admit are never more than the largest cap the operator has set since
\* boot.  Goals resumed, promoted or put to sleep after they had left the count are
\* apart: set_status and set_sleeping check no cap (registry.rs, admit and its lock).
CapHolds == Cardinality({g \in Goals : mem[g].status \in Counted} \ lifted) <= capHigh

\* Every transition reaches the disk: when no write of a goal is in flight, the table
\* holds what memory holds.  Apart are the goals whose last write failed, which memory
\* keeps and nobody retries, and those with two writes in flight at once, of which the
\* older row may land last, until they are next written alone (registry.rs, persist and
\* admit).
InFlight(g) == \E t \in Tasks : pend[t].g = g
StoreFollowsMemory ==
    phase = "up" =>
      \A g \in Goals : ~Known(g) \/ g \in adrift \/ InFlight(g) \/ store[g] = mem[g]

\* "Every state transition is mirrored to disk" (registry.rs, module comment), also when
\* two tasks change a goal at once.
MirroredToDisk ==
    phase = "up" => \A g \in Goals : ~Known(g) \/ InFlight(g) \/ store[g] = mem[g]

\* A timeout task that looks at its goal after the answer to its question was recorded in
\* this run of the daemon leaves the goal alone, also when the goal has been paused again
\* since, by a newer question or by the operator (agent_control.rs,
\* spawn_ask_timeout_task).
TimerRespectsAnswer == late = {}

\* A reattach that runs to its end restores every goal it keeps, in memory and on disk:
\* running goals are lost, all others have the status and the question they had, although
\* admit rewrites each row as Running or Queued on the way (reattach.rs).
Restored(row) == WithStatus(row, IF row.status = "Running" THEN "LostOnRestart" ELSE row.status)
RestartKeepsIntent ==
    Booted => \A g \in Goals : Known(g) => mem[g] = Restored(intent[g]) /\ store[g] = mem[g]

\* A goal that completed stops counting against the cap: what the module comment of
\* registry.rs promises of release, which "is called when a goal terminates".
CompletionFreesSlot == \A g \in Goals : loop[g] = "done" ~> mem[g].status \notin Counted
=============================================================================
