------------------------------ MODULE TaskFlow ------------------------------
(***************************************************************************)
(* crates/taskflow: the FlowManager over its SQLite store, the WaitEngine  *)
(* tick loop and the taskflow.resume bridge, all working on the same rows  *)
(* with optimistic concurrency.                                            *)
(*                                                                         *)
(* Every mutation is the read-modify-write loop `with_retry': fetch the    *)
(* row, apply a closure to the copy, then update it in one transaction     *)
(* with an audit event if the revision is still the one that was read;     *)
(* after a mismatch start over, RETRY_ATTEMPTS times in all.  Fetch and    *)
(* write are separate steps, and so are the engine's list, its evaluation  *)
(* and the resume it decides on.  A process may vanish between any two of  *)
(* its steps (crash, dropped future, CLI interrupted); rows survive.       *)
(***************************************************************************)
EXTENDS Naturals, Sequences, FiniteSets

CONSTANTS
    Flows,       \* the flow ids that may be created
    Clients,     \* agent tool calls and CLI commands
    Engine,      \* the WaitEngine task: one per daemon
    Bridge,      \* the taskflow.resume subscriber task
    Keys,        \* (topic, correlation_id) pairs
    Attempts,    \* RETRY_ATTEMPTS
    MaxTime,     \* bound on the clock
    MaxRev,      \* bound: clients start no operation on a flow at this revision
    MaxAborts    \* bound on processes that vanish

ASSUME ProcAssumption == Engine \notin Clients /\ Bridge \notin Clients /\ Engine # Bridge
ASSUME FlowsAssumption == Flows # {}
ASSUME BoundAssumption == Attempts \in Nat \ {0} /\ MaxTime \in Nat /\ MaxRev \in Nat /\ MaxAborts \in Nat

Procs == Clients \cup {Engine, Bridge}

VARIABLES
    flow,        \* the flows table: flow[f] is a row; status "Absent" before, "Pruned" after
    log,         \* the flow_events table: the kinds of f's audit events, in order
    now,         \* wall clock
    where,       \* where each process stands
    req,         \* the operation it is executing
    copy,        \* the mutated copy it is about to write
    retries,     \* mismatches it has seen in this operation
    todo,        \* the engine's snapshot of Waiting rows, still to be evaluated
    tickNow,     \* the instant the engine's tick was started with
    acked,       \* history: acked[f] = processes told that their patch of f was committed
    aborts       \* processes that vanished so far

store == <<flow, log>>
local == <<where, req, copy, retries>>
engineVars == <<todo, tickNow>>
flowVars == <<flow, log, now, where, req, copy, retries, todo, tickNow, acked, aborts>>

-----------------------------------------------------------------------------
(* Data. *)

Terminal == {"Cancelled", "Finished", "Failed"}
Active == {"Created", "Running", "Waiting"}
Statuses == Active \cup Terminal

(* wait_json: a timer's deadline or an external event's key in `arg'. *)
Timer(at) == [kind |-> "timer", at |-> at, key |-> "-"]
External(k) == [kind |-> "external", at |-> 0, key |-> k]
Manual == [kind |-> "manual", at |-> 0, key |-> "-"]
NoWait == [kind |-> "none", at |-> 0, key |-> "-"]
Conditions == {Timer(t) : t \in 0..MaxTime} \cup {External(k) : k \in Keys} \cup {Manual}
Waits == Conditions \cup {NoWait}

(* A row.  state_json is the set of processes whose patch it contains:     *)
(* each patch is an object with a key of its own, merged shallowly.        *)
Rows == [status : Statuses \cup {"Absent", "Pruned"}, wait : Waits, cancel : BOOLEAN,
         rev : Nat, data : SUBSET Procs]
NoRow == [status |-> "Absent", wait |-> NoWait, cancel |-> FALSE, rev |-> 0, data |-> {}]
NewRow == [NoRow EXCEPT !.status = "Created"]
PrunedRow == [NoRow EXCEPT !.status = "Pruned"]
Exists(row) == row.status \in Statuses

(* The operations of FlowManager: those that move the flow to a status,    *)
(* and two that keep it.  Each appends an audit event of its own kind.     *)
Moves == {"start", "wait", "resume", "finish", "fail", "cancel"}
Target(op) == CASE op = "start"  -> "Running"
                [] op = "wait"   -> "Waiting"
                [] op = "resume" -> "Running"
                [] op = "finish" -> "Finished"
                [] op = "fail"   -> "Failed"
                [] op = "cancel" -> "Cancelled"
Ops == Moves \cup {"request_cancel", "update_state"}
Requests == [op : Ops, flow : Flows, wait : Waits]

(* Which operations merge a patch into state_json.  The engine and the CLI *)
(* resume without one; the bridge's carries the event.                     *)
Patches(p, op) == op \in {"update_state", "finish", "fail"} \/ (op = "resume" /\ p = Bridge)

(* FlowStatus::can_transition_to *)
CanTransitionAnyway(s, next) == next = "Cancelled" \/ s \in Active
CanTransition(s, next) ==
    /\ s \notin Terminal
    /\ \/ next = "Cancelled"
       \/ <<s, next>> \in {<<"Created", "Running">>, <<"Running", "Waiting">>,
                           <<"Running", "Finished">>, <<"Running", "Failed">>,
                           <<"Waiting", "Running">>, <<"Waiting", "Failed">>}

(* Why a closure refuses the row it was given: the three errors of         *)
(* Flow::transition_to, in its order, and the guard of update_state.       *)
RefusalIgnoringCancel(op, row) ==
    IF op = "request_cancel" THEN "none"
    ELSE IF row.status \in Terminal THEN "terminal"
    ELSE IF op # "update_state" /\ ~CanTransition(row.status, Target(op)) THEN "illegal"
    ELSE "none"
RefusalIgnoringTerminal(op, row) ==
    IF op = "request_cancel" THEN "none"
    ELSE IF row.cancel /\ op # "cancel" THEN "cancel_pending"
    ELSE IF op # "update_state" /\ ~CanTransition(row.status, Target(op)) THEN "illegal"
    ELSE "none"
Refusal(op, row) ==
    IF op = "request_cancel" THEN "none"
    ELSE IF row.status \in Terminal THEN "terminal"
    ELSE IF row.cancel /\ op # "cancel" THEN "cancel_pending"
    ELSE IF op # "update_state" /\ ~CanTransition(row.status, Target(op)) THEN "illegal"
    ELSE "none"

(* What the closure of an operation makes of the row. *)
Mutated(p, r, row) ==
    [row EXCEPT !.status = IF r.op \in Moves THEN Target(r.op) ELSE @,
                !.wait = IF r.op = "wait" THEN r.wait ELSE IF r.op = "resume" THEN NoWait ELSE @,
                !.cancel = @ \/ (r.op = "request_cancel" /\ row.status \notin Terminal),
                !.data = IF Patches(p, r.op) THEN @ \cup {p} ELSE @]

-----------------------------------------------------------------------------
NoRequest == [op |-> "cancel", flow |-> CHOOSE f \in Flows : TRUE, wait |-> NoWait]

FlowInit ==
    /\ flow = [f \in Flows |-> NoRow]
    /\ log = [f \in Flows |-> <<>>]
    /\ now = 0
    /\ where = [p \in Procs |-> "idle"]
    /\ req = [p \in Procs |-> NoRequest]
    /\ copy = [p \in Procs |-> NoRow]
    /\ retries = [p \in Procs |-> 0]
    /\ todo = [f \in Flows |-> NoRow]
    /\ tickNow = 0
    /\ acked = [f \in Flows |-> {}]
    /\ aborts = 0

(* Where a process goes when its manager call returns. *)
Return(p) ==
    /\ where' = [where EXCEPT ![p] = IF p = Engine THEN "scan" ELSE "idle"]
    /\ req' = [req EXCEPT ![p] = NoRequest]
    /\ copy' = [copy EXCEPT ![p] = NoRow]
    /\ retries' = [retries EXCEPT ![p] = 0]

(* p enters a method of the manager. *)
Enter(p, r) ==
    /\ where' = [where EXCEPT ![p] = "fetch"]
    /\ req' = [req EXCEPT ![p] = r]
    /\ copy' = [copy EXCEPT ![p] = NoRow]
    /\ retries' = [retries EXCEPT ![p] = 0]

(* create_managed, first statement: the INSERT of the row. *)
CreateInsert(p, f) ==
    /\ where[p] = "idle"
    /\ flow[f].status = "Absent"
    /\ flow' = [flow EXCEPT ![f] = NewRow]
    /\ where' = [where EXCEPT ![p] = "created"]
    /\ req' = [req EXCEPT ![p] = [op |-> "start", flow |-> f, wait |-> NoWait]]
    /\ UNCHANGED <<log, now, copy, retries, engineVars, acked, aborts>>

(* create_managed, second statement: the audit event; the tool's `start'   *)
(* and create_mirrored then call start_running.  The event's foreign key   *)
(* fails if the flow is gone.                                              *)
CreateLog(p) ==
    LET f == req[p].flow IN
    /\ where[p] = "created"
    /\ IF Exists(flow[f])
         THEN /\ log' = [log EXCEPT ![f] = Append(@, "created")]
              /\ Enter(p, req[p])
         ELSE /\ Return(p)
              /\ UNCHANGED log
    /\ UNCHANGED <<flow, now, engineVars, acked, aborts>>

(* A tool call or CLI command on an existing flow.  The tool accepts a     *)
(* timer only if its deadline is in the future.                            *)
ClientCall(p, r) ==
    /\ where[p] = "idle"
    /\ r.op # "start"
    /\ Exists(flow[r.flow])
    /\ flow[r.flow].rev < MaxRev
    /\ IF r.op = "wait" THEN r.wait \in Conditions ELSE r.wait = NoWait
    /\ r.wait.kind = "timer" => r.wait.at > now
    /\ Enter(p, r)
    /\ UNCHANGED <<store, now, engineVars, acked, aborts>>

(* with_retry: get and mutate.  A refused closure returns its error. *)
Fetch(p) ==
    LET f == req[p].flow
        row == flow[f] IN
    /\ where[p] = "fetch"
    /\ Exists(row)
    /\ Refusal(req[p].op, row) = "none"
    /\ copy' = [copy EXCEPT ![p] = Mutated(p, req[p], row)]
    /\ where' = [where EXCEPT ![p] = "write"]
    /\ UNCHANGED <<store, now, req, retries, engineVars, acked, aborts>>

(* The engine answers CancelPending with a cancel of its own. *)
CancelInstead(p) == p = Engine /\ req[p].op = "resume"

FetchRefused(p) ==
    LET f == req[p].flow
        row == flow[f] IN
    /\ where[p] = "fetch"
    /\ \/ ~Exists(row)
       \/ Refusal(req[p].op, row) # "none"
    /\ IF Exists(row) /\ Refusal(req[p].op, row) = "cancel_pending" /\ CancelInstead(p)
         THEN Enter(p, [op |-> "cancel", flow |-> f, wait |-> NoWait])
         ELSE Return(p)
    /\ UNCHANGED <<store, now, engineVars, acked, aborts>>

(* The revision check of update_and_append: UPDATE ... WHERE revision = ?  *)
RevisionUnchecked(row, mine) == Exists(row)
RevisionMatches(row, mine) == Exists(row) /\ mine.rev = row.rev

(* update_and_append: the row and its audit event in one transaction. *)
Write(p) ==
    LET f == req[p].flow IN
    /\ where[p] = "write"
    /\ RevisionMatches(flow[f], copy[p])
    /\ flow' = [flow EXCEPT ![f] = [copy[p] EXCEPT !.rev = @ + 1]]
    /\ log' = [log EXCEPT ![f] = Append(@, req[p].op)]
    /\ acked' = [acked EXCEPT ![f] = IF Patches(p, req[p].op) THEN @ \cup {p} ELSE @]
    /\ Return(p)
    /\ UNCHANGED <<now, engineVars, aborts>>

(* The loop `for _ in 0..RETRY_ATTEMPTS' after n mismatches and one more. *)
MayRetry(n) == n + 1 < Attempts

(* No row was affected: NotFound ends the loop, RevisionMismatch starts    *)
(* the next attempt or, after the last, is returned.                       *)
WriteRejected(p) ==
    LET f == req[p].flow IN
    /\ where[p] = "write"
    /\ ~RevisionMatches(flow[f], copy[p])
    /\ IF Exists(flow[f]) /\ MayRetry(retries[p])
         THEN /\ retries' = [retries EXCEPT ![p] = @ + 1]
              /\ where' = [where EXCEPT ![p] = "fetch"]
              /\ copy' = [copy EXCEPT ![p] = NoRow]
              /\ UNCHANGED req
         ELSE Return(p)
    /\ UNCHANGED <<store, now, engineVars, acked, aborts>>

-----------------------------------------------------------------------------
(* WaitEngine *)

(* tick: list_by_status(Waiting) at the instant the tick started. *)
EngineList ==
    /\ where[Engine] = "idle"
    /\ \E f \in Flows : flow[f].status = "Waiting"
    /\ todo' = [f \in Flows |-> IF flow[f].status = "Waiting" THEN flow[f] ELSE NoRow]
    /\ tickNow' = now
    /\ where' = [where EXCEPT ![Engine] = "scan"]
    /\ UNCHANGED <<store, now, req, copy, retries, acked, aborts>>

(* evaluate: sticky cancel first, then the timer; other waits stay. *)
EvaluateIgnoringCancel(row, t) ==
    IF row.wait.kind = "timer" /\ t >= row.wait.at THEN "resume" ELSE "keep"
EvaluateStrictly(row, t) ==
    IF row.cancel THEN "cancel"
    ELSE IF row.wait.kind = "timer" /\ t > row.wait.at THEN "resume"
    ELSE "keep"
Evaluate(row, t) ==
    IF row.cancel THEN "cancel"
    ELSE IF row.wait.kind = "timer" /\ t >= row.wait.at THEN "resume"
    ELSE "keep"

(* One turn of the loop over the snapshot. *)
EngineEvaluate(f) ==
    LET outcome == Evaluate(todo[f], tickNow) IN
    /\ where[Engine] = "scan"
    /\ todo[f].status = "Waiting"
    /\ todo' = [todo EXCEPT ![f] = NoRow]
    /\ IF outcome = "keep"
         THEN UNCHANGED local
         ELSE Enter(Engine, [op |-> outcome, flow |-> f, wait |-> NoWait])
    /\ UNCHANGED <<store, now, tickNow, acked, aborts>>

EngineDone ==
    /\ where[Engine] = "scan"
    /\ \A f \in Flows : todo[f] = NoRow
    /\ where' = [where EXCEPT ![Engine] = "idle"]
    /\ UNCHANGED <<store, now, req, copy, retries, engineVars, acked, aborts>>

(* handle_taskflow_resume_event and try_resume_external: an event for      *)
(* (f, k) is checked against the row as it is now; the resume comes later. *)
BridgeReceive(f, k) ==
    /\ where[Bridge] = "idle"
    /\ flow[f].status = "Waiting"
    /\ flow[f].wait = External(k)
    /\ Enter(Bridge, [op |-> "resume", flow |-> f, wait |-> NoWait])
    /\ UNCHANGED <<store, now, engineVars, acked, aborts>>

-----------------------------------------------------------------------------
(* prune_terminal_flows: events go with the row. *)
Prune(f) ==
    /\ flow[f].status \in Terminal
    /\ flow' = [flow EXCEPT ![f] = PrunedRow]
    /\ log' = [log EXCEPT ![f] = <<>>]
    /\ acked' = [acked EXCEPT ![f] = {}]
    /\ UNCHANGED <<now, local, engineVars, aborts>>

(* A process vanishes between two of its steps; the engine and the bridge  *)
(* are started again with the daemon.                                      *)
Vanish(p) ==
    /\ where[p] # "idle"
    /\ aborts < MaxAborts
    /\ aborts' = aborts + 1
    /\ where' = [where EXCEPT ![p] = "idle"]
    /\ req' = [req EXCEPT ![p] = NoRequest]
    /\ copy' = [copy EXCEPT ![p] = NoRow]
    /\ retries' = [retries EXCEPT ![p] = 0]
    /\ todo' = IF p = Engine THEN [f \in Flows |-> NoRow] ELSE todo
    /\ UNCHANGED <<store, now, tickNow, acked>>

Clock ==
    /\ now < MaxTime
    /\ now' = now + 1
    /\ UNCHANGED <<store, local, engineVars, acked, aborts>>

EngineStep ==
    \/ EngineList
    \/ \E f \in Flows : EngineEvaluate(f)
    \/ EngineDone
    \/ Fetch(Engine) \/ FetchRefused(Engine) \/ Write(Engine) \/ WriteRejected(Engine)

FlowNext ==
    \/ \E p \in Clients :
         \/ \E f \in Flows : CreateInsert(p, f)
         \/ CreateLog(p)
         \/ \E r \in Requests : ClientCall(p, r)
    \/ \E p \in Procs : Fetch(p) \/ FetchRefused(p) \/ Write(p) \/ WriteRejected(p) \/ Vanish(p)
    \/ EngineList
    \/ \E f \in Flows : EngineEvaluate(f)
    \/ EngineDone
    \/ \E f \in Flows, k \in Keys : BridgeReceive(f, k)
    \/ \E f \in Flows : Prune(f)
    \/ Clock

(* The daemon keeps ticking (WaitEngine::run) and time passes. *)
FlowSpec == FlowInit /\ [][FlowNext]_flowVars /\ WF_flowVars(EngineStep) /\ WF_flowVars(Clock)

-----------------------------------------------------------------------------
(* Types of the rows, of the journal and of the processes' local state. *)
FlowTypeOK ==
    /\ flow \in [Flows -> Rows]
    /\ log \in [Flows -> Seq(Ops \cup {"created"})]
    /\ now \in 0..MaxTime
    /\ where \in [Procs -> {"idle", "created", "fetch", "write", "scan"}]
    /\ req \in [Procs -> Requests]
    /\ copy \in [Procs -> Rows]
    /\ retries \in [Procs -> 0..(Attempts - 1)]
    /\ todo \in [Flows -> Rows]
    /\ tickNow \in 0..MaxTime
    /\ acked \in [Flows -> SUBSET Procs]
    /\ aborts \in 0..MaxAborts

(* A flow that waits knows what for: no interleaving of set_waiting with   *)
(* the resumes of tool, CLI, engine and bridge leaves a Waiting row whose  *)
(* condition was cleared, which no tick would ever wake.                   *)
WaitingHasCondition ==
    \A f \in Flows : flow[f].status = "Waiting" => flow[f].wait \in Conditions

(* The revision check makes the read-modify-write atomic: a copy that      *)
(* would still be accepted is exactly the mutation of the current row,     *)
(* and the mutation is still legal for that row.                           *)
RevisionIdentifiesContent ==
    \A p \in Procs :
        LET row == flow[req[p].flow] IN
        where[p] = "write" /\ Exists(row)
          => /\ copy[p].rev <= row.rev
             /\ copy[p].rev = row.rev => /\ Refusal(req[p].op, row) = "none"
                                         /\ copy[p] = Mutated(p, req[p], row)

(* No lost update: a patch whose writer was told "committed" is in         *)
(* state_json, whoever wrote the row afterwards from an older copy.        *)
NoLostUpdate == \A f \in Flows : Exists(flow[f]) => acked[f] \subseteq flow[f].data

(* "When true, the flow refuses any non-terminal transition until it       *)
(* reaches Cancelled": once requested, a cancel is never forgotten, the    *)
(* only way on is Cancelled, and state_json is frozen, also against copies *)
(* fetched before the request.                                             *)
CancelIsSticky ==
    [][\A f \in Flows : flow[f].cancel /\ flow'[f].status # "Pruned"
         => /\ flow'[f].cancel
            /\ flow'[f].status \in {flow[f].status, "Cancelled"}
            /\ flow'[f].data = flow[f].data]_flowVars

(* A terminal flow is never revived and its final state never rewritten,   *)
(* whatever stale snapshot the engine, the bridge or a tool acts on.       *)
TerminalIsFinal ==
    [][\A f \in Flows : flow[f].status \in Terminal
         => \/ flow'[f].status = "Pruned"
            \/ [flow'[f] EXCEPT !.rev = 0] = [flow[f] EXCEPT !.rev = 0]]_flowVars

(* The journal explains the row: its last status event names the status,   *)
(* a cancel flag was requested, and every revision has one event, although *)
(* an insert and its own event are two statements with a crash or other    *)
(* writers in between (manager.rs, create_managed and with_retry).         *)
StatusEvents(journal) == {i \in DOMAIN journal : journal[i] \in Moves}
RevisionEvents(journal) == {i \in DOMAIN journal : journal[i] # "created"}
LastMoveTo(journal, status) ==
    \/ StatusEvents(journal) = {} /\ status = "Created"
    \/ \E i \in StatusEvents(journal) : /\ \A j \in StatusEvents(journal) : j <= i
                                        /\ status = Target(journal[i])
Explains(journal, row) ==
    /\ LastMoveTo(journal, row.status)
    /\ row.cancel => \E i \in DOMAIN journal : journal[i] = "request_cancel"
    /\ row.rev = Cardinality(RevisionEvents(journal))
JournalExplainsRow == \A f \in Flows : Exists(flow[f]) => Explains(log[f], flow[f])

(* The lifecycle this protocol implements. *)
Life == INSTANCE FlowLifecycle WITH
            life <- [f \in Flows |-> [status |-> flow[f].status, cancel |-> flow[f].cancel]]
ImplementsLifecycle == Life!Spec

(* A cancel requested on a waiting flow is carried out by the engine.      *)
CancelHappens ==
    \A f \in Flows : (flow[f].status = "Waiting" /\ flow[f].cancel) ~> flow[f].status # "Waiting"

(* A timer that is due does not leave its flow parked.                     *)
DueTimerFires ==
    \A f \in Flows : \A t \in 0..MaxTime :
        (flow[f].status = "Waiting" /\ flow[f].wait = Timer(t) /\ now >= t)
            ~> ~(flow[f].status = "Waiting" /\ flow[f].wait = Timer(t))
=============================================================================
