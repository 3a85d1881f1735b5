--------------------------- MODULE TaskFlowProofs ---------------------------
(***************************************************************************)
(* Proofs about TaskFlow for any number of flows, clients and keys, any    *)
(* number of retry attempts and any bounds.                                *)
(***************************************************************************)
EXTENDS TaskFlow, TLAPS, FiniteSetTheorems

(* A request to wait carries a condition. *)
RequestsCarryCondition == \A p \in Procs : req[p].op = "wait" => req[p].wait \in Conditions

(* Nobody works on a flow that was never inserted: ids are handed out by   *)
(* the insert.                                                             *)
TargetsWereCreated ==
    /\ \A p \in Procs : where[p] \in {"created", "fetch", "write"}
                          => flow[req[p].flow].status # "Absent"
    /\ \A f \in Flows : todo[f].status = "Waiting" => flow[f].status # "Absent"

AbsentIsBlank == \A f \in Flows : flow[f].status = "Absent" => flow[f].cancel = FALSE

NoAcksWithoutRow == \A f \in Flows : ~Exists(flow[f]) => acked[f] = {}

(* The inductive invariant.  RevisionIdentifiesContent carries the         *)
(* argument: it says what an accepted write does to the current row, which *)
(* was not the row the copy was made from at the time of the write.        *)
IInv ==
    /\ FlowTypeOK
    /\ RequestsCarryCondition
    /\ TargetsWereCreated
    /\ AbsentIsBlank
    /\ NoAcksWithoutRow
    /\ WaitingHasCondition
    /\ RevisionIdentifiesContent
    /\ NoLostUpdate

-----------------------------------------------------------------------------
(* Facts about the data. *)

LEMMA RowConstants ==
    /\ NoRow \in Rows /\ NewRow \in Rows /\ PrunedRow \in Rows
    /\ NoRow.cancel = FALSE
    /\ NoRow.status = "Absent" /\ NewRow.status = "Created" /\ PrunedRow.status = "Pruned"
    /\ NewRow.cancel = FALSE /\ PrunedRow.cancel = FALSE
    /\ NewRow.rev = 0 /\ NewRow.data = {}
BY DEF NoRow, NewRow, PrunedRow, Rows, Waits, Statuses, Active, Terminal

LEMMA NoRequestTyped == NoRequest \in Requests /\ NoRequest.op = "cancel"
BY FlowsAssumption DEF NoRequest, Requests, Ops, Moves, Waits

LEMMA TargetTyped == \A op \in Moves : Target(op) \in Statuses
BY DEF Moves, Target, Statuses, Active, Terminal

(* What a closure leaves in the row, field by field. *)
LEMMA MutatedFields ==
    ASSUME NEW p \in Procs, NEW r \in Requests, NEW row \in Rows, Exists(row)
    PROVE  LET m == Mutated(p, r, row) IN
           /\ m \in Rows
           /\ m.rev = row.rev
           /\ m.status = IF r.op \in Moves THEN Target(r.op) ELSE row.status
           /\ m.wait = IF r.op = "wait" THEN r.wait ELSE IF r.op = "resume" THEN NoWait ELSE row.wait
           /\ m.cancel = (row.cancel \/ (r.op = "request_cancel" /\ row.status \notin Terminal))
           /\ m.data = IF Patches(p, r.op) THEN row.data \cup {p} ELSE row.data
           /\ Exists(m)
<1>1. r.op \in Ops /\ r.wait \in Waits
  BY DEF Requests
<1>2. r.op \in Moves => Target(r.op) \in Statuses
  BY TargetTyped
<1>3. (row.cancel \/ (r.op = "request_cancel" /\ row.status \notin Terminal)) \in BOOLEAN
  OBVIOUS
<1>4. NoWait \in Waits
  BY DEF Waits
<1> QED
  BY <1>1, <1>2, <1>3, <1>4 DEF Mutated, Rows, Exists

(* What update_and_append does to the copy it stores. *)
LEMMA BumpFields ==
    ASSUME NEW row \in Rows
    PROVE  LET b == [row EXCEPT !.rev = @ + 1] IN
           /\ b \in Rows
           /\ b.rev = row.rev + 1
           /\ b.status = row.status /\ b.wait = row.wait
           /\ b.cancel = row.cancel /\ b.data = row.data
<1>1. row.rev + 1 \in Nat
  BY DEF Rows
<1> QED
  BY <1>1 DEF Rows

(* What an unrefused operation may do to a row: nothing to a terminal one, *)
(* only Cancelled to one whose cancel is pending.                          *)
LEMMA UnrefusedOps ==
    ASSUME NEW op \in Ops, NEW row \in Rows, Exists(row), Refusal(op, row) = "none"
    PROVE  /\ row.status \in Terminal => op = "request_cancel"
           /\ row.cancel => op \in {"request_cancel", "cancel"}
           /\ op \in Moves => row.status \in Active /\ CanTransition(row.status, Target(op))
BY DEF Refusal, Exists, Statuses, Ops, Moves, CanTransition, Rows

-----------------------------------------------------------------------------
(* The inductive invariant holds initially and is kept. *)

LEMMA InitInv == FlowInit => IInv
<1> SUFFICES ASSUME FlowInit PROVE IInv
  OBVIOUS
<1>1. FlowTypeOK
  BY RowConstants, NoRequestTyped, BoundAssumption DEF FlowInit, FlowTypeOK
<1>2. \A p \in Procs : where[p] = "idle" /\ req[p].op = "cancel"
  BY NoRequestTyped DEF FlowInit
<1>3. \A f \in Flows : flow[f].status = "Absent" /\ todo[f].status = "Absent" /\ acked[f] = {}
                      /\ flow[f].cancel = FALSE
  BY RowConstants DEF FlowInit
<1> QED
  BY <1>1, <1>2, <1>3
     DEF IInv, RequestsCarryCondition, TargetsWereCreated, AbsentIsBlank, NoAcksWithoutRow,
         WaitingHasCondition, RevisionIdentifiesContent, NoLostUpdate, Exists,
         Statuses, Active, Terminal

(* Engine and bridge are processes; so is every client. *)
LEMMA ProcMembers == Engine \in Procs /\ Bridge \in Procs /\ Clients \subseteq Procs
BY DEF Procs

(* Entering and leaving a manager call keeps the local variables typed. *)
LEMMA ReturnTyped ==
    ASSUME FlowTypeOK, NEW p \in Procs, Return(p)
    PROVE  /\ where' \in [Procs -> {"idle", "created", "fetch", "write", "scan"}]
           /\ req' \in [Procs -> Requests]
           /\ copy' \in [Procs -> Rows]
           /\ retries' \in [Procs -> 0..(Attempts - 1)]
BY RowConstants, NoRequestTyped, BoundAssumption DEF FlowTypeOK, Return

LEMMA EnterTyped ==
    ASSUME FlowTypeOK, NEW p \in Procs, NEW r \in Requests, Enter(p, r)
    PROVE  /\ where' \in [Procs -> {"idle", "created", "fetch", "write", "scan"}]
           /\ req' \in [Procs -> Requests]
           /\ copy' \in [Procs -> Rows]
           /\ retries' \in [Procs -> 0..(Attempts - 1)]
BY RowConstants, BoundAssumption DEF FlowTypeOK, Enter

(* The requests that the processes build themselves. *)
LEMMA BuiltRequests ==
    ASSUME NEW f \in Flows, NEW op \in {"start", "cancel", "resume"}
    PROVE  [op |-> op, flow |-> f, wait |-> NoWait] \in Requests
BY DEF Requests, Ops, Moves, Waits

LEMMA TypeInv == FlowTypeOK /\ [FlowNext]_flowVars => FlowTypeOK'
<1> SUFFICES ASSUME FlowTypeOK, [FlowNext]_flowVars PROVE FlowTypeOK'
  OBVIOUS
<1> USE DEF FlowTypeOK
<1>1. ASSUME NEW p \in Clients, NEW f \in Flows, CreateInsert(p, f) PROVE FlowTypeOK'
  BY <1>1, ProcMembers, RowConstants, BuiltRequests DEF CreateInsert, engineVars
<1>2. ASSUME NEW p \in Clients, CreateLog(p) PROVE FlowTypeOK'
  <2> DEFINE f == req[p].flow
  <2>1. p \in Procs /\ req[p] \in Requests /\ f \in Flows
    BY ProcMembers DEF Requests
  <2>2. CASE Exists(flow[f])
    <3>1. log' = [log EXCEPT ![f] = Append(@, "created")] /\ Enter(p, req[p])
      BY <1>2, <2>2 DEF CreateLog
    <3>2. log' \in [Flows -> Seq(Ops \cup {"created"})]
      BY <2>1, <3>1
    <3> QED
      BY <1>2, <2>1, <3>1, <3>2, EnterTyped DEF CreateLog, engineVars
  <2>3. CASE ~Exists(flow[f])
    BY <1>2, <2>1, <2>3, ReturnTyped DEF CreateLog, engineVars
  <2> QED
    BY <2>2, <2>3
<1>3. ASSUME NEW p \in Clients, NEW r \in Requests, ClientCall(p, r) PROVE FlowTypeOK'
  BY <1>3, ProcMembers, EnterTyped DEF ClientCall, store, engineVars
<1>4. ASSUME NEW p \in Procs, Fetch(p) PROVE FlowTypeOK'
  <2>1. req[p] \in Requests /\ flow[req[p].flow] \in Rows
    BY DEF Requests
  <2>2. Mutated(p, req[p], flow[req[p].flow]) \in Rows
    BY <1>4, <2>1, MutatedFields DEF Fetch
  <2> QED
    BY <1>4, <2>2 DEF Fetch, store, engineVars
<1>5. ASSUME NEW p \in Procs, FetchRefused(p) PROVE FlowTypeOK'
  <2>1. req[p].flow \in Flows
    BY DEF Requests
  <2>2. \/ Return(p)
        \/ Enter(p, [op |-> "cancel", flow |-> req[p].flow, wait |-> NoWait])
    BY <1>5 DEF FetchRefused
  <2> QED
    BY <1>5, <2>1, <2>2, ReturnTyped, EnterTyped, BuiltRequests DEF FetchRefused, store, engineVars
<1>6. ASSUME NEW p \in Procs, Write(p) PROVE FlowTypeOK'
  <2>1. req[p].flow \in Flows /\ req[p].op \in Ops /\ copy[p] \in Rows
    BY DEF Requests
  <2>2. [copy[p] EXCEPT !.rev = @ + 1] \in Rows
    BY <2>1, BumpFields
  <2>3. flow' \in [Flows -> Rows] /\ log' \in [Flows -> Seq(Ops \cup {"created"})]
    BY <1>6, <2>1, <2>2 DEF Write
  <2>4. acked' \in [Flows -> SUBSET Procs]
    BY <1>6, <2>1 DEF Write
  <2> QED
    BY <1>6, <2>3, <2>4, ReturnTyped DEF Write, engineVars
<1>7. ASSUME NEW p \in Procs, WriteRejected(p) PROVE FlowTypeOK'
  <2>1. CASE Exists(flow[req[p].flow]) /\ MayRetry(retries[p])
    <3>1. retries' = [retries EXCEPT ![p] = @ + 1] /\ where' = [where EXCEPT ![p] = "fetch"]
          /\ copy' = [copy EXCEPT ![p] = NoRow] /\ UNCHANGED req
      BY <1>7, <2>1 DEF WriteRejected
    <3>2. retries[p] + 1 \in 0..(Attempts - 1)
      BY <2>1, BoundAssumption DEF MayRetry
    <3> QED
      BY <1>7, <3>1, <3>2, RowConstants DEF WriteRejected, store, engineVars
  <2>2. CASE ~(Exists(flow[req[p].flow]) /\ MayRetry(retries[p]))
    BY <1>7, <2>2, ReturnTyped DEF WriteRejected, store, engineVars
  <2> QED
    BY <2>1, <2>2
<1>8. ASSUME NEW p \in Procs, Vanish(p) PROVE FlowTypeOK'
  BY <1>8, RowConstants, NoRequestTyped, BoundAssumption DEF Vanish, store
<1>9. CASE EngineList
  BY <1>9, ProcMembers, RowConstants DEF EngineList, store
<1>10. ASSUME NEW f \in Flows, EngineEvaluate(f) PROVE FlowTypeOK'
  <2>1. todo' \in [Flows -> Rows]
    BY <1>10, RowConstants DEF EngineEvaluate
  <2>2. Evaluate(todo[f], tickNow) \in {"cancel", "resume", "keep"}
    BY DEF Evaluate
  <2> QED
    BY <1>10, <2>1, <2>2, ProcMembers, EnterTyped, BuiltRequests DEF EngineEvaluate, store, local
<1>11. CASE EngineDone
  BY <1>11, ProcMembers DEF EngineDone, store, engineVars
<1>12. ASSUME NEW f \in Flows, NEW k \in Keys, BridgeReceive(f, k) PROVE FlowTypeOK'
  BY <1>12, ProcMembers, EnterTyped, BuiltRequests DEF BridgeReceive, store, engineVars
<1>13. ASSUME NEW f \in Flows, Prune(f) PROVE FlowTypeOK'
  BY <1>13, RowConstants DEF Prune, local, engineVars
<1>14. CASE Clock
  BY <1>14, BoundAssumption DEF Clock, store, local, engineVars
<1>15. CASE UNCHANGED flowVars
  BY <1>15 DEF flowVars
<1> QED
  BY <1>1, <1>2, <1>3, <1>4, <1>5, <1>6, <1>7, <1>8, <1>9, <1>10, <1>11, <1>12, <1>13, <1>14, <1>15
     DEF FlowNext

-----------------------------------------------------------------------------
(* What one step can do to a row: nothing, insert it, prune it when it is  *)
(* terminal, or apply an operation that the row as it is does not refuse.  *)
(* This is where the revision check pays.                                  *)
RowStep(f) ==
    \/ flow'[f] = flow[f]
    \/ flow[f].status = "Absent" /\ flow'[f] = NewRow
    \/ flow[f].status \in Terminal /\ flow'[f] = PrunedRow
    \/ \E p \in Procs, r \in Requests :
         /\ Exists(flow[f])
         /\ Refusal(r.op, flow[f]) = "none"
         /\ r.op = "wait" => r.wait \in Conditions
         /\ flow'[f] = [Mutated(p, r, flow[f]) EXCEPT !.rev = @ + 1]

LEMMA WriteIsMutation ==
    ASSUME IInv, NEW p \in Procs, Write(p)
    PROVE  LET f == req[p].flow IN
           /\ f \in Flows /\ req[p] \in Requests /\ flow[f] \in Rows
           /\ Exists(flow[f])
           /\ Refusal(req[p].op, flow[f]) = "none"
           /\ flow' = [flow EXCEPT ![f] = [Mutated(p, req[p], flow[f]) EXCEPT !.rev = @ + 1]]
<1> DEFINE f == req[p].flow
<1>1. req[p] \in Requests /\ f \in Flows /\ flow[f] \in Rows
  BY DEF IInv, FlowTypeOK, Requests
<1>2. where[p] = "write" /\ Exists(flow[f]) /\ copy[p].rev = flow[f].rev
  BY DEF Write, RevisionMatches
<1>3. Refusal(req[p].op, flow[f]) = "none" /\ copy[p] = Mutated(p, req[p], flow[f])
  BY <1>2 DEF IInv, RevisionIdentifiesContent
<1> QED
  BY <1>1, <1>2, <1>3 DEF Write

LEMMA RowSteps == ASSUME IInv, [FlowNext]_flowVars PROVE \A f \in Flows : RowStep(f)
<1>1. ASSUME NEW p \in Clients, NEW f \in Flows, CreateInsert(p, f) PROVE \A g \in Flows : RowStep(g)
  BY <1>1 DEF CreateInsert, RowStep, IInv, FlowTypeOK
<1>2. ASSUME NEW p \in Procs, Write(p) PROVE \A g \in Flows : RowStep(g)
  <2> DEFINE f == req[p].flow
  <2>1. \A g \in Flows : g # f => flow'[g] = flow[g]
    BY <1>2, WriteIsMutation DEF IInv, FlowTypeOK
  <2>2. RowStep(f)
    <3>1. flow'[f] = [Mutated(p, req[p], flow[f]) EXCEPT !.rev = @ + 1]
      BY <1>2, WriteIsMutation DEF IInv, FlowTypeOK
    <3>2. req[p].op = "wait" => req[p].wait \in Conditions
      BY DEF IInv, RequestsCarryCondition
    <3> QED
      BY <1>2, <3>1, <3>2, WriteIsMutation DEF RowStep
  <2> QED
    BY <2>1, <2>2 DEF RowStep
<1>3. ASSUME NEW f \in Flows, Prune(f) PROVE \A g \in Flows : RowStep(g)
  BY <1>3 DEF Prune, RowStep, IInv, FlowTypeOK
<1>4. CASE UNCHANGED flow
  BY <1>4 DEF RowStep
<1> QED
  BY <1>1, <1>2, <1>3, <1>4
     DEF FlowNext, flowVars, store, CreateLog, ClientCall, Fetch, FetchRefused, WriteRejected, Vanish,
         EngineList, EngineEvaluate, EngineDone, BridgeReceive, Clock

(* The consequences of RowStep that the invariants need. *)
LEMMA RowStepFacts ==
    ASSUME NEW f \in Flows, flow[f] \in Rows, RowStep(f)
    PROVE  /\ flow'[f].status = "Absent" => flow'[f] = flow[f]
           /\ Exists(flow'[f]) => Exists(flow[f]) \/ flow[f].status = "Absent"
           /\ Exists(flow[f]) /\ Exists(flow'[f])
                => flow'[f] = flow[f] \/ flow'[f].rev = flow[f].rev + 1
           /\ flow'[f].status = "Waiting" /\ flow'[f].wait \notin Conditions
                => flow[f].status = "Waiting" /\ flow[f].wait \notin Conditions
<1>1. CASE flow'[f] = flow[f]
  BY <1>1
<1>2. CASE flow[f].status = "Absent" /\ flow'[f] = NewRow
  BY <1>2, RowConstants DEF Exists, Statuses, Active, Terminal
<1>3. CASE flow[f].status \in Terminal /\ flow'[f] = PrunedRow
  BY <1>3, RowConstants DEF Exists, Statuses, Active, Terminal
<1>4. ASSUME NEW p \in Procs, NEW r \in Requests,
             Exists(flow[f]),
             Refusal(r.op, flow[f]) = "none",
             r.op = "wait" => r.wait \in Conditions,
             flow'[f] = [Mutated(p, r, flow[f]) EXCEPT !.rev = @ + 1]
      PROVE  /\ flow'[f].status # "Absent"
             /\ flow'[f].rev = flow[f].rev + 1
             /\ flow'[f].status = "Waiting" /\ flow'[f].wait \notin Conditions
                  => flow[f].status = "Waiting" /\ flow[f].wait \notin Conditions
  <2> DEFINE m == Mutated(p, r, flow[f])
  <2>1. m \in Rows /\ Exists(m) /\ m.rev = flow[f].rev
    BY <1>4, MutatedFields
  <2>2. flow'[f].status = m.status /\ flow'[f].rev = flow[f].rev + 1 /\ flow'[f].wait = m.wait
    BY <1>4, <2>1, BumpFields
  <2>3. m.status = (IF r.op \in Moves THEN Target(r.op) ELSE flow[f].status)
    BY <1>4, MutatedFields
  <2>4. m.wait = (IF r.op = "wait" THEN r.wait ELSE IF r.op = "resume" THEN NoWait ELSE flow[f].wait)
    BY <1>4, MutatedFields
  <2>5. m.status = "Waiting" /\ m.wait \notin Conditions => flow[f].status = "Waiting" /\ flow[f].wait = m.wait
    BY <1>4, <2>3, <2>4 DEF Moves, Target
  <2> QED
    BY <2>1, <2>2, <2>5 DEF Exists, Statuses, Active, Terminal
<1> QED
  BY <1>1, <1>2, <1>3, <1>4 DEF RowStep

(* What one step can do to a process q: it keeps its request and copy, or  *)
(* it has just made its copy, or it is not about to write.                 *)
Working == {"created", "fetch", "write"}
LocalStep(q) ==
    /\ where'[q] = "write" => Fetch(q) \/ (where[q] = "write" /\ req'[q] = req[q] /\ copy'[q] = copy[q])
    /\ req'[q].op = "wait" => req'[q] = req[q] \/ req'[q].wait \in Conditions
    /\ where'[q] \in Working => \/ where[q] \in Working /\ req'[q].flow = req[q].flow
                             \/ flow'[req'[q].flow].status # "Absent"
                             \/ flow[req'[q].flow].status # "Absent"

LEMMA LocalSteps == ASSUME IInv, [FlowNext]_flowVars PROVE \A q \in Procs : LocalStep(q)
<1> SUFFICES ASSUME NEW q \in Procs PROVE LocalStep(q)
  OBVIOUS
<1> USE DEF IInv, FlowTypeOK, LocalStep, Working
<1>1. ASSUME NEW p \in Clients, NEW f \in Flows, CreateInsert(p, f) PROVE LocalStep(q)
  BY <1>1, ProcMembers, RowConstants DEF CreateInsert
<1>2. ASSUME NEW p \in Clients, CreateLog(p) PROVE LocalStep(q)
  BY <1>2, ProcMembers, NoRequestTyped DEF CreateLog, Enter, Return
<1>3. ASSUME NEW p \in Clients, NEW r \in Requests, ClientCall(p, r) PROVE LocalStep(q)
  <2>1. flow[r.flow].status # "Absent"
    BY <1>3 DEF ClientCall, Exists, Statuses, Active, Terminal
  <2> QED
    BY <1>3, <2>1, ProcMembers DEF ClientCall, Enter
<1>4. ASSUME NEW p \in Procs, Fetch(p) PROVE LocalStep(q)
  BY <1>4 DEF Fetch
<1>5. ASSUME NEW p \in Procs, FetchRefused(p) PROVE LocalStep(q)
  BY <1>5, NoRequestTyped DEF FetchRefused, Enter, Return
<1>6. ASSUME NEW p \in Procs, Write(p) PROVE LocalStep(q)
  BY <1>6, NoRequestTyped DEF Write, Return
<1>7. ASSUME NEW p \in Procs, WriteRejected(p) PROVE LocalStep(q)
  BY <1>7, NoRequestTyped DEF WriteRejected, Return
<1>8. ASSUME NEW p \in Procs, Vanish(p) PROVE LocalStep(q)
  BY <1>8, NoRequestTyped DEF Vanish
<1>9. CASE EngineList
  BY <1>9, ProcMembers DEF EngineList
<1>10. ASSUME NEW f \in Flows, EngineEvaluate(f) PROVE LocalStep(q)
  <2>1. flow[f].status # "Absent"
    BY <1>10 DEF EngineEvaluate, TargetsWereCreated
  <2>2. Evaluate(todo[f], tickNow) # "wait"
    BY DEF Evaluate
  <2> QED
    BY <1>10, <2>1, <2>2, ProcMembers DEF EngineEvaluate, Enter, local
<1>11. CASE EngineDone
  BY <1>11, ProcMembers DEF EngineDone
<1>12. ASSUME NEW f \in Flows, NEW k \in Keys, BridgeReceive(f, k) PROVE LocalStep(q)
  BY <1>12, ProcMembers DEF BridgeReceive, Enter
<1>13. CASE UNCHANGED local
  BY <1>13 DEF local
<1> QED
  BY <1>1, <1>2, <1>3, <1>4, <1>5, <1>6, <1>7, <1>8, <1>9, <1>10, <1>11, <1>12, <1>13
     DEF FlowNext, flowVars, Prune, Clock, local

(* The acknowledgements of a flow only grow by a writer whose patch the    *)
(* same transaction put into the row.                                      *)
LEMMA AckSteps ==
    ASSUME IInv, [FlowNext]_flowVars, NEW f \in Flows
    PROVE  /\ Exists(flow'[f]) => acked'[f] \subseteq flow'[f].data
           /\ ~Exists(flow'[f]) => acked'[f] = {}
<1> USE DEF IInv, FlowTypeOK
<1>1. ASSUME NEW p \in Clients, NEW g \in Flows, CreateInsert(p, g)
      PROVE  /\ Exists(flow'[f]) => acked'[f] \subseteq flow'[f].data
             /\ ~Exists(flow'[f]) => acked'[f] = {}
  <2>1. acked[g] = {}
    BY <1>1 DEF CreateInsert, NoAcksWithoutRow, Exists, Statuses, Active, Terminal
  <2>2. Exists(NewRow)
    BY RowConstants DEF Exists, Statuses, Active
  <2> QED
    BY <1>1, <2>1, <2>2 DEF CreateInsert, NoLostUpdate, NoAcksWithoutRow
<1>2. ASSUME NEW p \in Procs, Write(p)
      PROVE  /\ Exists(flow'[f]) => acked'[f] \subseteq flow'[f].data
             /\ ~Exists(flow'[f]) => acked'[f] = {}
  <2> DEFINE g == req[p].flow
             m == Mutated(p, req[p], flow[g])
  <2>1. g \in Flows /\ req[p] \in Requests /\ flow[g] \in Rows /\ Exists(flow[g])
    BY <1>2, WriteIsMutation
  <2>2. m \in Rows /\ Exists(m)
        /\ m.data = (IF Patches(p, req[p].op) THEN flow[g].data \cup {p} ELSE flow[g].data)
    BY <2>1, MutatedFields
  <2>3. flow'[g].data = m.data /\ flow'[g].status = m.status
    <3>1. flow'[g] = [m EXCEPT !.rev = @ + 1]
      BY <1>2, <2>1, WriteIsMutation
    <3> HIDE DEF m
    <3> QED
      BY <2>2, <3>1, BumpFields
  <2>4. acked[g] \subseteq flow[g].data
    BY <2>1 DEF NoLostUpdate
  <2>5. acked' = [acked EXCEPT ![g] = IF Patches(p, req[p].op) THEN @ \cup {p} ELSE @]
    BY <1>2 DEF Write
  <2>6. CASE f = g
    BY <2>1, <2>2, <2>3, <2>4, <2>5, <2>6 DEF Exists
  <2>7. CASE f # g
    <3>1. flow'[f] = flow[f] /\ acked'[f] = acked[f]
      BY <1>2, <2>1, <2>5, <2>7, WriteIsMutation
    <3> QED
      BY <3>1 DEF NoLostUpdate, NoAcksWithoutRow
  <2> QED
    BY <2>6, <2>7
<1>3. ASSUME NEW g \in Flows, Prune(g)
      PROVE  /\ Exists(flow'[f]) => acked'[f] \subseteq flow'[f].data
             /\ ~Exists(flow'[f]) => acked'[f] = {}
  BY <1>3 DEF Prune, NoLostUpdate, NoAcksWithoutRow
<1>4. CASE UNCHANGED <<flow, acked>>
  BY <1>4 DEF NoLostUpdate, NoAcksWithoutRow
<1> QED
  BY <1>1, <1>2, <1>3, <1>4
     DEF FlowNext, flowVars, store, CreateLog, ClientCall, Fetch, FetchRefused, WriteRejected, Vanish,
         EngineList, EngineEvaluate, EngineDone, BridgeReceive, Clock

(* The engine's snapshot only ever holds rows that exist or existed. *)
LEMMA SnapshotSteps ==
    ASSUME IInv, [FlowNext]_flowVars, NEW f \in Flows
    PROVE  todo'[f].status = "Waiting" => todo[f].status = "Waiting" \/ flow[f].status = "Waiting"
<1> USE DEF IInv, FlowTypeOK
<1>1. CASE EngineList
  BY <1>1, RowConstants DEF EngineList
<1>2. ASSUME NEW g \in Flows, EngineEvaluate(g)
      PROVE  todo'[f].status = "Waiting" => todo[f].status = "Waiting" \/ flow[f].status = "Waiting"
  BY <1>2, RowConstants DEF EngineEvaluate
<1>3. ASSUME NEW p \in Procs, Vanish(p)
      PROVE  todo'[f].status = "Waiting" => todo[f].status = "Waiting" \/ flow[f].status = "Waiting"
  BY <1>3, RowConstants DEF Vanish
<1>4. CASE UNCHANGED todo
  BY <1>4
<1> QED
  BY <1>1, <1>2, <1>3, <1>4
     DEF FlowNext, flowVars, engineVars, CreateInsert, CreateLog, ClientCall, Fetch, FetchRefused, Write,
         WriteRejected, EngineDone, BridgeReceive, Prune, Clock

LEMMA NextInv == IInv /\ [FlowNext]_flowVars => IInv'
<1> SUFFICES ASSUME IInv, [FlowNext]_flowVars PROVE IInv'
  OBVIOUS
<1>1. FlowTypeOK /\ FlowTypeOK'
  BY TypeInv DEF IInv
<1>2. \A f \in Flows : RowStep(f)
  BY RowSteps
<1>3. \A q \in Procs : LocalStep(q)
  BY LocalSteps
<1>4. \A f \in Flows : flow[f] \in Rows /\ flow'[f] \in Rows
  BY <1>1 DEF FlowTypeOK
<1>5. \A q \in Procs : req[q] \in Requests /\ req[q].flow \in Flows
                      /\ req'[q] \in Requests /\ req'[q].flow \in Flows
  BY <1>1 DEF FlowTypeOK, Requests
<1>6. RequestsCarryCondition'
  BY <1>3 DEF LocalStep, IInv, RequestsCarryCondition
<1>7. TargetsWereCreated'
  <2>1. \A f \in Flows : flow'[f].status = "Absent" => flow'[f] = flow[f]
    BY <1>2, <1>4, RowStepFacts
  <2>2. ASSUME NEW q \in Procs, where'[q] \in Working PROVE flow'[req'[q].flow].status # "Absent"
    BY <1>3, <1>5, <2>1, <2>2 DEF LocalStep, Working, IInv, TargetsWereCreated
  <2>3. ASSUME NEW f \in Flows, todo'[f].status = "Waiting" PROVE flow'[f].status # "Absent"
    BY <2>1, <2>3, SnapshotSteps DEF IInv, TargetsWereCreated
  <2> QED
    BY <2>2, <2>3 DEF TargetsWereCreated, Working
<1>11. AbsentIsBlank'
  BY <1>2, <1>4, RowStepFacts DEF IInv, AbsentIsBlank
<1>8. NoAcksWithoutRow' /\ NoLostUpdate'
  BY AckSteps DEF NoAcksWithoutRow, NoLostUpdate
<1>9. WaitingHasCondition'
  BY <1>2, <1>4, RowStepFacts DEF IInv, WaitingHasCondition
<1>10. RevisionIdentifiesContent'
  <2> SUFFICES ASSUME NEW q \in Procs, where'[q] = "write", Exists(flow'[req'[q].flow])
               PROVE  LET row == flow'[req'[q].flow] IN
                      /\ copy'[q].rev <= row.rev
                      /\ copy'[q].rev = row.rev => /\ Refusal(req'[q].op, row) = "none"
                                                   /\ copy'[q] = Mutated(q, req'[q], row)
    BY DEF RevisionIdentifiesContent
  <2>1. CASE Fetch(q)
    <3> DEFINE row == flow[req[q].flow]
    <3>1. flow' = flow /\ req' = req /\ copy'[q] = Mutated(q, req[q], row)
          /\ Exists(row) /\ Refusal(req[q].op, row) = "none"
      BY <1>1, <2>1 DEF Fetch, store, FlowTypeOK
    <3>2. copy'[q].rev = row.rev /\ row.rev \in Nat
      <4>1. row \in Rows /\ req[q] \in Requests
        BY <1>4, <1>5
      <4>2. Mutated(q, req[q], row).rev = row.rev
        BY <3>1, <4>1, MutatedFields
      <4> QED
        BY <3>1, <4>1, <4>2 DEF Rows
    <3> QED
      BY <3>1, <3>2
  <2>2. CASE where[q] = "write" /\ req'[q] = req[q] /\ copy'[q] = copy[q]
    <3> DEFINE f == req[q].flow
    <3>1. flow[f].status # "Absent"
      BY <2>2 DEF IInv, TargetsWereCreated
    <3>2. Exists(flow[f])
      BY <1>2, <1>4, <1>5, <2>2, <3>1, RowStepFacts
    <3>3. /\ copy[q].rev <= flow[f].rev
          /\ copy[q].rev = flow[f].rev => /\ Refusal(req[q].op, flow[f]) = "none"
                                          /\ copy[q] = Mutated(q, req[q], flow[f])
      BY <2>2, <3>2 DEF IInv, RevisionIdentifiesContent
    <3>4. flow'[f] = flow[f] \/ flow'[f].rev = flow[f].rev + 1
      BY <1>2, <1>4, <1>5, <2>2, <3>2, RowStepFacts
    <3>5. copy[q].rev \in Nat /\ flow[f].rev \in Nat
      BY <1>1, <1>4, <1>5 DEF FlowTypeOK, Rows
    <3> QED
      BY <2>2, <3>3, <3>4, <3>5
  <2> QED
    BY <1>3, <2>1, <2>2 DEF LocalStep
<1> QED
  BY <1>1, <1>6, <1>7, <1>8, <1>9, <1>10, <1>11 DEF IInv

-----------------------------------------------------------------------------
(* The rows, the journal and the processes keep their types. *)
THEOREM TypeCorrect == FlowSpec => []FlowTypeOK
<1>1. IInv => FlowTypeOK
  BY DEF IInv
<1> QED
  BY InitInv, NextInv, <1>1, PTL DEF FlowSpec

(* Optimistic concurrency is atomic: an accepted write is the mutation of  *)
(* the row it replaces, and a waiting flow always has a condition.         *)
THEOREM WritesAreAtomic == FlowSpec => [](RevisionIdentifiesContent /\ WaitingHasCondition)
<1>1. IInv => RevisionIdentifiesContent /\ WaitingHasCondition
  BY DEF IInv
<1> QED
  BY InitInv, NextInv, <1>1, PTL DEF FlowSpec

(* No patch that update_state acknowledged is lost to a writer that had    *)
(* read the row before it.                                                 *)
THEOREM PatchesSurvive == FlowSpec => []NoLostUpdate
<1>1. IInv => NoLostUpdate
  BY DEF IInv
<1> QED
  BY InitInv, NextInv, <1>1, PTL DEF FlowSpec

(* What an applied operation leaves of a row whose cancel is pending, and  *)
(* of a terminal row; and what it may do to status and cancel flag.        *)
Allows(row, b) ==
    /\ row.cancel => /\ b.cancel
                     /\ b.status \in {row.status, "Cancelled"}
                     /\ b.data = row.data
    /\ row.status \in Terminal
         => /\ b.status = row.status /\ b.wait = row.wait
            /\ b.cancel = row.cancel /\ b.data = row.data
    /\ \/ b.status = row.status /\ b.cancel = row.cancel
       \/ b.status = row.status /\ b.cancel = TRUE /\ row.status \in Active
       \/ /\ b.cancel = row.cancel
          /\ row.status \in Active /\ CanTransition(row.status, b.status)
          /\ row.cancel => b.status = "Cancelled"

LEMMA AppliedOp ==
    ASSUME NEW p \in Procs, NEW r \in Requests, NEW row \in Rows, Exists(row),
           Refusal(r.op, row) = "none",
           NEW b, b = [Mutated(p, r, row) EXCEPT !.rev = @ + 1]
    PROVE  Allows(row, b)
<1> DEFINE m == Mutated(p, r, row)
<1>1. r.op \in Ops /\ row.cancel \in BOOLEAN /\ row.status \in Statuses
  BY DEF Requests, Rows, Exists
<1>2. /\ row.status \in Terminal => r.op = "request_cancel"
      /\ row.cancel => r.op \in {"request_cancel", "cancel"}
      /\ r.op \in Moves => row.status \in Active /\ CanTransition(row.status, Target(r.op))
  BY <1>1, UnrefusedOps
<1>3. /\ m \in Rows
      /\ m.status = IF r.op \in Moves THEN Target(r.op) ELSE row.status
      /\ m.wait = IF r.op = "wait" THEN r.wait ELSE IF r.op = "resume" THEN NoWait ELSE row.wait
      /\ m.cancel = (row.cancel \/ (r.op = "request_cancel" /\ row.status \notin Terminal))
      /\ m.data = IF Patches(p, r.op) THEN row.data \cup {p} ELSE row.data
  BY MutatedFields
<1>0. b = [m EXCEPT !.rev = @ + 1]
  OBVIOUS
<1> HIDE DEF m
<1>4. b.status = m.status /\ b.wait = m.wait /\ b.cancel = m.cancel /\ b.data = m.data
  BY <1>0, <1>3, BumpFields
<1>5. r.op \in {"request_cancel", "cancel"} => ~Patches(p, r.op)
  BY DEF Patches
<1>6. r.op \in Moves \/ r.op = "request_cancel" \/ r.op = "update_state"
  BY <1>1 DEF Ops
<1>7. "request_cancel" \notin Moves /\ "update_state" \notin Moves /\ Target("cancel") = "Cancelled"
  BY DEF Moves, Target
<1>8. row.cancel => /\ b.cancel
                    /\ b.status \in {row.status, "Cancelled"}
                    /\ b.data = row.data
  BY <1>2, <1>3, <1>4, <1>5, <1>7
<1>9. row.status \in Terminal
        => /\ b.status = row.status /\ b.wait = row.wait
           /\ b.cancel = row.cancel /\ b.data = row.data
  BY <1>1, <1>2, <1>3, <1>4, <1>5, <1>7
<1> DEFINE Kept == b.status = row.status /\ b.cancel = row.cancel
           Flagged == b.status = row.status /\ b.cancel = TRUE /\ row.status \in Active
           Moved == /\ b.cancel = row.cancel
                    /\ row.status \in Active /\ CanTransition(row.status, b.status)
                    /\ row.cancel => b.status = "Cancelled"
<1>10. ASSUME r.op \in Moves PROVE Moved
  <2>1. b.cancel = row.cancel /\ b.status = Target(r.op)
    BY <1>1, <1>3, <1>4, <1>7, <1>10
  <2>2. row.cancel => b.status = "Cancelled"
    BY <1>2, <1>7, <1>10, <2>1
  <2> QED
    BY <1>2, <1>10, <2>1, <2>2
<1>11. ASSUME r.op = "update_state" PROVE Kept
  BY <1>1, <1>3, <1>4, <1>7, <1>11
<1>12. ASSUME r.op = "request_cancel" PROVE Kept \/ Flagged
  BY <1>1, <1>3, <1>4, <1>7, <1>12 DEF Statuses
<1>13. Kept \/ Flagged \/ Moved
  BY <1>6, <1>10, <1>11, <1>12
<1> QED
  BY <1>8, <1>9, <1>13 DEF Allows

(* A pending cancel is never forgotten, leaves only the way to Cancelled   *)
(* and freezes state_json.                                                 *)
THEOREM StickyCancel == FlowSpec => CancelIsSticky
<1> DEFINE Sticky(f) == flow[f].cancel /\ flow'[f].status # "Pruned"
                          => /\ flow'[f].cancel
                             /\ flow'[f].status \in {flow[f].status, "Cancelled"}
                             /\ flow'[f].data = flow[f].data
<1>1. ASSUME IInv, IInv', [FlowNext]_flowVars, NEW f \in Flows PROVE Sticky(f)
  <2>1. flow[f] \in Rows /\ RowStep(f)
    BY <1>1, RowSteps DEF IInv, FlowTypeOK
  <2>2. CASE flow[f].status = "Absent" /\ flow'[f] = NewRow
    BY <1>1, <2>2 DEF IInv, AbsentIsBlank
  <2>3. ASSUME NEW p \in Procs, NEW r \in Requests, Exists(flow[f]),
               Refusal(r.op, flow[f]) = "none",
               flow'[f] = [Mutated(p, r, flow[f]) EXCEPT !.rev = @ + 1]
        PROVE  Sticky(f)
    <3>1. Allows(flow[f], flow'[f])
      BY <2>1, <2>3, AppliedOp
    <3> QED
      BY <3>1 DEF Allows
  <2> QED
    BY <2>1, <2>2, <2>3, RowConstants DEF RowStep
<1>2. IInv /\ IInv' /\ [FlowNext]_flowVars => [\A f \in Flows : Sticky(f)]_flowVars
  BY <1>1
<1> QED
  BY InitInv, NextInv, <1>2, PTL DEF FlowSpec, CancelIsSticky

(* A terminal flow is never revived or rewritten. *)
THEOREM FinalTerminal == FlowSpec => TerminalIsFinal
<1> DEFINE Final(f) == flow[f].status \in Terminal
                         => \/ flow'[f].status = "Pruned"
                            \/ [flow'[f] EXCEPT !.rev = 0] = [flow[f] EXCEPT !.rev = 0]
<1>1. ASSUME IInv, IInv', [FlowNext]_flowVars, NEW f \in Flows PROVE Final(f)
  <2>1. flow[f] \in Rows /\ flow'[f] \in Rows /\ RowStep(f)
    BY <1>1, RowSteps DEF IInv, FlowTypeOK
  <2>2. ASSUME NEW p \in Procs, NEW r \in Requests, Exists(flow[f]),
               Refusal(r.op, flow[f]) = "none",
               flow'[f] = [Mutated(p, r, flow[f]) EXCEPT !.rev = @ + 1]
        PROVE  Final(f)
    <3>1. flow[f].status \in Terminal
            => /\ flow'[f].status = flow[f].status /\ flow'[f].wait = flow[f].wait
               /\ flow'[f].cancel = flow[f].cancel /\ flow'[f].data = flow[f].data
      <4>1. Allows(flow[f], flow'[f])
        BY <2>1, <2>2, AppliedOp
      <4> QED
        BY <4>1 DEF Allows
    <3> QED
      BY <2>1, <3>1 DEF Rows
  <2> QED
    BY <2>1, <2>2, RowConstants DEF RowStep, Terminal
<1>2. IInv /\ IInv' /\ [FlowNext]_flowVars => [\A f \in Flows : Final(f)]_flowVars
  BY <1>1
<1> QED
  BY InitInv, NextInv, <1>2, PTL DEF FlowSpec, TerminalIsFinal

-----------------------------------------------------------------------------
(* The journal. *)

(* Before the insert there is no event either. *)
NoJournalBeforeRow == \A f \in Flows : flow[f].status = "Absent" => log[f] = <<>>
JournalInv == NoJournalBeforeRow /\ JournalExplainsRow

Kinds == Ops \cup {"created"}

(* What an appended event adds. *)
LEMMA OneMoreEvent ==
    ASSUME NEW j \in Seq(Kinds), NEW e \in Kinds
    PROVE  LET k == Append(j, e)
               n == Len(j) + 1 IN
           /\ n \in Nat /\ n \notin DOMAIN j /\ \A i \in DOMAIN j : i \in Nat /\ i <= n
           /\ DOMAIN k = DOMAIN j \cup {n}
           /\ k[n] = e /\ \A i \in DOMAIN j : k[i] = j[i]
           /\ StatusEvents(k) = StatusEvents(j) \cup (IF e \in Moves THEN {n} ELSE {})
           /\ e = "created" => RevisionEvents(k) = RevisionEvents(j)
           /\ e # "created" => RevisionEvents(k) = RevisionEvents(j) \cup {n}
<1> DEFINE k == Append(j, e)
           n == Len(j) + 1
<1>1. /\ Len(j) \in Nat /\ DOMAIN j = 1..Len(j) /\ DOMAIN k = 1..n
      /\ k[n] = e /\ \A i \in 1..Len(j) : k[i] = j[i]
  OBVIOUS
<1>2. n \in Nat /\ n \notin DOMAIN j /\ \A i \in DOMAIN j : i \in Nat /\ i <= n
  BY <1>1
<1>3. DOMAIN k = DOMAIN j \cup {n} /\ \A i \in DOMAIN j : k[i] = j[i]
  BY <1>1
<1> HIDE DEF k, n
<1>4. StatusEvents(k) = StatusEvents(j) \cup (IF e \in Moves THEN {n} ELSE {})
  BY <1>1, <1>2, <1>3 DEF StatusEvents
<1>5. /\ e = "created" => RevisionEvents(k) = RevisionEvents(j)
      /\ e # "created" => RevisionEvents(k) = RevisionEvents(j) \cup {n}
  BY <1>1, <1>2, <1>3 DEF RevisionEvents
<1> QED
  BY <1>1, <1>2, <1>3, <1>4, <1>5 DEF k, n

(* The revision counts the events that are not the insert's. *)
LEMMA RevisionCount ==
    ASSUME NEW j \in Seq(Kinds), NEW e \in Kinds
    PROVE  Cardinality(RevisionEvents(Append(j, e))) =
             Cardinality(RevisionEvents(j)) + (IF e = "created" THEN 0 ELSE 1)
<1>1. IsFiniteSet(RevisionEvents(j))
  <2>1. DOMAIN j = 1..Len(j) /\ Len(j) \in Nat
    OBVIOUS
  <2>2. IsFiniteSet(1..Len(j))
    BY <2>1, FS_Interval
  <2>3. RevisionEvents(j) \in SUBSET (1..Len(j))
    BY <2>1 DEF RevisionEvents
  <2> QED
    BY <2>2, <2>3, FS_Subset
<1>2. Cardinality(RevisionEvents(j)) \in Nat
  BY <1>1, FS_CardinalityType
<1>3. Len(j) + 1 \notin RevisionEvents(j)
  BY OneMoreEvent DEF RevisionEvents
<1>4. CASE e = "created"
  <2>1. RevisionEvents(Append(j, e)) = RevisionEvents(j)
    BY <1>4, OneMoreEvent
  <2> QED
    BY <1>2, <1>4, <2>1
<1>5. CASE e # "created"
  <2>1. RevisionEvents(Append(j, e)) = RevisionEvents(j) \cup {Len(j) + 1}
    BY <1>5, OneMoreEvent
  <2> QED
    BY <1>1, <1>3, <1>5, <2>1, FS_AddElement
<1> QED
  BY <1>4, <1>5

(* An event that moves the flow is the last move; any other leaves it. *)
LEMMA LastMove ==
    ASSUME NEW j \in Seq(Kinds), NEW e \in Kinds, NEW s, LastMoveTo(j, s)
    PROVE  LastMoveTo(Append(j, e), IF e \in Moves THEN Target(e) ELSE s)
<1> DEFINE k == Append(j, e)
           n == Len(j) + 1
<1>1. /\ n \in Nat /\ \A i \in DOMAIN j : i \in Nat /\ i <= n
      /\ k[n] = e /\ \A i \in DOMAIN j : k[i] = j[i]
      /\ StatusEvents(k) = StatusEvents(j) \cup (IF e \in Moves THEN {n} ELSE {})
  BY OneMoreEvent
<1>2. StatusEvents(j) \subseteq DOMAIN j
  BY DEF StatusEvents
<1> HIDE DEF k, n
<1>3. CASE e \in Moves
  <2>1. n \in StatusEvents(k) /\ \A i \in StatusEvents(k) : i <= n
    BY <1>1, <1>2, <1>3
  <2> QED
    BY <1>1, <1>3, <2>1 DEF LastMoveTo, k
<1>4. CASE e \notin Moves
  BY <1>1, <1>2, <1>4 DEF LastMoveTo, k
<1> QED
  BY <1>3, <1>4

(* The event of the insert changes nothing, wherever it comes to stand. *)
LEMMA CreatedExplains ==
    ASSUME NEW j \in Seq(Kinds), NEW row \in Rows, Explains(j, row)
    PROVE  Explains(Append(j, "created"), row)
<1>1. "created" \in Kinds /\ "created" \notin Moves
  BY DEF Kinds, Moves
<1>2. LastMoveTo(Append(j, "created"), row.status)
  BY <1>1, LastMove DEF Explains
<1>3. row.cancel => \E i \in DOMAIN Append(j, "created") : Append(j, "created")[i] = "request_cancel"
  BY <1>1, OneMoreEvent DEF Explains
<1>4. row.rev = Cardinality(RevisionEvents(Append(j, "created")))
  <2>1. row.rev \in Nat /\ row.rev = Cardinality(RevisionEvents(j))
    BY DEF Explains, Rows
  <2>2. Cardinality(RevisionEvents(Append(j, "created"))) = Cardinality(RevisionEvents(j)) + 0
    BY <1>1, RevisionCount
  <2> QED
    BY <2>1, <2>2
<1> QED
  BY <1>2, <1>3, <1>4 DEF Explains

(* A write and its event go together. *)
LEMMA WriteExplains ==
    ASSUME NEW j \in Seq(Kinds), NEW row \in Rows, Exists(row), Explains(j, row),
           NEW p \in Procs, NEW r \in Requests,
           NEW b, b = [Mutated(p, r, row) EXCEPT !.rev = @ + 1]
    PROVE  Explains(Append(j, r.op), b)
<1> DEFINE m == Mutated(p, r, row)
<1>1. r.op \in Kinds /\ r.op # "created"
  BY DEF Requests, Kinds, Ops, Moves
<1>2. /\ m \in Rows /\ m.rev = row.rev
      /\ m.status = IF r.op \in Moves THEN Target(r.op) ELSE row.status
      /\ m.cancel = (row.cancel \/ (r.op = "request_cancel" /\ row.status \notin Terminal))
  BY MutatedFields
<1>3. b = [m EXCEPT !.rev = @ + 1]
  OBVIOUS
<1> HIDE DEF m
<1>4. b.status = m.status /\ b.cancel = m.cancel /\ b.rev = row.rev + 1
  BY <1>2, <1>3, BumpFields
<1>5. LastMoveTo(Append(j, r.op), b.status)
  BY <1>1, <1>2, <1>4, LastMove DEF Explains
<1>6. b.cancel => row.cancel \/ r.op = "request_cancel"
  BY <1>2, <1>4
<1>7. b.cancel => \E i \in DOMAIN Append(j, r.op) : Append(j, r.op)[i] = "request_cancel"
  <2>1. /\ DOMAIN Append(j, r.op) = DOMAIN j \cup {Len(j) + 1}
        /\ Append(j, r.op)[Len(j) + 1] = r.op
        /\ \A i \in DOMAIN j : Append(j, r.op)[i] = j[i]
    BY <1>1, OneMoreEvent
  <2>2. row.cancel => \E i \in DOMAIN j : j[i] = "request_cancel"
    BY DEF Explains
  <2> QED
    BY <1>6, <2>1, <2>2
<1>8. b.rev = Cardinality(RevisionEvents(Append(j, r.op)))
  <2>1. row.rev = Cardinality(RevisionEvents(j))
    BY DEF Explains
  <2>2. Cardinality(RevisionEvents(Append(j, r.op))) = Cardinality(RevisionEvents(j)) + 1
    BY <1>1, RevisionCount
  <2> QED
    BY <1>4, <2>1, <2>2
<1> QED
  BY <1>5, <1>7, <1>8 DEF Explains

(* A fresh row needs no event. *)
LEMMA EmptyExplains == Explains(<<>>, NewRow)
<1>1. StatusEvents(<<>>) = {} /\ RevisionEvents(<<>>) = {}
  BY DEF StatusEvents, RevisionEvents
<1> QED
  BY <1>1, RowConstants, FS_EmptySet DEF Explains, LastMoveTo

(* What one step does to a row and its journal together. *)
JournalStep(f) ==
    \/ flow'[f] = flow[f] /\ log'[f] = log[f]
    \/ flow'[f] = flow[f] /\ Exists(flow[f]) /\ log'[f] = Append(log[f], "created")
    \/ flow[f].status = "Absent" /\ flow'[f] = NewRow /\ log'[f] = log[f]
    \/ flow'[f] = PrunedRow
    \/ \E p \in Procs, r \in Requests :
         /\ Exists(flow[f])
         /\ flow'[f] = [Mutated(p, r, flow[f]) EXCEPT !.rev = @ + 1]
         /\ log'[f] = Append(log[f], r.op)

LEMMA JournalSteps == ASSUME IInv, [FlowNext]_flowVars PROVE \A f \in Flows : JournalStep(f)
<1>0. DOMAIN flow = Flows /\ DOMAIN log = Flows
  BY DEF IInv, FlowTypeOK
<1>1. ASSUME NEW p \in Clients, NEW f \in Flows, CreateInsert(p, f)
      PROVE  \A g \in Flows : JournalStep(g)
  BY <1>0, <1>1 DEF CreateInsert, JournalStep
<1>2. ASSUME NEW p \in Clients, CreateLog(p) PROVE \A g \in Flows : JournalStep(g)
  BY <1>0, <1>2 DEF CreateLog, JournalStep
<1>3. ASSUME NEW p \in Procs, Write(p) PROVE \A g \in Flows : JournalStep(g)
  <2> DEFINE f == req[p].flow
  <2>1. /\ f \in Flows /\ req[p] \in Requests /\ Exists(flow[f])
        /\ flow' = [flow EXCEPT ![f] = [Mutated(p, req[p], flow[f]) EXCEPT !.rev = @ + 1]]
    BY <1>3, WriteIsMutation
  <2>2. log' = [log EXCEPT ![f] = Append(log[f], req[p].op)]
    BY <1>3 DEF Write
  <2>3. \A g \in Flows : g # f => JournalStep(g)
    BY <1>0, <2>1, <2>2 DEF JournalStep
  <2>4. JournalStep(f)
    <3>1. /\ flow'[f] = [Mutated(p, req[p], flow[f]) EXCEPT !.rev = @ + 1]
          /\ log'[f] = Append(log[f], req[p].op)
      BY <1>0, <2>1, <2>2
    <3> QED
      BY <2>1, <3>1 DEF JournalStep
  <2> QED
    BY <2>3, <2>4
<1>4. ASSUME NEW f \in Flows, Prune(f) PROVE \A g \in Flows : JournalStep(g)
  BY <1>0, <1>4 DEF Prune, JournalStep
<1>5. CASE UNCHANGED store
  BY <1>5 DEF store, JournalStep
<1> QED
  BY <1>1, <1>2, <1>3, <1>4, <1>5
     DEF FlowNext, flowVars, store, ClientCall, Fetch, FetchRefused, WriteRejected, Vanish,
         EngineList, EngineEvaluate, EngineDone, BridgeReceive, Clock

LEMMA JournalNext == IInv /\ JournalInv /\ [FlowNext]_flowVars => JournalInv'
<1> SUFFICES ASSUME IInv, JournalInv, [FlowNext]_flowVars, NEW f \in Flows
             PROVE  /\ flow'[f].status = "Absent" => log'[f] = <<>>
                    /\ Exists(flow'[f]) => Explains(log'[f], flow'[f])
  BY DEF JournalInv, NoJournalBeforeRow, JournalExplainsRow
<1>1. /\ flow[f] \in Rows /\ log[f] \in Seq(Kinds)
      /\ flow[f].status = "Absent" => log[f] = <<>>
      /\ Exists(flow[f]) => Explains(log[f], flow[f])
  BY DEF IInv, FlowTypeOK, Kinds, JournalInv, NoJournalBeforeRow, JournalExplainsRow
<1>2. ASSUME NEW row, Exists(row) PROVE row.status # "Absent"
  BY <1>2 DEF Exists, Statuses, Active, Terminal
<1>3. CASE flow'[f] = flow[f] /\ log'[f] = log[f]
  BY <1>1, <1>3
<1>4. CASE flow'[f] = flow[f] /\ Exists(flow[f]) /\ log'[f] = Append(log[f], "created")
  BY <1>1, <1>2, <1>4, CreatedExplains
<1>5. CASE flow[f].status = "Absent" /\ flow'[f] = NewRow /\ log'[f] = log[f]
  BY <1>1, <1>5, EmptyExplains, RowConstants
<1>6. CASE flow'[f] = PrunedRow
  BY <1>6, RowConstants DEF Exists, Statuses, Active, Terminal
<1>7. ASSUME NEW p \in Procs, NEW r \in Requests, Exists(flow[f]),
             flow'[f] = [Mutated(p, r, flow[f]) EXCEPT !.rev = @ + 1],
             log'[f] = Append(log[f], r.op)
      PROVE  flow'[f].status # "Absent" /\ Explains(log'[f], flow'[f])
  <2>1. Mutated(p, r, flow[f]) \in Rows /\ Exists(Mutated(p, r, flow[f]))
    BY <1>1, <1>7, MutatedFields
  <2>2. flow'[f].status = Mutated(p, r, flow[f]).status
    BY <1>7, <2>1, BumpFields
  <2>3. Explains(Append(log[f], r.op), flow'[f])
    BY <1>1, <1>7, WriteExplains
  <2> QED
    BY <1>2, <1>7, <2>1, <2>2, <2>3
<1> QED
  BY <1>3, <1>4, <1>5, <1>6, <1>7, JournalSteps DEF JournalStep

(* The audit trail is complete: status, cancel flag and revision of a row  *)
(* can be read off its events, whatever interleaves with them.             *)
THEOREM JournalIsComplete == FlowSpec => []JournalExplainsRow
<1>1. FlowInit => JournalInv
  BY RowConstants DEF FlowInit, JournalInv, NoJournalBeforeRow, JournalExplainsRow, Exists,
                      Statuses, Active, Terminal
<1>2. JournalInv => JournalExplainsRow
  BY DEF JournalInv
<1> QED
  BY <1>1, <1>2, InitInv, NextInv, JournalNext, PTL DEF FlowSpec

-----------------------------------------------------------------------------
(* Refinement of FlowLifecycle. *)

Mapped == [f \in Flows |-> [status |-> flow[f].status, cancel |-> flow[f].cancel]]

(* A step changes at most one row. *)
LEMMA OneRowChanges ==
    ASSUME IInv, [FlowNext]_flowVars
    PROVE  flow' = flow \/ \E f \in Flows : \A g \in Flows : g # f => flow'[g] = flow[g]
<1>1. ASSUME NEW p \in Clients, NEW f \in Flows, CreateInsert(p, f)
      PROVE  \A g \in Flows : g # f => flow'[g] = flow[g]
  BY <1>1 DEF CreateInsert, IInv, FlowTypeOK
<1>2. ASSUME NEW p \in Procs, Write(p)
      PROVE  req[p].flow \in Flows /\ \A g \in Flows : g # req[p].flow => flow'[g] = flow[g]
  BY <1>2, WriteIsMutation DEF IInv, FlowTypeOK
<1>3. ASSUME NEW f \in Flows, Prune(f)
      PROVE  \A g \in Flows : g # f => flow'[g] = flow[g]
  BY <1>3 DEF Prune, IInv, FlowTypeOK
<1> QED
  BY <1>1, <1>2, <1>3
     DEF FlowNext, flowVars, store, CreateLog, ClientCall, Fetch, FetchRefused, WriteRejected, Vanish,
         EngineList, EngineEvaluate, EngineDone, BridgeReceive, Clock

(* The code's transition relation is the documented lifecycle graph. *)
LEMMA TransitionsAreDocumented ==
    ASSUME NEW s \in Active, NEW t, CanTransition(s, t)
    PROVE  t \in Life!Successors[s] /\ t \in Life!Active \cup Life!Terminal
BY DEF Active, CanTransition, Terminal, Life!Successors, Life!Active, Life!Terminal

(* Every step of the protocol is a step of the lifecycle or invisible. *)
LEMMA LifecycleStep ==
    ASSUME IInv, IInv', [FlowNext]_flowVars PROVE [Life!Next]_Mapped
<1> USE DEF Mapped
<1>1. CASE flow' = flow
  BY <1>1
<1>2. ASSUME NEW f \in Flows, \A g \in Flows : g # f => flow'[g] = flow[g]
      PROVE  [Life!Next]_Mapped
  <2> DEFINE new == [status |-> flow'[f].status, cancel |-> flow'[f].cancel]
  <2>1. flow[f] \in Rows /\ flow'[f] \in Rows /\ RowStep(f)
    BY RowSteps DEF IInv, FlowTypeOK
  <2>2. Mapped' = [Mapped EXCEPT ![f] = new]
    BY <1>2
  <2>3. Mapped[f] = [status |-> flow[f].status, cancel |-> flow[f].cancel]
    OBVIOUS
  <2>4. CASE flow'[f] = flow[f]
    BY <1>2, <2>4
  <2>5. CASE flow[f].status = "Absent" /\ flow'[f] = NewRow
    <3>1. flow[f].cancel = FALSE
      BY <2>5 DEF IInv, AbsentIsBlank
    <3>2. Life!Create(f)
      BY <2>2, <2>3, <2>5, <3>1, RowConstants DEF Life!Create, Life!Unborn, Life!Become
    <3> QED
      BY <3>2 DEF Life!Next
  <2>6. CASE flow[f].status \in Terminal /\ flow'[f] = PrunedRow
    <3>1. Life!Prune(f)
      BY <2>2, <2>3, <2>6, RowConstants DEF Life!Prune, Life!Become, Life!Terminal, Terminal
    <3> QED
      BY <3>1 DEF Life!Next
  <2>7. ASSUME NEW p \in Procs, NEW r \in Requests, Exists(flow[f]),
               Refusal(r.op, flow[f]) = "none",
               flow'[f] = [Mutated(p, r, flow[f]) EXCEPT !.rev = @ + 1]
        PROVE  [Life!Next]_Mapped
    <3>1. \/ flow'[f].status = flow[f].status /\ flow'[f].cancel = flow[f].cancel
          \/ flow'[f].status = flow[f].status /\ flow'[f].cancel = TRUE /\ flow[f].status \in Active
          \/ /\ flow'[f].cancel = flow[f].cancel
             /\ flow[f].status \in Active /\ CanTransition(flow[f].status, flow'[f].status)
             /\ flow[f].cancel => flow'[f].status = "Cancelled"
      <4>1. Allows(flow[f], flow'[f])
        BY <2>1, <2>7, AppliedOp
      <4> QED
        BY <4>1 DEF Allows
    <3>2. CASE flow'[f].status = flow[f].status /\ flow'[f].cancel = flow[f].cancel
      BY <1>2, <3>2
    <3>3. CASE flow'[f].status = flow[f].status /\ flow'[f].cancel = TRUE /\ flow[f].status \in Active
      <4>1. Life!RequestCancel(f)
        BY <2>2, <2>3, <3>3 DEF Life!RequestCancel, Life!Become, Life!Active, Active
      <4> QED
        BY <4>1 DEF Life!Next
    <3>4. CASE /\ flow'[f].cancel = flow[f].cancel
               /\ flow[f].status \in Active /\ CanTransition(flow[f].status, flow'[f].status)
               /\ flow[f].cancel => flow'[f].status = "Cancelled"
      <4>1. flow'[f].status \in Life!Successors[flow[f].status]
            /\ flow'[f].status \in Life!Active \cup Life!Terminal
        BY <3>4, TransitionsAreDocumented
      <4>2. Life!Advance(f, flow'[f].status)
        BY <2>2, <2>3, <3>4, <4>1 DEF Life!Advance, Life!Become, Life!Active, Active
      <4> QED
        BY <4>1, <4>2 DEF Life!Next
    <3> QED
      BY <3>1, <3>2, <3>3, <3>4
  <2> QED
    BY <2>1, <2>4, <2>5, <2>6, <2>7 DEF RowStep
<1> QED
  BY <1>1, <1>2, OneRowChanges

(* The protocol with its retries, stale copies, engine and bridge          *)
(* implements the abstract lifecycle of a flow.                            *)
THEOREM Refinement == FlowSpec => ImplementsLifecycle
<1>1. FlowInit => Life!Init
  BY DEF FlowInit, Life!Init, Life!Unborn, NoRow
<1>2. IInv /\ IInv' /\ [FlowNext]_flowVars => [Life!Next]_Mapped
  BY LifecycleStep
<1> QED
  BY InitInv, NextInv, <1>1, <1>2, PTL DEF FlowSpec, ImplementsLifecycle, Life!Spec, Mapped

=============================================================================
