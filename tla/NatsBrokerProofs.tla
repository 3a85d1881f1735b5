--------------------------- MODULE NatsBrokerProofs ---------------------------
(***************************************************************************)
(* Proofs about NatsBroker: the disk queue inside it behaves as DiskQueue  *)
(* says, so that everything proved of the queue holds of it there, and an  *)
(* event takes one of its two roads (the client, or the queue) only.       *)
(***************************************************************************)
EXTENDS NatsBroker, DiskQueueProofs

\* A publish() under way has its event.
PublishersOK ==
    /\ ppc \in [Writers -> {"idle", "send", "queue"}]
    /\ pev \in [Writers -> Events \cup {None}]
    /\ \A w \in Writers : ppc[w] # "idle" => pev[w] \in Events

\* It is the only call with that event, and no call with it has returned Ok.
PublishersFresh ==
    /\ \A w \in Writers : pev[w] \notin accepted \cup returned
    /\ \A w \in Writers : wev[w] \notin returned
    /\ \A v, w \in Writers : pev[w] # None /\ pev[v] = pev[w] => v = w
    /\ \A v, w \in Writers : pev[w] # None => wev[v] # pev[w]

\* An event the client took is not in the queue, and never was.
OneRoad ==
    /\ direct = returned /\ returned \subseteq Events
    /\ returned \cap accepted = {}

BrokerInv == QueueInv /\ PublishersOK /\ PublishersFresh /\ OneRoad

\* What the queue does inside the broker is a step of the queue, or none.
LEMMA BrokerStepIsQueueStep ==
    ASSUME PublishersOK, [BrokerNext]_brokerVars
    PROVE  [Next]_vars
<1>1. ASSUME NEW w \in Writers, Enqueue(w) PROVE Next
  <2>1. pev[w] \in Events BY <1>1 DEF Enqueue, PublishersOK
  <2> QED BY <1>1, <2>1 DEF Enqueue, Next
<1>2. ASSUME NEW d \in Drainers, DrainTask(d) \/ DrainFail(d) PROVE [Next]_vars
  BY <1>2 DEF DrainTask, DrainBegin, DrainFail, Next
<1>3. ASSUME NEW w \in Writers, PublisherStep(w) \/ (EnqueueError(w) /\ UNCHANGED broker)
      PROVE  [Next]_vars
  BY <1>1, <1>3 DEF PublisherStep, SendOk, SendErr, Next
<1>4. CASE \E w \in Writers, e \in Events : Publish(w, e) BY <1>4 DEF Publish
<1>5. CASE Monitor \/ Flip \/ Tick BY <1>5 DEF Monitor, MonitorDown, MonitorUp, Flip, Tick
<1>6. CASE Restart BY <1>6 DEF Restart, Next
<1>7. CASE (OperatorStep /\ UNCHANGED broker) \/ UNCHANGED brokerVars
  BY <1>7 DEF Next, brokerVars
<1> QED BY <1>2, <1>3, <1>4, <1>5, <1>6, <1>7 DEF BrokerNext

\* The queue's own steps in the broker: what they do to the events of the calls
\* and to the tables.
QueueTask ==
    \/ \E w \in Writers : WriterStep(w) \/ EnqueueError(w)
    \/ \E d \in Drainers : DrainStart(d) \/ DrainStep(d) \/ DrainError(d)
    \/ OperatorStep
    \/ Crash

LEMMA QueueTaskMoves ==
    ASSUME QueueInv, QueueTask
    PROVE  /\ \A w \in Writers : wev'[w] = wev[w] \/ wev'[w] = None
           /\ accepted' = accepted \/ \E w \in Writers : /\ accepted' = accepted \cup {wev[w]}
                                                         /\ wev[w] \in Events
<1>1. OperatorStep => UNCHANGED <<wev, accepted>>
  BY DEF OperatorStep, ReplaySelect, ReplayInsert, ReplayDelete, ReplayAbort, Purge, writers, history
<1>3. wev \in [Writers -> Events \cup {None}] BY DEF QueueInv, Working, TypeOK, WritersOK
<1>4. \A w \in Writers : wev'[w] = wev[w] \/ wev'[w] = None
  BY <1>1, <1>3 DEF QueueTask, WriterStep, DrainStep, EnqueueLock, EnqueueRecount, EnqueueEvict,
         EnqueueInsert, EnqueueError, DrainStart, DrainSelect, DrainPoison, DrainPublish,
         DrainRefused, DrainDelete, DrainCount, DrainError, Crash, Forget, writers
<1>5. \/ accepted' = accepted
      \/ \E w \in Writers : EnqueueInsert(w)
  BY <1>1 DEF QueueTask, WriterStep, DrainStep, EnqueueLock, EnqueueRecount, EnqueueEvict,
         EnqueueError, DrainStart, DrainSelect, DrainPoison, DrainPublish,
         DrainRefused, DrainDelete, DrainCount, DrainError, Crash, history
<1>6. \A w \in Writers : EnqueueInsert(w) => accepted' = accepted \cup {wev[w]} /\ wev[w] \in Events
  BY DEF EnqueueInsert, QueueInv, Working, BusyHasWork, WriterHasEvent
<1> QED BY <1>4, <1>5, <1>6

\* While the publishers stay where they are, or are gone, a task of the queue
\* keeps the two roads apart.
LEMMA QueueTaskKeeps ==
    ASSUME BrokerInv, QueueInv', QueueTask, UNCHANGED <<direct, returned>>,
           \/ UNCHANGED <<ppc, pev>>
           \/ /\ ppc' = [w \in Writers |-> "idle"]
              /\ pev' = [w \in Writers |-> None]
    PROVE  BrokerInv'
<1>1. None \notin accepted \cup accepted' \cup returned /\ accepted' \subseteq Events
  BY QueueAssumption DEF BrokerInv, QueueInv, Working, TypeOK, HistoryOK, OneRoad, QueueAssumption
<1>2. PublishersOK' BY DEF BrokerInv, PublishersOK
<1>4. /\ \A w \in Writers : wev'[w] = wev[w] \/ wev'[w] = None
      /\ accepted' = accepted \/ \E w \in Writers : accepted' = accepted \cup {wev[w]}
                                                    /\ wev[w] \in Events
  BY QueueTaskMoves DEF BrokerInv
<1>5. \A w \in Writers : pev'[w] = pev[w] \/ pev'[w] = None
  BY DEF BrokerInv, PublishersOK
<1>6. PublishersFresh' BY <1>1, <1>4, <1>5 DEF BrokerInv, PublishersFresh
<1>7. OneRoad' BY <1>4 DEF BrokerInv, OneRoad, PublishersFresh
<1> QED BY <1>2, <1>6, <1>7 DEF BrokerInv

\* A step of the broker keeps its invariant.
LEMMA BrokerStep ==
    ASSUME BrokerInv, [BrokerNext]_brokerVars
    PROVE  BrokerInv'
<1>1. QueueInv' BY BrokerStepIsQueueStep, QueueStep DEF BrokerInv
<1>2. /\ ppc \in [Writers -> {"idle", "send", "queue"}]
      /\ pev \in [Writers -> Events \cup {None}]
      /\ wev \in [Writers -> Events \cup {None}]
      /\ None \notin Events /\ accepted \subseteq Events /\ returned \subseteq Events
  BY QueueAssumption DEF BrokerInv, PublishersOK, OneRoad, QueueInv, Working, TypeOK, WritersOK,
                         HistoryOK, QueueAssumption
<1>3. ASSUME NEW w \in Writers, NEW e \in Events, Publish(w, e) PROVE BrokerInv'
  <2>1. /\ UNCHANGED <<vars, direct, returned>> /\ pev' = [pev EXCEPT ![w] = e]
        /\ e \notin accepted \cup returned /\ \A v \in Writers : pev[v] # e /\ wev[v] # e
        /\ \E pc \in {"send", "queue"} : ppc' = [ppc EXCEPT ![w] = pc]
    BY <1>3 DEF Publish
  <2>2. PublishersOK' BY <1>2, <2>1 DEF BrokerInv, PublishersOK
  <2>3. PublishersFresh' /\ OneRoad'
    BY <1>2, <2>1 DEF BrokerInv, PublishersFresh, OneRoad, vars, tables, writers, cli, history
  <2> QED BY <1>1, <2>2, <2>3 DEF BrokerInv
<1>4. ASSUME NEW w \in Writers, SendOk(w) PROVE BrokerInv'
  <2>1. /\ UNCHANGED vars /\ pev' = [pev EXCEPT ![w] = None] /\ ppc' = [ppc EXCEPT ![w] = "idle"]
        /\ direct' = direct \cup {pev[w]} /\ returned' = returned \cup {pev[w]}
        /\ pev[w] \in Events
    BY <1>4 DEF SendOk, BrokerInv, PublishersOK
  <2>2. PublishersOK' BY <1>2, <2>1 DEF BrokerInv, PublishersOK
  <2>3. OneRoad'
    BY <1>2, <2>1 DEF BrokerInv, PublishersFresh, OneRoad, vars, tables, cli, history
  <2>4. PublishersFresh'
    BY <1>2, <2>1 DEF BrokerInv, PublishersFresh, vars, writers, history
  <2> QED BY <1>1, <2>2, <2>3, <2>4 DEF BrokerInv
<1>5. ASSUME NEW w \in Writers, SendErr(w) PROVE BrokerInv'
  <2>1. UNCHANGED <<vars, pev, direct, returned>> /\ ppc' = [ppc EXCEPT ![w] = "queue"]
        /\ pev[w] \in Events
    BY <1>5 DEF SendErr, BrokerInv, PublishersOK
  <2>2. PublishersOK' BY <1>2, <2>1 DEF BrokerInv, PublishersOK
  <2>3. PublishersFresh' /\ OneRoad'
    BY <2>1 DEF BrokerInv, PublishersFresh, OneRoad, vars, tables, writers, cli, history
  <2> QED BY <1>1, <2>2, <2>3 DEF BrokerInv
\* The event passes from publish() to enqueue().
<1>6. ASSUME NEW w \in Writers, Enqueue(w) PROVE BrokerInv'
  <2>1. /\ UNCHANGED <<tables, cli, history, direct, returned>>
        /\ pev' = [pev EXCEPT ![w] = None] /\ ppc' = [ppc EXCEPT ![w] = "idle"]
        /\ wev' = [wev EXCEPT ![w] = pev[w]] /\ pev[w] \in Events
    BY <1>6 DEF Enqueue, EnqueueCount, BrokerInv, PublishersOK
  <2>2. PublishersOK' BY <1>2, <2>1 DEF BrokerInv, PublishersOK
  <2>3. OneRoad'
    BY <2>1 DEF BrokerInv, OneRoad, tables, cli, history
  <2>4. PublishersFresh' BY <1>2, <2>1 DEF BrokerInv, PublishersFresh, history
  <2> QED BY <1>1, <2>2, <2>3, <2>4 DEF BrokerInv
<1>7. CASE UNCHANGED <<vars, ppc, pev, direct, returned>>
  BY <1>1, <1>7 DEF BrokerInv, PublishersOK, PublishersFresh, OneRoad,
                    vars, tables, writers, cli, history
<1>8. ASSUME NEW w \in Writers, (WriterStep(w) \/ EnqueueError(w)) /\ UNCHANGED broker
      PROVE  BrokerInv'
  BY <1>1, <1>8, QueueTaskKeeps DEF QueueTask, broker
<1>9. ASSUME NEW d \in Drainers, DrainTask(d) \/ DrainFail(d) PROVE BrokerInv'
  <2>1. CASE DrainStart(d) \/ DrainStep(d) \/ DrainError(d)
    <3>1. UNCHANGED <<ppc, pev, direct, returned>>
      BY <1>9 DEF DrainTask, DrainBegin, DrainFail, broker
    <3> QED BY <1>1, <2>1, <3>1, QueueTaskKeeps DEF QueueTask
  <2>2. CASE ~(DrainStart(d) \/ DrainStep(d) \/ DrainError(d))
    BY <1>7, <1>9, <2>2 DEF DrainTask, DrainBegin, DrainFail
  <2> QED BY <2>1, <2>2
<1>10. CASE Restart
  BY <1>1, <1>10, QueueTaskKeeps DEF QueueTask, Restart
<1>11. CASE OperatorStep /\ UNCHANGED broker
  BY <1>1, <1>11, QueueTaskKeeps DEF QueueTask, broker
<1>12. CASE Monitor \/ Flip \/ Tick \/ UNCHANGED brokerVars
  BY <1>7, <1>12 DEF Monitor, MonitorDown, MonitorUp, Flip, Tick, brokerVars, broker
<1> QED
  BY <1>3, <1>4, <1>5, <1>6, <1>8, <1>9, <1>10, <1>11, <1>12 DEF BrokerNext, PublisherStep

\* The invariant holds throughout.
LEMMA BrokerInvariance == BrokerSpec => []BrokerInv
<1>1. BrokerInit => BrokerInv
  <2> SUFFICES ASSUME BrokerInit PROVE BrokerInv
    OBVIOUS
  <2>1. QueueInv BY QueueInit DEF BrokerInit
  <2> QED BY <2>1 DEF BrokerInit, Init, BrokerInv, PublishersOK, PublishersFresh, OneRoad
<1>2. BrokerInv /\ [BrokerNext]_brokerVars => BrokerInv' BY BrokerStep
<1> QED BY <1>1, <1>2, PTL DEF BrokerSpec

\* nats.rs uses the disk queue as disk_queue.rs means it to be used: seen from
\* its tables and callers, every behaviour of the broker is one of DiskQueue.
THEOREM BrokerRunsTheQueue == BrokerSpec => Spec
<1>1. BrokerInit => Init BY DEF BrokerInit
<1>2. BrokerInv /\ [BrokerNext]_brokerVars => [Next]_vars
  BY BrokerStepIsQueueStep DEF BrokerInv
<1> QED BY <1>1, <1>2, BrokerInvariance, PTL DEF BrokerSpec, Spec

\* publish() that returned Ok left the event with the client, in a table, or
\* with a drain, or it left by the cap or the operator: for any number of
\* publishers, restarts and operator commands.
THEOREM OkIsStored == BrokerSpec => []OkMeansStored
<1>1. BrokerInv => OkMeansStored
  BY DEF BrokerInv, QueueInv, NothingVanishes, OneRoad, OkMeansStored
<1> QED BY <1>1, BrokerInvariance, PTL

\* Breaker, monitor and overlapping drains: an event reaches the client once,
\* and once more for each fault or replay at most.
THEOREM OneCopy == BrokerSpec => []OneCopyPerFault
<1>1. BrokerInv => OneCopyPerFault
  <2> SUFFICES ASSUME BrokerInv, NEW e \in Events
               PROVE  sent[e] + (IF e \in direct THEN 1 ELSE 0) <= 1 + faults + replays
    BY DEF OneCopyPerFault
  <2>1. faults \in Nat /\ replays \in Nat /\ sent[e] \in Nat BY Counters DEF BrokerInv, QueueInv
  <2>2. CASE e \in direct
    BY <2>1, <2>2 DEF BrokerInv, OneRoad, QueueInv, Unaccepted
  <2>3. CASE e \notin direct
    BY <2>1, <2>3 DEF BrokerInv, QueueInv, DuplicatesNeedFaults
  <2> QED BY <2>2, <2>3
<1> QED BY <1>1, BrokerInvariance, PTL
=============================================================================
