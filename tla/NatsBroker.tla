------------------------------ MODULE NatsBroker ------------------------------
(***************************************************************************)
(* crates/broker/src/nats.rs: publish() over a circuit breaker with the    *)
(* disk queue behind it, and the state monitor that polls the connection,  *)
(* trips and resets the breaker and spawns the drains.  Composes Breaker   *)
(* and DiskQueue; a publisher is a writer of the disk queue.               *)
(*                                                                         *)
(* async-nats is external: the connection goes up and down by itself, and  *)
(* client.publish may answer Ok (the client took the message) or Err in    *)
(* either state.                                                           *)
(***************************************************************************)
EXTENDS DiskQueue, Breaker

VARIABLES
    conn,       \* client.connection_state(): "up", or "down" (Pending too)
    last,       \* last_state of the monitor
    brk,        \* the breaker
    ppc, pev,   \* per publisher: step inside publish(), its event
    due,        \* drains spawned by the monitor that have not run yet
    direct,     \* history: events the client took from publish()
    returned    \* history: events whose publish() returned Ok without a queue

broker     == <<conn, last, brk, ppc, pev, due, direct, returned>>
brokerVars == <<vars, broker>>

\* connect(): fails unless the server answers, so the monitor starts "up".
BrokerInit ==
    /\ Init
    /\ conn = "up" /\ last = "up" /\ brk = NewBreaker
    /\ ppc = [w \in Writers |-> "idle"] /\ pev = [w \in Writers |-> None]
    /\ due = {} /\ direct = {} /\ returned = {}

-----------------------------------------------------------------------------
(***************************************************************************)
(* publish().                                                              *)
(***************************************************************************)

\* allow() decides between the client and the disk queue.
Publish(w, e) ==
    /\ ppc[w] = "idle" /\ wpc[w] = "idle"
    /\ e \notin accepted \cup returned
    /\ \A v \in Writers : pev[v] # e /\ wev[v] # e
    /\ pev' = [pev EXCEPT ![w] = e]
    /\ ppc' = [ppc EXCEPT ![w] = IF Allowed(brk) THEN "send" ELSE "queue"]
    /\ brk' = AfterAllow(brk)
    /\ UNCHANGED <<vars, conn, last, due, direct, returned>>

SendOk(w) ==
    /\ ppc[w] = "send"
    /\ brk' = OnSuccess(brk)
    /\ direct' = direct \cup {pev[w]} /\ returned' = returned \cup {pev[w]}
    /\ ppc' = [ppc EXCEPT ![w] = "idle"] /\ pev' = [pev EXCEPT ![w] = None]
    /\ UNCHANGED <<vars, conn, last, due>>

\* The first failure trips the breaker and the event goes to disk.
SendErrOnlyTrips(w) ==
    /\ ppc[w] = "send"
    /\ brk' = TripBreaker(brk) /\ returned' = returned \cup {pev[w]}
    /\ ppc' = [ppc EXCEPT ![w] = "idle"] /\ pev' = [pev EXCEPT ![w] = None]
    /\ UNCHANGED <<vars, conn, last, due, direct>>
SendErr(w) ==
    /\ ppc[w] = "send"
    /\ brk' = TripBreaker(brk)
    /\ ppc' = [ppc EXCEPT ![w] = "queue"]
    /\ UNCHANGED <<vars, conn, last, pev, due, direct, returned>>

\* disk_queue.enqueue() takes over; publish() returns what it returns.
Enqueue(w) ==
    /\ ppc[w] = "queue"
    /\ EnqueueCount(w, pev[w])
    /\ ppc' = [ppc EXCEPT ![w] = "idle"] /\ pev' = [pev EXCEPT ![w] = None]
    /\ UNCHANGED <<conn, last, brk, due, direct, returned>>

-----------------------------------------------------------------------------
(***************************************************************************)
(* spawn_state_monitor().                                                  *)
(***************************************************************************)

\* A poll that finds the connection gone.
MonitorDown ==
    /\ last = "up" /\ conn = "down"
    /\ last' = conn /\ brk' = TripBreaker(brk)
    /\ UNCHANGED <<vars, conn, ppc, pev, due, direct, returned>>

\* A poll that finds the connection back: reset, and spawn a drain.  Bound: at
\* most |Drainers| drains are spawned or running at a time.
MonitorUp ==
    /\ last = "down" /\ conn = "up"
    /\ \E d \in Drainers \ due : dpc[d] = "idle" /\ due' = due \cup {d}
    /\ last' = conn /\ brk' = ResetBreaker
    /\ UNCHANGED <<vars, conn, ppc, pev, direct, returned>>

\* A spawned drain starts, or skips when another one is running.
DrainBegin(d) ==
    /\ d \in due /\ due' = due \ {d}
    /\ DrainStart(d) \/ (draining /\ UNCHANGED vars)
    /\ UNCHANGED <<conn, last, brk, ppc, pev, direct, returned>>

\* A drain that returns Err trips the breaker again.
DrainFail(d) ==
    /\ DrainError(d)
    /\ brk' = TripBreaker(brk)
    /\ UNCHANGED <<conn, last, ppc, pev, due, direct, returned>>

-----------------------------------------------------------------------------
(***************************************************************************)
(* The surroundings: the network, time, and the daemon's own death.        *)
(***************************************************************************)

Flip ==
    /\ conn' = IF conn = "up" THEN "down" ELSE "up"
    /\ UNCHANGED <<vars, last, brk, ppc, pev, due, direct, returned>>

Tick ==
    /\ brk.left > 0 /\ brk' = TickBreaker(brk)
    /\ UNCHANGED <<vars, conn, last, ppc, pev, due, direct, returned>>

\* The daemon dies and connect() runs again: a new breaker, a new monitor, the
\* old tables, and no drain.
Restart ==
    /\ Crash
    /\ conn' = "up" /\ last' = "up" /\ brk' = NewBreaker
    /\ ppc' = [w \in Writers |-> "idle"] /\ pev' = [w \in Writers |-> None]
    /\ due' = {}
    /\ UNCHANGED <<direct, returned>>

PublisherStep(w) ==
    \/ SendOk(w) \/ SendErr(w) \/ Enqueue(w)
    \/ WriterStep(w) /\ UNCHANGED broker

DrainTask(d) == DrainBegin(d) \/ (DrainStep(d) /\ UNCHANGED broker)

Monitor == MonitorDown \/ MonitorUp

BrokerNext ==
    \/ \E w \in Writers, e \in Events : Publish(w, e)
    \/ \E w \in Writers :
          PublisherStep(w) \/ (EnqueueError(w) /\ UNCHANGED broker)
    \/ \E d \in Drainers : DrainTask(d) \/ DrainFail(d)
    \/ Monitor \/ Flip \/ Tick \/ Restart
    \/ OperatorStep /\ UNCHANGED broker

BrokerSpec == BrokerInit /\ [][BrokerNext]_brokerVars

\* Tokio polls spawned tasks to completion, the monitor polls every 500 ms,
\* time passes, and a broken connection is retried by the client for ever.
BrokerLiveSpec ==
    /\ BrokerSpec
    /\ \A w \in Writers : WF_brokerVars(PublisherStep(w))
    /\ \A d \in Drainers : WF_brokerVars(DrainTask(d))
    /\ WF_brokerVars(Monitor) /\ WF_brokerVars(Tick)
    /\ WF_brokerVars(conn = "down" /\ Flip)

-----------------------------------------------------------------------------
(***************************************************************************)
(* Properties.                                                             *)
(***************************************************************************)

\* publish() that returned Ok: the client took the event, or it is in a table,
\* or a drain handed it over, or the cap or the operator took it (a replay that
\* meets a drain, see DeadLettersAreKept, too).  Neither a breaker that
\* opens under a publish in flight nor a restart can lose it.
OkMeansStored ==
    \A e \in accepted \cup returned :
        \/ e \in direct \cup pending \cup dead \cup evicted \cup purged \cup ignored
        \/ sent[e] > 0

\* Reconnect storms, breaker probes and drains that overlap: without a fault
\* an event reaches the client once, and each fault or replay costs at most one
\* more copy.
OneCopyPerFault ==
    \A e \in Events :
        sent[e] + (IF e \in direct THEN 1 ELSE 0) <= 1 + faults + replays

\* If the monitor goes on seeing reconnects, every queued event leaves
\* pending_events, whatever mixture of failed publishes, failed drains,
\* skipped drains and restarts comes first.
ReconnectsDrain ==
    []<><<MonitorUp>>_brokerVars
        => \A e \in Events : e \in pending ~> e \notin pending
=============================================================================
