------------------------------ MODULE DiskQueue ------------------------------
(***************************************************************************)
(* The SQLite-backed disk queue behind NatsBroker                          *)
(* (crates/broker/src/disk_queue.rs): the tables pending_events and        *)
(* dead_letters, shared by the concurrent enqueue() calls of the daemon    *)
(* (Writers), by the drain_nats() tasks its state monitor spawns           *)
(* (Drainers), and by one `agent dlq` command line process (the operator). *)
(* Every SQL statement or transaction is one atomic step; whatever happens *)
(* between two awaits of a caller can happen between its steps.            *)
(*                                                                         *)
(* Topics and payloads are left out: a row is its event id.  An id is      *)
(* enqueued until one enqueue() of it returns Ok, and never again (ids are *)
(* fresh UUIDs).  enqueued_at is abstracted to the order of the rows with  *)
(* ties (two rows of one millisecond).  Backpressure sleeps are delays,    *)
(* which interleaving already allows.                                      *)
(***************************************************************************)
EXTENDS Integers, Sequences, FiniteSets

CONSTANTS Events,       \* ids of the events handed to enqueue()
          Poison,       \* ids whose stored payload no longer deserializes
          Writers,      \* concurrent enqueue() calls
          Drainers,     \* concurrent drain_nats() tasks
          None,         \* not an event, not a writer
          MaxPending,   \* limits.max_pending, the hard cap
          DrainBatch,   \* LIMIT of the drain's SELECT (100 in the code)
          MaxAttempts,  \* DEFAULT_MAX_ATTEMPTS
          MaxFaults,    \* bound: crashes and database errors
          MaxReplays    \* bound: replays that insert a row

ASSUME QueueAssumption ==
    /\ IsFiniteSet(Events) /\ IsFiniteSet(Writers) /\ Poison \subseteq Events
    /\ None \notin Events /\ None \notin Writers
    /\ MaxPending \in Nat \ {0} /\ DrainBatch \in Nat \ {0}
    /\ MaxAttempts \in Nat \ {0} /\ MaxFaults \in Nat /\ MaxReplays \in Nat

VARIABLES
    pending,    \* ids in pending_events
    attempts,   \* the attempts column (0 for an id that is not there)
    stamp,      \* the enqueued_at column (0 for an id that is not there)
    dead,       \* ids in dead_letters
    wpc, wev,   \* per writer: its next step and its event
    capHolder,  \* the holder of cap_serializer
    dpc,        \* per drainer: its next step
    batch,      \* per drainer: the rows selected and not yet handled
    seen,       \* per drainer: the attempts column as selected
    draining,   \* drain_running
    rpc, rev    \* the operator: next step of `dlq replay`, its event

(***************************************************************************)
(* What happened, for the properties only.                                 *)
(***************************************************************************)
VARIABLES
    accepted,   \* events whose enqueue() returned Ok
    evicted,    \* events dropped at the cap
    purged,     \* events deleted by `dlq purge`
    ignored,    \* events whose move to dead_letters found a row already there
    sent,       \* how often a drain handed the event to NATS
    tries,      \* failed publishes since the row was last enqueued, or replayed
                \* with no drain holding it
    faults, replays

tables  == <<pending, attempts, stamp, dead>>
writers == <<wpc, wev, capHolder>>
drains  == <<dpc, batch, seen, draining>>
cli     == <<rpc, rev>>
history == <<accepted, evicted, purged, ignored, sent, tries, faults, replays>>
vars    == <<tables, writers, drains, cli, history>>

Unread == [e \in Events |-> 0]  \* no rows selected

TablesOK ==
    /\ pending \subseteq Events /\ dead \subseteq Events
    /\ attempts \in [Events -> 0 .. MaxAttempts - 1]
    /\ stamp \in [Events -> Nat]

WritersOK ==
    /\ wpc \in [Writers -> {"idle", "lock", "recount", "evict", "insert"}]
    /\ wev \in [Writers -> Events \cup {None}]
    /\ capHolder \in Writers \cup {None}

DrainsOK ==
    /\ dpc \in [Drainers -> {"idle", "select", "publish", "delete", "failed"}]
    /\ batch \in [Drainers -> Seq(Events)]
    /\ seen \in [Drainers -> [Events -> 0 .. MaxAttempts - 1]]
    /\ draining \in BOOLEAN

CliOK == rpc \in {"idle", "insert", "delete"} /\ rev \in Events \cup {None}

HistoryOK ==
    /\ accepted \subseteq Events /\ evicted \subseteq Events
    /\ purged \subseteq Events /\ ignored \subseteq Events
    /\ sent \in [Events -> Nat] /\ tries \in [Events -> Nat]
    /\ faults \in 0 .. MaxFaults /\ replays \in 0 .. MaxReplays

\* The columns, the steps of the callers and the counters have their types; an
\* attempts column never reaches DEFAULT_MAX_ATTEMPTS.
TypeOK == TablesOK /\ WritersOK /\ DrainsOK /\ CliOK /\ HistoryOK

Init ==
    /\ pending = {} /\ dead = {}
    /\ attempts = [e \in Events |-> 0] /\ stamp = [e \in Events |-> 0]
    /\ wpc = [w \in Writers |-> "idle"] /\ wev = [w \in Writers |-> None]
    /\ capHolder = None
    /\ dpc = [d \in Drainers |-> "idle"] /\ batch = [d \in Drainers |-> <<>>]
    /\ seen = [d \in Drainers |-> Unread]
    /\ draining = FALSE
    /\ rpc = "idle" /\ rev = None
    /\ accepted = {} /\ evicted = {} /\ purged = {} /\ ignored = {}
    /\ sent = [e \in Events |-> 0] /\ tries = [e \in Events |-> 0]
    /\ faults = 0 /\ replays = 0

-----------------------------------------------------------------------------
(***************************************************************************)
(* The two tables.                                                         *)
(***************************************************************************)

\* The row the cap's DELETE picks: ORDER BY enqueued_at ASC LIMIT 1.
Oldest(e) == e \in pending /\ \A x \in pending : stamp[e] <= stamp[x]

\* INSERT of a row for e with attempts 0, replacing the one that is there;
\* now_ms() is not before the enqueued_at of any row, and may equal the last.
PutRow(e) ==
    /\ pending' = pending \cup {e}
    /\ attempts' = [attempts EXCEPT ![e] = 0]
    /\ \E last \in {stamp[x] : x \in pending} \cup {0} :
          /\ \A x \in pending : stamp[x] <= last
          /\ \E now \in {last, last + 1} : stamp' = [stamp EXCEPT ![e] = now]

\* DELETE FROM pending_events WHERE id = e.
DropRow(e) ==
    /\ pending' = pending \ {e}
    /\ attempts' = [attempts EXCEPT ![e] = 0]
    /\ stamp' = [stamp EXCEPT ![e] = 0]

\* The transaction of move_to_dlq: INSERT OR IGNORE, then DELETE.
MoveToDlq(e) ==
    /\ dead' = dead \cup {e}
    /\ ignored' = IF e \in dead THEN ignored \cup {e} ELSE ignored
    /\ DropRow(e)

AtCap == Cardinality(pending) >= MaxPending

-----------------------------------------------------------------------------
(***************************************************************************)
(* enqueue(): count, and at the cap lock, recount, sleep, evict, unlock;   *)
(* then insert.  The cap guard is released before the insert.              *)
(***************************************************************************)

Goto(w, pc) == wpc' = [wpc EXCEPT ![w] = pc]

\* enqueue(e) is called and reads pending_count() for the first time.
EnqueueCount(w, e) ==
    /\ wpc[w] = "idle" /\ e \notin accepted
    /\ \A v \in Writers : wev[v] # e
    /\ wev' = [wev EXCEPT ![w] = e]
    /\ Goto(w, IF AtCap THEN "lock" ELSE "insert")
    /\ UNCHANGED <<tables, capHolder, drains, cli, history>>

EnqueueLock(w) ==
    /\ wpc[w] = "lock" /\ capHolder = None
    /\ capHolder' = w /\ Goto(w, "recount")
    /\ UNCHANGED <<tables, wev, drains, cli, history>>

\* The second count, inside the critical section.
EnqueueRecountKeepsAll(w) ==
    /\ wpc[w] = "recount"
    /\ Goto(w, "insert") /\ capHolder' = None
    /\ UNCHANGED <<tables, wev, drains, cli, history>>
EnqueueRecount(w) ==
    /\ wpc[w] = "recount"
    /\ IF AtCap THEN Goto(w, "evict") /\ UNCHANGED capHolder
                ELSE Goto(w, "insert") /\ capHolder' = None
    /\ UNCHANGED <<tables, wev, drains, cli, history>>

\* The DELETE of the oldest row, after the backpressure sleep.
EnqueueEvict(w) ==
    /\ wpc[w] = "evict"
    /\ IF pending = {} THEN UNCHANGED <<pending, attempts, stamp, evicted>>
       ELSE \E e \in pending : Oldest(e) /\ DropRow(e)
                               /\ evicted' = evicted \cup {e}
    /\ Goto(w, "insert") /\ capHolder' = None
    /\ UNCHANGED <<dead, wev, drains, cli,
                   accepted, purged, ignored, sent, tries, faults, replays>>

\* INSERT OR IGNORE, and enqueue() returns Ok.
EnqueueInsert(w) ==
    /\ wpc[w] = "insert"
    /\ IF wev[w] \in pending THEN UNCHANGED <<pending, attempts, stamp, tries>>
       ELSE PutRow(wev[w]) /\ tries' = [tries EXCEPT ![wev[w]] = 0]
    /\ accepted' = accepted \cup {wev[w]}
    /\ Goto(w, "idle") /\ wev' = [wev EXCEPT ![w] = None]
    /\ UNCHANGED <<dead, capHolder, drains, cli,
                   evicted, purged, ignored, sent, faults, replays>>

\* A statement of enqueue() fails: it returns Err and drops its guard.
EnqueueErrorKeepsLock(w) ==
    /\ wpc[w] \in {"recount", "evict", "insert"} /\ faults < MaxFaults
    /\ Goto(w, "idle") /\ wev' = [wev EXCEPT ![w] = None]
    /\ faults' = faults + 1
    /\ UNCHANGED <<tables, capHolder, drains, cli,
                   accepted, evicted, purged, ignored, sent, tries, replays>>
EnqueueError(w) ==
    /\ wpc[w] \in {"recount", "evict", "insert"} /\ faults < MaxFaults
    /\ capHolder' = IF capHolder = w THEN None ELSE capHolder
    /\ Goto(w, "idle") /\ wev' = [wev EXCEPT ![w] = None]
    /\ faults' = faults + 1
    /\ UNCHANGED <<tables, drains, cli,
                   accepted, evicted, purged, ignored, sent, tries, replays>>

-----------------------------------------------------------------------------
(***************************************************************************)
(* drain_nats().                                                           *)
(***************************************************************************)

DGoto(d, pc) == dpc' = [dpc EXCEPT ![d] = pc]

\* The compare_exchange on drain_running.  A drain that finds it set returns
\* Ok(0) at once and leaves no trace.
DrainStartUnguarded(d) ==
    /\ dpc[d] = "idle"
    /\ draining' = TRUE /\ DGoto(d, "select")
    /\ UNCHANGED <<tables, writers, batch, seen, cli, history>>
DrainStart(d) ==
    /\ dpc[d] = "idle" /\ ~draining
    /\ draining' = TRUE /\ DGoto(d, "select")
    /\ UNCHANGED <<tables, writers, batch, seen, cli, history>>

BatchSize == IF Cardinality(pending) < DrainBatch THEN Cardinality(pending)
                                                  ELSE DrainBatch

\* s lists the DrainBatch oldest rows, oldest first.
IsBatch(s) ==
    /\ \A i, j \in DOMAIN s : i < j => s[i] # s[j] /\ stamp[s[i]] <= stamp[s[j]]
    /\ \A i \in DOMAIN s, x \in pending :
          (\A j \in DOMAIN s : s[j] # x) => stamp[s[i]] <= stamp[x]

\* The SELECT; with no row the drain is over and its guard resets the flag.
DrainSelect(d) ==
    /\ dpc[d] = "select"
    /\ \E s \in [1 .. BatchSize -> pending] :
          IsBatch(s) /\ batch' = [batch EXCEPT ![d] = s]
    /\ seen' = [seen EXCEPT ![d] = attempts]
    /\ IF pending = {} THEN DGoto(d, "idle") /\ draining' = FALSE
                       ELSE DGoto(d, "publish") /\ UNCHANGED draining
    /\ UNCHANGED <<tables, writers, cli, history>>

\* The row handled is the first of the batch; after it the loop goes on, or
\* the drain returns and its guard resets the flag.
Row(d) == Head(batch[d])
NextRow(d) ==
    /\ batch' = [batch EXCEPT ![d] = Tail(batch[d])]
    /\ IF Len(batch[d]) = 1
       THEN /\ DGoto(d, "idle") /\ draining' = FALSE
            /\ seen' = [seen EXCEPT ![d] = Unread]
       ELSE DGoto(d, "publish") /\ UNCHANGED <<draining, seen>>

\* A payload that does not deserialize goes to dead_letters without a try.
DrainPoison(d) ==
    /\ dpc[d] = "publish" /\ Row(d) \in Poison
    /\ MoveToDlq(Row(d)) /\ NextRow(d)
    /\ UNCHANGED <<writers, cli,
                   accepted, evicted, purged, sent, tries, faults, replays>>

\* client.publish returns Ok; the DELETE comes in a step of its own.
DrainPublish(d) ==
    /\ dpc[d] = "publish" /\ Row(d) \notin Poison
    /\ sent' = [sent EXCEPT ![Row(d)] = @ + 1]
    /\ DGoto(d, "delete")
    /\ UNCHANGED <<tables, writers, batch, seen, draining, cli,
                   accepted, evicted, purged, ignored, tries, faults, replays>>

DrainDelete(d) ==
    /\ dpc[d] = "delete"
    /\ DropRow(Row(d)) /\ NextRow(d)
    /\ UNCHANGED <<dead, writers, cli, history>>

\* client.publish returns Err.
DrainRefusedDeletes(d) ==
    /\ dpc[d] = "publish" /\ Row(d) \notin Poison
    /\ tries' = [tries EXCEPT ![Row(d)] = @ + 1]
    /\ DGoto(d, "delete")
    /\ UNCHANGED <<tables, writers, batch, seen, draining, cli,
                   accepted, evicted, purged, ignored, sent, faults, replays>>
DrainRefused(d) ==
    /\ dpc[d] = "publish" /\ Row(d) \notin Poison
    /\ tries' = [tries EXCEPT ![Row(d)] = @ + 1]
    /\ DGoto(d, "failed")
    /\ UNCHANGED <<tables, writers, batch, seen, draining, cli,
                   accepted, evicted, purged, ignored, sent, faults, replays>>

\* attempts + 1 of the row as selected: the move to dead_letters, or the UPDATE,
\* which changes nothing when the row is gone.
LastTryEarly(n) == n + 2 >= MaxAttempts
LastTry(n) == n + 1 >= MaxAttempts
DrainCount(d) ==
    /\ dpc[d] = "failed"
    /\ IF LastTry(seen[d][Row(d)])
       THEN MoveToDlq(Row(d))
       ELSE /\ attempts' = IF Row(d) \in pending
                         THEN [attempts EXCEPT ![Row(d)] = seen[d][Row(d)] + 1]
                         ELSE attempts
            /\ UNCHANGED <<pending, stamp, dead, ignored>>
    /\ NextRow(d)
    /\ UNCHANGED <<writers, cli,
                   accepted, evicted, purged, sent, tries, faults, replays>>

\* A statement of the drain fails: it returns Err and the guard resets the flag.
DrainErrorKeepsFlag(d) ==
    /\ dpc[d] # "idle" /\ faults < MaxFaults
    /\ DGoto(d, "idle") /\ batch' = [batch EXCEPT ![d] = <<>>]
    /\ seen' = [seen EXCEPT ![d] = Unread]
    /\ faults' = faults + 1
    /\ UNCHANGED <<tables, writers, draining, cli,
                   accepted, evicted, purged, ignored, sent, tries, replays>>
DrainError(d) ==
    /\ dpc[d] # "idle" /\ faults < MaxFaults
    /\ DGoto(d, "idle") /\ batch' = [batch EXCEPT ![d] = <<>>]
    /\ draining' = FALSE
    /\ seen' = [seen EXCEPT ![d] = Unread]
    /\ faults' = faults + 1
    /\ UNCHANGED <<tables, writers, cli,
                   accepted, evicted, purged, ignored, sent, tries, replays>>

-----------------------------------------------------------------------------
(***************************************************************************)
(* `agent dlq replay` and `agent dlq purge`, in a process of their own.    *)
(***************************************************************************)

ReplaySelect(e) ==
    /\ rpc = "idle" /\ e \in dead
    /\ rpc' = "insert" /\ rev' = e
    /\ UNCHANGED <<tables, writers, drains, history>>

\* The drain d has still to handle e, with the attempts column as it read it.
InBatch(d, e) == \E i \in DOMAIN batch[d] : batch[d][i] = e
Held(e) == \E d \in Drainers : InBatch(d, e)

\* INSERT OR REPLACE: no cap check, attempts back to 0.
ReplayInsert ==
    /\ rpc = "insert" /\ replays < MaxReplays
    /\ PutRow(rev) /\ tries' = IF Held(rev) THEN tries ELSE [tries EXCEPT ![rev] = 0]
    /\ replays' = replays + 1
    /\ rpc' = "delete"
    /\ UNCHANGED <<dead, writers, drains, rev,
                   accepted, evicted, purged, ignored, sent, faults>>

ReplayDelete ==
    /\ rpc = "delete"
    /\ dead' = dead \ {rev}
    /\ rpc' = "idle" /\ rev' = None
    /\ UNCHANGED <<pending, attempts, stamp, writers, drains, history>>

\* The command is killed, or one of its statements fails.
ReplayAbort ==
    /\ rpc # "idle" /\ faults < MaxFaults
    /\ rpc' = "idle" /\ rev' = None
    /\ faults' = faults + 1
    /\ UNCHANGED <<tables, writers, drains,
                   accepted, evicted, purged, ignored, sent, tries, replays>>

Purge ==
    /\ rpc = "idle" /\ dead # {}
    /\ dead' = {} /\ purged' = purged \cup dead
    /\ UNCHANGED <<pending, attempts, stamp, writers, drains, cli,
                   accepted, evicted, ignored, sent, tries, faults, replays>>

\* The daemon dies; the tables stay, everything in memory is gone.
Forget ==
    /\ wpc' = [w \in Writers |-> "idle"] /\ wev' = [w \in Writers |-> None]
    /\ capHolder' = None
    /\ dpc' = [d \in Drainers |-> "idle"] /\ batch' = [d \in Drainers |-> <<>>]
    /\ seen' = [d \in Drainers |-> Unread]
    /\ draining' = FALSE
Crash ==
    /\ faults < MaxFaults /\ faults' = faults + 1
    /\ Forget
    /\ UNCHANGED <<tables, cli,
                   accepted, evicted, purged, ignored, sent, tries, replays>>

-----------------------------------------------------------------------------
WriterStep(w) ==
    \/ EnqueueLock(w) \/ EnqueueRecount(w) \/ EnqueueEvict(w)
    \/ EnqueueInsert(w)

DrainStep(d) ==
    \/ DrainSelect(d) \/ DrainPoison(d) \/ DrainPublish(d) \/ DrainRefused(d)
    \/ DrainDelete(d) \/ DrainCount(d)

OperatorStep == \/ \E e \in Events : ReplaySelect(e)
                \/ ReplayInsert \/ ReplayDelete \/ ReplayAbort \/ Purge

Next ==
    \/ \E w \in Writers, e \in Events : EnqueueCount(w, e)
    \/ \E w \in Writers : WriterStep(w) \/ EnqueueError(w)
    \/ \E d \in Drainers : DrainStart(d) \/ DrainStep(d) \/ DrainError(d)
    \/ OperatorStep
    \/ Crash

Spec == Init /\ [][Next]_vars

-----------------------------------------------------------------------------
(***************************************************************************)
(* Properties.                                                             *)
(***************************************************************************)

Inserting == {w \in Writers : wpc[w] = "insert"}

\* The cap is checked in one step and used in another, outside the lock, and a
\* replay does not check it at all; still the queue outgrows max_pending by at
\* most the other concurrent enqueue() calls and the replayed rows, however
\* long the outage, because every later enqueue() evicts before it inserts.
OvershootBounded ==
    Cardinality(pending) <= MaxPending + Cardinality(Writers) - 1 + replays

\* Why: a writer past the check has already been counted.
RoomIsReserved ==
    Cardinality(pending) + Cardinality(Inserting)
        <= MaxPending + Cardinality(Writers) - 1 + replays

\* An event whose enqueue() returned Ok is in a table, was handed to NATS, or
\* was dropped by a cap eviction or a purge; the one other way to lose it is a
\* drain that moves a half-replayed row onto its own dead letter.
NothingVanishes ==
    \A e \in accepted : \/ e \in pending \cup dead \cup evicted \cup purged
                        \/ sent[e] > 0
                        \/ e \in ignored

\* drain_running: without a fault or a replay no event is published twice, and
\* each fault or replay costs at most one more copy of it.
DuplicatesNeedFaults == \A e \in Events : sent[e] <= 1 + faults + replays

\* drain_nats works on copies of the rows; all the same a readable event only
\* becomes a dead letter after MaxAttempts failed publishes since it was
\* enqueued, or replayed while no drain had a copy of it in hand.
DeadOnlyAfterTries ==
    [][\A e \in dead' \ dead : e \in Poison \/ tries[e] >= MaxAttempts]_vars

\* enqueue() always returns: nobody waits for cap_serializer for ever.
EnqueueReturns == \A w \in Writers : wpc[w] # "idle" ~> wpc[w] = "idle"

\* What the docs say of dead letters: they are not silently discarded.
DeadLettersAreKept ==
    \A e \in accepted : \/ e \in pending \cup dead \cup evicted \cup purged
                        \/ sent[e] > 0
=============================================================================
