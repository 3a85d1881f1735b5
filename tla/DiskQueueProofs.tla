--------------------------- MODULE DiskQueueProofs ---------------------------
(***************************************************************************)
(* For any number of events, writers, drainers, faults and replays: the    *)
(* disk queue keeps its types, outgrows its cap by no more than            *)
(* OvershootBounded says, loses no accepted event without a trace, sends   *)
(* none twice without a fault or a replay, and gives up on a readable      *)
(* event only after its tries.                                             *)
(***************************************************************************)
EXTENDS DiskQueue, FiniteSetTheorems, SequenceTheorems, TLAPS

\* A caller that is in the middle of an operation has the event it works on.
WriterHasEvent == \A w \in Writers : wpc[w] # "idle" => wev[w] \in Events
DrainHasRow ==
    \A d \in Drainers :
       dpc[d] \in {"publish", "delete", "failed"} => batch[d] # <<>>
ReplayHasEvent == rpc # "idle" => rev \in Events
BusyHasWork == WriterHasEvent /\ DrainHasRow /\ ReplayHasEvent

IInv == TypeOK /\ BusyHasWork /\ RoomIsReserved

-----------------------------------------------------------------------------
\* The sets that are counted are finite.
LEMMA Finite ==
    ASSUME TypeOK
    PROVE  /\ IsFiniteSet(pending) /\ Cardinality(pending) \in Nat
           /\ IsFiniteSet(Inserting) /\ Cardinality(Inserting) \in Nat
           /\ Cardinality(Writers) \in Nat
<1>1. pending \subseteq Events /\ Inserting \subseteq Writers
  BY DEF TypeOK, TablesOK, WritersOK, Inserting
<1> QED
  BY <1>1, QueueAssumption, FS_Subset, FS_CardinalityType DEF QueueAssumption

LEMMA FinitePrimed ==
    ASSUME TypeOK'
    PROVE  /\ IsFiniteSet(pending)' /\ Cardinality(pending)' \in Nat
           /\ IsFiniteSet(Inserting)' /\ Cardinality(Inserting)' \in Nat
<1>1. pending' \subseteq Events /\ Inserting' \subseteq Writers
  BY DEF TypeOK, TablesOK, WritersOK, Inserting
<1> QED
  BY <1>1, QueueAssumption, FS_Subset, FS_CardinalityType DEF QueueAssumption

\* A writer that is not inserting is not counted among those that are.
LEMMA NotAllInserting ==
    ASSUME TypeOK, NEW w \in Writers, wpc[w] # "insert"
    PROVE  Cardinality(Inserting) <= Cardinality(Writers) - 1
<1>1. Inserting \subseteq Writers \ {w} BY DEF Inserting
<1>2. IsFiniteSet(Writers \ {w})
         /\ Cardinality(Writers \ {w}) = Cardinality(Writers) - 1
  BY QueueAssumption, FS_RemoveElement DEF QueueAssumption
<1>3. Cardinality(Inserting) <= Cardinality(Writers \ {w})
  BY <1>1, <1>2, FS_Subset
<1> QED BY <1>2, <1>3

\* What Goto does to the set of inserting writers.
LEMMA EnterInsert ==
    ASSUME TypeOK, NEW w \in Writers, wpc[w] # "insert", Goto(w, "insert")
    PROVE  Cardinality(Inserting') = Cardinality(Inserting) + 1
<1>1. Inserting' = Inserting \cup {w} /\ w \notin Inserting
  BY DEF TypeOK, WritersOK, Inserting, Goto
<1> QED BY <1>1, Finite, FS_AddElement

LEMMA LeaveInsert ==
    ASSUME TypeOK, NEW w \in Writers, wpc[w] = "insert", Goto(w, "idle")
    PROVE  Cardinality(Inserting') = Cardinality(Inserting) - 1
<1>1. Inserting' = Inserting \ {w} /\ w \in Inserting
  BY DEF TypeOK, WritersOK, Inserting, Goto
<1> QED BY <1>1, Finite, FS_RemoveElement

LEMMA StayOut ==
    ASSUME TypeOK, NEW w \in Writers, wpc[w] # "insert",
           NEW pc, pc # "insert", Goto(w, pc)
    PROVE  Inserting' = Inserting
BY DEF TypeOK, WritersOK, Inserting, Goto

\* PutRow and DropRow change the size of the table by at most one.
LEMMA PutSize ==
    ASSUME TypeOK, NEW e \in Events, PutRow(e)
    PROVE  Cardinality(pending') <= Cardinality(pending) + 1
<1>1. pending' = pending \cup {e} BY DEF PutRow
<1>2. Cardinality(pending \cup {e}) =
         IF e \in pending THEN Cardinality(pending) ELSE Cardinality(pending) + 1
  BY Finite, FS_AddElement
<1> QED BY <1>1, <1>2, Finite

LEMMA DropSize ==
    ASSUME TypeOK, NEW e, DropRow(e)
    PROVE  /\ Cardinality(pending') <= Cardinality(pending)
           /\ e \in pending => Cardinality(pending') = Cardinality(pending) - 1
<1>1. pending' = pending \ {e} BY DEF DropRow
<1> QED BY <1>1, Finite, FS_RemoveElement

-----------------------------------------------------------------------------
\* The table operations keep the columns typed.
LEMMA PutTyped ==
    ASSUME TablesOK, NEW e \in Events, PutRow(e), dead' \subseteq Events
    PROVE  TablesOK'
BY QueueAssumption DEF TablesOK, PutRow, QueueAssumption

LEMMA DropTyped ==
    ASSUME TablesOK, NEW e \in Events, DropRow(e), dead' \subseteq Events
    PROVE  TablesOK'
BY QueueAssumption DEF TablesOK, DropRow, QueueAssumption

LEMMA MoveTyped ==
    ASSUME TablesOK, ignored \subseteq Events, NEW e \in Events, MoveToDlq(e)
    PROVE  TablesOK' /\ ignored' \subseteq Events
<1>1. DropRow(e) /\ dead' \subseteq Events /\ ignored' \subseteq Events
  BY DEF MoveToDlq, TablesOK
<1> QED BY <1>1, DropTyped

LEMMA UnreadTyped ==
    Unread \in [Events -> 0 .. MaxAttempts - 1] /\ <<>> \in Seq(Events)
BY QueueAssumption DEF Unread, QueueAssumption

\* A drain that has a row has an event, and its loop stays typed.
LEMMA RowTyped ==
    ASSUME DrainsOK, DrainHasRow, NEW d \in Drainers,
           dpc[d] \in {"publish", "delete", "failed"}
    PROVE  Row(d) \in Events
BY DEF DrainsOK, DrainHasRow, Row

LEMMA NextRowTyped ==
    ASSUME DrainsOK, DrainHasRow, NEW d \in Drainers,
           dpc[d] \in {"publish", "delete", "failed"}, NextRow(d)
    PROVE  DrainsOK' /\ DrainHasRow'
<1>1. batch[d] \in Seq(Events) /\ batch[d] # <<>>
  BY DEF DrainsOK, DrainHasRow
<1>2. Tail(batch[d]) \in Seq(Events)
         /\ (Len(batch[d]) # 1 => Tail(batch[d]) # <<>>)
  <2>1. /\ Tail(batch[d]) \in Seq(Events)
        /\ Len(Tail(batch[d])) = Len(batch[d]) - 1
        /\ Len(batch[d]) \in Nat
    BY <1>1, HeadTailProperties, LenProperties
  <2>2. Len(batch[d]) # 1 => Len(Tail(batch[d])) # 0
    BY <2>1
  <2>3. Len(<<>>) = 0
    OBVIOUS
  <2>4. Tail(batch[d]) = <<>> => Len(batch[d]) = 1
    BY ONLY <2>1, <2>2, <2>3, Zenon
  <2> QED BY ONLY <2>1, <2>4, Zenon
<1>3. DrainsOK'
  BY <1>2, UnreadTyped DEF DrainsOK, NextRow, DGoto
<1>4. ASSUME NEW x \in Drainers,
             dpc'[x] \in {"publish", "delete", "failed"}
      PROVE  batch'[x] # <<>>
  BY <1>2, <1>4 DEF DrainsOK, DrainHasRow, NextRow, DGoto
<1> QED BY <1>3, <1>4 DEF DrainHasRow

-----------------------------------------------------------------------------
\* A step of the queue keeps the types, and everyone busy has work.
LEMMA TypeStep ==
    ASSUME TypeOK, BusyHasWork, [Next]_vars
    PROVE  TypeOK' /\ BusyHasWork'
<1> USE DEF BusyHasWork, TypeOK
<1>1. CASE UNCHANGED vars
  BY <1>1 DEF TablesOK, WritersOK, DrainsOK, CliOK, HistoryOK, WriterHasEvent,
              DrainHasRow, ReplayHasEvent, vars, tables, writers, drains, cli,
              history
<1>2. ASSUME NEW w \in Writers, NEW e \in Events, EnqueueCount(w, e)
      PROVE  TypeOK' /\ BusyHasWork'
  <2>1. WritersOK' /\ WriterHasEvent'
    BY <1>2 DEF EnqueueCount, Goto, WritersOK, WriterHasEvent
  <2>2. UNCHANGED <<tables, drains, cli, history>>
    BY <1>2 DEF EnqueueCount
  <2> QED
    BY <2>1, <2>2 DEF TablesOK, DrainsOK, CliOK, HistoryOK, DrainHasRow,
                      ReplayHasEvent, tables, drains, cli, history
<1>3. ASSUME NEW w \in Writers, EnqueueLock(w) \/ EnqueueRecount(w)
      PROVE  TypeOK' /\ BusyHasWork'
  <2>1. WritersOK' /\ WriterHasEvent'
    BY <1>3 DEF EnqueueLock, EnqueueRecount, Goto, WritersOK, WriterHasEvent
  <2>2. UNCHANGED <<tables, drains, cli, history>>
    BY <1>3 DEF EnqueueLock, EnqueueRecount
  <2> QED
    BY <2>1, <2>2 DEF TablesOK, DrainsOK, CliOK, HistoryOK, DrainHasRow,
                      ReplayHasEvent, tables, drains, cli, history
<1>4. ASSUME NEW w \in Writers, EnqueueEvict(w)
      PROVE  TypeOK' /\ BusyHasWork'
  <2>1. WritersOK' /\ WriterHasEvent'
    BY <1>4 DEF EnqueueEvict, Goto, WritersOK, WriterHasEvent
  <2>2. UNCHANGED <<dead, drains, cli>>
    BY <1>4 DEF EnqueueEvict
  <2>3. TablesOK' /\ evicted' \subseteq Events
    <3>1. CASE pending = {}
      BY <1>4, <3>1, <2>2 DEF EnqueueEvict, TablesOK, HistoryOK
    <3>2. CASE pending # {}
      <4>1. PICK e \in pending : DropRow(e) /\ evicted' = evicted \cup {e}
        BY <1>4, <3>2 DEF EnqueueEvict
      <4>2. e \in Events /\ dead' \subseteq Events
        BY <2>2 DEF TablesOK
      <4> QED BY <4>1, <4>2, DropTyped DEF HistoryOK
    <3> QED BY <3>1, <3>2
  <2>4. HistoryOK'
    BY <1>4, <2>3 DEF EnqueueEvict, HistoryOK
  <2> QED
    BY <2>1, <2>2, <2>3, <2>4 DEF DrainsOK, CliOK, DrainHasRow, ReplayHasEvent,
                                  drains, cli
<1>5. ASSUME NEW w \in Writers, EnqueueInsert(w)
      PROVE  TypeOK' /\ BusyHasWork'
  <2>1. WritersOK' /\ WriterHasEvent' /\ wev[w] \in Events
    BY <1>5 DEF EnqueueInsert, Goto, WritersOK, WriterHasEvent
  <2>2. UNCHANGED <<dead, drains, cli>>
    BY <1>5 DEF EnqueueInsert
  <2>3. TablesOK'
    <3>1. CASE wev[w] \in pending
      BY <1>5, <3>1, <2>2 DEF EnqueueInsert, TablesOK
    <3>2. CASE wev[w] \notin pending
      <4>1. PutRow(wev[w]) /\ dead' \subseteq Events
        BY <1>5, <3>2, <2>2 DEF EnqueueInsert, TablesOK
      <4> QED BY <4>1, <2>1, PutTyped
    <3> QED BY <3>1, <3>2
  <2>4. HistoryOK'
    BY <1>5, <2>1 DEF EnqueueInsert, HistoryOK
  <2> QED
    BY <2>1, <2>2, <2>3, <2>4 DEF DrainsOK, CliOK, DrainHasRow, ReplayHasEvent,
                                  drains, cli
<1>6. ASSUME NEW w \in Writers, EnqueueError(w)
      PROVE  TypeOK' /\ BusyHasWork'
  <2>1. WritersOK' /\ WriterHasEvent'
    BY <1>6 DEF EnqueueError, Goto, WritersOK, WriterHasEvent
  <2>2. UNCHANGED <<tables, drains, cli>> /\ HistoryOK'
    BY <1>6, QueueAssumption DEF EnqueueError, HistoryOK, QueueAssumption
  <2> QED
    BY <2>1, <2>2 DEF TablesOK, DrainsOK, CliOK, DrainHasRow,
                      ReplayHasEvent, tables, drains, cli
<1>7. ASSUME NEW d \in Drainers, DrainStart(d) \/ DrainSelect(d)
      PROVE  TypeOK' /\ BusyHasWork'
  <2>1. UNCHANGED <<tables, writers, cli, history>>
    BY <1>7 DEF DrainStart, DrainSelect
  <2>2. DrainsOK' /\ DrainHasRow'
    <3>1. CASE DrainStart(d)
      BY <3>1 DEF DrainStart, DGoto, DrainsOK, DrainHasRow
    <3>2. CASE DrainSelect(d)
      <4>1. PICK s \in [1 .. BatchSize -> pending] :
               batch' = [batch EXCEPT ![d] = s]
        BY <3>2 DEF DrainSelect
      <4>2. BatchSize \in Nat /\ (pending # {} => BatchSize > 0)
        <5>1. pending # {} => Cardinality(pending) # 0
          BY Finite, FS_EmptySet
        <5> QED BY <5>1, Finite, QueueAssumption DEF BatchSize, QueueAssumption
      <4>3. s \in Seq(Events) /\ Len(s) = BatchSize
        <5>1. s \in [1 .. BatchSize -> Events]
          BY DEF TablesOK
        <5> QED BY <5>1, <4>2
      <4>4. pending # {} => s # <<>>
        BY <4>2, <4>3
      <4>5. seen' \in [Drainers -> [Events -> 0 .. MaxAttempts - 1]]
        BY <3>2 DEF DrainSelect, DrainsOK, TablesOK
      <4>6. DrainsOK'
        BY <3>2, <4>1, <4>3, <4>5 DEF DrainSelect, DGoto, DrainsOK
      <4>7. DrainHasRow'
        BY <3>2, <4>1, <4>4 DEF DrainSelect, DGoto, DrainsOK, DrainHasRow
      <4> QED BY <4>6, <4>7
    <3> QED BY <1>7, <3>1, <3>2
  <2> QED
    BY <2>1, <2>2 DEF TablesOK, WritersOK, CliOK, HistoryOK, WriterHasEvent,
                      ReplayHasEvent, tables, writers, cli, history
<1>8. ASSUME NEW d \in Drainers, DrainPublish(d) \/ DrainRefused(d)
      PROVE  TypeOK' /\ BusyHasWork'
  <2>1. UNCHANGED <<tables, writers, cli>> /\ dpc[d] = "publish"
    BY <1>8 DEF DrainPublish, DrainRefused
  <2>2. DrainsOK' /\ DrainHasRow'
    BY <1>8 DEF DrainPublish, DrainRefused, DGoto, DrainsOK, DrainHasRow
  <2>3. Row(d) \in Events
    BY <2>1, RowTyped
  <2>4. HistoryOK'
    BY <1>8, <2>3 DEF DrainPublish, DrainRefused, HistoryOK
  <2> QED
    BY <2>1, <2>2, <2>4 DEF TablesOK, WritersOK, CliOK, WriterHasEvent,
                            ReplayHasEvent, tables, writers, cli
<1>9. ASSUME NEW d \in Drainers,
             DrainPoison(d) \/ DrainDelete(d) \/ DrainCount(d)
      PROVE  TypeOK' /\ BusyHasWork'
  <2>1. /\ UNCHANGED <<writers, cli>> /\ NextRow(d)
        /\ dpc[d] \in {"publish", "delete", "failed"}
    BY <1>9 DEF DrainPoison, DrainDelete, DrainCount
  <2>2. DrainsOK' /\ DrainHasRow' /\ Row(d) \in Events
    BY <2>1, RowTyped, NextRowTyped
  <2>3. TablesOK' /\ ignored' \subseteq Events
    <3>1. ignored \subseteq Events /\ dead \subseteq Events
      BY DEF HistoryOK, TablesOK
    <3>2. CASE MoveToDlq(Row(d))
      BY <3>2, <3>1, <2>2, MoveTyped
    <3>3. CASE DrainDelete(d)
      BY <3>3, <3>1, <2>2, DropTyped DEF DrainDelete, history
    <3>4. CASE DrainCount(d) /\ ~LastTry(seen[d][Row(d)])
      <4>1. seen[d][Row(d)] + 1 \in 0 .. MaxAttempts - 1
        BY <3>4, <2>2, QueueAssumption DEF LastTry, DrainsOK, QueueAssumption
      <4>2. UNCHANGED <<pending, stamp, dead, ignored>>
        BY <3>4 DEF DrainCount
      <4> QED BY <3>4, <4>1, <4>2, <3>1, <2>2 DEF DrainCount, TablesOK
    <3> QED BY <1>9, <3>2, <3>3, <3>4 DEF DrainPoison, DrainCount
  <2>4. HistoryOK'
    BY <1>9, <2>3 DEF DrainPoison, DrainDelete, DrainCount, HistoryOK, history
  <2> QED
    BY <2>1, <2>2, <2>3, <2>4 DEF WritersOK, CliOK, WriterHasEvent,
                                  ReplayHasEvent, writers, cli
<1>10. ASSUME NEW d \in Drainers, DrainError(d)
       PROVE  TypeOK' /\ BusyHasWork'
  <2>1. UNCHANGED <<tables, writers, cli>>
    BY <1>10 DEF DrainError
  <2>2. DrainsOK'
    BY <1>10, UnreadTyped DEF DrainError, DGoto, DrainsOK
  <2>4. DrainHasRow'
    BY <1>10 DEF DrainError, DGoto, DrainsOK, DrainHasRow
  <2>3. HistoryOK'
    BY <1>10, QueueAssumption DEF DrainError, HistoryOK, QueueAssumption
  <2> QED
    BY <2>1, <2>2, <2>4, <2>3 DEF TablesOK, WritersOK, CliOK, WriterHasEvent,
                                  ReplayHasEvent, tables, writers, cli
<1>11. ASSUME OperatorStep
       PROVE  TypeOK' /\ BusyHasWork'
  <2>1. UNCHANGED <<writers, drains>>
    BY <1>11 DEF OperatorStep, ReplaySelect, ReplayInsert, ReplayDelete,
                 ReplayAbort, Purge
  <2>2. CliOK' /\ ReplayHasEvent'
    BY <1>11 DEF OperatorStep, ReplaySelect, ReplayInsert, ReplayDelete,
                 ReplayAbort, Purge, CliOK, ReplayHasEvent, cli
  <2>3. TablesOK'
    <3>1. CASE ReplayInsert
      <4>1. PutRow(rev) /\ rev \in Events /\ dead' \subseteq Events
        BY <3>1 DEF ReplayInsert, ReplayHasEvent, TablesOK
      <4> QED BY <4>1, PutTyped
    <3>2. CASE ~ReplayInsert
      BY <1>11, <3>2 DEF OperatorStep, ReplaySelect, ReplayDelete, ReplayAbort,
                         Purge, TablesOK, tables
    <3> QED BY <3>1, <3>2
  <2>4. HistoryOK'
    <3>1. CASE ReplayInsert
      BY <3>1, QueueAssumption DEF ReplayInsert, HistoryOK, ReplayHasEvent,
                                   QueueAssumption
    <3>2. CASE ~ReplayInsert
      BY <1>11, <3>2, QueueAssumption
         DEF OperatorStep, ReplaySelect, ReplayDelete, ReplayAbort, Purge,
             HistoryOK, TablesOK, history, QueueAssumption
    <3> QED BY <3>1, <3>2
  <2> QED
    BY <2>1, <2>2, <2>3, <2>4 DEF WritersOK, DrainsOK, WriterHasEvent,
                                  DrainHasRow, writers, drains
<1>12. ASSUME Crash
       PROVE  TypeOK' /\ BusyHasWork'
  <2>1. WritersOK' /\ WriterHasEvent'
    BY <1>12 DEF Crash, Forget, WritersOK, WriterHasEvent
  <2>4. DrainsOK'
    BY <1>12, UnreadTyped DEF Crash, Forget, DrainsOK
  <2>5. DrainHasRow'
    BY <1>12 DEF Crash, Forget, DrainHasRow
  <2>2. HistoryOK'
    BY <1>12, QueueAssumption DEF Crash, HistoryOK, QueueAssumption
  <2>3. UNCHANGED <<tables, cli>>
    BY <1>12 DEF Crash
  <2> QED
    BY <2>1, <2>2, <2>3, <2>4, <2>5
       DEF TablesOK, CliOK, ReplayHasEvent, tables, cli
<1> QED
  BY <1>1, <1>2, <1>3, <1>4, <1>5, <1>6, <1>7, <1>8, <1>9, <1>10, <1>11, <1>12
     DEF Next, WriterStep, DrainStep

-----------------------------------------------------------------------------
\* Steps after which no row, no inserting writer and no lesser bound is added.
LEMMA RoomKept ==
    ASSUME TypeOK, TypeOK', RoomIsReserved,
           Cardinality(pending') <= Cardinality(pending),
           Cardinality(Inserting') <= Cardinality(Inserting),
           replays' >= replays
    PROVE  RoomIsReserved'
<1>1. /\ Cardinality(pending) \in Nat /\ Cardinality(pending)' \in Nat
      /\ Cardinality(Inserting) \in Nat /\ Cardinality(Inserting)' \in Nat
      /\ Cardinality(Writers) \in Nat
  BY Finite, FinitePrimed
<1> QED
  BY <1>1, QueueAssumption DEF RoomIsReserved, TypeOK, HistoryOK, QueueAssumption

\* A step of the queue keeps the reservation.
LEMMA RoomStep ==
    ASSUME TypeOK, BusyHasWork, TypeOK', RoomIsReserved, [Next]_vars
    PROVE  RoomIsReserved'
<1>0. /\ Cardinality(pending) \in Nat /\ Cardinality(pending') \in Nat
      /\ Cardinality(Inserting) \in Nat /\ Cardinality(Inserting') \in Nat
      /\ Cardinality(Writers) \in Nat /\ replays \in Nat /\ replays' \in Nat
      /\ MaxPending \in Nat \ {0} /\ MaxReplays \in Nat
  BY Finite, FinitePrimed, QueueAssumption
     DEF QueueAssumption, TypeOK, HistoryOK
\* A writer that goes on to its insert having seen room below the cap.
<1>1. ASSUME NEW w \in Writers, wpc[w] # "insert", Goto(w, "insert"), ~AtCap,
             UNCHANGED <<pending, replays>>
      PROVE  RoomIsReserved'
  <2>1. Cardinality(Inserting') <= Cardinality(Writers)
    BY <1>1, <1>0, EnterInsert, NotAllInserting
  <2>2. Cardinality(pending') < MaxPending
    BY <1>1, <1>0 DEF AtCap
  <2> QED BY <1>1, <1>0, <2>1, <2>2 DEF RoomIsReserved
\* A writer that moves elsewhere.
<1>2. ASSUME NEW w \in Writers, NEW pc, wpc[w] # "insert", pc # "insert",
             Goto(w, pc), UNCHANGED <<pending, replays>>
      PROVE  RoomIsReserved'
  <2>1. Inserting' = Inserting
    BY <1>2, StayOut
  <2> QED BY <1>2, <1>0, <2>1, RoomKept
<1>3. CASE UNCHANGED <<pending, wpc, replays>>
  BY <1>3, <1>0, RoomKept DEF Inserting
<1>4. ASSUME NEW w \in Writers, NEW e \in Events, EnqueueCount(w, e)
      PROVE  RoomIsReserved'
  <2>1. wpc[w] # "insert" /\ UNCHANGED <<pending, replays>>
    BY <1>4 DEF EnqueueCount, tables, history
  <2> QED BY <1>1, <1>2, <1>4, <2>1 DEF EnqueueCount
<1>5. ASSUME NEW w \in Writers, EnqueueLock(w) \/ EnqueueRecount(w)
      PROVE  RoomIsReserved'
  <2>1. wpc[w] # "insert" /\ UNCHANGED <<pending, replays>>
    BY <1>5 DEF EnqueueLock, EnqueueRecount, tables, history
  <2> QED BY <1>1, <1>2, <1>5, <2>1 DEF EnqueueLock, EnqueueRecount
<1>6. ASSUME NEW w \in Writers, EnqueueEvict(w)
      PROVE  RoomIsReserved'
  <2>1. wpc[w] # "insert" /\ Goto(w, "insert") /\ UNCHANGED replays
    BY <1>6 DEF EnqueueEvict
  <2>2. CASE pending = {}
    <3>1. ~AtCap /\ UNCHANGED pending
      BY <1>6, <1>0, <2>2, FS_EmptySet DEF EnqueueEvict, AtCap
    <3> QED BY <1>1, <2>1, <3>1
  <2>3. CASE pending # {}
    <3>1. PICK e \in pending : DropRow(e)
      BY <1>6, <2>3 DEF EnqueueEvict
    <3>2. Cardinality(pending') = Cardinality(pending) - 1
      BY <3>1, DropSize
    <3>3. Cardinality(Inserting') = Cardinality(Inserting) + 1
      BY <2>1, EnterInsert
    <3> QED BY <1>0, <2>1, <3>2, <3>3 DEF RoomIsReserved
  <2> QED BY <2>2, <2>3
<1>7. ASSUME NEW w \in Writers, EnqueueInsert(w)
      PROVE  RoomIsReserved'
  <2>1. /\ wpc[w] = "insert" /\ Goto(w, "idle") /\ UNCHANGED replays
        /\ wev[w] \in Events
    BY <1>7 DEF EnqueueInsert, BusyHasWork, WriterHasEvent
  <2>2. Cardinality(Inserting') = Cardinality(Inserting) - 1
    BY <2>1, LeaveInsert
  <2>3. Cardinality(pending') <= Cardinality(pending) + 1
    <3>1. CASE wev[w] \in pending
      BY <1>7, <1>0, <3>1 DEF EnqueueInsert
    <3>2. CASE wev[w] \notin pending
      BY <1>7, <2>1, <3>2, PutSize DEF EnqueueInsert
    <3> QED BY <3>1, <3>2
  <2> QED BY <1>0, <2>1, <2>2, <2>3 DEF RoomIsReserved
<1>8. ASSUME NEW w \in Writers, EnqueueError(w)
      PROVE  RoomIsReserved'
  <2>1. UNCHANGED <<pending, replays>> /\ Goto(w, "idle")
    BY <1>8 DEF EnqueueError, tables
  <2>2. CASE wpc[w] = "insert"
    BY <2>1, <2>2, <1>0, LeaveInsert, RoomKept
  <2>3. CASE wpc[w] # "insert"
    BY <2>1, <2>3, <1>2
  <2> QED BY <2>2, <2>3
<1>9. ASSUME NEW d \in Drainers, DrainStart(d) \/ DrainStep(d) \/ DrainError(d)
      PROVE  RoomIsReserved'
  <2>1. UNCHANGED <<wpc, replays>>
    BY <1>9 DEF DrainStart, DrainStep, DrainError, DrainSelect, DrainPoison,
                DrainPublish, DrainRefused, DrainDelete, DrainCount, writers,
                history
  <2>2. UNCHANGED pending \/ DropRow(Row(d))
    BY <1>9 DEF DrainStart, DrainStep, DrainError, DrainSelect, DrainPoison,
                DrainPublish, DrainRefused, DrainDelete, DrainCount, MoveToDlq,
                tables
  <2>3. Cardinality(pending') <= Cardinality(pending)
    BY <2>2, <1>0, DropSize
  <2>4. Inserting' = Inserting
    BY <2>1 DEF Inserting
  <2> QED BY <2>1, <2>3, <2>4, <1>0, RoomKept
<1>10. ASSUME OperatorStep
       PROVE  RoomIsReserved'
  <2>1. CASE ReplayInsert
    <3>1. /\ PutRow(rev) /\ rev \in Events /\ replays' = replays + 1
          /\ Inserting' = Inserting
      BY <2>1 DEF ReplayInsert, BusyHasWork, ReplayHasEvent, Inserting, writers
    <3>2. Cardinality(pending') <= Cardinality(pending) + 1
      BY <3>1, PutSize
    <3> QED BY <3>1, <3>2, <1>0 DEF RoomIsReserved
  <2>2. CASE ~ReplayInsert
    BY <1>10, <1>3, <2>2 DEF OperatorStep, ReplaySelect, ReplayDelete,
                             ReplayAbort, Purge, tables, writers, history
  <2> QED BY <2>1, <2>2
<1>11. ASSUME Crash
       PROVE  RoomIsReserved'
  <2>1. Inserting' = {} /\ UNCHANGED <<pending, replays>>
    BY <1>11 DEF Crash, Forget, Inserting, tables
  <2>2. Cardinality(Inserting') = 0
    BY <2>1, FS_EmptySet
  <2> QED BY <2>1, <2>2, <1>0, RoomKept
<1>12. CASE UNCHANGED vars
  BY <1>12, <1>3 DEF vars, tables, writers, history
<1> QED
  BY <1>4, <1>5, <1>6, <1>7, <1>8, <1>9, <1>10, <1>11, <1>12
     DEF Next, WriterStep

-----------------------------------------------------------------------------
\* The types hold at the start.
LEMMA InitTyped ==
    ASSUME Init
    PROVE  TypeOK /\ BusyHasWork
<1>1. TypeOK
  <2>1. attempts = Unread /\ stamp = Unread /\ sent = Unread /\ tries = Unread
    BY DEF Init, Unread
  <2>2. Unread \in [Events -> Nat]
    BY DEF Unread
  <2>3. TablesOK
    BY <2>1, <2>2, UnreadTyped DEF Init, TablesOK
  <2>4. WritersOK /\ CliOK
    BY DEF Init, WritersOK, CliOK
  <2>5. DrainsOK
    BY UnreadTyped DEF Init, DrainsOK
  <2>6. HistoryOK
    BY <2>1, <2>2, QueueAssumption DEF Init, HistoryOK, QueueAssumption
  <2> QED BY <2>3, <2>4, <2>5, <2>6 DEF TypeOK
<1>2. BusyHasWork
  BY DEF Init, BusyHasWork, WriterHasEvent, DrainHasRow, ReplayHasEvent
<1> QED BY <1>1, <1>2

\* The disk queue keeps its types, and a writer past the cap check has its
\* room: the invariant behind OvershootBounded.
THEOREM Invariance == Spec => []IInv
<1>1. Init => IInv
  <2> SUFFICES ASSUME Init PROVE IInv
    OBVIOUS
  <2>1. TypeOK /\ BusyHasWork BY InitTyped
  <2>3. pending = {} /\ Inserting = {} /\ replays = 0
    BY DEF Init, Inserting
  <2>4. RoomIsReserved
    <3>1. Cardinality(pending) = 0 /\ Cardinality(Inserting) = 0
      BY <2>3, FS_EmptySet
    <3> QED
      BY <2>1, <2>3, <3>1, Finite, QueueAssumption
         DEF RoomIsReserved, QueueAssumption
  <2> QED BY <2>1, <2>4 DEF IInv
<1>2. IInv /\ [Next]_vars => IInv'
  BY TypeStep, RoomStep DEF IInv
<1> QED BY <1>1, <1>2, PTL DEF Spec

\* enqueue(): however many producers race past the cap check, pending_events
\* holds at most max_pending rows, one for every other producer, and one for
\* every replay.
THEOREM CapIsNearlyKept == Spec => []OvershootBounded
<1>1. IInv => OvershootBounded
  <2> SUFFICES ASSUME IInv PROVE OvershootBounded
    OBVIOUS
  <2>1. /\ Cardinality(pending) \in Nat /\ Cardinality(Inserting) \in Nat
        /\ Cardinality(Writers) \in Nat /\ replays \in Nat
    BY Finite, QueueAssumption DEF IInv, TypeOK, HistoryOK, QueueAssumption
  <2> QED
    BY <2>1, QueueAssumption
       DEF IInv, RoomIsReserved, OvershootBounded, QueueAssumption
<1> QED BY <1>1, Invariance, PTL

\* disk_queue.rs: the columns, the callers' steps and the counters keep their
\* types; in particular attempts stays below DEFAULT_MAX_ATTEMPTS.
THEOREM TypeCorrect == Spec => []TypeOK
<1>1. IInv => TypeOK
  BY DEF IInv
<1> QED BY <1>1, Invariance, PTL

-----------------------------------------------------------------------------
(***************************************************************************)
(* What becomes of an event.                                               *)
(***************************************************************************)

\* drain_running: one drain at a time is between its first and its last step.
SingleDrain ==
    /\ \A d \in Drainers : dpc[d] # "idle" => draining
    /\ \A c, d \in Drainers : dpc[c] # "idle" /\ dpc[d] # "idle" => c = d

\* A batch lists a row once, and outside the loop there is none.
BatchesOK ==
    \A d \in Drainers :
       /\ \A i, j \in DOMAIN batch[d] : i # j => batch[d][i] # batch[d][j]
       /\ dpc[d] \in {"idle", "select"} => batch[d] = <<>>

\* An id is enqueued by one call at a time and not after an Ok; before that it
\* is nowhere.
WritersFresh ==
    /\ \A w \in Writers : wev[w] \notin accepted
    /\ \A v, w \in Writers : wev[w] # None /\ wev[v] = wev[w] => v = w
Unaccepted ==
    \A e \in Events \ accepted : sent[e] = 0 /\ e \notin pending \cup dead /\ ~Held(e)

\* A row is deleted by the drain after it was sent.
DeletedIsSent == \A d \in Drainers : dpc[d] = "delete" => sent[Row(d)] > 0

\* The dead letter stays until the replay deletes it, and by then the row it
\* put into pending_events has not vanished without a trace.
ReplayIsSafe ==
    /\ rpc # "idle" => rev \in dead
    /\ rpc = "delete" => rev \in pending \cup evicted \cup ignored \/ sent[rev] > 0

\* An event that may be sent again has a fault or a replay for each time it was.
Deleting(e) == \E d \in Drainers : dpc[d] = "delete" /\ Row(d) = e
Account ==
    \A e \in Events : ~Deleting(e) /\ (e \in pending \/ Held(e)) => sent[e] <= faults + replays

\* The attempts column, and every copy of it, counts publishes that failed.
TriesCover ==
    /\ \A e \in pending : attempts[e] <= tries[e]
    /\ \A d \in Drainers, e \in Events : InBatch(d, e) => seen[d][e] <= tries[e]
    /\ \A d \in Drainers : dpc[d] = "failed" => seen[d][Row(d)] < tries[Row(d)]

Working == TypeOK /\ BusyHasWork
QueueInv == /\ Working /\ SingleDrain /\ BatchesOK /\ WritersFresh /\ Unaccepted
            /\ DeletedIsSent /\ ReplayIsSafe /\ NothingVanishes
            /\ Account /\ DuplicatesNeedFaults /\ TriesCover

\* The rows of a batch are its head and those of its tail.
LEMMA TailRows ==
    ASSUME NEW s \in Seq(Events), s # <<>>
    PROVE  /\ DOMAIN s = 1 .. Len(s) /\ Len(s) \in Nat \ {0} /\ Head(s) = s[1]
           /\ Tail(s) \in Seq(Events) /\ DOMAIN Tail(s) = 1 .. (Len(s) - 1)
           /\ \A i \in DOMAIN Tail(s) : i + 1 \in DOMAIN s /\ Tail(s)[i] = s[i + 1]
BY HeadTailProperties, LenProperties, EmptySeq

\* The row a drain works on is of its batch.
LEMMA RowInBatch ==
    ASSUME Working, NEW d \in Drainers, dpc[d] \in {"publish", "delete", "failed"}
    PROVE  Row(d) \in Events /\ InBatch(d, Row(d)) /\ batch[d] \in Seq(Events) /\ batch[d] # <<>>
<1>1. batch[d] \in Seq(Events) /\ batch[d] # <<>>
  BY DEF Working, TypeOK, DrainsOK, BusyHasWork, DrainHasRow
<1>2. 1 \in DOMAIN batch[d] /\ batch[d][1] = Row(d) BY <1>1, TailRows DEF Row
<1> QED BY <1>1, <1>2, RowTyped DEF Working, TypeOK, BusyHasWork, InBatch

\* The end of a row's handling: the row is in no batch any more, no other batch
\* changes, and the drain is between two rows or over.
LEMMA NextRowMoves ==
    ASSUME Working, SingleDrain, BatchesOK, NEW d \in Drainers,
           dpc[d] \in {"publish", "delete", "failed"}, NextRow(d)
    PROVE  /\ SingleDrain' /\ BatchesOK'
           /\ \A x \in Drainers : dpc'[x] \notin {"delete", "failed"}
           /\ \A x \in Drainers, e \in Events :
                 InBatch(x, e)' => InBatch(x, e) /\ e # Row(d) /\ seen'[x][e] = seen[x][e]
<1> DEFINE s == batch[d]
<1>1. s \in Seq(Events) /\ s # <<>> BY RowInBatch
<1>2. batch' = [batch EXCEPT ![d] = Tail(s)] BY DEF NextRow
<1>3. /\ batch \in [Drainers -> Seq(Events)] /\ dpc \in [Drainers -> {"idle", "select", "publish", "delete", "failed"}]
      /\ draining \in BOOLEAN
  BY DEF Working, TypeOK, DrainsOK
<1>4. \A x \in Drainers : x # d => dpc[x] = "idle" /\ dpc'[x] = "idle" /\ batch'[x] = <<>>
  BY <1>2, <1>3 DEF SingleDrain, BatchesOK, NextRow, DGoto
<1>5. /\ DOMAIN s = 1 .. Len(s) /\ Len(s) \in Nat \ {0} /\ Row(d) = s[1]
      /\ DOMAIN Tail(s) = 1 .. (Len(s) - 1)
      /\ \A i \in DOMAIN Tail(s) : i + 1 \in DOMAIN s /\ Tail(s)[i] = s[i + 1]
  BY <1>1, TailRows DEF Row
<1>6. \A i, j \in DOMAIN s : i # j => s[i] # s[j] BY DEF BatchesOK
<1>7. \A i, j \in DOMAIN Tail(s) : i # j => Tail(s)[i] # Tail(s)[j]
  BY <1>5, <1>6
<1>8. \A i \in DOMAIN Tail(s) : Tail(s)[i] # Row(d) BY <1>5, <1>6
<1>9. Len(s) = 1 => Tail(s) = <<>>
  <2>1. Tail(s) \in Seq(Events) /\ Len(Tail(s)) = Len(s) - 1
    BY <1>1, HeadTailProperties
  <2>2. Len(s) = 1 => Len(Tail(s)) = 0 BY <2>1, <1>5
  <2> QED BY <2>1, <2>2, EmptySeq, Zenon
<1>10. batch'[d] = Tail(s) BY <1>2, <1>3
<1>11. /\ Len(s) = 1 => dpc'[d] = "idle" /\ draining' = FALSE
       /\ Len(s) # 1 => dpc'[d] = "publish" /\ draining' = draining /\ seen' = seen
  BY <1>3 DEF NextRow, DGoto
<1>12. SingleDrain'
  BY <1>4, <1>11 DEF SingleDrain
<1>13. BatchesOK'
  <2>1. \A x \in Drainers : \A i, j \in DOMAIN batch'[x] : i # j => batch'[x][i] # batch'[x][j]
    <3> SUFFICES ASSUME NEW x \in Drainers, NEW i \in DOMAIN batch'[x],
                        NEW j \in DOMAIN batch'[x], i # j
                 PROVE  batch'[x][i] # batch'[x][j]
      OBVIOUS
    <3>1. CASE x = d BY <3>1, <1>7, <1>10
    <3>2. CASE x # d BY <3>2, <1>4
    <3> QED BY <3>1, <3>2
  <2>2. \A x \in Drainers : dpc'[x] \in {"idle", "select"} => batch'[x] = <<>>
    BY <1>4, <1>9, <1>10, <1>11
  <2> QED BY <2>1, <2>2 DEF BatchesOK
<1>14. ASSUME NEW x \in Drainers, NEW e \in Events, InBatch(x, e)'
       PROVE  InBatch(x, e) /\ e # Row(d) /\ seen'[x][e] = seen[x][e]
  <2>1. x = d BY <1>4, <1>14 DEF InBatch
  <2>2. PICK i \in DOMAIN Tail(s) : Tail(s)[i] = e BY <1>10, <1>14, <2>1 DEF InBatch
  <2>3. InBatch(d, e) BY <1>5, <2>2 DEF InBatch
  <2>4. Len(s) # 1 BY <1>5, <2>2
  <2> QED BY <1>8, <1>11, <2>1, <2>2, <2>3, <2>4
<1>15. \A x \in Drainers : dpc'[x] \notin {"delete", "failed"} BY <1>4, <1>11, <1>5
<1> QED BY <1>12, <1>13, <1>14, <1>15

\* A step that leaves the drains alone leaves what is said of them alone.
LEMMA DrainsKept ==
    ASSUME UNCHANGED drains
    PROVE  /\ SingleDrain => SingleDrain'
           /\ BatchesOK => BatchesOK'
           /\ \A d \in Drainers : Row(d)' = Row(d) /\ dpc'[d] = dpc[d] /\ seen'[d] = seen[d]
           /\ \A d \in Drainers, e \in Events : InBatch(d, e)' <=> InBatch(d, e)
           /\ \A e \in Events : (Held(e)' <=> Held(e)) /\ (Deleting(e)' <=> Deleting(e))
BY DEF drains, SingleDrain, BatchesOK, Row, InBatch, Held, Deleting

\* The counters are numbers.
LEMMA Counters ==
    ASSUME Working
    PROVE  /\ faults \in Nat /\ replays \in Nat
           /\ \A e \in Events : sent[e] \in Nat /\ tries[e] \in Nat /\ attempts[e] \in Nat
           /\ \A d \in Drainers, e \in Events : seen[d][e] \in Nat
BY QueueAssumption DEF Working, TypeOK, HistoryOK, TablesOK, DrainsOK, QueueAssumption

\* enqueue() up to its insert, and when it fails: nothing but its own place.
LEMMA WriterStepsAccount ==
    ASSUME QueueInv, Working', NEW w \in Writers,
           \/ \E e \in Events : EnqueueCount(w, e)
           \/ EnqueueLock(w) \/ EnqueueRecount(w) \/ EnqueueError(w)
    PROVE  QueueInv'
<1>1. UNCHANGED <<tables, drains, cli, accepted, evicted, purged, ignored, sent, tries, replays>>
  BY DEF EnqueueCount, EnqueueLock, EnqueueRecount, EnqueueError, history
<1>2. faults' \in Nat /\ faults <= faults'
  BY Counters DEF QueueInv, EnqueueCount, EnqueueLock, EnqueueRecount, EnqueueError, history
<1>3. WritersFresh'
  <2>1. None \notin accepted
    BY QueueAssumption DEF QueueInv, Working, TypeOK, HistoryOK, QueueAssumption
  <2>2. \/ UNCHANGED wev \/ wev' = [wev EXCEPT ![w] = None]
        \/ \E e \in Events \ accepted : wev' = [wev EXCEPT ![w] = e] /\ \A v \in Writers : wev[v] # e
    BY DEF EnqueueCount, EnqueueLock, EnqueueRecount, EnqueueError
  <2>3. wev \in [Writers -> Events \cup {None}]
    BY DEF QueueInv, Working, TypeOK, WritersOK
  <2> QED BY <1>1, <2>1, <2>2, <2>3 DEF QueueInv, WritersFresh
<1>4. SingleDrain' /\ BatchesOK' BY <1>1, DrainsKept DEF QueueInv
<1>5. Unaccepted' /\ NothingVanishes' /\ ReplayIsSafe'
  BY <1>1, DrainsKept DEF QueueInv, Unaccepted, NothingVanishes, ReplayIsSafe, tables, cli
<1>6. DeletedIsSent' /\ TriesCover'
  BY <1>1, DrainsKept DEF QueueInv, DeletedIsSent, TriesCover, tables
<1>7. Account' /\ DuplicatesNeedFaults'
  BY <1>1, <1>2, DrainsKept, Counters DEF QueueInv, Account, DuplicatesNeedFaults, tables
<1> QED BY <1>3, <1>4, <1>5, <1>6, <1>7 DEF QueueInv

\* The eviction takes the oldest row and says so.
LEMMA EvictAccount ==
    ASSUME QueueInv, Working', NEW w \in Writers, EnqueueEvict(w)
    PROVE  QueueInv'
<1>1. UNCHANGED <<dead, wev, drains, cli, accepted, purged, ignored, sent, tries, faults, replays>>
  BY DEF EnqueueEvict
<1>2. /\ pending' \subseteq pending /\ pending \subseteq pending' \cup evicted'
      /\ evicted \subseteq evicted' /\ \A e \in pending' : attempts'[e] = attempts[e]
  <2>1. CASE pending = {} BY <2>1 DEF EnqueueEvict
  <2>2. CASE pending # {}
    <3>1. PICK e \in pending : DropRow(e) /\ evicted' = evicted \cup {e}
      BY <2>2 DEF EnqueueEvict
    <3> QED BY <3>1 DEF DropRow, QueueInv, Working, TypeOK, TablesOK
  <2> QED BY <2>1, <2>2
<1>3. WritersFresh' BY <1>1 DEF QueueInv, WritersFresh
<1>4. SingleDrain' /\ BatchesOK' BY <1>1, DrainsKept DEF QueueInv
<1>5. Unaccepted' /\ NothingVanishes' /\ ReplayIsSafe'
  BY <1>1, <1>2, DrainsKept DEF QueueInv, Unaccepted, NothingVanishes, ReplayIsSafe, cli
<1>6. DeletedIsSent' /\ TriesCover'
  BY <1>1, <1>2, DrainsKept DEF QueueInv, DeletedIsSent, TriesCover
<1>7. Account' /\ DuplicatesNeedFaults'
  BY <1>1, <1>2, DrainsKept DEF QueueInv, Account, DuplicatesNeedFaults
<1> QED BY <1>3, <1>4, <1>5, <1>6, <1>7 DEF QueueInv

\* The insert: an event that was nowhere, and was never sent.
LEMMA InsertAccount ==
    ASSUME QueueInv, Working', NEW w \in Writers, EnqueueInsert(w)
    PROVE  QueueInv'
<1> DEFINE e == wev[w]
<1>1. UNCHANGED <<dead, drains, cli, evicted, purged, ignored, sent, faults, replays>>
  BY DEF EnqueueInsert
<1>2. e \in Events /\ e \notin accepted /\ accepted' = accepted \cup {e}
  BY DEF QueueInv, Working, BusyHasWork, WriterHasEvent, WritersFresh, EnqueueInsert
<1>3. sent[e] = 0 /\ e \notin pending \cup dead /\ ~Held(e)
  BY <1>2 DEF QueueInv, Unaccepted
<1>4. PutRow(e) /\ tries' = [tries EXCEPT ![e] = 0] BY <1>3 DEF EnqueueInsert
<1>5. /\ pending' = pending \cup {e} /\ attempts'[e] = 0 /\ tries'[e] = 0
      /\ \A x \in Events : x # e => attempts'[x] = attempts[x] /\ tries'[x] = tries[x]
  BY <1>2, <1>4 DEF PutRow, QueueInv, Working, TypeOK, TablesOK, HistoryOK
<1>6. WritersFresh'
  BY <1>2, QueueAssumption DEF QueueInv, WritersFresh, EnqueueInsert, Working, TypeOK, WritersOK,
                               HistoryOK, QueueAssumption
<1>7. SingleDrain' /\ BatchesOK' BY <1>1, DrainsKept DEF QueueInv
<1>8. Unaccepted' /\ NothingVanishes' /\ ReplayIsSafe'
  BY <1>1, <1>2, <1>5, DrainsKept DEF QueueInv, Unaccepted, NothingVanishes, ReplayIsSafe, cli
<1>9. DeletedIsSent' BY <1>1, DrainsKept DEF QueueInv, DeletedIsSent
<1>10. TriesCover'
  <2>1. \A x \in pending' : attempts'[x] <= tries'[x]
    BY <1>5 DEF QueueInv, TriesCover, Working, TypeOK, TablesOK
  <2>2. \A d \in Drainers, x \in Events : InBatch(d, x)' => seen'[d][x] <= tries'[x]
    BY <1>1, <1>3, <1>5, DrainsKept DEF QueueInv, TriesCover, Held
  <2>3. \A d \in Drainers : dpc'[d] = "failed" => seen'[d][Row(d)'] < tries'[Row(d)']
    BY <1>1, <1>3, <1>5, DrainsKept, RowInBatch DEF QueueInv, TriesCover, Held
  <2> QED BY <2>1, <2>2, <2>3 DEF TriesCover
<1>11. Account' /\ DuplicatesNeedFaults'
  BY <1>1, <1>3, <1>5, DrainsKept, Counters DEF QueueInv, Account, DuplicatesNeedFaults
<1> QED BY <1>6, <1>7, <1>8, <1>9, <1>10, <1>11 DEF QueueInv

\* The operator's commands.  A replay that inserts pays for the copy it makes.
LEMMA OperatorAccount ==
    ASSUME QueueInv, Working', OperatorStep
    PROVE  QueueInv'
<1>1. UNCHANGED <<writers, drains, accepted, evicted, ignored, sent>>
  BY DEF OperatorStep, ReplaySelect, ReplayInsert, ReplayDelete, ReplayAbort, Purge, history
<1>2. SingleDrain' /\ BatchesOK' BY <1>1, DrainsKept DEF QueueInv
<1>3. WritersFresh' BY <1>1 DEF QueueInv, WritersFresh, writers
<1>4. DeletedIsSent' BY <1>1, DrainsKept DEF QueueInv, DeletedIsSent
<1>5. CASE \E e \in Events : ReplaySelect(e)
  <2>1. PICK e \in Events : ReplaySelect(e) BY <1>5
  <2>2. UNCHANGED <<tables, history>> /\ rpc' = "insert" /\ rev' = e /\ e \in dead
    BY <2>1 DEF ReplaySelect
  <2>3. Unaccepted' /\ NothingVanishes' /\ ReplayIsSafe'
    BY <1>1, <2>2, DrainsKept DEF QueueInv, Unaccepted, NothingVanishes, ReplayIsSafe, tables, history
  <2>4. TriesCover' BY <1>1, <2>2, DrainsKept DEF QueueInv, TriesCover, tables, history
  <2>5. Account' /\ DuplicatesNeedFaults'
    BY <1>1, <2>2, DrainsKept DEF QueueInv, Account, DuplicatesNeedFaults, tables, history
  <2> QED BY <1>2, <1>3, <1>4, <2>3, <2>4, <2>5 DEF QueueInv
<1>6. CASE ReplayInsert
  <2>1. /\ UNCHANGED <<dead, rev, purged, faults>> /\ replays' = replays + 1
        /\ rpc = "insert" /\ rpc' = "delete" /\ PutRow(rev)
    BY <1>6 DEF ReplayInsert
  <2>2. rev \in Events /\ rev \in dead /\ rev \in accepted
    BY <2>1 DEF QueueInv, Working, BusyHasWork, ReplayHasEvent, ReplayIsSafe, Unaccepted
  <2>3. /\ pending' = pending \cup {rev} /\ attempts'[rev] = 0
        /\ \A x \in Events : x # rev => attempts'[x] = attempts[x]
    BY <2>1, <2>2 DEF PutRow, QueueInv, Working, TypeOK, TablesOK
  <2>4. \A x \in Events : x # rev \/ Held(x) => tries'[x] = tries[x]
    BY <1>6, <2>2 DEF ReplayInsert, QueueInv, Working, TypeOK, HistoryOK
  <2>5. Unaccepted' /\ NothingVanishes' /\ ReplayIsSafe'
    BY <1>1, <2>1, <2>2, <2>3, DrainsKept
    DEF QueueInv, Unaccepted, NothingVanishes, ReplayIsSafe
  <2>6. TriesCover'
    <3>1. \A x \in pending' : attempts'[x] <= tries'[x]
      BY <2>2, <2>3, <2>4, Counters DEF QueueInv, TriesCover, Working, TypeOK, TablesOK, HistoryOK
    <3>2. \A d \in Drainers, x \in Events : InBatch(d, x)' => seen'[d][x] <= tries'[x]
      BY <1>1, <2>4, DrainsKept DEF QueueInv, TriesCover, Held
    <3>3. \A d \in Drainers : dpc'[d] = "failed" => seen'[d][Row(d)'] < tries'[Row(d)']
      BY <1>1, <2>4, DrainsKept, RowInBatch DEF QueueInv, TriesCover, Held
    <3> QED BY <3>1, <3>2, <3>3 DEF TriesCover
  <2>7. Account' /\ DuplicatesNeedFaults'
    BY <1>1, <2>1, <2>3, DrainsKept, Counters DEF QueueInv, Account, DuplicatesNeedFaults
  <2> QED BY <1>2, <1>3, <1>4, <2>5, <2>6, <2>7 DEF QueueInv
<1>7. CASE ReplayDelete
  <2>1. /\ UNCHANGED <<pending, attempts, stamp, history>> /\ dead' = dead \ {rev}
        /\ rpc = "delete" /\ rpc' = "idle"
    BY <1>7 DEF ReplayDelete
  <2>2. Unaccepted' /\ ReplayIsSafe'
    BY <1>1, <2>1, DrainsKept DEF QueueInv, Unaccepted, ReplayIsSafe, history
  <2>3. NothingVanishes'
    BY <1>1, <2>1 DEF QueueInv, NothingVanishes, ReplayIsSafe, history
  <2>4. TriesCover' BY <1>1, <2>1, DrainsKept DEF QueueInv, TriesCover, history
  <2>5. Account' /\ DuplicatesNeedFaults'
    BY <1>1, <2>1, DrainsKept DEF QueueInv, Account, DuplicatesNeedFaults, history
  <2> QED BY <1>2, <1>3, <1>4, <2>2, <2>3, <2>4, <2>5 DEF QueueInv
<1>8. CASE ReplayAbort \/ Purge
  <2>1. /\ UNCHANGED <<pending, attempts, stamp, tries, replays>> /\ dead' \subseteq dead
        /\ dead \cup purged \subseteq dead' \cup purged' /\ rpc' = "idle"
        /\ faults' \in Nat /\ faults <= faults'
    BY <1>8, Counters DEF ReplayAbort, Purge, tables, cli, QueueInv
  <2>2. Unaccepted' /\ NothingVanishes' /\ ReplayIsSafe'
    BY <1>1, <2>1, DrainsKept DEF QueueInv, Unaccepted, NothingVanishes, ReplayIsSafe
  <2>3. TriesCover' BY <1>1, <2>1, DrainsKept DEF QueueInv, TriesCover
  <2>4. Account' /\ DuplicatesNeedFaults'
    BY <1>1, <2>1, DrainsKept, Counters DEF QueueInv, Account, DuplicatesNeedFaults
  <2> QED BY <1>2, <1>3, <1>4, <2>2, <2>3, <2>4 DEF QueueInv
<1> QED BY <1>5, <1>6, <1>7, <1>8 DEF OperatorStep

\* A drain that ends before it looks at a row, or for a fault: it holds no row,
\* and the fault pays for the one it may have sent.
LEMMA DrainEndsAccount ==
    ASSUME QueueInv, Working', SingleDrain', BatchesOK',
           UNCHANGED <<tables, cli, accepted, evicted, purged, ignored, sent, tries, replays>>,
           wev' = wev \/ \A w \in Writers : wev'[w] = None,
           \A x \in Drainers : dpc'[x] \notin {"delete", "failed"},
           \A x \in Drainers, e \in Events : ~InBatch(x, e)',
           \/ faults' = faults + 1
           \/ faults' = faults /\ \A x \in Drainers : dpc[x] # "delete"
    PROVE  QueueInv'
<1>1. UNCHANGED <<tables, cli, accepted, evicted, purged, ignored, sent, tries, replays>>
  OBVIOUS
<1>2. \A e \in Events : ~Held(e)' /\ ~Deleting(e)' BY DEF Held, Deleting
<1>3. WritersFresh'
  <2>1. CASE UNCHANGED wev BY <1>1, <2>1 DEF QueueInv, WritersFresh
  <2>2. CASE \A w \in Writers : wev'[w] = None
    BY <1>1, <2>2, QueueAssumption
       DEF QueueInv, Working, TypeOK, HistoryOK, WritersFresh, QueueAssumption
  <2> QED BY <2>1, <2>2
<1>4. Unaccepted' /\ NothingVanishes' /\ ReplayIsSafe'
  BY <1>1, <1>2 DEF QueueInv, Unaccepted, NothingVanishes, ReplayIsSafe, tables, cli
<1>5. DeletedIsSent' /\ TriesCover'
  BY <1>1 DEF QueueInv, DeletedIsSent, TriesCover, tables
<1>6. Account' /\ DuplicatesNeedFaults'
  <2>1. faults \in Nat /\ replays \in Nat /\ \A e \in Events : sent[e] \in Nat
    BY Counters DEF QueueInv
  <2>2. DuplicatesNeedFaults'
    BY <1>1, <2>1 DEF QueueInv, DuplicatesNeedFaults
  <2>3. ASSUME NEW e \in Events, e \in pending PROVE sent[e] <= faults' + replays
    <3>1. CASE faults' = faults + 1
      BY <2>1, <3>1 DEF QueueInv, DuplicatesNeedFaults
    <3>2. CASE faults' = faults /\ \A x \in Drainers : dpc[x] # "delete"
      BY <2>3, <3>2 DEF QueueInv, Account, Deleting
    <3> QED BY <3>1, <3>2
  <2> QED BY <1>1, <1>2, <2>2, <2>3 DEF Account, tables
<1> QED BY <1>3, <1>4, <1>5, <1>6 DEF QueueInv

\* The start, the failure of a drain, and the death of the daemon.
LEMMA DrainStopsAccount ==
    ASSUME QueueInv, Working',
           Crash \/ \E d \in Drainers : DrainStart(d) \/ DrainError(d)
    PROVE  QueueInv'
<1>1. /\ batch \in [Drainers -> Seq(Events)]
      /\ dpc \in [Drainers -> {"idle", "select", "publish", "delete", "failed"}]
  BY DEF QueueInv, Working, TypeOK, DrainsOK
<1>2. CASE Crash
  <2>1. /\ \A x \in Drainers : dpc'[x] = "idle" /\ batch'[x] = <<>>
        /\ \A w \in Writers : wev'[w] = None
    BY <1>2 DEF Crash, Forget
  <2>2. \A x \in Drainers, e \in Events : ~InBatch(x, e)' BY <2>1 DEF InBatch
  <2>3. SingleDrain' /\ BatchesOK' BY <2>1 DEF SingleDrain, BatchesOK
  <2>4. UNCHANGED <<tables, cli, accepted, evicted, purged, ignored, sent, tries, replays>>
        /\ faults' = faults + 1
    BY <1>2 DEF Crash
  <2> QED BY <2>1, <2>2, <2>3, <2>4, DrainEndsAccount
<1>3. ASSUME NEW d \in Drainers, DrainError(d) PROVE QueueInv'
  <2>1. \A x \in Drainers : dpc'[x] = "idle" /\ batch'[x] = <<>>
    <3>1. \A x \in Drainers : x # d => dpc[x] = "idle" /\ batch[x] = <<>>
      BY <1>1, <1>3 DEF DrainError, QueueInv, SingleDrain, BatchesOK
    <3>2. dpc' = [dpc EXCEPT ![d] = "idle"] /\ batch' = [batch EXCEPT ![d] = <<>>]
      BY <1>3 DEF DrainError, DGoto
    <3> QED BY <1>1, <3>1, <3>2
  <2>2. \A x \in Drainers, e \in Events : ~InBatch(x, e)' BY <2>1 DEF InBatch
  <2>3. SingleDrain' /\ BatchesOK' BY <2>1 DEF SingleDrain, BatchesOK
  <2>4. UNCHANGED <<tables, cli, wev, accepted, evicted, purged, ignored, sent, tries, replays>>
        /\ faults' = faults + 1
    BY <1>3 DEF DrainError, writers
  <2> QED BY <2>1, <2>2, <2>3, <2>4, DrainEndsAccount
<1>4. ASSUME NEW d \in Drainers, DrainStart(d) PROVE QueueInv'
  <2>1. \A x \in Drainers : dpc[x] = "idle" /\ batch[x] = <<>>
    BY <1>4 DEF DrainStart, QueueInv, SingleDrain, BatchesOK
  <2>2. /\ dpc' = [dpc EXCEPT ![d] = "select"] /\ draining' = TRUE
        /\ UNCHANGED <<tables, cli, wev, batch, history>>
    BY <1>4 DEF DrainStart, DGoto, writers
  <2>3. \A x \in Drainers, e \in Events : ~InBatch(x, e)' BY <2>1, <2>2 DEF InBatch
  <2>4. \A x \in Drainers : batch'[x] = <<>> /\ dpc'[x] = (IF x = d THEN "select" ELSE "idle")
    BY <1>1, <2>1, <2>2
  <2>5. SingleDrain' /\ BatchesOK' BY <2>2, <2>4 DEF SingleDrain, BatchesOK
  <2>6. /\ \A x \in Drainers : dpc'[x] \notin {"delete", "failed"}
        /\ \A x \in Drainers : dpc[x] # "delete"
    BY <2>1, <2>4
  <2> QED BY <2>2, <2>3, <2>5, <2>6, DrainEndsAccount DEF history
<1> QED BY <1>2, <1>3, <1>4

\* The SELECT: the batch holds rows of the table, each once.
LEMMA SelectAccount ==
    ASSUME QueueInv, Working', NEW d \in Drainers, DrainSelect(d)
    PROVE  QueueInv'
<1>1. /\ batch \in [Drainers -> Seq(Events)]
      /\ dpc \in [Drainers -> {"idle", "select", "publish", "delete", "failed"}]
      /\ seen \in [Drainers -> [Events -> 0 .. MaxAttempts - 1]]
      /\ draining \in BOOLEAN /\ pending \subseteq Events
  BY DEF QueueInv, Working, TypeOK, DrainsOK, TablesOK
<1>2. PICK s \in [1 .. BatchSize -> pending] :
         IsBatch(s) /\ batch' = [batch EXCEPT ![d] = s]
  BY DEF DrainSelect
<1>3. /\ UNCHANGED <<tables, writers, cli, history>> /\ seen'[d] = attempts
      /\ dpc[d] = "select"
  BY <1>1 DEF DrainSelect
<1>4. \A x \in Drainers : x # d => dpc[x] = "idle" /\ dpc'[x] = "idle" /\ batch'[x] = <<>>
  BY <1>1, <1>2 DEF DrainSelect, DGoto, QueueInv, SingleDrain, BatchesOK
<1>5. batch'[d] = s BY <1>1, <1>2
<1>6. /\ pending = {} => dpc'[d] = "idle" /\ draining' = FALSE
      /\ pending # {} => dpc'[d] = "publish" /\ draining' = draining
  BY <1>1 DEF DrainSelect, DGoto
<1>7. SingleDrain' BY <1>3, <1>4, <1>6 DEF SingleDrain, QueueInv
<1>8. \A i, j \in DOMAIN s : i # j => s[i] # s[j]
  <2>1. Cardinality(pending) \in Nat BY Finite DEF QueueInv, Working
  <2>2. BatchSize \in Nat BY <2>1, QueueAssumption DEF BatchSize, QueueAssumption
  <2>3. \A i, j \in DOMAIN s : i < j => s[i] # s[j] BY <1>2 DEF IsBatch
  <2>4. \A i, j \in DOMAIN s : i # j => i < j \/ j < i BY <2>2
  <2> QED BY <2>3, <2>4
<1>9. BatchesOK'
  <2>1. \A x \in Drainers : \A i, j \in DOMAIN batch'[x] : i # j => batch'[x][i] # batch'[x][j]
    <3> SUFFICES ASSUME NEW x \in Drainers, NEW i \in DOMAIN batch'[x],
                        NEW j \in DOMAIN batch'[x], i # j
                 PROVE  batch'[x][i] # batch'[x][j]
      OBVIOUS
    <3>1. CASE x = d BY <3>1, <1>5, <1>8
    <3>2. CASE x # d BY <3>2, <1>4
    <3> QED BY <3>1, <3>2
  <2>2. pending = {} => batch'[d] = <<>>
    <3> SUFFICES ASSUME pending = {} PROVE batch'[d] = <<>>
      OBVIOUS
    <3>1. Cardinality(pending) = 0 BY FS_EmptySet
    <3>2. BatchSize = 0 BY <3>1, QueueAssumption DEF BatchSize, QueueAssumption
    <3>3. s \in [1 .. 0 -> pending] BY <3>2
    <3>4. s \in Seq(pending) /\ Len(s) = 0 BY <3>3
    <3> QED BY <3>4, <1>5, EmptySeq
  <2>3. \A x \in Drainers : dpc'[x] \in {"idle", "select"} => batch'[x] = <<>>
    BY <1>4, <1>6, <2>2
  <2> QED BY <2>1, <2>3 DEF BatchesOK
<1>10. \A x \in Drainers, e \in Events : InBatch(x, e)' => x = d /\ e \in pending
  <2> SUFFICES ASSUME NEW x \in Drainers, NEW e \in Events, InBatch(x, e)'
               PROVE  x = d /\ e \in pending
    OBVIOUS
  <2>1. x = d BY <1>4 DEF InBatch
  <2> QED BY <2>1, <1>5, <1>2 DEF InBatch
<1>11. \A x \in Drainers : dpc[x] # "delete" /\ dpc'[x] \notin {"delete", "failed"}
  BY <1>3, <1>4, <1>6
<1>12. WritersFresh' BY <1>3 DEF QueueInv, WritersFresh, writers, history
<1>13. \A e \in Events : Held(e)' => e \in pending BY <1>10 DEF Held
<1>14. Unaccepted' /\ NothingVanishes' /\ ReplayIsSafe'
  BY <1>3, <1>13 DEF QueueInv, Unaccepted, NothingVanishes, ReplayIsSafe, tables, cli, history
<1>15. DeletedIsSent' BY <1>11 DEF DeletedIsSent
<1>16. TriesCover'
  BY <1>3, <1>10, <1>11 DEF QueueInv, TriesCover, tables, history
<1>17. Account' /\ DuplicatesNeedFaults'
  BY <1>3, <1>11, <1>13 DEF QueueInv, Account, Deleting, DuplicatesNeedFaults, tables, history
<1> QED BY <1>7, <1>9, <1>12, <1>14, <1>15, <1>16, <1>17 DEF QueueInv

\* The publish, done or refused: the row is at hand, and not being deleted.
LEMMA PublishAccount ==
    ASSUME QueueInv, Working', NEW d \in Drainers, DrainPublish(d) \/ DrainRefused(d)
    PROVE  QueueInv'
<1> DEFINE e == Row(d)
<1>1. dpc[d] = "publish" /\ e \in Events /\ InBatch(d, e) /\ Held(e)
  BY RowInBatch DEF DrainPublish, DrainRefused, QueueInv, Held
<1>2. UNCHANGED <<tables, writers, batch, seen, draining, cli, accepted, evicted, purged, ignored,
                  faults, replays>>
  BY DEF DrainPublish, DrainRefused
<1>3. \A x \in Drainers : x # d => dpc[x] = "idle" /\ dpc'[x] = "idle"
  BY <1>1 DEF QueueInv, SingleDrain, Working, TypeOK, DrainsOK, DrainPublish, DrainRefused, DGoto
<1>4. dpc'[d] \in {"delete", "failed"}
  BY DEF QueueInv, Working, TypeOK, DrainsOK, DrainPublish, DrainRefused, DGoto
<1>5. SingleDrain' /\ BatchesOK' /\ WritersFresh'
  BY <1>1, <1>2, <1>3, <1>4 DEF QueueInv, SingleDrain, BatchesOK, WritersFresh, writers
<1>6. /\ \A x \in Drainers : Row(x)' = Row(x)
      /\ \A x \in Drainers, y \in Events : InBatch(x, y)' <=> InBatch(x, y)
      /\ \A y \in Events : Held(y)' <=> Held(y)
  BY <1>2 DEF Row, InBatch, Held
<1>7. \A y \in Events : ~Deleting(y) /\ (Deleting(y)' <=> dpc'[d] = "delete" /\ y = e)
  BY <1>1, <1>3, <1>6 DEF Deleting
<1>8. /\ faults \in Nat /\ replays \in Nat
      /\ \A y \in Events : sent[y] \in Nat /\ tries[y] \in Nat /\ attempts[y] \in Nat
      /\ \A x \in Drainers, y \in Events : seen[x][y] \in Nat
  BY Counters DEF QueueInv
<1>9. e \in accepted /\ sent[e] <= faults + replays /\ seen[d][e] <= tries[e]
  BY <1>1, <1>7 DEF QueueInv, Unaccepted, Account, TriesCover
<1>10. CASE DrainPublish(d)
  <2>1. /\ UNCHANGED tries /\ dpc'[d] = "delete" /\ sent'[e] = sent[e] + 1
        /\ \A y \in Events : y # e => sent'[y] = sent[y]
    BY <1>10, <1>1 DEF DrainPublish, DGoto, QueueInv, Working, TypeOK, DrainsOK, HistoryOK
  <2>2. Unaccepted' BY <1>2, <1>6, <1>9, <2>1 DEF QueueInv, Unaccepted, tables
  <2>3. NothingVanishes' /\ ReplayIsSafe'
    <3>1. \A y \in Events : sent[y] > 0 => sent'[y] > 0 BY <1>8, <2>1
    <3>2. rpc # "idle" => rev \in Events BY DEF QueueInv, Working, BusyHasWork, ReplayHasEvent
    <3>3. accepted \subseteq Events BY DEF QueueInv, Working, TypeOK, HistoryOK
    <3> QED BY <1>2, <3>1, <3>2, <3>3 DEF QueueInv, NothingVanishes, ReplayIsSafe, tables, cli
  <2>4. DeletedIsSent' BY <1>1, <1>3, <1>6, <1>8, <2>1 DEF DeletedIsSent
  <2>5. TriesCover' BY <1>2, <1>3, <1>6, <2>1 DEF QueueInv, TriesCover, tables
  <2>6. Account' BY <1>2, <1>6, <1>7, <2>1 DEF QueueInv, Account, tables
  <2>7. DuplicatesNeedFaults' BY <1>2, <1>8, <1>9, <2>1 DEF QueueInv, DuplicatesNeedFaults
  <2> QED BY <1>5, <2>2, <2>3, <2>4, <2>5, <2>6, <2>7 DEF QueueInv
<1>11. CASE DrainRefused(d)
  <2>1. /\ UNCHANGED sent /\ dpc'[d] = "failed" /\ tries'[e] = tries[e] + 1
        /\ \A y \in Events : y # e => tries'[y] = tries[y]
    BY <1>11, <1>1 DEF DrainRefused, DGoto, QueueInv, Working, TypeOK, DrainsOK, HistoryOK
  <2>2. Unaccepted' /\ NothingVanishes' /\ ReplayIsSafe'
    BY <1>2, <1>6, <2>1 DEF QueueInv, Unaccepted, NothingVanishes, ReplayIsSafe, tables, cli
  <2>3. DeletedIsSent' BY <1>3, <2>1 DEF DeletedIsSent
  <2>4. TriesCover'
    <3>1. \A y \in Events : tries[y] <= tries'[y] /\ tries'[y] \in Nat BY <1>8, <2>1
    <3>2. \A y \in pending' : attempts'[y] <= tries'[y]
      BY <1>2, <1>8, <3>1 DEF QueueInv, TriesCover, tables, Working, TypeOK, TablesOK
    <3>3. \A x \in Drainers, y \in Events : InBatch(x, y)' => seen'[x][y] <= tries'[y]
      BY <1>2, <1>6, <1>8, <3>1 DEF QueueInv, TriesCover
    <3>4. \A x \in Drainers : dpc'[x] = "failed" => seen'[x][Row(x)'] < tries'[Row(x)']
      BY <1>1, <1>2, <1>3, <1>6, <1>8, <1>9, <2>1
    <3> QED BY <3>2, <3>3, <3>4 DEF TriesCover
  <2>5. Account' /\ DuplicatesNeedFaults'
    BY <1>2, <1>6, <1>7, <2>1 DEF QueueInv, Account, DuplicatesNeedFaults, tables
  <2> QED BY <1>5, <2>2, <2>3, <2>4, <2>5 DEF QueueInv
<1> QED BY <1>10, <1>11

\* The end of a row: moved to dead_letters, deleted after it was sent, or counted.
LEMMA RowDoneAccount ==
    ASSUME QueueInv, Working', NEW d \in Drainers,
           DrainPoison(d) \/ DrainDelete(d) \/ DrainCount(d)
    PROVE  QueueInv'
<1> DEFINE e == Row(d)
<1>1. /\ dpc[d] \in {"publish", "delete", "failed"} /\ NextRow(d)
      /\ UNCHANGED <<writers, cli, accepted, evicted, purged, sent, tries, faults, replays>>
  BY DEF DrainPoison, DrainDelete, DrainCount, history
<1>2. e \in Events /\ InBatch(d, e) /\ Held(e) /\ e \in accepted
  BY <1>1, RowInBatch DEF QueueInv, Held, Unaccepted
<1>3. SingleDrain' /\ BatchesOK' /\ WritersFresh'
  BY <1>1, NextRowMoves DEF QueueInv, WritersFresh, writers
<1>4. /\ \A x \in Drainers : dpc'[x] \notin {"delete", "failed"}
      /\ \A x \in Drainers, y \in Events :
            InBatch(x, y)' => InBatch(x, y) /\ y # e /\ seen'[x][y] = seen[x][y]
  BY <1>1, NextRowMoves DEF QueueInv
<1>5. \A y \in Events : Held(y)' => Held(y) /\ y # e BY <1>4 DEF Held
<1>6. \A y \in Events : Deleting(y) => y = e
  BY <1>1 DEF Deleting, QueueInv, SingleDrain
<1>7. /\ pending' \subseteq pending /\ pending \ {e} \subseteq pending'
      /\ dead \subseteq dead' /\ dead' \subseteq dead \cup {e} /\ ignored \subseteq ignored'
      /\ \A y \in pending' : y # e => attempts'[y] = attempts[y]
  BY DEF DrainPoison, DrainDelete, DrainCount, MoveToDlq, DropRow, history,
         QueueInv, Working, TypeOK, TablesOK
<1>8. e \notin pending' => e \notin pending \/ sent[e] > 0
                               \/ (e \in dead' /\ (e \in dead => e \in ignored'))
  BY DEF DrainPoison, DrainDelete, DrainCount, MoveToDlq, DropRow,
         QueueInv, DeletedIsSent
<1>9. e \in pending' => e \in pending /\ dpc[d] = "failed" /\ attempts'[e] <= tries[e]
  <2> SUFFICES ASSUME e \in pending'
               PROVE  e \in pending /\ dpc[d] = "failed" /\ attempts'[e] <= tries[e]
    OBVIOUS
  <2>1. ~DropRow(e) BY DEF DropRow
  <2>2. DrainCount(d) /\ ~LastTry(seen[d][e])
    BY <2>1 DEF DrainPoison, DrainDelete, DrainCount, MoveToDlq
  <2>3. e \in pending /\ dpc[d] = "failed" /\ attempts' = [attempts EXCEPT ![e] = seen[d][e] + 1]
    BY <2>2 DEF DrainCount
  <2>4. attempts'[e] = seen[d][e] + 1
    BY <1>2, <2>3 DEF QueueInv, Working, TypeOK, TablesOK
  <2>5. seen[d][e] < tries[e] BY <2>3 DEF QueueInv, TriesCover
  <2>6. seen[d][e] \in Nat /\ tries[e] \in Nat BY <1>2, Counters DEF QueueInv
  <2> QED BY <2>3, <2>4, <2>5, <2>6
<1>10. Unaccepted' BY <1>1, <1>2, <1>5, <1>7 DEF QueueInv, Unaccepted
<1>11. NothingVanishes' /\ ReplayIsSafe'
  <2>1. NothingVanishes' BY <1>1, <1>7, <1>8 DEF QueueInv, NothingVanishes
  <2>2. ReplayIsSafe' BY <1>1, <1>7, <1>8 DEF QueueInv, ReplayIsSafe, cli
  <2> QED BY <2>1, <2>2
<1>12. DeletedIsSent' BY <1>4 DEF DeletedIsSent
<1>13. TriesCover'
  <2>1. \A y \in pending' : attempts'[y] <= tries'[y]
    BY <1>1, <1>7, <1>9 DEF QueueInv, TriesCover
  <2>2. \A x \in Drainers, y \in Events : InBatch(x, y)' => seen'[x][y] <= tries'[y]
    BY <1>1, <1>4 DEF QueueInv, TriesCover
  <2>3. \A x \in Drainers : dpc'[x] # "failed" BY <1>4
  <2> QED BY <2>1, <2>2, <2>3 DEF TriesCover
<1>14. Account' /\ DuplicatesNeedFaults'
  <2>1. e \in pending' => ~Deleting(e)
    BY <1>9 DEF Deleting, QueueInv, SingleDrain
  <2>2. Account'
    BY <1>1, <1>5, <1>6, <1>7, <2>1 DEF QueueInv, Account
  <2> QED BY <1>1, <2>2 DEF QueueInv, DuplicatesNeedFaults
<1> QED BY <1>3, <1>10, <1>11, <1>12, <1>13, <1>14 DEF QueueInv

\* Every step keeps the account of every event.
LEMMA QueueStep ==
    ASSUME QueueInv, [Next]_vars
    PROVE  QueueInv'
<1>1. Working' BY TypeStep DEF QueueInv, Working
<1>2. CASE UNCHANGED vars
  <2>1. UNCHANGED <<drains, tables, wev, cli, history>> BY <1>2 DEF vars, writers
  <2>2. SingleDrain' /\ BatchesOK' /\ WritersFresh'
    BY <2>1, DrainsKept DEF QueueInv, WritersFresh, history
  <2>3. Unaccepted' /\ NothingVanishes' /\ ReplayIsSafe'
    BY <2>1, DrainsKept DEF QueueInv, Unaccepted, NothingVanishes, ReplayIsSafe, tables, cli, history
  <2>4. DeletedIsSent' /\ TriesCover'
    BY <2>1, DrainsKept DEF QueueInv, DeletedIsSent, TriesCover, tables, history
  <2>5. Account' /\ DuplicatesNeedFaults'
    BY <2>1, DrainsKept DEF QueueInv, Account, DuplicatesNeedFaults, tables, history
  <2> QED BY <1>1, <2>2, <2>3, <2>4, <2>5 DEF QueueInv
<1> QED
  BY <1>1, <1>2, WriterStepsAccount, EvictAccount, InsertAccount, OperatorAccount,
     DrainStopsAccount, SelectAccount, PublishAccount, RowDoneAccount
     DEF Next, WriterStep, DrainStep

\* The account holds at the start.
LEMMA QueueInit ==
    ASSUME Init
    PROVE  QueueInv
<1>1. Working BY InitTyped DEF Working
<1>2. \A d \in Drainers, e \in Events : ~InBatch(d, e) BY DEF Init, InBatch
<1>3. SingleDrain /\ BatchesOK /\ DeletedIsSent
  BY DEF Init, SingleDrain, BatchesOK, DeletedIsSent
<1>4. WritersFresh /\ NothingVanishes /\ ReplayIsSafe
  BY DEF Init, WritersFresh, NothingVanishes, ReplayIsSafe
<1>5. Unaccepted /\ Account /\ DuplicatesNeedFaults
  BY <1>2 DEF Init, Unaccepted, Account, Held, DuplicatesNeedFaults
<1>6. TriesCover BY <1>2 DEF Init, TriesCover
<1> QED BY <1>1, <1>3, <1>4, <1>5, <1>6 DEF QueueInv

\* The account holds throughout.
LEMMA QueueInvariance == Spec => []QueueInv
<1>1. Init => QueueInv BY QueueInit
<1>2. QueueInv /\ [Next]_vars => QueueInv' BY QueueStep
<1> QED BY <1>1, <1>2, PTL DEF Spec

\* disk_queue.rs: an event whose enqueue() returned Ok is never lost without a
\* trace, whatever the drains, the evictions, the operator and the crashes do.
THEOREM AcceptedIsAccountedFor == Spec => []NothingVanishes
<1>1. QueueInv => NothingVanishes BY DEF QueueInv
<1> QED BY <1>1, QueueInvariance, PTL

\* drain_running and the DELETE after the publish: a copy too many of an event
\* is paid for by a fault or by a replay.
THEOREM CopiesArePaidFor == Spec => []DuplicatesNeedFaults
<1>1. QueueInv => DuplicatesNeedFaults BY DEF QueueInv
<1> QED BY <1>1, QueueInvariance, PTL

\* move_to_dlq: a readable event is given up only after MaxAttempts publishes
\* of it failed, though the drain decides on a copy of the row.
THEOREM GivenUpAfterTries == Spec => DeadOnlyAfterTries
<1> DEFINE Fair == \A e \in dead' \ dead : e \in Poison \/ tries[e] >= MaxAttempts
<1>1. QueueInv /\ [Next]_vars => [Fair]_vars
  <2> SUFFICES ASSUME QueueInv, Next, NEW e \in dead', e \notin dead, e \notin Poison
               PROVE  tries[e] >= MaxAttempts
    OBVIOUS
  <2>1. PICK d \in Drainers : DrainCount(d) /\ LastTry(seen[d][Row(d)]) /\ e = Row(d)
    BY DEF Next, WriterStep, DrainStep, OperatorStep, EnqueueCount, EnqueueLock, EnqueueRecount,
           EnqueueEvict, EnqueueInsert, EnqueueError, DrainStart, DrainSelect, DrainPoison,
           DrainPublish, DrainRefused, DrainDelete, DrainCount, DrainError, MoveToDlq,
           ReplaySelect, ReplayInsert, ReplayDelete, ReplayAbort, Purge, Crash, tables
  <2>2. dpc[d] = "failed" BY <2>1 DEF DrainCount
  <2>3. e \in Events BY <2>1, <2>2, RowInBatch DEF QueueInv
  <2>4. seen[d][e] < tries[e] BY <2>1, <2>2 DEF QueueInv, TriesCover
  <2>5. seen[d][e] \in Nat /\ tries[e] \in Nat BY <2>3, Counters DEF QueueInv
  <2> QED BY <2>1, <2>4, <2>5, QueueAssumption DEF LastTry, QueueAssumption
<1> QED BY <1>1, QueueInvariance, PTL DEF Spec, DeadOnlyAfterTries
=============================================================================
