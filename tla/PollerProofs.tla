----------------------------- MODULE PollerProofs -----------------------------
(***************************************************************************)
(* Proofs about Poller, for any number of daemons, task slots, overlapping *)
(* reloads and faults and any length of the feed: at most one task ticks   *)
(* as long as none overruns its lease, the stored cursor never passes an   *)
(* item that was not dispatched, none is dispatched twice without a cause, *)
(* a pause takes hold, and no task escapes its runner's map unless two     *)
(* reloads overlap.                                                        *)
(***************************************************************************)
EXTENDS Poller, TLAPS

\* The conjuncts of PollerTypeOK about the rows, the tasks and the rest.
RowOK == row \in [cursor : Positions, paused : BOOLEAN]
LeaseOK == lease \in [holder : Runners \cup {None}, left : 0..LeaseTtl]
Pcs == {"none", "sleep", "due", "acquire", "load", "tick", "ok", "pause", "release"}
TaskRecords == [pc : Pcs, runner : Runners \cup {None}, cancelled : BOOLEAN, cb : Breakers,
                held : Positions \cup {None}, sent : BOOLEAN, left : 0..LeaseTtl, late : 0..2]
TasksOK == tasks \in [Tasks -> TaskRecords]
DispatchedOK == dispatched \in [0..(Items - 1) -> 0..2]
OthersOK ==
    /\ runners \in [Runners -> [up : BOOLEAN, entry : Tasks \cup {None}, known : BOOLEAN,
                                once : Positions \cup {None}]]
    /\ admins \in [Admins -> [runner : Runners \cup {None},
                              plan : {"none", "add", "absent", "replace", "keep", "remove"},
                              at : {"idle", "apply", "spawn", "insert"},
                              task : Tasks \cup {None}]]
    /\ events \in 0..MaxEvents
    /\ history \subseteq Causes \cup {"overlap"}

\* A tick runs with a cursor, and every cursor a task holds was dispatched up to.
TickHasCursor == \A t \in Tasks : tasks[t].pc = "tick" => tasks[t].held \in Positions
Covered(c) == \A i \in 0..(c - 1) : dispatched[i] > 0
HeldCovered == \A t \in Tasks : tasks[t].held \in Positions => Covered(tasks[t].held)

\* Until the first overrun a task in the section is the one the lease names,
\* and its grant has as long to run as the lease.
Holds(t) == /\ lease.holder = tasks[t].runner
            /\ lease.left = tasks[t].left
            /\ tasks[t].left > 0
SectionHolds == "overrun" \notin history => \A t \in Tasks : InSection(t) => Holds(t)

IInv == /\ RowOK /\ LeaseOK /\ TasksOK /\ DispatchedOK /\ OthersOK
        /\ TickHasCursor /\ HeldCovered /\ NothingSkipped
        /\ SectionHolds /\ LeaseExcludes

-----------------------------------------------------------------------------
\* Every method of the task's breaker returns a breaker.
LEMMA BreakerTypes ==
    /\ NewBreaker \in Breakers
    /\ \A cb \in Breakers : /\ AfterAllow(cb) \in Breakers
                            /\ OnSuccess(cb) \in Breakers
                            /\ OnFailure(cb) \in Breakers
                            /\ TickBreaker(cb) \in Breakers
<1>1. NewBreaker \in Breakers
  BY ConfigAssumption DEF ConfigAssumption, Breakers, NewBreaker, Closed
<1>2. ASSUME NEW cb \in Breakers PROVE AfterAllow(cb) \in Breakers
  BY ConfigAssumption DEF ConfigAssumption, Breakers, AfterAllow, HalfOpen
<1>3. ASSUME NEW cb \in Breakers PROVE OnSuccess(cb) \in Breakers
  BY ConfigAssumption DEF ConfigAssumption, Breakers, OnSuccess, Closed, HalfOpen
<1>4. ASSUME NEW cb \in Breakers PROVE OnFailure(cb) \in Breakers
  BY ConfigAssumption DEF ConfigAssumption, Breakers, OnFailure, Open, Closed, NextBackoff
<1>5. ASSUME NEW cb \in Breakers PROVE TickBreaker(cb) \in Breakers
  BY DEF Breakers, TickBreaker
<1> QED BY <1>1, <1>2, <1>3, <1>4, <1>5

\* Records of empty slots and of new tasks are well typed.
LEMMA TaskTypes ==
    /\ NoTask \in TaskRecords
    /\ \A r \in Runners \cup {None} : NewTask(r) \in TaskRecords
<1>1. NoTask \in TaskRecords
  BY BreakerTypes, PollerAssumption DEF PollerAssumption, NoTask, TaskRecords, Pcs
<1>2. ASSUME NEW r \in Runners \cup {None} PROVE NewTask(r) \in TaskRecords
  BY <1>1 DEF NewTask, TaskRecords, Pcs
<1> QED BY <1>1, <1>2


\* Replacing the record of one slot keeps the type of the function.
LEMMA OneSlot ==
    ASSUME TasksOK, NEW t \in Tasks, NEW x \in TaskRecords, tasks' = [tasks EXCEPT ![t] = x]
    PROVE  TasksOK'
BY DEF TasksOK

\* A tick begins with a well-typed record.
LEMMA TickFromTypes ==
    ASSUME TasksOK, NEW t \in Tasks, NEW c \in Positions, TickFrom(t, c)
    PROVE  TasksOK'
<1> DEFINE n == IF row.paused /\ tasks[t].late < 2 THEN tasks[t].late + 1 ELSE tasks[t].late
<1>1. tasks[t].late \in 0..2 BY DEF TasksOK, TaskRecords
<1>2. n \in 0..2 BY <1>1
<1>3. tasks' = [tasks EXCEPT ![t].pc = "tick", ![t].held = c, ![t].sent = FALSE, ![t].late = n]
  BY DEF TickFrom, TasksOK, TaskRecords
<1> HIDE DEF n
<1>4. [tasks[t] EXCEPT !.pc = "tick", !.held = c, !.sent = FALSE, !.late = n] \in TaskRecords
  BY <1>2 DEF TasksOK, TaskRecords, Pcs
<1> QED BY <1>3, <1>4, OneSlot DEF TasksOK

\* A step that begins no tick and moves no cursor keeps what is known of them.
LEMMA CursorsKept ==
    ASSUME IInv, row'.cursor = row.cursor, dispatched' = dispatched,
           \A u \in Tasks : /\ tasks'[u].held = tasks[u].held
                            /\ tasks'[u].pc = "tick" => tasks[u].pc = "tick"
    PROVE  TickHasCursor' /\ HeldCovered' /\ NothingSkipped'
<1>1. TickHasCursor' BY DEF IInv, TickHasCursor
<1>2. NothingSkipped' BY DEF IInv, NothingSkipped
<1>3. HeldCovered'
  <2>1. \A d : Covered(d)' <=> Covered(d) BY DEF Covered
  <2> QED BY <2>1 DEF IInv, HeldCovered
<1> QED BY <1>1, <1>2, <1>3

\* A step that leaves the lease and the tasks in the section alone.
LEMMA SectionsKept ==
    ASSUME IInv, lease' = lease, history \subseteq history',
           \A u \in Tasks : /\ InSection(u)' => InSection(u)
                            /\ tasks'[u].runner = tasks[u].runner
                            /\ tasks'[u].left = tasks[u].left
    PROVE  SectionHolds' /\ LeaseExcludes'
<1>1. SectionHolds' BY DEF IInv, SectionHolds, Holds
<1>2. LeaseExcludes' BY DEF IInv, LeaseExcludes
<1> QED BY <1>1, <1>2

\* Dispatching counts an item and forgets none.
LEMMA DispatchCounts ==
    ASSUME DispatchedOK, NEW c \in Positions, c < Items
    PROVE  /\ Dispatch(c) \in [0..(Items - 1) -> 0..2]
           /\ Dispatch(c)[c] > 0
           /\ \A i \in 0..(Items - 1) : dispatched[i] > 0 => Dispatch(c)[i] > 0
<1> DEFINE n == IF dispatched[c] < 2 THEN dispatched[c] + 1 ELSE 2
<1>1. c \in 0..(Items - 1) BY PollerAssumption DEF PollerAssumption, Positions
<1>2. n \in 1..2 BY <1>1 DEF DispatchedOK
<1>3. Dispatch(c) = [dispatched EXCEPT ![c] = n] BY <1>1 DEF Dispatch, DispatchedOK
<1> HIDE DEF n
<1> QED BY <1>1, <1>2, <1>3 DEF DispatchedOK

\* A manual tick only adds to what was dispatched.
LEMMA DispatchKeeps ==
    ASSUME IInv, NEW c \in Positions, c < Items, dispatched' = Dispatch(c),
           row' = row, tasks' = tasks
    PROVE  TickHasCursor' /\ HeldCovered' /\ NothingSkipped'
<1>1. \A i \in 0..(Items - 1) : dispatched[i] > 0 => dispatched'[i] > 0
  BY DispatchCounts DEF IInv
<1>2. \A d \in Positions : Covered(d) => Covered(d)'
  BY <1>1, PollerAssumption DEF Covered, Positions, PollerAssumption
<1>3. TickHasCursor' BY DEF IInv, TickHasCursor
<1>4. HeldCovered' BY <1>2 DEF IInv, HeldCovered
<1>5. NothingSkipped' BY <1>2 DEF IInv, NothingSkipped, Covered, RowOK
<1> QED BY <1>3, <1>4, <1>5

\* A timer that fires touches nothing.
LEMMA DueStep ==
    ASSUME IInv, NEW t \in Tasks, Due(t)
    PROVE  IInv'
<1>1. TasksOK'
  BY PollerAssumption DEF IInv, RowOK, TasksOK, TaskRecords, Pcs, TickHasCursor,
     Positions, PollerAssumption, Due, Past, Routine
<1>2. RowOK' /\ LeaseOK' /\ DispatchedOK'
  BY PollerAssumption DEF IInv, RowOK, LeaseOK, TasksOK, DispatchedOK, TaskRecords,
     Positions, PollerAssumption, Due, Past, Routine
<1>3. OthersOK'
  BY PollerAssumption DEF IInv, RowOK, OthersOK, Causes, PollerAssumption, Due, Past, Routine
<1>4. TickHasCursor' /\ HeldCovered' /\ NothingSkipped'
  BY PollerAssumption DEF IInv, RowOK, LeaseOK, TasksOK, DispatchedOK, OthersOK, TaskRecords,
     TickHasCursor,
     HeldCovered, Covered, NothingSkipped, Positions, PollerAssumption, Due, Past, Routine
<1>5. SectionHolds' /\ LeaseExcludes'
  BY PollerAssumption DEF IInv, RowOK, LeaseOK, TasksOK, DispatchedOK, OthersOK, TaskRecords,
     SectionHolds,
     LeaseExcludes, InSection, Holds, PollerAssumption, Due, Past, Routine
<1> QED BY <1>1, <1>2, <1>3, <1>4, <1>5 DEF IInv

\* A wake-up touches no cursor and no lease.
LEMMA WakeStep ==
    ASSUME IInv, NEW t \in Tasks, Wake(t)
    PROVE  IInv'
<1>1. TasksOK'
  BY PollerAssumption DEF IInv, RowOK, TasksOK, TaskRecords, Pcs, TickHasCursor,
     Positions, PollerAssumption, Wake, Past, Routine
<1>2. RowOK' /\ LeaseOK' /\ DispatchedOK'
  BY PollerAssumption DEF IInv, RowOK, LeaseOK, TasksOK, DispatchedOK, TaskRecords,
     Positions, PollerAssumption, Wake, Past, Routine
<1>3. OthersOK'
  BY PollerAssumption DEF IInv, RowOK, OthersOK, Causes, PollerAssumption, Wake, Past, Routine
<1>4. TickHasCursor' /\ HeldCovered' /\ NothingSkipped'
  BY PollerAssumption DEF IInv, RowOK, LeaseOK, TasksOK, DispatchedOK, OthersOK, TaskRecords,
     TickHasCursor,
     HeldCovered, Covered, NothingSkipped, Positions, PollerAssumption, Wake, Past, Routine
<1>5. SectionHolds' /\ LeaseExcludes'
  BY PollerAssumption DEF IInv, RowOK, LeaseOK, TasksOK, DispatchedOK, OthersOK, TaskRecords,
     SectionHolds,
     LeaseExcludes, InSection, Holds, PollerAssumption, Wake, Past, Routine
<1> QED BY <1>1, <1>2, <1>3, <1>4, <1>5 DEF IInv

\* Nor does one whose read of the row failed.
LEMMA WakeErrorStep ==
    ASSUME IInv, NEW t \in Tasks, WakeError(t)
    PROVE  IInv'
<1>1. TasksOK'
  BY PollerAssumption DEF IInv, RowOK, TasksOK, TaskRecords, Pcs, TickHasCursor,
     Positions, PollerAssumption, WakeError, Past, Event
<1>2. RowOK' /\ LeaseOK' /\ DispatchedOK'
  BY PollerAssumption DEF IInv, RowOK, LeaseOK, TasksOK, DispatchedOK, TaskRecords,
     Positions, PollerAssumption, WakeError, Past, Event
<1>3. OthersOK'
  BY PollerAssumption DEF IInv, RowOK, OthersOK, Causes, PollerAssumption, WakeError, Past, Event
<1>4. TickHasCursor' /\ HeldCovered' /\ NothingSkipped'
  BY PollerAssumption DEF IInv, RowOK, LeaseOK, TasksOK, DispatchedOK, OthersOK, TaskRecords,
     TickHasCursor,
     HeldCovered, Covered, NothingSkipped, Positions, PollerAssumption, WakeError, Past, Event
<1>5. SectionHolds' /\ LeaseExcludes'
  BY PollerAssumption DEF IInv, RowOK, LeaseOK, TasksOK, DispatchedOK, OthersOK, TaskRecords,
     SectionHolds,
     LeaseExcludes, InSection, Holds, PollerAssumption, WakeError, Past, Event
<1> QED BY <1>1, <1>2, <1>3, <1>4, <1>5 DEF IInv

\* A task ends outside the section.
LEMMA EndStep ==
    ASSUME IInv, NEW t \in Tasks, End(t)
    PROVE  IInv'
<1>1. TasksOK'
  BY TaskTypes, OneSlot DEF IInv, End
<1>2. RowOK' /\ LeaseOK' /\ DispatchedOK'
  BY PollerAssumption DEF IInv, RowOK, LeaseOK, TasksOK, DispatchedOK, TaskRecords,
     Positions, PollerAssumption, End, NoTask, Routine
<1>3. OthersOK'
  BY PollerAssumption DEF IInv, RowOK, OthersOK, Causes, PollerAssumption, End, NoTask, Routine
<1>4. TickHasCursor' /\ HeldCovered' /\ NothingSkipped'
  BY PollerAssumption DEF IInv, RowOK, LeaseOK, TasksOK, DispatchedOK, OthersOK, TaskRecords,
     TickHasCursor,
     HeldCovered, Covered, NothingSkipped, Positions, PollerAssumption, End, NoTask, Routine
<1>5. SectionHolds' /\ LeaseExcludes'
  BY PollerAssumption DEF IInv, RowOK, LeaseOK, TasksOK, DispatchedOK, OthersOK, TaskRecords,
     SectionHolds,
     LeaseExcludes, InSection, Holds, PollerAssumption, End, NoTask, Routine
<1> QED BY <1>1, <1>2, <1>3, <1>4, <1>5 DEF IInv

\* A tick begins with the stored cursor, which is covered.
LEMMA LoadStep ==
    ASSUME IInv, NEW t \in Tasks, Load(t)
    PROVE  IInv'
<1>1. TasksOK'
  BY TickFromTypes DEF IInv, RowOK, Load
<1>2. RowOK' /\ LeaseOK' /\ DispatchedOK'
  BY PollerAssumption DEF IInv, RowOK, LeaseOK, TasksOK, DispatchedOK, TaskRecords,
     Positions, PollerAssumption, Load, TickFrom, Routine
<1>3. OthersOK'
  BY PollerAssumption DEF IInv, RowOK, OthersOK, Causes, PollerAssumption, Load, TickFrom, Routine
<1>4. TickHasCursor' /\ HeldCovered' /\ NothingSkipped'
  BY PollerAssumption DEF IInv, RowOK, LeaseOK, TasksOK, DispatchedOK, OthersOK, TaskRecords,
     TickHasCursor,
     HeldCovered, Covered, NothingSkipped, Positions, PollerAssumption, Load, TickFrom, Routine
<1>5. SectionHolds' /\ LeaseExcludes'
  BY PollerAssumption DEF IInv, RowOK, LeaseOK, TasksOK, DispatchedOK, OthersOK, TaskRecords,
     SectionHolds,
     LeaseExcludes, InSection, Holds, PollerAssumption, Load, TickFrom, Routine
<1> QED BY <1>1, <1>2, <1>3, <1>4, <1>5 DEF IInv

\* After a failed read it begins at 0, which is covered trivially.
LEMMA LoadErrorStep ==
    ASSUME IInv, NEW t \in Tasks, LoadError(t)
    PROVE  IInv'
<1>1. TasksOK'
  <2>1. 0 \in Positions BY PollerAssumption DEF PollerAssumption, Positions
  <2> QED BY <2>1, TickFromTypes DEF IInv, LoadError
<1>2. RowOK' /\ LeaseOK' /\ DispatchedOK'
  BY PollerAssumption DEF IInv, RowOK, LeaseOK, TasksOK, DispatchedOK, TaskRecords,
     Positions, PollerAssumption, LoadError, TickFrom, Event
<1>3. OthersOK'
  BY PollerAssumption DEF IInv, RowOK, OthersOK, Causes, PollerAssumption, LoadError, TickFrom, Event
<1>4. TickHasCursor' /\ HeldCovered' /\ NothingSkipped'
  <2>1. row' = row /\ dispatched' = dispatched BY DEF LoadError
  <2>2. \A u \in Tasks : IF u = t THEN tasks'[u].held = 0 ELSE tasks'[u] = tasks[u]
    BY DEF IInv, TasksOK, TaskRecords, LoadError, TickFrom
  <2>3. 0 \in Positions BY PollerAssumption DEF PollerAssumption, Positions
  <2>4. Covered(0) /\ \A d : Covered(d)' <=> Covered(d) BY <2>1 DEF Covered
  <2>5. HeldCovered' BY <2>2, <2>4 DEF IInv, HeldCovered
  <2>6. TickHasCursor' BY <2>2, <2>3 DEF IInv, TickHasCursor
  <2>7. NothingSkipped' BY <2>1 DEF IInv, NothingSkipped
  <2> QED BY <2>5, <2>6, <2>7
<1>5. SectionHolds' /\ LeaseExcludes'
  BY PollerAssumption DEF IInv, RowOK, LeaseOK, TasksOK, DispatchedOK, OthersOK, TaskRecords,
     SectionHolds,
     LeaseExcludes, InSection, Holds, PollerAssumption, LoadError, TickFrom, Event
<1> QED BY <1>1, <1>2, <1>3, <1>4, <1>5 DEF IInv

\* A tick covers an item before it moves past it.
LEMMA TickItemStep ==
    ASSUME IInv, NEW t \in Tasks, TickItem(t)
    PROVE  IInv'
<1>1. TasksOK'
  <2>1. tasks[t].held + 1 \in Positions
    BY PollerAssumption DEF IInv, TickHasCursor, Positions, PollerAssumption, TickItem
  <2>2. [tasks[t] EXCEPT !.held = tasks[t].held + 1, !.sent = TRUE] \in TaskRecords
    BY <2>1 DEF IInv, TasksOK, TaskRecords
  <2>3. tasks' = [tasks EXCEPT ![t] = [tasks[t] EXCEPT !.held = tasks[t].held + 1, !.sent = TRUE]]
    BY DEF IInv, TasksOK, TaskRecords, TickItem
  <2> QED BY <2>2, <2>3, OneSlot DEF IInv
<1>2. RowOK' /\ LeaseOK' /\ DispatchedOK'
  BY DispatchCounts, PollerAssumption DEF IInv, RowOK, LeaseOK, TasksOK, DispatchedOK,
     OthersOK, TickHasCursor, PollerAssumption, TickItem, Routine
<1>3. OthersOK'
  BY PollerAssumption DEF IInv, RowOK, OthersOK, Causes, PollerAssumption, TickItem, Routine
<1>4. TickHasCursor' /\ HeldCovered' /\ NothingSkipped'
  <2>1. PICK c \in Positions : c = tasks[t].held /\ c < Items
    BY DEF IInv, TickHasCursor, TickItem
  <2>2. /\ \A i \in 0..(Items - 1) : dispatched[i] > 0 => dispatched'[i] > 0
        /\ dispatched'[c] > 0
    BY <2>1, DispatchCounts DEF IInv, TickItem
  <2>3. /\ Items \in Nat /\ None \notin Nat
        /\ \A d \in Positions : d \in 0..Items
    BY PollerAssumption DEF PollerAssumption, Positions
  <2>4. \A d \in Positions : Covered(d) => Covered(d)'
    BY <2>2, <2>3 DEF Covered
  <2>5. Covered(c) BY <2>1 DEF IInv, HeldCovered
  <2>6. Covered(c + 1)'
    <3> SUFFICES ASSUME NEW i \in 0..c PROVE dispatched'[i] > 0 BY <2>3 DEF Covered
    <3>1. i = c \/ i \in 0..(c - 1) BY <2>3
    <3>2. i \in 0..(Items - 1) BY <2>1, <2>3
    <3> QED BY <3>1, <3>2, <2>2, <2>5 DEF Covered
  <2>7. \A u \in Tasks : IF u = t THEN tasks'[u].held = c + 1 /\ c + 1 \in Positions
                       ELSE tasks'[u] = tasks[u]
    BY <2>1, <2>3 DEF IInv, TasksOK, TaskRecords, TickItem, Positions
  <2>8. HeldCovered' BY <2>4, <2>6, <2>7 DEF IInv, HeldCovered
  <2>9. TickHasCursor' BY <2>7 DEF IInv, TickHasCursor
  <2>10. NothingSkipped'
    BY <2>4 DEF IInv, NothingSkipped, Covered, RowOK, TickItem, Routine
  <2> QED BY <2>8, <2>9, <2>10
<1>5. SectionHolds' /\ LeaseExcludes'
  BY PollerAssumption DEF IInv, RowOK, LeaseOK, TasksOK, DispatchedOK, OthersOK, TaskRecords,
     SectionHolds,
     LeaseExcludes, InSection, Holds, PollerAssumption, TickItem, Routine
<1> QED BY <1>1, <1>2, <1>3, <1>4, <1>5 DEF IInv

\* A tick acknowledges the position it has come to.
LEMMA TickOkStep ==
    ASSUME IInv, NEW t \in Tasks, TickOk(t)
    PROVE  IInv'
<1>1. TasksOK'
  BY BreakerTypes, PollerAssumption DEF IInv, RowOK, TasksOK, TaskRecords, Pcs, TickHasCursor,
     Positions, PollerAssumption, TickOk, Routine
<1>2. RowOK' /\ LeaseOK' /\ DispatchedOK'
  BY PollerAssumption DEF IInv, RowOK, LeaseOK, TasksOK, DispatchedOK, TaskRecords,
     Positions, PollerAssumption, TickOk, Routine
<1>3. OthersOK'
  BY PollerAssumption DEF IInv, RowOK, OthersOK, Causes, PollerAssumption, TickOk, Routine
<1>4. TickHasCursor' /\ HeldCovered' /\ NothingSkipped'
  <2>1. row' = row /\ dispatched' = dispatched BY DEF TickOk
  <2>2. \A u \in Tasks : /\ tasks'[u].held = tasks[u].held
                         /\ tasks'[u].pc = "tick" => tasks[u].pc = "tick"
    BY DEF IInv, TasksOK, TaskRecords, TickOk
  <2> QED BY <2>1, <2>2, CursorsKept
<1>5. SectionHolds' /\ LeaseExcludes'
  BY PollerAssumption DEF IInv, RowOK, LeaseOK, TasksOK, DispatchedOK, OthersOK, TaskRecords,
     SectionHolds,
     LeaseExcludes, InSection, Holds, PollerAssumption, TickOk, Routine
<1> QED BY <1>1, <1>2, <1>3, <1>4, <1>5 DEF IInv

\* An empty tick acknowledges no cursor.
LEMMA TickNothingStep ==
    ASSUME IInv, NEW t \in Tasks, TickNothing(t)
    PROVE  IInv'
<1>1. TasksOK'
  BY BreakerTypes, PollerAssumption DEF IInv, RowOK, TasksOK, TaskRecords, Pcs, TickHasCursor,
     Positions, PollerAssumption, TickNothing, Routine
<1>2. RowOK' /\ LeaseOK' /\ DispatchedOK'
  BY PollerAssumption DEF IInv, RowOK, LeaseOK, TasksOK, DispatchedOK, TaskRecords,
     Positions, PollerAssumption, TickNothing, Routine
<1>3. OthersOK'
  BY PollerAssumption DEF IInv, RowOK, OthersOK, Causes, PollerAssumption, TickNothing, Routine
<1>4. TickHasCursor' /\ HeldCovered' /\ NothingSkipped'
  BY PollerAssumption DEF IInv, RowOK, LeaseOK, TasksOK, DispatchedOK, OthersOK, TaskRecords,
     TickHasCursor,
     HeldCovered, Covered, NothingSkipped, Positions, PollerAssumption, TickNothing, Routine
<1>5. SectionHolds' /\ LeaseExcludes'
  BY PollerAssumption DEF IInv, RowOK, LeaseOK, TasksOK, DispatchedOK, OthersOK, TaskRecords,
     SectionHolds,
     LeaseExcludes, InSection, Holds, PollerAssumption, TickNothing, Routine
<1> QED BY <1>1, <1>2, <1>3, <1>4, <1>5 DEF IInv

\* A failed tick drops its cursor.
LEMMA TickErrorStep ==
    ASSUME IInv, NEW t \in Tasks, TickError(t)
    PROVE  IInv'
<1>1. TasksOK'
  BY BreakerTypes, PollerAssumption DEF IInv, RowOK, TasksOK, TaskRecords, Pcs, TickHasCursor,
     Positions, PollerAssumption, TickError, Routine
<1>2. RowOK' /\ LeaseOK' /\ DispatchedOK'
  BY PollerAssumption DEF IInv, RowOK, LeaseOK, TasksOK, DispatchedOK, TaskRecords,
     Positions, PollerAssumption, TickError, Routine
<1>3. OthersOK'
  BY PollerAssumption DEF IInv, RowOK, OthersOK, Causes, PollerAssumption, TickError, Routine
<1>4. TickHasCursor' /\ HeldCovered' /\ NothingSkipped'
  BY PollerAssumption DEF IInv, RowOK, LeaseOK, TasksOK, DispatchedOK, OthersOK, TaskRecords,
     TickHasCursor,
     HeldCovered, Covered, NothingSkipped, Positions, PollerAssumption, TickError, Routine
<1>5. SectionHolds' /\ LeaseExcludes'
  BY PollerAssumption DEF IInv, RowOK, LeaseOK, TasksOK, DispatchedOK, OthersOK, TaskRecords,
     SectionHolds,
     LeaseExcludes, InSection, Holds, PollerAssumption, TickError, Routine
<1> QED BY <1>1, <1>2, <1>3, <1>4, <1>5 DEF IInv

\* What is saved was covered when it was acknowledged.
LEMMA SaveOkStep ==
    ASSUME IInv, NEW t \in Tasks, SaveOk(t)
    PROVE  IInv'
<1>1. TasksOK'
  <2>1. [tasks[t] EXCEPT !.pc = "release", !.held = None] \in TaskRecords
    BY PollerAssumption DEF IInv, TasksOK, TaskRecords, Pcs, PollerAssumption
  <2>2. tasks' = [tasks EXCEPT ![t] = [tasks[t] EXCEPT !.pc = "release", !.held = None]] BY
     DEF IInv, TasksOK, SaveOk, Routine
  <2> QED BY <2>1, <2>2, OneSlot DEF IInv
<1>2. RowOK' /\ LeaseOK' /\ DispatchedOK'
  BY PollerAssumption DEF IInv, RowOK, LeaseOK, TasksOK, DispatchedOK, TaskRecords,
     Positions, PollerAssumption, SaveOk, Routine
<1>3. OthersOK'
  BY PollerAssumption DEF IInv, RowOK, OthersOK, Causes, PollerAssumption, SaveOk, Routine
<1>4. TickHasCursor' /\ HeldCovered' /\ NothingSkipped'
  BY PollerAssumption DEF IInv, RowOK, LeaseOK, TasksOK, DispatchedOK, OthersOK, TaskRecords,
     TickHasCursor,
     HeldCovered, Covered, NothingSkipped, Positions, PollerAssumption, SaveOk, Routine
<1>5. SectionHolds' /\ LeaseExcludes'
  BY PollerAssumption DEF IInv, RowOK, LeaseOK, TasksOK, DispatchedOK, OthersOK, TaskRecords,
     SectionHolds,
     LeaseExcludes, InSection, Holds, PollerAssumption, SaveOk, Routine
<1> QED BY <1>1, <1>2, <1>3, <1>4, <1>5 DEF IInv

\* Pausing writes no cursor.
LEMMA PauseJobStep ==
    ASSUME IInv, NEW t \in Tasks, PauseJob(t)
    PROVE  IInv'
<1>1. TasksOK'
  BY PollerAssumption DEF IInv, RowOK, TasksOK, TaskRecords, Pcs, TickHasCursor,
     Positions, PollerAssumption, PauseJob, Past, Routine
<1>2. RowOK' /\ LeaseOK' /\ DispatchedOK'
  BY PollerAssumption DEF IInv, RowOK, LeaseOK, TasksOK, DispatchedOK, TaskRecords,
     Positions, PollerAssumption, PauseJob, Past, Routine
<1>3. OthersOK'
  BY PollerAssumption DEF IInv, RowOK, OthersOK, Causes, PollerAssumption, PauseJob, Past, Routine
<1>4. TickHasCursor' /\ HeldCovered' /\ NothingSkipped'
  BY PollerAssumption DEF IInv, RowOK, LeaseOK, TasksOK, DispatchedOK, OthersOK, TaskRecords,
     TickHasCursor,
     HeldCovered, Covered, NothingSkipped, Positions, PollerAssumption, PauseJob, Past, Routine
<1>5. SectionHolds' /\ LeaseExcludes'
  BY PollerAssumption DEF IInv, RowOK, LeaseOK, TasksOK, DispatchedOK, OthersOK, TaskRecords,
     SectionHolds,
     LeaseExcludes, InSection, Holds, PollerAssumption, PauseJob, Past, Routine
<1> QED BY <1>1, <1>2, <1>3, <1>4, <1>5 DEF IInv

\* A lost write leaves the older, covered cursor.
LEMMA SaveErrorStep ==
    ASSUME IInv, NEW t \in Tasks, SaveError(t)
    PROVE  IInv'
<1>1. TasksOK'
  <2>1. [tasks[t] EXCEPT !.pc = "release", !.held = None] \in TaskRecords
    BY PollerAssumption DEF IInv, TasksOK, TaskRecords, Pcs, PollerAssumption
  <2>2. tasks' = [tasks EXCEPT ![t] = [tasks[t] EXCEPT !.pc = "release", !.held = None]] BY
     DEF IInv, TasksOK, SaveError, Event
  <2> QED BY <2>1, <2>2, OneSlot DEF IInv
<1>2. RowOK' /\ LeaseOK' /\ DispatchedOK'
  BY PollerAssumption DEF IInv, RowOK, LeaseOK, TasksOK, DispatchedOK, TaskRecords,
     Positions, PollerAssumption, SaveError, Event
<1>3. OthersOK'
  BY PollerAssumption DEF IInv, RowOK, OthersOK, Causes, PollerAssumption, SaveError, Event
<1>4. TickHasCursor' /\ HeldCovered' /\ NothingSkipped'
  <2>1. row' = row /\ dispatched' = dispatched BY DEF SaveError, Event
  <2>2. \A u \in Tasks : /\ tasks'[u].held \in {None, tasks[u].held}
                         /\ tasks'[u].pc = "tick" => tasks'[u] = tasks[u]
    BY DEF IInv, TasksOK, TaskRecords, SaveError, Event
  <2>3. None \notin Positions BY PollerAssumption DEF PollerAssumption, Positions
  <2>4. \A d : Covered(d)' <=> Covered(d) BY <2>1 DEF Covered
  <2>5. HeldCovered' BY <2>2, <2>3, <2>4 DEF IInv, HeldCovered
  <2>6. TickHasCursor' BY <2>2 DEF IInv, TickHasCursor
  <2>7. NothingSkipped' BY <2>1 DEF IInv, NothingSkipped
  <2> QED BY <2>5, <2>6, <2>7
<1>5. SectionHolds' /\ LeaseExcludes'
  BY PollerAssumption DEF IInv, RowOK, LeaseOK, TasksOK, DispatchedOK, OthersOK, TaskRecords,
     SectionHolds,
     LeaseExcludes, InSection, Holds, PollerAssumption, SaveError, Event
<1> QED BY <1>1, <1>2, <1>3, <1>4, <1>5 DEF IInv

\* Until the first overrun the row a task deletes is its own.
LEMMA ReleaseStep ==
    ASSUME IInv, NEW t \in Tasks, Release(t)
    PROVE  IInv'
<1>1. TasksOK'
  <2>0. 0 \in 0..LeaseTtl BY PollerAssumption DEF PollerAssumption
  <2>1. [tasks[t] EXCEPT !.pc = "sleep", !.left = 0] \in TaskRecords
    BY <2>0, PollerAssumption DEF IInv, TasksOK, TaskRecords, Pcs, PollerAssumption
  <2>2. tasks' = [tasks EXCEPT ![t] = [tasks[t] EXCEPT !.pc = "sleep", !.left = 0]] BY
     DEF IInv, TasksOK, Release, NoLease, Routine
  <2> QED BY <2>1, <2>2, OneSlot DEF IInv
<1>2. RowOK' /\ LeaseOK' /\ DispatchedOK'
  BY PollerAssumption DEF IInv, RowOK, LeaseOK, TasksOK, DispatchedOK, TaskRecords,
     Positions, PollerAssumption, Release, NoLease, Routine
<1>3. OthersOK'
  BY PollerAssumption DEF IInv, RowOK, OthersOK, Causes, PollerAssumption, Release, NoLease, Routine
<1>4. TickHasCursor' /\ HeldCovered' /\ NothingSkipped'
  <2>1. /\ row'.cursor = row.cursor
        /\ dispatched' = dispatched
    BY DEF IInv, RowOK, Release, NoLease, Routine
  <2>2. \A u \in Tasks : /\ tasks'[u].held = tasks[u].held
                         /\ tasks'[u].pc = "tick" => tasks[u].pc = "tick"
    BY DEF IInv, TasksOK, TaskRecords, Release, NoLease, Routine
  <2> QED BY <2>1, <2>2, CursorsKept
<1>5. SectionHolds' /\ LeaseExcludes'
  BY PollerAssumption DEF IInv, RowOK, LeaseOK, TasksOK, DispatchedOK, OthersOK, TaskRecords,
     SectionHolds,
     LeaseExcludes, InSection, Holds, PollerAssumption, Release, NoLease, Routine
<1> QED BY <1>1, <1>2, <1>3, <1>4, <1>5 DEF IInv

\* A row that was not deleted runs out by itself.
LEMMA ReleaseErrorStep ==
    ASSUME IInv, NEW t \in Tasks, ReleaseError(t)
    PROVE  IInv'
<1>1. TasksOK'
  <2>0. 0 \in 0..LeaseTtl BY PollerAssumption DEF PollerAssumption
  <2>1. [tasks[t] EXCEPT !.pc = "sleep", !.left = 0] \in TaskRecords
    BY <2>0, PollerAssumption DEF IInv, TasksOK, TaskRecords, Pcs, PollerAssumption
  <2>2. tasks' = [tasks EXCEPT ![t] = [tasks[t] EXCEPT !.pc = "sleep", !.left = 0]] BY
     DEF IInv, TasksOK, ReleaseError, Event
  <2> QED BY <2>1, <2>2, OneSlot DEF IInv
<1>2. RowOK' /\ LeaseOK' /\ DispatchedOK'
  BY PollerAssumption DEF IInv, RowOK, LeaseOK, TasksOK, DispatchedOK, TaskRecords,
     Positions, PollerAssumption, ReleaseError, Event
<1>3. OthersOK'
  BY PollerAssumption DEF IInv, RowOK, OthersOK, Causes, PollerAssumption, ReleaseError, Event
<1>4. TickHasCursor' /\ HeldCovered' /\ NothingSkipped'
  <2>1. /\ row'.cursor = row.cursor
        /\ dispatched' = dispatched
    BY DEF IInv, RowOK, ReleaseError, Event
  <2>2. \A u \in Tasks : /\ tasks'[u].held = tasks[u].held
                         /\ tasks'[u].pc = "tick" => tasks[u].pc = "tick"
    BY DEF IInv, TasksOK, TaskRecords, ReleaseError, Event
  <2> QED BY <2>1, <2>2, CursorsKept
<1>5. SectionHolds' /\ LeaseExcludes'
  BY PollerAssumption DEF IInv, RowOK, LeaseOK, TasksOK, DispatchedOK, OthersOK, TaskRecords,
     SectionHolds,
     LeaseExcludes, InSection, Holds, PollerAssumption, ReleaseError, Event
<1> QED BY <1>1, <1>2, <1>3, <1>4, <1>5 DEF IInv

\* A free lease means that nobody is in the section before the first overrun.
LEMMA AcquireStep ==
    ASSUME IInv, NEW t \in Tasks, Acquire(t)
    PROVE  IInv'
<1>1. TasksOK'
  BY BreakerTypes, PollerAssumption DEF IInv, RowOK, TasksOK, TaskRecords, Pcs, TickHasCursor,
     Positions, PollerAssumption, Acquire, Granted, Refused, Past, Routine
<1>2. RowOK' /\ LeaseOK' /\ DispatchedOK'
  BY PollerAssumption DEF IInv, RowOK, LeaseOK, TasksOK, DispatchedOK, TaskRecords,
     Positions, PollerAssumption, Acquire, Granted, Refused, Past, Routine
<1>3. OthersOK'
  BY PollerAssumption DEF IInv, RowOK, OthersOK, Causes, PollerAssumption, Acquire, Granted, Refused,
     Past, Routine
<1>4. TickHasCursor' /\ HeldCovered' /\ NothingSkipped'
  <2>1. /\ row'.cursor = row.cursor
        /\ dispatched' = dispatched
    BY DEF IInv, RowOK, Acquire, Granted, Refused, Past, Routine
  <2>2. \A u \in Tasks : /\ tasks'[u].held = tasks[u].held
                         /\ tasks'[u].pc = "tick" => tasks[u].pc = "tick"
    BY DEF IInv, TasksOK, TaskRecords, Acquire, Granted, Refused, Past, Routine
  <2> QED BY <2>1, <2>2, CursorsKept
<1>5. SectionHolds' /\ LeaseExcludes'
  <2>1. CASE lease.left = 0
    <3>1. "overrun" \notin history => \A u \in Tasks : ~InSection(u)
      BY <2>1, PollerAssumption
         DEF IInv, RowOK, LeaseOK, TasksOK, DispatchedOK, OthersOK, TaskRecords,
             SectionHolds, Holds, PollerAssumption
    <3>2. \A u \in Tasks \ {t} : tasks'[u] = tasks[u]
      BY <2>1 DEF IInv, TasksOK, Acquire, Granted
    <3>3. lease'.left = LeaseTtl /\ lease'.holder = tasks[t].runner
      BY <2>1 DEF Acquire, Granted
    <3>4. tasks'[t].left = LeaseTtl /\ tasks'[t].runner = tasks[t].runner
      BY <2>1 DEF IInv, TasksOK, TaskRecords, Acquire, Granted
    <3>5. history' = history BY DEF Acquire, Routine
    <3> QED BY <3>1, <3>2, <3>3, <3>4, <3>5, PollerAssumption
        DEF SectionHolds, LeaseExcludes, InSection, Holds, PollerAssumption
  <2>2. CASE lease.left # 0
    <3>1. \A u \in Tasks \ {t} : tasks'[u] = tasks[u]
      BY <2>2 DEF IInv, TasksOK, Acquire, Refused, Past
    <3>2. tasks'[t].pc = "sleep"
      BY <2>2 DEF IInv, TasksOK, TaskRecords, Acquire, Refused, Past
    <3>3. lease' = lease /\ history' = history BY <2>2 DEF Acquire, Refused, Routine
    <3> QED BY <3>1, <3>2, <3>3 DEF IInv, SectionHolds, LeaseExcludes, InSection, Holds
  <2> QED BY <2>1, <2>2
<1> QED BY <1>1, <1>2, <1>3, <1>4, <1>5 DEF IInv

\* A failed acquire leaves the lease alone.
LEMMA AcquireErrorStep ==
    ASSUME IInv, NEW t \in Tasks, AcquireError(t)
    PROVE  IInv'
<1>1. TasksOK'
  BY PollerAssumption DEF IInv, RowOK, TasksOK, TaskRecords, Pcs, TickHasCursor,
     Positions, PollerAssumption, AcquireError, Refused, Past, Event
<1>2. RowOK' /\ LeaseOK' /\ DispatchedOK'
  BY PollerAssumption DEF IInv, RowOK, LeaseOK, TasksOK, DispatchedOK, TaskRecords,
     Positions, PollerAssumption, AcquireError, Refused, Past, Event
<1>3. OthersOK'
  BY PollerAssumption DEF IInv, RowOK, OthersOK, Causes, PollerAssumption, AcquireError, Refused,
     Past, Event
<1>4. TickHasCursor' /\ HeldCovered' /\ NothingSkipped'
  BY PollerAssumption DEF IInv, RowOK, LeaseOK, TasksOK, DispatchedOK, OthersOK, TaskRecords,
     TickHasCursor,
     HeldCovered, Covered, NothingSkipped, Positions, PollerAssumption, AcquireError, Refused, Past, Event
<1>5. SectionHolds' /\ LeaseExcludes'
  BY PollerAssumption DEF IInv, RowOK, LeaseOK, TasksOK, DispatchedOK, OthersOK, TaskRecords,
     SectionHolds,
     LeaseExcludes, InSection, Holds, PollerAssumption, AcquireError, Refused, Past, Event
<1> QED BY <1>1, <1>2, <1>3, <1>4, <1>5 DEF IInv

\* A new task is outside the section.
LEMMA StartStep ==
    ASSUME IInv, NEW r \in Runners, NEW t \in Tasks, Start(r, t)
    PROVE  IInv'
<1>1. TasksOK'
  <2>1. NewTask(r) \in TaskRecords BY TaskTypes
  <2> QED BY <2>1, OneSlot DEF IInv, Start
<1>2. RowOK' /\ LeaseOK' /\ DispatchedOK'
  BY PollerAssumption DEF IInv, RowOK, LeaseOK, TasksOK, DispatchedOK, TaskRecords,
     Positions, PollerAssumption, Start, NewTask, NoTask, Routine
<1>3. OthersOK'
  BY PollerAssumption DEF IInv, RowOK, OthersOK, Causes, PollerAssumption, Start, NewTask, NoTask,
     Routine
<1>4. TickHasCursor' /\ HeldCovered' /\ NothingSkipped'
  BY PollerAssumption DEF IInv, RowOK, LeaseOK, TasksOK, DispatchedOK, OthersOK, TaskRecords,
     TickHasCursor,
     HeldCovered, Covered, NothingSkipped, Positions, PollerAssumption, Start, NewTask, NoTask, Routine
<1>5. SectionHolds' /\ LeaseExcludes'
  BY PollerAssumption DEF IInv, RowOK, LeaseOK, TasksOK, DispatchedOK, OthersOK, TaskRecords,
     SectionHolds,
     LeaseExcludes, InSection, Holds, PollerAssumption, Start, NewTask, NoTask, Routine
<1> QED BY <1>1, <1>2, <1>3, <1>4, <1>5 DEF IInv

\* A crash leaves the rows and removes tasks.
LEMMA CrashStep ==
    ASSUME IInv, NEW r \in Runners, Crash(r)
    PROVE  IInv'
<1>1. TasksOK'
  BY TaskTypes DEF IInv, TasksOK, Crash
<1>2. RowOK' /\ LeaseOK' /\ DispatchedOK'
  BY PollerAssumption DEF IInv, RowOK, LeaseOK, TasksOK, DispatchedOK, TaskRecords,
     Positions, PollerAssumption, Crash, NoTask, NoReload, DownRunner, Event
<1>3. OthersOK'
  BY PollerAssumption DEF IInv, RowOK, OthersOK, Causes, PollerAssumption, Crash, NoTask, NoReload,
     DownRunner, Event
<1>4. TickHasCursor' /\ HeldCovered' /\ NothingSkipped'
  BY PollerAssumption DEF IInv, RowOK, LeaseOK, TasksOK, DispatchedOK, OthersOK, TaskRecords,
     TickHasCursor,
     HeldCovered, Covered, NothingSkipped, Positions, PollerAssumption, Crash, NoTask, NoReload, DownRunner, Event
<1>5. SectionHolds' /\ LeaseExcludes'
  BY PollerAssumption DEF IInv, RowOK, LeaseOK, TasksOK, DispatchedOK, OthersOK, TaskRecords,
     SectionHolds,
     LeaseExcludes, InSection, Holds, PollerAssumption, Crash, NoTask, NoReload, DownRunner, Event
<1> QED BY <1>1, <1>2, <1>3, <1>4, <1>5 DEF IInv

\* The operator pauses the job.
LEMMA PauseStep ==
    ASSUME IInv, NEW r \in Runners, Pause(r)
    PROVE  IInv'
<1>1. TasksOK'
  BY PollerAssumption DEF IInv, RowOK, TasksOK, TaskRecords, Pcs, TickHasCursor,
     Positions, PollerAssumption, Pause, Event
<1>2. RowOK' /\ LeaseOK' /\ DispatchedOK'
  BY PollerAssumption DEF IInv, RowOK, LeaseOK, TasksOK, DispatchedOK, TaskRecords,
     Positions, PollerAssumption, Pause, Event
<1>3. OthersOK'
  BY PollerAssumption DEF IInv, RowOK, OthersOK, Causes, PollerAssumption, Pause, Event
<1>4. TickHasCursor' /\ HeldCovered' /\ NothingSkipped'
  <2>1. /\ row'.cursor = row.cursor
        /\ dispatched' = dispatched
    BY DEF IInv, RowOK, Pause, Event
  <2>2. \A u \in Tasks : /\ tasks'[u].held = tasks[u].held
                         /\ tasks'[u].pc = "tick" => tasks[u].pc = "tick"
    BY DEF IInv, TasksOK, TaskRecords, Pause, Event
  <2> QED BY <2>1, <2>2, CursorsKept
<1>5. SectionHolds' /\ LeaseExcludes'
  BY PollerAssumption DEF IInv, RowOK, LeaseOK, TasksOK, DispatchedOK, OthersOK, TaskRecords,
     SectionHolds,
     LeaseExcludes, InSection, Holds, PollerAssumption, Pause, Event
<1> QED BY <1>1, <1>2, <1>3, <1>4, <1>5 DEF IInv

\* The operator resumes the job.
LEMMA ResumeStep ==
    ASSUME IInv, NEW r \in Runners, Resume(r)
    PROVE  IInv'
<1>1. TasksOK'
  <2>1. \A u \in Tasks : [tasks[u] EXCEPT !.late = 0] \in TaskRecords
    BY DEF IInv, TasksOK, TaskRecords
  <2> QED BY <2>1 DEF TasksOK, Resume, Unpausing, Event
<1>2. RowOK' /\ LeaseOK' /\ DispatchedOK'
  BY PollerAssumption DEF IInv, RowOK, LeaseOK, TasksOK, DispatchedOK, TaskRecords,
     Positions, PollerAssumption, Resume, Unpausing, Event
<1>3. OthersOK'
  BY PollerAssumption DEF IInv, RowOK, OthersOK, Causes, PollerAssumption, Resume, Unpausing, Event
<1>4. TickHasCursor' /\ HeldCovered' /\ NothingSkipped'
  <2>1. /\ row'.cursor = row.cursor
        /\ dispatched' = dispatched
    BY DEF IInv, RowOK, Resume, Unpausing, Event
  <2>2. \A u \in Tasks : /\ tasks'[u].held = tasks[u].held
                         /\ tasks'[u].pc = "tick" => tasks[u].pc = "tick"
    BY DEF IInv, TasksOK, TaskRecords, Resume, Unpausing, Event
  <2> QED BY <2>1, <2>2, CursorsKept
<1>5. SectionHolds' /\ LeaseExcludes'
  <2>1. lease' = lease /\ history \subseteq history' BY DEF Resume, Unpausing, Event
  <2>2. \A u \in Tasks : /\ InSection(u)' => InSection(u)
                         /\ tasks'[u].runner = tasks[u].runner
                         /\ tasks'[u].left = tasks[u].left
    BY DEF IInv, TasksOK, TaskRecords, InSection, Resume, Unpausing, Event
  <2> QED BY <2>1, <2>2, SectionsKept
<1> QED BY <1>1, <1>2, <1>3, <1>4, <1>5 DEF IInv

\* A reset cursor covers nothing; the tasks keep theirs.
LEMMA ResetCursorStep ==
    ASSUME IInv, NEW r \in Runners, ResetCursor(r)
    PROVE  IInv'
<1>1. TasksOK'
  <2>1. \A u \in Tasks : [tasks[u] EXCEPT !.late = 0] \in TaskRecords
    BY DEF IInv, TasksOK, TaskRecords
  <2> QED BY <2>1 DEF TasksOK, ResetCursor, Unpausing, Event
<1>2. RowOK' /\ LeaseOK' /\ DispatchedOK'
  BY PollerAssumption DEF IInv, RowOK, LeaseOK, TasksOK, DispatchedOK, TaskRecords,
     Positions, PollerAssumption, ResetCursor, Unpausing, Event
<1>3. OthersOK'
  BY PollerAssumption DEF IInv, RowOK, OthersOK, Causes, PollerAssumption, ResetCursor, Unpausing, Event
<1>4. TickHasCursor' /\ HeldCovered' /\ NothingSkipped'
  <2>1. row'.cursor = 0 /\ dispatched' = dispatched BY DEF ResetCursor, Unpausing, Event
  <2>2. \A u \in Tasks : tasks'[u].held = tasks[u].held /\ tasks'[u].pc = tasks[u].pc
    BY DEF IInv, TasksOK, TaskRecords, ResetCursor, Unpausing, Event
  <2>3. TickHasCursor' BY <2>2 DEF IInv, TickHasCursor
  <2>4. \A d : Covered(d)' <=> Covered(d) BY <2>1 DEF Covered
  <2>5. HeldCovered' BY <2>2, <2>4 DEF IInv, HeldCovered
  <2>6. NothingSkipped' BY <2>1 DEF NothingSkipped
  <2> QED BY <2>3, <2>5, <2>6
<1>5. SectionHolds' /\ LeaseExcludes'
  <2>1. lease' = lease /\ history \subseteq history' BY DEF ResetCursor, Unpausing, Event
  <2>2. \A u \in Tasks : /\ InSection(u)' => InSection(u)
                         /\ tasks'[u].runner = tasks[u].runner
                         /\ tasks'[u].left = tasks[u].left
    BY DEF IInv, TasksOK, TaskRecords, InSection, ResetCursor, Unpausing, Event
  <2> QED BY <2>1, <2>2, SectionsKept
<1> QED BY <1>1, <1>2, <1>3, <1>4, <1>5 DEF IInv

\* A manual run reads the cursor.
LEMMA RunOnceLoadStep ==
    ASSUME IInv, NEW r \in Runners, RunOnceLoad(r)
    PROVE  IInv'
<1>1. TasksOK'
  BY PollerAssumption DEF IInv, RowOK, TasksOK, TaskRecords, Pcs, TickHasCursor,
     Positions, PollerAssumption, RunOnceLoad, Event
<1>2. RowOK' /\ LeaseOK' /\ DispatchedOK'
  BY PollerAssumption DEF IInv, RowOK, LeaseOK, TasksOK, DispatchedOK, TaskRecords,
     Positions, PollerAssumption, RunOnceLoad, Event
<1>3. OthersOK'
  BY PollerAssumption DEF IInv, RowOK, OthersOK, Causes, PollerAssumption, RunOnceLoad, Event
<1>4. TickHasCursor' /\ HeldCovered' /\ NothingSkipped'
  <2>1. /\ row'.cursor = row.cursor
        /\ dispatched' = dispatched
    BY DEF IInv, RowOK, RunOnceLoad, Event
  <2>2. \A u \in Tasks : /\ tasks'[u].held = tasks[u].held
                         /\ tasks'[u].pc = "tick" => tasks[u].pc = "tick"
    BY DEF IInv, TasksOK, TaskRecords, RunOnceLoad, Event
  <2> QED BY <2>1, <2>2, CursorsKept
<1>5. SectionHolds' /\ LeaseExcludes'
  <2>1. lease' = lease /\ history \subseteq history' BY DEF RunOnceLoad, Event
  <2>2. \A u \in Tasks : /\ InSection(u)' => InSection(u)
                         /\ tasks'[u].runner = tasks[u].runner
                         /\ tasks'[u].left = tasks[u].left
    BY DEF IInv, TasksOK, TaskRecords, InSection, RunOnceLoad, Event
  <2> QED BY <2>1, <2>2, SectionsKept
<1> QED BY <1>1, <1>2, <1>3, <1>4, <1>5 DEF IInv

\* A manual run dispatches and saves nothing.
LEMMA RunOnceItemStep ==
    ASSUME IInv, NEW r \in Runners, RunOnceItem(r)
    PROVE  IInv'
<1>1. TasksOK'
  BY PollerAssumption DEF IInv, RowOK, TasksOK, TaskRecords, Pcs, TickHasCursor,
     Positions, PollerAssumption, RunOnceItem, Routine
<1>2. RowOK' /\ LeaseOK' /\ DispatchedOK'
  <2>1. runners[r].once \in Positions BY DEF IInv, OthersOK, RunOnceItem
  <2>2. DispatchedOK' BY <2>1, DispatchCounts DEF IInv, DispatchedOK, RunOnceItem
  <2> QED BY <2>2 DEF IInv, RowOK, LeaseOK, RunOnceItem, Routine
<1>3. OthersOK'
  <2>1. runners[r].once + 1 \in Positions
    BY PollerAssumption DEF IInv, OthersOK, RunOnceItem, Positions, PollerAssumption
  <2>2. runners' = [runners EXCEPT ![r].once = runners[r].once + 1]
    BY DEF IInv, OthersOK, RunOnceItem
  <2> QED BY <2>1, <2>2 DEF IInv, OthersOK, RunOnceItem, Routine
<1>4. TickHasCursor' /\ HeldCovered' /\ NothingSkipped'
  <2>1. runners[r].once \in Positions BY DEF IInv, OthersOK, RunOnceItem
  <2>2. row' = row /\ tasks' = tasks BY DEF RunOnceItem
  <2>3. runners[r].once < Items /\ dispatched' = Dispatch(runners[r].once) BY DEF RunOnceItem
  <2> QED BY <2>1, <2>2, <2>3, DispatchKeeps
<1>5. SectionHolds' /\ LeaseExcludes'
  <2>1. lease' = lease /\ history \subseteq history' BY DEF RunOnceItem, Routine
  <2>2. \A u \in Tasks : /\ InSection(u)' => InSection(u)
                         /\ tasks'[u].runner = tasks[u].runner
                         /\ tasks'[u].left = tasks[u].left
    BY DEF IInv, TasksOK, TaskRecords, InSection, RunOnceItem, Routine
  <2> QED BY <2>1, <2>2, SectionsKept
<1> QED BY <1>1, <1>2, <1>3, <1>4, <1>5 DEF IInv

\* A manual run ends.
LEMMA RunOnceEndStep ==
    ASSUME IInv, NEW r \in Runners, RunOnceEnd(r)
    PROVE  IInv'
<1>1. TasksOK'
  BY PollerAssumption DEF IInv, RowOK, TasksOK, TaskRecords, Pcs, TickHasCursor,
     Positions, PollerAssumption, RunOnceEnd, Routine
<1>2. RowOK' /\ LeaseOK' /\ DispatchedOK'
  BY PollerAssumption DEF IInv, RowOK, LeaseOK, TasksOK, DispatchedOK, TaskRecords,
     Positions, PollerAssumption, RunOnceEnd, Routine
<1>3. OthersOK'
  BY PollerAssumption DEF IInv, RowOK, OthersOK, Causes, PollerAssumption, RunOnceEnd, Routine
<1>4. TickHasCursor' /\ HeldCovered' /\ NothingSkipped'
  <2>1. /\ row'.cursor = row.cursor
        /\ dispatched' = dispatched
    BY DEF IInv, RowOK, RunOnceEnd, Routine
  <2>2. \A u \in Tasks : /\ tasks'[u].held = tasks[u].held
                         /\ tasks'[u].pc = "tick" => tasks[u].pc = "tick"
    BY DEF IInv, TasksOK, TaskRecords, RunOnceEnd, Routine
  <2> QED BY <2>1, <2>2, CursorsKept
<1>5. SectionHolds' /\ LeaseExcludes'
  <2>1. lease' = lease /\ history \subseteq history' BY DEF RunOnceEnd, Routine
  <2>2. \A u \in Tasks : /\ InSection(u)' => InSection(u)
                         /\ tasks'[u].runner = tasks[u].runner
                         /\ tasks'[u].left = tasks[u].left
    BY DEF IInv, TasksOK, TaskRecords, InSection, RunOnceEnd, Routine
  <2> QED BY <2>1, <2>2, SectionsKept
<1> QED BY <1>1, <1>2, <1>3, <1>4, <1>5 DEF IInv

\* diff() only plans.
LEMMA ReloadDiffStep ==
    ASSUME IInv, NEW a \in Admins, NEW r \in Runners, ReloadDiff(a, r)
    PROVE  IInv'
<1>1. TasksOK'
  BY PollerAssumption DEF IInv, RowOK, TasksOK, TaskRecords, Pcs, TickHasCursor,
     Positions, PollerAssumption, ReloadDiff, Plans, Event
<1>2. RowOK' /\ LeaseOK' /\ DispatchedOK'
  BY PollerAssumption DEF IInv, RowOK, LeaseOK, TasksOK, DispatchedOK, TaskRecords,
     Positions, PollerAssumption, ReloadDiff, Plans, Event
<1>3. OthersOK'
  BY PollerAssumption DEF IInv, RowOK, OthersOK, Causes, PollerAssumption, ReloadDiff, Plans, Event
<1>4. TickHasCursor' /\ HeldCovered' /\ NothingSkipped'
  <2>1. /\ row'.cursor = row.cursor
        /\ dispatched' = dispatched
    BY DEF IInv, RowOK, ReloadDiff, Plans, Event
  <2>2. \A u \in Tasks : /\ tasks'[u].held = tasks[u].held
                         /\ tasks'[u].pc = "tick" => tasks[u].pc = "tick"
    BY DEF IInv, TasksOK, TaskRecords, ReloadDiff, Plans, Event
  <2> QED BY <2>1, <2>2, CursorsKept
<1>5. SectionHolds' /\ LeaseExcludes'
  <2>1. lease' = lease /\ history \subseteq history' BY DEF ReloadDiff, Plans, Event
  <2>2. \A u \in Tasks : /\ InSection(u)' => InSection(u)
                         /\ tasks'[u].runner = tasks[u].runner
                         /\ tasks'[u].left = tasks[u].left
    BY DEF IInv, TasksOK, TaskRecords, InSection, ReloadDiff, Plans, Event
  <2> QED BY <2>1, <2>2, SectionsKept
<1> QED BY <1>1, <1>2, <1>3, <1>4, <1>5 DEF IInv

\* A reload cancels: the section is left by the task itself.
LEMMA ReloadApplyStep ==
    ASSUME IInv, NEW a \in Admins, ReloadApply(a)
    PROVE  IInv'
<1>1. TasksOK'
  <2>1. \A u \in Tasks : [tasks[u] EXCEPT !.cancelled = TRUE] \in TaskRecords
    BY DEF IInv, TasksOK, TaskRecords
  <2>2. \A x : [tasks EXCEPT ![x].cancelled = TRUE] \in [Tasks -> TaskRecords]
    BY <2>1 DEF IInv, TasksOK
  <2> QED BY <2>2 DEF IInv, TasksOK, ReloadApply, NoReload, Routine
<1>2. RowOK' /\ LeaseOK' /\ DispatchedOK'
  BY PollerAssumption DEF IInv, RowOK, LeaseOK, TasksOK, DispatchedOK, TaskRecords,
     Positions, PollerAssumption, ReloadApply, NoReload, Routine
<1>3. OthersOK'
  <2> DEFINE r == admins[a].runner
              p == admins[a].plan
              k == p \notin {"absent", "remove"}
              e == IF p \in {"replace", "remove"} THEN None ELSE runners[r].entry
  <2>1. runners' \in [Runners -> [up : BOOLEAN, entry : Tasks \cup {None}, known : BOOLEAN,
                                 once : Positions \cup {None}]]
    <3>1. CASE r \in Runners
      <4>0. k \in BOOLEAN /\ e \in Tasks \cup {None} /\ runners[r] \in
                [up : BOOLEAN, entry : Tasks \cup {None}, known : BOOLEAN,
                 once : Positions \cup {None}]
        BY <3>1 DEF IInv, OthersOK
      <4>2. runners' = [runners EXCEPT ![r] = [runners[r] EXCEPT !.known = k, !.entry = e]]
        BY <3>1 DEF IInv, OthersOK, ReloadApply
      <4> HIDE DEF k, e, r, p
      <4>1. [runners[r] EXCEPT !.known = k, !.entry = e]
              \in [up : BOOLEAN, entry : Tasks \cup {None}, known : BOOLEAN,
                   once : Positions \cup {None}]
        BY <4>0
      <4> QED BY <4>1, <4>2 DEF IInv, OthersOK
    <3>2. CASE r \notin Runners
      BY <3>2 DEF IInv, OthersOK, ReloadApply
    <3> QED BY <3>1, <3>2
  <2>2. admins' \in [Admins -> [runner : Runners \cup {None},
                                plan : {"none", "add", "absent", "replace", "keep", "remove"},
                                at : {"idle", "apply", "spawn", "insert"},
                                task : Tasks \cup {None}]]
    BY DEF IInv, OthersOK, ReloadApply, NoReload
  <2> QED BY <2>1, <2>2 DEF IInv, OthersOK, ReloadApply, Routine
<1>4. TickHasCursor' /\ HeldCovered' /\ NothingSkipped'
  <2>1. /\ row'.cursor = row.cursor
        /\ dispatched' = dispatched
    BY DEF IInv, RowOK, ReloadApply, NoReload, Routine
  <2>2. \A u \in Tasks : /\ tasks'[u].held = tasks[u].held
                         /\ tasks'[u].pc = "tick" => tasks[u].pc = "tick"
    BY DEF IInv, TasksOK, TaskRecords, ReloadApply, NoReload, Routine
  <2> QED BY <2>1, <2>2, CursorsKept
<1>5. SectionHolds' /\ LeaseExcludes'
  <2>1. lease' = lease /\ history \subseteq history' BY DEF ReloadApply, NoReload, Routine
  <2>2. \A u \in Tasks : /\ InSection(u)' => InSection(u)
                         /\ tasks'[u].runner = tasks[u].runner
                         /\ tasks'[u].left = tasks[u].left
    BY DEF IInv, TasksOK, TaskRecords, InSection, ReloadApply, NoReload, Routine
  <2> QED BY <2>1, <2>2, SectionsKept
<1> QED BY <1>1, <1>2, <1>3, <1>4, <1>5 DEF IInv

\* A spawned task is outside the section.
LEMMA ReloadSpawnStep ==
    ASSUME IInv, NEW a \in Admins, NEW t \in Tasks, ReloadSpawn(a, t)
    PROVE  IInv'
<1>1. TasksOK'
  <2>1. NewTask(admins[a].runner) \in TaskRecords BY TaskTypes DEF IInv, OthersOK
  <2> QED BY <2>1, OneSlot DEF IInv, ReloadSpawn
<1>2. RowOK' /\ LeaseOK' /\ DispatchedOK'
  BY PollerAssumption DEF IInv, RowOK, LeaseOK, TasksOK, DispatchedOK, TaskRecords,
     Positions, PollerAssumption, ReloadSpawn, NewTask, NoTask, NoReload, Routine
<1>3. OthersOK'
  <2>1. runners' = runners BY DEF ReloadSpawn
  <2>2. admins' \in [Admins -> [runner : Runners \cup {None},
                                plan : {"none", "add", "absent", "replace", "keep", "remove"},
                                at : {"idle", "apply", "spawn", "insert"},
                                task : Tasks \cup {None}]]
    <3>1. [admins[a] EXCEPT !.at = "insert", !.task = t]
             \in [runner : Runners \cup {None},
                  plan : {"none", "add", "absent", "replace", "keep", "remove"},
                  at : {"idle", "apply", "spawn", "insert"}, task : Tasks \cup {None}]
      BY DEF IInv, OthersOK
    <3>2. admins' = [admins EXCEPT ![a] = [admins[a] EXCEPT !.at = "insert", !.task = t]]
      BY DEF IInv, OthersOK, ReloadSpawn
    <3> QED BY <3>1, <3>2 DEF IInv, OthersOK
  <2>3. events' = events /\ history' = history BY DEF ReloadSpawn, Routine
  <2> QED BY <2>1, <2>2, <2>3 DEF IInv, OthersOK
<1>4. TickHasCursor' /\ HeldCovered' /\ NothingSkipped'
  BY PollerAssumption DEF IInv, RowOK, LeaseOK, TasksOK, DispatchedOK, OthersOK, TaskRecords,
     TickHasCursor,
     HeldCovered, Covered, NothingSkipped, Positions, PollerAssumption, ReloadSpawn, NewTask, NoTask, NoReload, Routine
<1>5. SectionHolds' /\ LeaseExcludes'
  BY PollerAssumption DEF IInv, RowOK, LeaseOK, TasksOK, DispatchedOK, OthersOK, TaskRecords,
     SectionHolds,
     LeaseExcludes, InSection, Holds, PollerAssumption, ReloadSpawn, NewTask, NoTask, NoReload, Routine
<1> QED BY <1>1, <1>2, <1>3, <1>4, <1>5 DEF IInv

\* The map entry is nothing to the task.
LEMMA ReloadInsertStep ==
    ASSUME IInv, NEW a \in Admins, ReloadInsert(a)
    PROVE  IInv'
<1>1. TasksOK' /\ RowOK' /\ LeaseOK' /\ DispatchedOK'
  BY DEF IInv, RowOK, LeaseOK, TasksOK, DispatchedOK, ReloadInsert
<1>2. OthersOK'
  <2>1. runners' \in [Runners -> [up : BOOLEAN, entry : Tasks \cup {None}, known : BOOLEAN,
                                  once : Positions \cup {None}]]
    <3> DEFINE r == admins[a].runner
               e == admins[a].task
    <3>0. e \in Tasks \cup {None} /\ runners' = [runners EXCEPT ![r].entry = e]
      BY DEF IInv, OthersOK, ReloadInsert
    <3> HIDE DEF r, e
    <3>1. CASE r \in Runners BY <3>0, <3>1 DEF IInv, OthersOK
    <3>2. CASE r \notin Runners BY <3>0, <3>2 DEF IInv, OthersOK
    <3> QED BY <3>1, <3>2
  <2>2. admins' \in [Admins -> [runner : Runners \cup {None},
                                plan : {"none", "add", "absent", "replace", "keep", "remove"},
                                at : {"idle", "apply", "spawn", "insert"},
                                task : Tasks \cup {None}]]
    BY DEF IInv, OthersOK, ReloadInsert, NoReload
  <2> QED BY <2>1, <2>2 DEF IInv, OthersOK, ReloadInsert, Routine
<1>3. TickHasCursor' /\ HeldCovered' /\ NothingSkipped'
  <2>1. row' = row /\ dispatched' = dispatched /\ tasks' = tasks BY DEF ReloadInsert
  <2> QED BY <2>1, CursorsKept
<1>4. SectionHolds' /\ LeaseExcludes'
  <2>1. lease' = lease /\ tasks' = tasks /\ history' = history BY DEF ReloadInsert, Routine
  <2> QED BY <2>1, SectionsKept DEF InSection
<1> QED BY <1>1, <1>2, <1>3, <1>4 DEF IInv

\* Lease and grant run down together; the one that runs out is an overrun.
LEMMA TickStep ==
    ASSUME IInv, Tick
    PROVE  IInv'
<1>1. TasksOK'
  <2>1. ASSUME NEW u \in Tasks
        PROVE  [tasks[u] EXCEPT !.left = Elapse(@), !.cb = TickBreaker(@)] \in TaskRecords
    <3>1. Elapse(tasks[u].left) \in 0..LeaseTtl
      BY PollerAssumption DEF IInv, TasksOK, TaskRecords, Elapse, PollerAssumption
    <3>2. TickBreaker(tasks[u].cb) \in Breakers BY BreakerTypes DEF IInv, TasksOK, TaskRecords
    <3> QED BY <3>1, <3>2 DEF IInv, TasksOK, TaskRecords
  <2> QED BY <2>1 DEF TasksOK, Tick
<1>2. RowOK' /\ LeaseOK' /\ DispatchedOK'
  <2>0. Elapse(lease.left) \in 0..LeaseTtl
    BY PollerAssumption DEF IInv, LeaseOK, Elapse, PollerAssumption
  <2>1. LeaseOK' BY <2>0 DEF IInv, LeaseOK, Tick
  <2> QED BY <2>1 DEF IInv, RowOK, DispatchedOK, Tick
<1>3. OthersOK'
  BY DEF IInv, OthersOK, Tick, Causes
<1>4. TickHasCursor' /\ HeldCovered' /\ NothingSkipped'
  <2>1. /\ row'.cursor = row.cursor
        /\ dispatched' = dispatched
    BY DEF IInv, RowOK, Tick, Elapse
  <2>2. \A u \in Tasks : /\ tasks'[u].held = tasks[u].held
                         /\ tasks'[u].pc = "tick" => tasks[u].pc = "tick"
    BY DEF IInv, TasksOK, TaskRecords, Tick, Elapse
  <2> QED BY <2>1, <2>2, CursorsKept
<1>5. SectionHolds' /\ LeaseExcludes'
  <2> SUFFICES ASSUME "overrun" \notin history'
             PROVE  SectionHolds' /\ LeaseExcludes'
    BY DEF SectionHolds, LeaseExcludes
  <2>1. "overrun" \notin history /\ \A u \in Tasks : InSection(u) => tasks[u].left # 1
    BY DEF Tick
  <2>2. \A u \in Tasks : /\ InSection(u)' <=> InSection(u)
                         /\ tasks'[u].runner = tasks[u].runner
                         /\ tasks'[u].left = Elapse(tasks[u].left)
    BY DEF IInv, TasksOK, TaskRecords, InSection, Tick
  <2>3. lease'.holder = lease.holder /\ lease'.left = Elapse(lease.left)
    BY DEF IInv, LeaseOK, Tick
  <2>4. \A u \in Tasks : InSection(u) => Holds(u) /\ tasks[u].left \in 0..LeaseTtl
    BY <2>1 DEF IInv, SectionHolds, TasksOK, TaskRecords
  <2>5. SectionHolds'
    BY <2>1, <2>2, <2>3, <2>4, PollerAssumption
       DEF SectionHolds, Holds, Elapse, PollerAssumption
  <2>6. LeaseExcludes' BY <2>1, <2>2 DEF IInv, LeaseExcludes
  <2> QED BY <2>5, <2>6
<1> QED BY <1>1, <1>2, <1>3, <1>4, <1>5 DEF IInv

-----------------------------------------------------------------------------
\* The initial state satisfies the invariant.
LEMMA InitHolds == Init => IInv
<1> SUFFICES ASSUME Init PROVE IInv OBVIOUS
<1>1. TasksOK BY TaskTypes DEF Init, TasksOK
<1>2. RowOK /\ LeaseOK /\ DispatchedOK /\ OthersOK
  BY PollerAssumption DEF Init, RowOK, LeaseOK, DispatchedOK, OthersOK, Positions, NoLease,
     DownRunner, NoReload, PollerAssumption
<1>3. \A t \in Tasks : tasks[t].pc = "none" /\ tasks[t].held = None BY DEF Init, NoTask
<1>4. TickHasCursor /\ SectionHolds /\ LeaseExcludes
  BY <1>3 DEF TickHasCursor, SectionHolds, LeaseExcludes, InSection
<1>5. HeldCovered BY <1>3, PollerAssumption DEF HeldCovered, Positions, PollerAssumption
<1>6. NothingSkipped BY DEF Init, NothingSkipped
<1> QED BY <1>1, <1>2, <1>4, <1>5, <1>6 DEF IInv

\* Every step keeps it.
LEMMA StepHolds == IInv /\ [Next]_vars => IInv'
<1> SUFFICES ASSUME IInv, [Next]_vars PROVE IInv' OBVIOUS
<1>1. CASE \E t \in Tasks : Step(t)
  BY <1>1, DueStep, WakeStep, EndStep, AcquireStep, LoadStep, TickItemStep, TickOkStep,
     TickNothingStep, TickErrorStep, SaveOkStep, PauseJobStep, ReleaseStep DEF Step
<1>2. CASE \E t \in Tasks : StepError(t)
  BY <1>2, WakeErrorStep, AcquireErrorStep, LoadErrorStep, SaveErrorStep, ReleaseErrorStep
     DEF StepError
<1>3. CASE \E r \in Runners : Crash(r) \/ \E t \in Tasks : Start(r, t)
  BY <1>3, CrashStep, StartStep
<1>4. CASE \E r \in Runners : Operator(r)
  BY <1>4, PauseStep, ResumeStep, ResetCursorStep, RunOnceLoadStep, RunOnceItemStep,
     RunOnceEndStep DEF Operator
<1>5. CASE \E a \in Admins : Reload(a) \/ \E r \in Runners : ReloadDiff(a, r)
  BY <1>5, ReloadApplyStep, ReloadSpawnStep, ReloadInsertStep, ReloadDiffStep DEF Reload
<1>6. CASE Tick BY <1>6, TickStep
<1>7. CASE UNCHANGED vars
  BY <1>7 DEF vars, IInv, RowOK, LeaseOK, TasksOK, DispatchedOK, OthersOK, TickHasCursor,
     HeldCovered, Covered, NothingSkipped, SectionHolds, LeaseExcludes, InSection, Holds
<1> QED BY <1>1, <1>2, <1>3, <1>4, <1>5, <1>6, <1>7 DEF Next

(* Poller keeps the inductive invariant: types, the lease names the task   *)
(* in the section until the first overrun, and every cursor in a task or   *)
(* in the row was dispatched up to.                                        *)
THEOREM Invariance == Spec => []IInv
<1>1. Init => IInv BY InitHolds
<1>2. IInv /\ [Next]_vars => IInv' BY StepHolds
<1> QED BY <1>1, <1>2, PTL DEF Spec

(* Rows, tasks, runners and reloads keep their types. *)
THEOREM TypeCorrect == Spec => []PollerTypeOK
<1>1. IInv => PollerTypeOK
  BY DEF IInv, RowOK, LeaseOK, TasksOK, DispatchedOK, OthersOK, TaskRecords, Pcs, PollerTypeOK
<1> QED BY <1>1, Invariance, PTL

(* acquire_lease: for any number of daemons and overlapping reloads, two   *)
(* tasks are between acquire_lease and release_lease only after a task has *)
(* overrun its lease.                                                      *)
THEOREM OneTicks == Spec => []LeaseExcludes
<1>1. IInv => LeaseExcludes BY DEF IInv
<1> QED BY <1>1, Invariance, PTL

(* run_job_loop: the stored cursor never passes an item that no tick       *)
(* dispatched, whatever fails or overlaps.                                 *)
THEOREM CursorIsHonest == Spec => []NothingSkipped
<1>1. IInv => NothingSkipped BY DEF IInv
<1> QED BY <1>1, Invariance, PTL

-----------------------------------------------------------------------------
(***************************************************************************)
(* The pause.                                                              *)
(***************************************************************************)

\* `late' counts under a pause only, and a task that was let in before it has
\* not counted yet.
PauseInv ==
    /\ ~row.paused => \A t \in Tasks : tasks[t].late = 0
    /\ "sqlite" \notin history =>
          \A t \in Tasks : /\ tasks[t].late <= 1
                           /\ tasks[t].pc \in {"acquire", "load"} => tasks[t].late = 0

LEMMA PauseHeld ==
    ASSUME IInv, PauseInv, [Next]_vars
    PROVE  PauseInv'
<1>1. ASSUME NEW t \in Tasks, Wake(t) PROVE PauseInv'
  BY <1>1, PollerAssumption
     DEF IInv, RowOK, TasksOK, TaskRecords, PauseInv, Wake, Past, Routine, PollerAssumption,
         Causes
<1>2. ASSUME NEW t \in Tasks, WakeError(t) PROVE PauseInv'
  BY <1>2, PollerAssumption
     DEF IInv, RowOK, TasksOK, TaskRecords, PauseInv, WakeError, Past, Event,
         PollerAssumption, Causes
<1>3. ASSUME NEW t \in Tasks, End(t) PROVE PauseInv'
  BY <1>3, PollerAssumption
     DEF IInv, RowOK, TasksOK, TaskRecords, PauseInv, End, NoTask, Routine,
         PollerAssumption, Causes
<1>4. ASSUME NEW t \in Tasks, Acquire(t) PROVE PauseInv'
  <2>1. row' = row /\ history' = history BY <1>4 DEF Acquire, Routine
  <2>2. \A u \in Tasks : /\ tasks'[u].late = tasks[u].late
                         /\ tasks'[u].pc \in {"acquire", "load"} => tasks[u].pc \in {"acquire", "load"}
    BY <1>4 DEF IInv, TasksOK, TaskRecords, Acquire, Granted, Refused, Past
  <2> QED BY <2>1, <2>2 DEF PauseInv
<1>5. ASSUME NEW t \in Tasks, AcquireError(t) PROVE PauseInv'
  BY <1>5, PollerAssumption
     DEF IInv, RowOK, TasksOK, TaskRecords, PauseInv, AcquireError, Refused, Past, Event,
         PollerAssumption, Causes
<1>6. ASSUME NEW t \in Tasks, Load(t) PROVE PauseInv'
  BY <1>6, PollerAssumption
     DEF IInv, RowOK, TasksOK, TaskRecords, PauseInv, Load, TickFrom, Routine,
         PollerAssumption, Causes
<1>7. ASSUME NEW t \in Tasks, LoadError(t) PROVE PauseInv'
  BY <1>7, PollerAssumption
     DEF IInv, RowOK, TasksOK, TaskRecords, PauseInv, LoadError, TickFrom, Event,
         PollerAssumption, Causes
<1>8. ASSUME NEW t \in Tasks, TickItem(t) PROVE PauseInv'
  BY <1>8, PollerAssumption
     DEF IInv, RowOK, TasksOK, TaskRecords, PauseInv, TickItem, Routine, PollerAssumption,
         Causes
<1>9. ASSUME NEW t \in Tasks, TickNothing(t) PROVE PauseInv'
  BY <1>9, PollerAssumption
     DEF IInv, RowOK, TasksOK, TaskRecords, PauseInv, TickNothing, Routine,
         PollerAssumption, Causes
<1>10. ASSUME NEW t \in Tasks, TickError(t) PROVE PauseInv'
  BY <1>10, PollerAssumption
     DEF IInv, RowOK, TasksOK, TaskRecords, PauseInv, TickError, Routine, PollerAssumption,
         Causes
<1>11. ASSUME NEW t \in Tasks, SaveOk(t) PROVE PauseInv'
  BY <1>11, PollerAssumption
     DEF IInv, RowOK, TasksOK, TaskRecords, PauseInv, SaveOk, Routine, PollerAssumption,
         Causes
<1>12. ASSUME NEW t \in Tasks, PauseJob(t) PROVE PauseInv'
  BY <1>12, PollerAssumption
     DEF IInv, RowOK, TasksOK, TaskRecords, PauseInv, PauseJob, Past, Routine,
         PollerAssumption, Causes
<1>13. ASSUME NEW t \in Tasks, SaveError(t) PROVE PauseInv'
  BY <1>13, PollerAssumption
     DEF IInv, RowOK, TasksOK, TaskRecords, PauseInv, SaveError, Event, PollerAssumption,
         Causes
<1>14. ASSUME NEW t \in Tasks, Release(t) PROVE PauseInv'
  BY <1>14, PollerAssumption
     DEF IInv, RowOK, TasksOK, TaskRecords, PauseInv, Release, Routine, PollerAssumption,
         Causes
<1>15. ASSUME NEW t \in Tasks, ReleaseError(t) PROVE PauseInv'
  BY <1>15, PollerAssumption
     DEF IInv, RowOK, TasksOK, TaskRecords, PauseInv, ReleaseError, Event, PollerAssumption,
         Causes
<1>16. ASSUME NEW r \in Runners, NEW t \in Tasks, Start(r, t) PROVE PauseInv'
  BY <1>16, PollerAssumption
     DEF IInv, RowOK, TasksOK, TaskRecords, PauseInv, Start, NewTask, NoTask, Routine,
         PollerAssumption, Causes
<1>17. ASSUME NEW r \in Runners, Crash(r) PROVE PauseInv'
  BY <1>17, PollerAssumption
     DEF IInv, RowOK, TasksOK, TaskRecords, PauseInv, Crash, NoTask, Event,
         PollerAssumption, Causes
<1>18. ASSUME NEW r \in Runners, Pause(r) PROVE PauseInv'
  BY <1>18, PollerAssumption
     DEF IInv, RowOK, TasksOK, TaskRecords, PauseInv, Pause, Event, PollerAssumption,
         Causes
<1>19. ASSUME NEW r \in Runners, Resume(r) PROVE PauseInv'
  BY <1>19, PollerAssumption
     DEF IInv, RowOK, TasksOK, TaskRecords, PauseInv, Resume, Unpausing, Event,
         PollerAssumption, Causes
<1>20. ASSUME NEW r \in Runners, ResetCursor(r) PROVE PauseInv'
  BY <1>20, PollerAssumption
     DEF IInv, RowOK, TasksOK, TaskRecords, PauseInv, ResetCursor, Unpausing, Event,
         PollerAssumption, Causes
<1>21. ASSUME NEW r \in Runners, RunOnceLoad(r) PROVE PauseInv'
  BY <1>21, PollerAssumption
     DEF IInv, RowOK, TasksOK, TaskRecords, PauseInv, RunOnceLoad, Event, PollerAssumption,
         Causes
<1>22. ASSUME NEW r \in Runners, RunOnceItem(r) PROVE PauseInv'
  BY <1>22, PollerAssumption
     DEF IInv, RowOK, TasksOK, TaskRecords, PauseInv, RunOnceItem, Routine,
         PollerAssumption, Causes
<1>23. ASSUME NEW a \in Admins, NEW r \in Runners, ReloadDiff(a, r) PROVE PauseInv'
  BY <1>23, PollerAssumption
     DEF IInv, RowOK, TasksOK, TaskRecords, PauseInv, ReloadDiff, Event, PollerAssumption,
         Causes
<1>24. ASSUME NEW a \in Admins, ReloadApply(a) PROVE PauseInv'
  BY <1>24, PollerAssumption
     DEF IInv, RowOK, TasksOK, TaskRecords, PauseInv, ReloadApply, Routine,
         PollerAssumption, Causes
<1>25. ASSUME NEW a \in Admins, NEW t \in Tasks, ReloadSpawn(a, t) PROVE PauseInv'
  BY <1>25, PollerAssumption
     DEF IInv, RowOK, TasksOK, TaskRecords, PauseInv, ReloadSpawn, NewTask, NoTask, Routine,
         PollerAssumption, Causes
<1>26. ASSUME Tick PROVE PauseInv'
  BY <1>26, PollerAssumption
     DEF IInv, RowOK, TasksOK, TaskRecords, PauseInv, Tick, PollerAssumption, Causes
<1>28. ASSUME NEW t \in Tasks, Due(t) PROVE PauseInv'
  BY <1>28, PollerAssumption
     DEF IInv, RowOK, TasksOK, TaskRecords, PauseInv, Due, Past, Routine, PollerAssumption,
         Causes
<1>29. ASSUME NEW t \in Tasks, TickOk(t) PROVE PauseInv'
  BY <1>29, PollerAssumption
     DEF IInv, RowOK, TasksOK, TaskRecords, PauseInv, TickOk, Routine,
         PollerAssumption, Causes
<1>30. ASSUME NEW r \in Runners, RunOnceEnd(r) PROVE PauseInv'
  BY <1>30, PollerAssumption
     DEF IInv, RowOK, TasksOK, TaskRecords, PauseInv, RunOnceEnd, Routine,
         PollerAssumption, Causes
<1>31. ASSUME NEW a \in Admins, ReloadInsert(a) PROVE PauseInv'
  BY <1>31, PollerAssumption
     DEF IInv, RowOK, TasksOK, TaskRecords, PauseInv, ReloadInsert, Routine, PollerAssumption
<1>27. CASE UNCHANGED vars BY <1>27 DEF vars, IInv, RowOK, TasksOK, TaskRecords, PauseInv
<1> QED
  BY <1>1, <1>2, <1>3, <1>4, <1>5, <1>6, <1>7, <1>8, <1>9, <1>10, <1>11, <1>12, <1>13, <1>14, <1>15, <1>16, <1>17, <1>18, <1>19, <1>20, <1>21, <1>22, <1>23, <1>24, <1>25, <1>26, <1>27,
     <1>28, <1>29, <1>30, <1>31 DEF Next, Step, StepError, Operator, Reload

(* set_paused and the paused check of the loop: after a pause every task   *)
(* ticks once more at most, unless a read of the row failed.               *)
THEOREM PauseTakesHold == Spec => []PauseStops
<1>1. Init => PauseInv BY DEF Init, NoTask, PauseInv
<1>2. IInv /\ PauseInv /\ [Next]_vars => PauseInv' BY PauseHeld
<1>3. PauseInv => PauseStops BY DEF PauseInv, PauseStops
<1> QED BY <1>1, <1>2, <1>3, Invariance, PTL DEF Spec

-----------------------------------------------------------------------------
(***************************************************************************)
(* One dispatch per item.                                                  *)
(***************************************************************************)

\* A task between the read of the cursor and its save.
Working(t) == tasks[t].pc \in {"tick", "ok"} /\ tasks[t].held # None

\* Before the first cause a tick works from the stored cursor on; what was
\* dispatched beyond that cursor lies before the position of a working tick.
OnceInv ==
    history \cap Causes = {} =>
        /\ \A r \in Runners : runners[r].once = None
        /\ \A t \in Tasks : Working(t) => tasks[t].held >= row.cursor
        /\ \A t \in Tasks : tasks[t].pc = "tick" /\ ~tasks[t].sent => tasks[t].held = row.cursor
        /\ \A i \in 0..(Items - 1) :
              /\ dispatched[i] <= 1
              /\ i >= row.cursor /\ dispatched[i] # 0 =>
                    \E t \in Tasks : Working(t) /\ i < tasks[t].held

\* A step that is a cause.
LEMMA OnceExcused ==
    ASSUME NEW c \in Causes, c \in history'
    PROVE  OnceInv'
BY DEF OnceInv

\* A step that moves no cursor, dispatches nothing and begins or drops no tick.
LEMMA OnceQuiet ==
    ASSUME OnceInv, row'.cursor = row.cursor, dispatched' = dispatched,
           history \subseteq history',
           \A r \in Runners : runners'[r].once = runners[r].once,
           \A u \in Tasks : /\ tasks'[u].pc \in {"tick", "ok"} <=> tasks[u].pc \in {"tick", "ok"}
                            /\ tasks[u].pc \in {"tick", "ok"} => tasks'[u].held = tasks[u].held
                            /\ tasks'[u].pc = "tick" =>
                                  tasks[u].pc = "tick" /\ tasks'[u].sent = tasks[u].sent
    PROVE  OnceInv'
<1>1. \A u \in Tasks : Working(u)' <=> Working(u) BY DEF Working
<1>2. \A u \in Tasks : Working(u) => tasks'[u].held = tasks[u].held BY DEF Working
<1>3. CASE history \cap Causes # {} BY <1>3 DEF OnceInv
<1>4. CASE history \cap Causes = {}
  <2>1. \A r \in Runners : runners'[r].once = None BY <1>4 DEF OnceInv
  <2>2. \A t \in Tasks : Working(t)' => tasks'[t].held >= row'.cursor
    BY <1>1, <1>2, <1>4 DEF OnceInv
  <2>3. \A t \in Tasks : tasks'[t].pc = "tick" /\ ~tasks'[t].sent => tasks'[t].held = row'.cursor
    BY <1>4 DEF OnceInv
  <2>4. \A i \in 0..(Items - 1) :
           /\ dispatched'[i] <= 1
           /\ i >= row'.cursor /\ dispatched'[i] # 0 =>
                 \E t \in Tasks : Working(t)' /\ i < tasks'[t].held
    BY <1>1, <1>2, <1>4 DEF OnceInv
  <2> QED BY <2>1, <2>2, <2>3, <2>4 DEF OnceInv
<1> QED BY <1>3, <1>4

\* The task at work is the only one, and no item from its position on was
\* dispatched.
LEMMA OneAtWork ==
    ASSUME IInv, OnceInv, history \cap Causes = {}, NEW t \in Tasks, Working(t)
    PROVE  /\ tasks[t].held \in Positions /\ tasks[t].held >= row.cursor
           /\ \A u \in Tasks : tasks[u].pc \in {"tick", "ok"} => u = t
           /\ \A i \in 0..(Items - 1) : i >= tasks[t].held => dispatched[i] = 0
<1>1. tasks[t].held \in Positions BY DEF IInv, TasksOK, TaskRecords, Working
<1>2. "overrun" \notin history BY DEF Causes
<1>3. ASSUME NEW u \in Tasks, tasks[u].pc \in {"tick", "ok"} PROVE u = t
  BY <1>2, <1>3 DEF IInv, LeaseExcludes, InSection, Working
<1>4. tasks[t].held >= row.cursor BY DEF OnceInv
<1>5. row.cursor \in 0..Items /\ tasks[t].held \in 0..Items /\ Items \in Nat
  BY <1>1, PollerAssumption DEF IInv, RowOK, Positions, PollerAssumption
<1>6. ASSUME NEW i \in 0..(Items - 1), i >= tasks[t].held, dispatched[i] # 0 PROVE FALSE
  <2>1. PICK u \in Tasks : Working(u) /\ i < tasks[u].held
    BY <1>4, <1>5, <1>6 DEF OnceInv
  <2>2. u = t BY <2>1, <1>3 DEF Working
  <2> QED BY <2>1, <2>2, <1>5, <1>6
<1> QED BY <1>1, <1>3, <1>4, <1>6

LEMMA OnceTickItem ==
    ASSUME IInv, OnceInv, NEW t \in Tasks, TickItem(t)
    PROVE  OnceInv'
<1> SUFFICES ASSUME history \cap Causes = {} PROVE OnceInv'
  BY DEF TickItem, Routine, OnceInv
<1>1. PICK c \in Positions : c = tasks[t].held /\ c < Items
  BY DEF IInv, TickHasCursor, TickItem
<1>2. Working(t)
  BY <1>1, PollerAssumption DEF Working, TickItem, Positions, PollerAssumption
<1>3. /\ c >= row.cursor
      /\ \A u \in Tasks : tasks[u].pc \in {"tick", "ok"} => u = t
      /\ \A i \in 0..(Items - 1) : i >= c => dispatched[i] = 0
  BY <1>1, <1>2, OneAtWork
<1>4. c \in 0..(Items - 1) /\ row.cursor \in 0..Items /\ Items \in Nat /\ None \notin Nat
  BY <1>1, PollerAssumption DEF IInv, RowOK, Positions, PollerAssumption
<1>5. \A i \in 0..(Items - 1) : dispatched'[i] = IF i = c THEN 1 ELSE dispatched[i]
  <2>1. dispatched[c] = 0 BY <1>3, <1>4
  <2> QED BY <1>1, <1>4, <2>1 DEF IInv, DispatchedOK, TickItem, Dispatch
<1>6. /\ tasks'[t].held = c + 1 /\ tasks'[t].sent /\ tasks'[t].pc = "tick"
      /\ \A u \in Tasks : u # t => tasks'[u] = tasks[u]
  BY <1>1 DEF IInv, TasksOK, TaskRecords, TickItem
<1>7. row' = row /\ runners' = runners BY DEF TickItem
<1>8. Working(t)' BY <1>4, <1>6 DEF Working
<1>9. \A u \in Tasks : Working(u)' => u = t BY <1>3, <1>6 DEF Working
<1>10. \A u \in Tasks : Working(u)' => tasks'[u].held >= row'.cursor
  BY <1>3, <1>4, <1>6, <1>7, <1>9
<1>11. \A u \in Tasks : tasks'[u].pc = "tick" /\ ~tasks'[u].sent => tasks'[u].held = row'.cursor
  BY <1>3, <1>6
<1>12. ASSUME NEW i \in 0..(Items - 1)
       PROVE  /\ dispatched'[i] <= 1
              /\ i >= row'.cursor /\ dispatched'[i] # 0 =>
                    \E u \in Tasks : Working(u)' /\ i < tasks'[u].held
  <2>1. dispatched'[i] <= 1 BY <1>5 DEF OnceInv
  <2>2. dispatched'[i] # 0 => i < c + 1 BY <1>3, <1>4, <1>5
  <2> QED BY <2>1, <2>2, <1>6, <1>8
<1>13. \A r \in Runners : runners'[r].once = None BY <1>7 DEF OnceInv
<1> QED BY <1>10, <1>11, <1>12, <1>13 DEF OnceInv

\* A tick that answers without a cursor, or fails before its first item, has
\* dispatched nothing.
LEMMA OnceDropped ==
    ASSUME IInv, OnceInv, NEW t \in Tasks, tasks[t].pc = "tick", ~tasks[t].sent,
           row' = row, runners' = runners, dispatched' = dispatched, history' = history,
           tasks'[t].pc # "tick", tasks'[t].held = None,
           \A u \in Tasks : u # t => tasks'[u] = tasks[u]
    PROVE  OnceInv'
<1> SUFFICES ASSUME history \cap Causes = {} PROVE OnceInv'
  BY DEF OnceInv
<1>1. Working(t)
  BY PollerAssumption DEF IInv, TickHasCursor, Working, Positions, PollerAssumption
<1>2. /\ tasks[t].held = row.cursor
      /\ \A u \in Tasks : tasks[u].pc \in {"tick", "ok"} => u = t
      /\ \A i \in 0..(Items - 1) : i >= tasks[t].held => dispatched[i] = 0
  BY <1>1, OneAtWork DEF OnceInv
<1>3. \A u \in Tasks : ~Working(u)' /\ tasks'[u].pc # "tick" BY <1>2 DEF Working
<1> QED BY <1>2, <1>3 DEF OnceInv

LEMMA OnceSaveOk ==
    ASSUME IInv, OnceInv, NEW t \in Tasks, SaveOk(t)
    PROVE  OnceInv'
<1> SUFFICES ASSUME history \cap Causes = {} PROVE OnceInv'
  BY DEF SaveOk, Routine, OnceInv
<1>1. /\ tasks'[t].pc = "release" /\ tasks'[t].held = None
      /\ \A u \in Tasks : u # t => tasks'[u] = tasks[u]
  BY DEF IInv, TasksOK, TaskRecords, SaveOk
<1>2. runners' = runners /\ dispatched' = dispatched BY DEF SaveOk
<1>3. "overrun" \notin history /\ tasks[t].pc = "ok" BY DEF Causes, SaveOk
<1>4. \A u \in Tasks : u # t => ~Working(u) /\ tasks[u].pc # "tick"
  BY <1>3 DEF IInv, LeaseExcludes, InSection, Working
<1>5. \A u \in Tasks : ~Working(u)' /\ tasks'[u].pc # "tick" BY <1>1, <1>4 DEF Working
<1>6. CASE tasks[t].held = None
  <2>1. row'.cursor = row.cursor BY <1>6 DEF IInv, RowOK, SaveOk
  <2>2. \A u \in Tasks : ~Working(u) BY <1>4, <1>6 DEF Working
  <2> QED BY <1>2, <1>5, <2>1, <2>2 DEF OnceInv
<1>7. CASE tasks[t].held # None
  <2>1. Working(t) BY <1>3, <1>7 DEF Working
  <2>2. row'.cursor = tasks[t].held BY <1>7 DEF IInv, RowOK, SaveOk
  <2>3. \A i \in 0..(Items - 1) : i >= row'.cursor => dispatched'[i] = 0
    BY <2>1, <2>2, <1>2, OneAtWork
  <2> QED BY <1>2, <1>5, <2>3 DEF OnceInv
<1> QED BY <1>6, <1>7

LEMMA OnceLoad ==
    ASSUME IInv, OnceInv, NEW t \in Tasks, Load(t)
    PROVE  OnceInv'
<1> SUFFICES ASSUME history \cap Causes = {} PROVE OnceInv'
  BY DEF Load, Routine, OnceInv
<1>1. /\ tasks'[t].pc = "tick" /\ tasks'[t].held = row.cursor /\ tasks[t].pc = "load"
      /\ \A u \in Tasks : u # t => tasks'[u] = tasks[u]
  BY DEF IInv, TasksOK, TaskRecords, Load, TickFrom
<1>2. runners' = runners /\ dispatched' = dispatched /\ row' = row BY DEF Load
<1>3. "overrun" \notin history BY DEF Causes
<1>4. \A u \in Tasks : u # t => ~Working(u) /\ tasks[u].pc # "tick"
  BY <1>1, <1>3 DEF IInv, LeaseExcludes, InSection, Working
<1>5. ~Working(t) BY <1>1 DEF Working
<1>6. \A u \in Tasks : u # t => ~Working(u)' /\ tasks'[u].pc # "tick" BY <1>1, <1>4 DEF Working
<1>7. row.cursor >= row.cursor BY PollerAssumption DEF IInv, RowOK, Positions, PollerAssumption
<1>8. \A i \in 0..(Items - 1) : /\ dispatched'[i] <= 1
                                /\ i >= row'.cursor => dispatched'[i] = 0
  BY <1>2, <1>4, <1>5 DEF OnceInv
<1> QED BY <1>1, <1>2, <1>6, <1>7, <1>8 DEF OnceInv

LEMMA OnceHeld ==
    ASSUME IInv, OnceInv, [Next]_vars
    PROVE  OnceInv'
<1> DEFINE Kept == /\ row'.cursor = row.cursor /\ dispatched' = dispatched
                   /\ history \subseteq history'
                   /\ \A q \in Runners : runners'[q].once = runners[q].once
           Same == \A u \in Tasks :
                     /\ tasks'[u].pc \in {"tick", "ok"} <=> tasks[u].pc \in {"tick", "ok"}
                     /\ tasks[u].pc \in {"tick", "ok"} => tasks'[u].held = tasks[u].held
                     /\ tasks'[u].pc = "tick" =>
                           tasks[u].pc = "tick" /\ tasks'[u].sent = tasks[u].sent
<1>0. Kept /\ Same => OnceInv' BY OnceQuiet
<1>1. ASSUME NEW t \in Tasks, Due(t) \/ Wake(t) PROVE OnceInv'
  <2>1. Kept BY <1>1 DEF Due, Wake, Routine
  <2>2. Same BY <1>1 DEF IInv, TasksOK, TaskRecords, Due, Wake, Past
  <2> QED BY <1>0, <2>1, <2>2
<1>2. ASSUME NEW t \in Tasks, End(t) PROVE OnceInv'
  <2>1. Kept BY <1>2 DEF End, Routine
  <2>2. Same BY <1>2 DEF IInv, TasksOK, TaskRecords, End, NoTask
  <2> QED BY <1>0, <2>1, <2>2
<1>3. ASSUME NEW t \in Tasks, Acquire(t) PROVE OnceInv'
  <2>1. Kept BY <1>3 DEF Acquire, Routine
  <2>2. Same BY <1>3 DEF IInv, TasksOK, TaskRecords, Acquire, Granted, Refused, Past
  <2> QED BY <1>0, <2>1, <2>2
<1>4. ASSUME NEW t \in Tasks, TickOk(t) PROVE OnceInv'
  <2>1. Kept BY <1>4 DEF TickOk, Routine
  <2>2. Same BY <1>4 DEF IInv, TasksOK, TaskRecords, TickOk
  <2> QED BY <1>0, <2>1, <2>2
<1>5. ASSUME NEW t \in Tasks, TickNothing(t) PROVE OnceInv'
  <2>1. /\ tasks'[t].pc # "tick" /\ tasks'[t].held = None
        /\ \A u \in Tasks : u # t => tasks'[u] = tasks[u]
    BY <1>5 DEF IInv, TasksOK, TaskRecords, TickNothing
  <2> QED BY <1>5, <2>1, OnceDropped DEF TickNothing, Routine
<1>6. ASSUME NEW t \in Tasks, TickError(t) PROVE OnceInv'
  <2>1. CASE tasks[t].sent
    <3>1. "partial" \in Causes /\ "partial" \in history' BY <1>6, <2>1 DEF TickError, Causes
    <3> QED BY <3>1, OnceExcused
  <2>2. CASE ~tasks[t].sent
    <3>1. /\ tasks'[t].pc # "tick" /\ tasks'[t].held = None
          /\ \A u \in Tasks : u # t => tasks'[u] = tasks[u]
      BY <1>6 DEF IInv, TasksOK, TaskRecords, TickError
    <3>2. history' = history /\ tasks[t].pc = "tick" BY <1>6, <2>2 DEF TickError
    <3> QED BY <1>6, <2>2, <3>1, <3>2, OnceDropped DEF TickError
  <2> QED BY <2>1, <2>2
<1>7. ASSUME NEW t \in Tasks, PauseJob(t) \/ Release(t) PROVE OnceInv'
  <2>1. Kept BY <1>7 DEF IInv, RowOK, PauseJob, Release, Routine
  <2>2. Same BY <1>7 DEF IInv, TasksOK, TaskRecords, PauseJob, Release, Past
  <2> QED BY <1>0, <2>1, <2>2
<1>8. ASSUME NEW t \in Tasks, StepError(t) PROVE OnceInv'
  <2>1. "sqlite" \in Causes /\ "sqlite" \in history'
    BY <1>8 DEF StepError, WakeError, AcquireError, LoadError, SaveError, ReleaseError, Event,
       Causes
  <2> QED BY <2>1, OnceExcused
<1>9. ASSUME NEW r \in Runners, NEW t \in Tasks, Start(r, t) PROVE OnceInv'
  <2>1. CASE history \cap Causes # {} BY <1>9, <2>1 DEF OnceInv, Start, Routine
  <2>2. CASE history \cap Causes = {}
    <3>1. /\ runners[r].once = None /\ runners'[r].once = None
          /\ \A q \in Runners : q # r => runners'[q] = runners[q]
      BY <1>9, <2>2 DEF IInv, OthersOK, OnceInv, Start
    <3>2. Kept BY <1>9, <3>1 DEF IInv, RowOK, Start, Routine
    <3>3. Same BY <1>9 DEF IInv, TasksOK, TaskRecords, Start, NewTask, NoTask
    <3> QED BY <1>0, <3>2, <3>3
  <2> QED BY <2>1, <2>2
<1>10. ASSUME NEW r \in Runners, Crash(r) PROVE OnceInv'
  <2>1. "crash" \in Causes /\ "crash" \in history' BY <1>10 DEF Crash, Event, Causes
  <2> QED BY <2>1, OnceExcused
<1>11. ASSUME NEW r \in Runners, Pause(r) \/ Resume(r) PROVE OnceInv'
  <2>1. Kept BY <1>11 DEF IInv, RowOK, Pause, Resume, Event
  <2>2. Same BY <1>11 DEF IInv, TasksOK, TaskRecords, Pause, Resume, Unpausing
  <2> QED BY <1>0, <2>1, <2>2
<1>12. ASSUME NEW r \in Runners, ResetCursor(r) \/ RunOnceLoad(r) PROVE OnceInv'
  <2>1. \E c \in Causes : c \in history' BY <1>12 DEF ResetCursor, RunOnceLoad, Event, Causes
  <2> QED BY <2>1, OnceExcused
<1>13. ASSUME NEW r \in Runners, RunOnceItem(r) \/ RunOnceEnd(r) PROVE OnceInv'
  BY <1>13 DEF OnceInv, RunOnceItem, RunOnceEnd, Routine
<1>14. ASSUME NEW a \in Admins, NEW r \in Runners, ReloadDiff(a, r) PROVE OnceInv'
  <2>1. Kept BY <1>14 DEF ReloadDiff, Event
  <2>2. Same BY <1>14 DEF ReloadDiff
  <2> QED BY <1>0, <2>1, <2>2
<1>15. ASSUME NEW a \in Admins, ReloadApply(a) PROVE OnceInv'
  <2>1. Kept BY <1>15 DEF IInv, OthersOK, ReloadApply, Routine
  <2>2. Same BY <1>15 DEF IInv, TasksOK, TaskRecords, ReloadApply
  <2> QED BY <1>0, <2>1, <2>2
<1>16. ASSUME NEW a \in Admins, NEW t \in Tasks, ReloadSpawn(a, t) PROVE OnceInv'
  <2>1. Kept BY <1>16 DEF ReloadSpawn, Routine
  <2>2. Same BY <1>16 DEF IInv, TasksOK, TaskRecords, ReloadSpawn, NewTask, NoTask
  <2> QED BY <1>0, <2>1, <2>2
<1>17. ASSUME NEW a \in Admins, ReloadInsert(a) PROVE OnceInv'
  <2>1. Kept BY <1>17 DEF IInv, OthersOK, ReloadInsert, Routine
  <2>2. Same BY <1>17 DEF ReloadInsert
  <2> QED BY <1>0, <2>1, <2>2
<1>18. ASSUME Tick PROVE OnceInv'
  <2>1. Kept BY <1>18 DEF Tick
  <2>2. Same BY <1>18 DEF IInv, TasksOK, TaskRecords, Tick
  <2> QED BY <1>0, <2>1, <2>2
<1>19. CASE UNCHANGED vars
  <2>1. Kept /\ Same BY <1>19 DEF vars
  <2> QED BY <1>0, <2>1
<1> HIDE DEF Kept, Same
<1> QED
  BY <1>1, <1>2, <1>3, <1>4, <1>5, <1>6, <1>7, <1>8, <1>9, <1>10, <1>11, <1>12, <1>13,
     <1>14, <1>15, <1>16, <1>17, <1>18, <1>19, OnceTickItem, OnceSaveOk, OnceLoad
     DEF Next, Step, Operator, Reload

(* The lease, the cursor and save_tick_ok: an item is dispatched twice     *)
(* only after an overrun, crash, SQLite error, manual run or reset, or     *)
(* when a tick failed after it had dispatched some of its items.           *)
THEOREM OneDispatch == Spec => []OnceWithoutCause
<1>1. Init => OnceInv
  <2> SUFFICES ASSUME Init PROVE OnceInv OBVIOUS
  <2>1. /\ \A t \in Tasks : tasks[t].pc = "none"
        /\ \A r \in Runners : runners[r].once = None
        /\ \A i \in 0..(Items - 1) : dispatched[i] = 0
    BY DEF Init, NoTask, DownRunner
  <2> QED BY <2>1 DEF OnceInv, Working
<1>2. IInv /\ OnceInv /\ [Next]_vars => OnceInv' BY OnceHeld
<1>3. IInv /\ OnceInv => OnceWithoutCause BY DEF IInv, DispatchedOK, OnceInv, OnceWithoutCause
<1> QED BY <1>1, <1>2, <1>3, Invariance, PTL DEF Spec

-----------------------------------------------------------------------------
(***************************************************************************)
(* One task per job.                                                       *)
(***************************************************************************)

\* Tasks and reloads belong to a living runner; as long as no two reloads of a
\* runner have overlapped, one is in progress at most, and one that will insert
\* finds no map entry to overwrite.
Alive ==
    /\ \A t \in Tasks : tasks[t].pc # "none" =>
          tasks[t].runner \in Runners /\ runners[tasks[t].runner].up
    /\ \A a \in Admins : admins[a].at # "idle" =>
          admins[a].runner \in Runners /\ runners[admins[a].runner].up
OneReload ==
    \A a, b \in Admins : /\ admins[a].at # "idle" /\ admins[b].at # "idle"
                         /\ admins[a].runner = admins[b].runner
                         => a = b
Vacant ==
    \A a \in Admins :
        admins[a].at \in {"spawn", "insert"} \/ (admins[a].at = "apply" /\ admins[a].plan = "add")
        => runners[admins[a].runner].entry = None
EntryInv == Alive /\ ("overlap" \notin history => OneReload /\ Vacant /\ OneTaskPerJob)

\* A step of a task, or of the clock: no task appears, none moves to another
\* runner or is revived.
LEMMA EntryQuiet ==
    ASSUME EntryInv, history \subseteq history', admins' = admins,
           \A q \in Runners : runners'[q].up = runners[q].up /\ runners'[q].entry = runners[q].entry,
           \A u \in Tasks : tasks'[u].pc # "none" =>
              /\ tasks[u].pc # "none"
              /\ tasks'[u].runner = tasks[u].runner /\ tasks'[u].cancelled = tasks[u].cancelled
    PROVE  EntryInv'
<1>1. Alive' BY DEF EntryInv, Alive
<1>2. ASSUME "overlap" \notin history' PROVE OneReload' /\ Vacant' /\ OneTaskPerJob'
  <2>1. Alive /\ OneReload /\ Vacant /\ OneTaskPerJob BY <1>2 DEF EntryInv
  <2>2. OneReload' BY <2>1 DEF OneReload
  <2>3. Vacant' BY <2>1 DEF Vacant, Alive
  <2>4. OneTaskPerJob' BY <2>1 DEF OneTaskPerJob, InMap, Alive
  <2> QED BY <2>2, <2>3, <2>4
<1> QED BY <1>1, <1>2 DEF EntryInv

LEMMA EntryStart ==
    ASSUME IInv, EntryInv, NEW r \in Runners, NEW t \in Tasks, Start(r, t)
    PROVE  EntryInv'
<1>1. /\ ~runners[r].up /\ runners'[r].up /\ runners'[r].entry = t
      /\ \A q \in Runners : q # r => runners'[q] = runners[q]
  BY DEF IInv, OthersOK, Start
<1>2. /\ tasks'[t].runner = r /\ \A u \in Tasks : u # t => tasks'[u] = tasks[u]
      /\ admins' = admins /\ history' = history
  BY DEF IInv, TasksOK, Start, NewTask, NoTask, Routine
<1>3. \A a \in Admins : admins[a].at # "idle" =>
         admins[a].runner \in Runners /\ admins[a].runner # r
  BY <1>1 DEF EntryInv, Alive
<1>4. \A u \in Tasks : u # t /\ tasks[u].pc # "none" =>
         tasks[u].runner \in Runners /\ tasks[u].runner # r
  BY <1>1 DEF EntryInv, Alive
<1>5. Alive' BY <1>1, <1>2, <1>3, <1>4 DEF EntryInv, Alive
<1>6. ASSUME "overlap" \notin history' PROVE OneReload' /\ Vacant' /\ OneTaskPerJob'
  <2>1. OneReload /\ Vacant /\ OneTaskPerJob BY <1>2, <1>6 DEF EntryInv
  <2>2. OneReload' BY <1>2, <2>1 DEF OneReload
  <2>3. Vacant' BY <1>1, <1>2, <1>3, <2>1 DEF Vacant
  <2>4. OneTaskPerJob' BY <1>1, <1>2, <1>4, <2>1 DEF OneTaskPerJob, InMap
  <2> QED BY <2>2, <2>3, <2>4
<1> QED BY <1>5, <1>6 DEF EntryInv

LEMMA EntryCrash ==
    ASSUME IInv, EntryInv, NEW r \in Runners, Crash(r)
    PROVE  EntryInv'
<1>1. /\ \A q \in Runners : q # r => runners'[q] = runners[q]
      /\ \A u \in Tasks : tasks'[u] = IF tasks[u].runner = r THEN NoTask ELSE tasks[u]
      /\ \A a \in Admins : admins'[a] = IF admins[a].runner = r THEN NoReload ELSE admins[a]
      /\ history \subseteq history'
  BY DEF IInv, OthersOK, Crash, Event
<1>2. NoTask.pc = "none" /\ NoReload.at = "idle" BY DEF NoTask, NoReload
<1>3. \A u \in Tasks : tasks'[u].pc # "none" =>
         /\ tasks'[u] = tasks[u] /\ tasks[u].runner \in Runners /\ tasks[u].runner # r
         /\ runners'[tasks[u].runner] = runners[tasks[u].runner]
  BY <1>1, <1>2 DEF EntryInv, Alive
<1>4. \A a \in Admins : admins'[a].at # "idle" =>
         /\ admins'[a] = admins[a] /\ admins[a].runner \in Runners
         /\ runners'[admins[a].runner] = runners[admins[a].runner]
  BY <1>1, <1>2 DEF EntryInv, Alive
<1>5. Alive' BY <1>3, <1>4 DEF EntryInv, Alive
<1>6. ASSUME "overlap" \notin history' PROVE OneReload' /\ Vacant' /\ OneTaskPerJob'
  <2>1. OneReload /\ Vacant /\ OneTaskPerJob BY <1>1, <1>6 DEF EntryInv
  <2>2. OneReload' BY <1>4, <2>1 DEF OneReload
  <2>3. Vacant' BY <1>4, <2>1 DEF Vacant
  <2>4. OneTaskPerJob'
    <3> SUFFICES ASSUME NEW u \in Tasks, tasks'[u].pc # "none", ~tasks'[u].cancelled
                 PROVE  InMap(u)'
      BY DEF OneTaskPerJob
    <3>1. InMap(u) BY <1>3, <2>1 DEF OneTaskPerJob
    <3>2. \A a \in Admins : admins[a].runner = tasks[u].runner => admins'[a] = admins[a]
      BY <1>1, <1>3
    <3> QED BY <1>3, <3>1, <3>2 DEF InMap
  <2> QED BY <2>2, <2>3, <2>4
<1> QED BY <1>5, <1>6 DEF EntryInv

LEMMA EntryDiff ==
    ASSUME IInv, EntryInv, NEW a \in Admins, NEW r \in Runners, ReloadDiff(a, r)
    PROVE  EntryInv'
<1>1. runners' = runners /\ tasks' = tasks /\ runners[r].up /\ admins[a].at = "idle"
  BY DEF ReloadDiff
<1>2. PICK p \in Plans(r) :
         admins' = [admins EXCEPT ![a] = [runner |-> r, plan |-> p, at |-> "apply", task |-> None]]
  BY DEF ReloadDiff
<1>3. /\ admins'[a].runner = r /\ admins'[a].plan = p /\ admins'[a].at = "apply"
      /\ \A b \in Admins : b # a => admins'[b] = admins[b]
  BY <1>2 DEF IInv, OthersOK
<1>4. p = "add" => runners[r].entry = None BY <1>2 DEF Plans
<1>5. Alive' BY <1>1, <1>3 DEF EntryInv, Alive
<1>6. ASSUME "overlap" \notin history' PROVE OneReload' /\ Vacant' /\ OneTaskPerJob'
  <2>0. ~Overlap(r) /\ "overlap" \notin history BY <1>6 DEF ReloadDiff, Event
  <2>1. OneReload /\ Vacant /\ OneTaskPerJob BY <2>0 DEF EntryInv
  <2>2. OneReload' BY <1>3, <2>0, <2>1 DEF OneReload, Overlap
  <2>3. Vacant' BY <1>1, <1>3, <1>4, <2>1 DEF Vacant
  <2>4. OneTaskPerJob' BY <1>1, <1>3, <2>1 DEF OneTaskPerJob, InMap
  <2> QED BY <2>2, <2>3, <2>4
<1> QED BY <1>5, <1>6 DEF EntryInv

LEMMA EntryApply ==
    ASSUME IInv, EntryInv, NEW a \in Admins, ReloadApply(a)
    PROVE  EntryInv'
<1> DEFINE r == admins[a].runner
           p == admins[a].plan
           c == IF p \in {"replace", "remove"} THEN None ELSE runners[r].entry
<1>1. r \in Runners /\ runners[r].up /\ admins[a].at = "apply"
  BY DEF EntryInv, Alive, ReloadApply
<1>2. /\ \A q \in Runners : runners'[q].up = runners[q].up
      /\ \A q \in Runners : q # r => runners'[q].entry = runners[q].entry
      /\ runners'[r].entry = c
  BY <1>1 DEF IInv, OthersOK, ReloadApply
<1>3. \A u \in Tasks : tasks'[u].pc = tasks[u].pc /\ tasks'[u].runner = tasks[u].runner
  BY DEF IInv, TasksOK, TaskRecords, ReloadApply
<1>4. \A u \in Tasks : ~tasks'[u].cancelled =>
         ~tasks[u].cancelled /\ (p \in {"replace", "remove"} => u # runners[r].entry)
  <2>1. runners[r].entry \in Tasks \cup {None} /\ None \notin Tasks
    BY <1>1, PollerAssumption DEF IInv, OthersOK, PollerAssumption
  <2>2. CASE p \in {"replace", "remove"} /\ runners[r].entry # None
    <3>1. tasks' = [tasks EXCEPT ![runners[r].entry].cancelled = TRUE]
      BY <2>2 DEF ReloadApply
    <3>2. tasks \in [Tasks -> TaskRecords] /\ runners[r].entry \in Tasks
      BY <2>1, <2>2 DEF IInv, TasksOK
    <3>3. tasks'[runners[r].entry].cancelled = TRUE BY <3>1, <3>2 DEF TaskRecords
    <3>4. \A u \in Tasks : u # runners[r].entry => tasks'[u] = tasks[u] BY <3>1, <3>2
    <3> QED BY <3>3, <3>4
  <2>3. CASE ~(p \in {"replace", "remove"} /\ runners[r].entry # None)
    <3>1. tasks' = tasks BY <2>3 DEF ReloadApply
    <3> QED BY <3>1, <2>1, <2>3
  <2> QED BY <2>2, <2>3
<1>5. /\ \A b \in Admins : b # a => admins'[b] = admins[b]
      /\ admins'[a].at # "idle" => /\ admins'[a].at = "spawn" /\ admins'[a].runner = r
                                   /\ p \in {"add", "replace"}
  BY DEF IInv, OthersOK, ReloadApply, NoReload
<1>6. Alive' BY <1>1, <1>2, <1>3, <1>5 DEF EntryInv, Alive
<1>7. ASSUME "overlap" \notin history' PROVE OneReload' /\ Vacant' /\ OneTaskPerJob'
  <2>1. Alive /\ OneReload /\ Vacant /\ OneTaskPerJob
    BY <1>7 DEF EntryInv, ReloadApply, Routine
  <2>2. OneReload' BY <1>1, <1>5, <2>1 DEF OneReload
  <2>3. Vacant'
    <3>1. p = "add" => runners[r].entry = None BY <1>1, <2>1 DEF Vacant
    <3>2. admins'[a].at # "idle" => runners'[admins'[a].runner].entry = None
      BY <1>1, <1>2, <1>5, <3>1
    <3>3. \A b \in Admins : b # a /\ admins[b].at # "idle" =>
             admins[b].runner \in Runners /\ admins[b].runner # r
      BY <1>1, <2>1 DEF OneReload, Alive
    <3> QED BY <1>2, <1>5, <2>1, <3>2, <3>3 DEF Vacant
  <2>4. OneTaskPerJob'
    <3> SUFFICES ASSUME NEW u \in Tasks, tasks'[u].pc # "none", ~tasks'[u].cancelled
                 PROVE  InMap(u)'
      BY DEF OneTaskPerJob
    <3>1. tasks[u].runner \in Runners /\ InMap(u)
      BY <1>3, <1>4, <2>1 DEF Alive, OneTaskPerJob
    <3>2. CASE runners[tasks[u].runner].entry = u
      BY <1>2, <1>3, <1>4, <3>1, <3>2 DEF InMap
    <3>3. CASE runners[tasks[u].runner].entry # u
      BY <1>1, <1>3, <1>5, <3>1, <3>3 DEF InMap
    <3> QED BY <3>2, <3>3
  <2> QED BY <2>2, <2>3, <2>4
<1> QED BY <1>6, <1>7 DEF EntryInv

LEMMA EntrySpawn ==
    ASSUME IInv, EntryInv, NEW a \in Admins, NEW t \in Tasks, ReloadSpawn(a, t)
    PROVE  EntryInv'
<1> DEFINE r == admins[a].runner
<1>1. r \in Runners /\ runners[r].up /\ admins[a].at = "spawn" /\ runners' = runners
  BY DEF EntryInv, Alive, ReloadSpawn
<1>2. /\ \A b \in Admins : b # a => admins'[b] = admins[b]
      /\ admins'[a].at = "insert" /\ admins'[a].task = t /\ admins'[a].runner = r
  BY DEF IInv, OthersOK, ReloadSpawn
<1>3. tasks'[t].runner = r /\ \A u \in Tasks : u # t => tasks'[u] = tasks[u]
  BY DEF IInv, TasksOK, ReloadSpawn, NewTask, NoTask
<1>4. Alive' BY <1>1, <1>2, <1>3 DEF EntryInv, Alive
<1>5. ASSUME "overlap" \notin history' PROVE OneReload' /\ Vacant' /\ OneTaskPerJob'
  <2>1. OneReload /\ Vacant /\ OneTaskPerJob BY <1>5 DEF EntryInv, ReloadSpawn, Routine
  <2>2. OneReload' BY <1>1, <1>2, <2>1 DEF OneReload
  <2>3. Vacant' BY <1>1, <1>2, <2>1 DEF Vacant
  <2>4. OneTaskPerJob'
    <3>1. InMap(t)' BY <1>2, <1>3 DEF InMap
    <3>2. ASSUME NEW u \in Tasks, u # t, tasks'[u].pc # "none", ~tasks'[u].cancelled
          PROVE  InMap(u)'
      <4>1. InMap(u) BY <1>3, <2>1, <3>2 DEF OneTaskPerJob
      <4> QED BY <1>1, <1>2, <1>3, <3>2, <4>1 DEF InMap
    <3> QED BY <3>1, <3>2 DEF OneTaskPerJob
  <2> QED BY <2>2, <2>3, <2>4
<1> QED BY <1>4, <1>5 DEF EntryInv

LEMMA EntryInsert ==
    ASSUME IInv, EntryInv, NEW a \in Admins, ReloadInsert(a)
    PROVE  EntryInv'
<1> DEFINE r == admins[a].runner
<1>1. r \in Runners /\ runners[r].up /\ admins[a].at = "insert" /\ tasks' = tasks
  BY DEF EntryInv, Alive, ReloadInsert
<1>2. /\ \A q \in Runners : runners'[q].up = runners[q].up
      /\ \A q \in Runners : q # r => runners'[q].entry = runners[q].entry
      /\ runners'[r].entry = admins[a].task
  BY <1>1 DEF IInv, OthersOK, ReloadInsert
<1>3. admins'[a].at = "idle" /\ \A b \in Admins : b # a => admins'[b] = admins[b]
  BY DEF IInv, OthersOK, ReloadInsert, NoReload
<1>4. Alive' BY <1>1, <1>2, <1>3 DEF EntryInv, Alive
<1>5. ASSUME "overlap" \notin history' PROVE OneReload' /\ Vacant' /\ OneTaskPerJob'
  <2>1. Alive /\ OneReload /\ Vacant /\ OneTaskPerJob
    BY <1>5 DEF EntryInv, ReloadInsert, Routine
  <2>2. OneReload' BY <1>3, <2>1 DEF OneReload
  <2>3. \A b \in Admins : b # a /\ admins[b].at # "idle" =>
           admins[b].runner \in Runners /\ admins[b].runner # r
    BY <1>1, <2>1 DEF OneReload, Alive
  <2>4. Vacant' BY <1>2, <1>3, <2>1, <2>3 DEF Vacant
  <2>5. OneTaskPerJob'
    <3> SUFFICES ASSUME NEW u \in Tasks, tasks[u].pc # "none", ~tasks[u].cancelled
                 PROVE  InMap(u)'
      BY <1>1 DEF OneTaskPerJob
    <3>1. tasks[u].runner \in Runners /\ InMap(u) BY <2>1 DEF Alive, OneTaskPerJob
    <3>2. runners[r].entry = None /\ u # None
      BY <1>1, <2>1, PollerAssumption DEF Vacant, PollerAssumption
    <3>3. CASE runners[tasks[u].runner].entry = u
      BY <1>1, <1>2, <3>1, <3>2, <3>3 DEF InMap
    <3>4. CASE runners[tasks[u].runner].entry # u
      BY <1>1, <1>2, <1>3, <3>1, <3>4 DEF InMap
    <3> QED BY <3>3, <3>4
  <2> QED BY <2>2, <2>4, <2>5
<1> QED BY <1>4, <1>5 DEF EntryInv

LEMMA EntryHeld ==
    ASSUME IInv, EntryInv, [Next]_vars
    PROVE  EntryInv'
<1> DEFINE Kept == /\ history \subseteq history' /\ admins' = admins
                   /\ \A q \in Runners : /\ runners'[q].up = runners[q].up
                                         /\ runners'[q].entry = runners[q].entry
           Same == \A u \in Tasks : tasks'[u].pc # "none" =>
                      /\ tasks[u].pc # "none" /\ tasks'[u].runner = tasks[u].runner
                      /\ tasks'[u].cancelled = tasks[u].cancelled
<1>0. Kept /\ Same => EntryInv' BY EntryQuiet
<1>1. ASSUME NEW t \in Tasks, Step(t) PROVE EntryInv'
  <2>1. Kept
    BY <1>1 DEF Step, Due, Wake, End, Acquire, Load, TickItem, TickOk, TickNothing, TickError,
       SaveOk, PauseJob, Release, Routine
  <2>2. CASE Due(t) \/ Wake(t) \/ End(t) \/ PauseJob(t) \/ Release(t)
    <3>1. Same
      BY <2>2 DEF IInv, TasksOK, TaskRecords, Due, Wake, End, PauseJob, Release, Past, NoTask
    <3> QED BY <1>0, <2>1, <3>1
  <2>3. CASE Acquire(t)
    <3>1. Same BY <2>3 DEF IInv, TasksOK, TaskRecords, Acquire, Granted, Refused, Past
    <3> QED BY <1>0, <2>1, <3>1
  <2>4. CASE Load(t) \/ TickItem(t) \/ TickOk(t) \/ TickNothing(t) \/ TickError(t) \/ SaveOk(t)
    <3>1. Same
      BY <2>4 DEF IInv, TasksOK, TaskRecords, Load, TickFrom, TickItem, TickOk, TickNothing,
         TickError, SaveOk
    <3> QED BY <1>0, <2>1, <3>1
  <2> HIDE DEF Kept, Same
  <2> QED BY <1>1, <2>2, <2>3, <2>4 DEF Step
<1>2. ASSUME NEW t \in Tasks, StepError(t) PROVE EntryInv'
  <2>1. Kept
    BY <1>2 DEF StepError, WakeError, AcquireError, LoadError, SaveError, ReleaseError, Event
  <2>2. Same
    BY <1>2 DEF IInv, TasksOK, TaskRecords, StepError, WakeError, AcquireError, LoadError,
       TickFrom, SaveError, ReleaseError, Refused, Past
  <2> QED BY <1>0, <2>1, <2>2
<1>3. ASSUME NEW r \in Runners, Operator(r) PROVE EntryInv'
  <2>1. Kept
    BY <1>3 DEF IInv, OthersOK, Operator, Pause, Resume, ResetCursor, RunOnceLoad, RunOnceItem,
       RunOnceEnd, Event, Routine
  <2>2. Same
    BY <1>3 DEF IInv, TasksOK, TaskRecords, Operator, Pause, Resume, ResetCursor, RunOnceLoad,
       RunOnceItem, RunOnceEnd, Unpausing
  <2> QED BY <1>0, <2>1, <2>2
<1>4. ASSUME Tick PROVE EntryInv'
  <2>1. Kept BY <1>4 DEF Tick
  <2>2. Same BY <1>4 DEF IInv, TasksOK, TaskRecords, Tick
  <2> QED BY <1>0, <2>1, <2>2
<1>5. CASE UNCHANGED vars
  <2>1. Kept /\ Same BY <1>5 DEF vars
  <2> QED BY <1>0, <2>1
<1> HIDE DEF Kept, Same
<1> QED BY <1>1, <1>2, <1>3, <1>4, <1>5, EntryStart, EntryCrash, EntryDiff, EntryApply,
           EntrySpawn, EntryInsert
        DEF Next, Reload

(* reload() and spawn_job, for any number of daemons and of reloads in     *)
(* progress: a task that nobody can cancel any more appears only after two *)
(* reloads of one daemon have overlapped.                                  *)
THEOREM NoEscapeWithoutOverlap == Spec => []EscapeNeedsOverlap
<1>1. Init => EntryInv
  BY DEF Init, NoTask, NoReload, EntryInv, Alive, OneReload, Vacant, OneTaskPerJob
<1>2. IInv /\ EntryInv /\ [Next]_vars => EntryInv' BY EntryHeld
<1>3. EntryInv => EscapeNeedsOverlap BY DEF EntryInv, EscapeNeedsOverlap
<1> QED BY <1>1, <1>2, <1>3, Invariance, PTL DEF Spec
=============================================================================
