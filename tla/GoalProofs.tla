------------------------------ MODULE GoalProofs -----------------------------
(***************************************************************************)
(* Proofs about GoalRegistry: the cap, the table that follows the map, the *)
(* timeout that respects the answer, the restart that restores.            *)
(*                                                                         *)
(* The four rest on one inductive invariant, GoalInv.  TypeInv types the   *)
(* state.  TaskInv says what each task may still have to do, and that      *)
(* reattach runs alone: between the calls for one row the row is as Block  *)
(* says, all rows before it are restored.  DiskInv follows the writes of a *)
(* goal to the table; the purge of an eviction may find a goal that was    *)
(* dispatched again, and spares it because only a goal that ran is paused  *)
(* or timed out.  AskInv follows the number of a question: it is with one  *)
(* goal, and gone from the map once the answer is recorded.                *)
(*                                                                         *)
(* A step is first classified: by phase (StepCases), by what it writes     *)
(* (UpWrites, BootWrites), by what it does to signals, timeouts and tasks  *)
(* (UpDrives, UpAsks, UpMove).  The invariant is then preserved class by   *)
(* class instead of action by action.                                      *)
(***************************************************************************)
EXTENDS GoalRegistry, TLAPS, FiniteSetTheorems, WellFoundedInduction


(***************************************************************************)
(* The invariant.                                                          *)
(***************************************************************************)
\* A row in the map or the table; a sleeping one has its wake-up time.
LiveRows == {r \in [status : Status \ {"absent"}, sleep : BOOLEAN, ask : 0..MaxAsks] :
                r.status = "Sleeping" => r.sleep}
Rows == LiveRows \cup {NoRow}
Writes == [g : Goals, row : LiveRows] \cup {NoWrite}
LoopPlaces == {"none", "top", "turn", "asleep", "closing", "done", "dead", "gone"}

RowsOK == /\ mem \in [Goals -> Rows] /\ store \in [Goals -> Rows] /\ intent \in [Goals -> Rows]
          /\ pend \in [Tasks -> Writes]
CapOK == cap \in Nat /\ capHigh \in Nat /\ cap <= capHigh
DriverOK == /\ sig \in [Goals -> [on : BOOLEAN, paused : BOOLEAN, cancelled : BOOLEAN]]
            /\ loop \in [Goals -> LoopPlaces]
AskingOK == /\ timer \in [Questions -> [at : {"none", "armed", "checked", "over"},
                                        g : Goals \cup {NoGoal}]]
            /\ \A q \in Questions : timer[q].at \in {"armed", "checked"} => timer[q].g \in Goals
            /\ reply \in [g : Goals \cup {NoGoal}, q : 0..MaxAsks]
            /\ asks \in 0..MaxAsks
QueueOK == queue \in Seq(Goals)

\* What a task may still have to do.
StatusCalls == [c : {"status"}, g : Goals, s : {"Cancelled", "Running"}]
OpPlan == \/ todo[Op] \in Seq(StatusCalls)
          \/ \E g \in Goals : \/ todo[Op] = <<CallAsk(g, asks), CallArm(g, asks)>>
                              \/ todo[Op] = <<CallArm(g, asks)>>
                              \/ todo[Op] = <<CallPromote(g)>>
          \/ todo[Op] = <<CallPop>>
          \/ \E S \in SUBSET Goals : todo[Op] = <<CallPurge(S)>>
Plans ==
    /\ DOMAIN todo = Tasks /\ OpPlan
    /\ \A g \in Goals : todo[Disp(g)] \in {<<>>, <<CallSpawn(g)>>}
    /\ \A g \in Goals : todo[Loop(g)] \in {<<>>, <<CallSleep(g)>>}
    /\ \A q \in Questions : \/ todo[Timer(q)] = <<>>
                            \/ \E g \in Goals : todo[Timer(q)] = <<CallStatus(g, "Cancelled")>>
    /\ \/ todo[Reply] = <<>>
       \/ \E g \in Goals : todo[Reply] = <<CallStatus(g, "Running")>>

\* The call that gives a row back its status, and the row it comes from.
Final(g, row) == IF row.status = "Sleeping" THEN CallSleep(g)
                 ELSE CallStatus(g, IF row.status = "Running" THEN "LostOnRestart" ELSE row.status)
Block(g, row) ==
    \/ /\ ~Known(g)
       /\ \/ todo[Boot] = <<CallStore(g, NoRow)>>
          \/ todo[Boot] = <<CallStore(g, WithStatus(row, "LostOnRestart")), CallAdmit(g, row), Final(g, row)>>
          \/ todo[Boot] = <<CallAdmit(g, row), Final(g, row)>>
    \/ /\ mem[g] \in LiveRows /\ mem[g].ask = row.ask /\ ~mem[g].sleep
       /\ todo[Boot] = <<Final(g, row)>>
Settled(S) == \A g \in Goals \ S : Known(g) => mem[g] = Restored(intent[g])
BootPlan ==
    \/ todo[Boot] = <<>> /\ Settled({})
    \/ \E g \in Goals \ walk : intent[g] \in LiveRows /\ Block(g, intent[g]) /\ Settled({g})

\* While reattach runs nothing else does.
Booting ==
    phase = "boot" =>
        /\ \A t \in Tasks \ {Boot} : Idle(t)
        /\ \A g \in Goals : ~sig[g].on /\ loop[g] \in {"none", "gone"}
        /\ \A q \in Questions : timer[q].at = "none"
        /\ reply.g = NoGoal /\ answered = {} /\ adrift = {}
        /\ walk \subseteq Goals /\ \A g \in walk : ~Known(g) /\ intent[g] # NoRow
        /\ BootPlan
Serving == phase = "up" => Idle(Boot) /\ walk = {}
PhaseOK == phase \in {"up", "boot"}

\* A timeout or an answer that has not gone ahead has made no call.
TimersIdle == \A q \in Questions : timer[q].at # "over" => Idle(Timer(q))
ReplyIdle == reply.g # NoGoal => Idle(Reply) /\ reply.q # 0
\* A question's timeout is armed once.
Unarmed == /\ \A q \in Questions : q > asks => timer[q].at = "none"
           /\ \A g \in Goals : \/ todo[Op] = <<CallAsk(g, asks), CallArm(g, asks)>>
                               \/ todo[Op] = <<CallArm(g, asks)>>
                               => asks # 0 /\ timer[asks].at = "none"

\* A goal's writes: as long as none failed or met another, the last of them is on the
\* disk or on its way.
Follows ==
    \A g \in Goals : g \notin adrift =>
        /\ \A t, u \in Tasks : pend[t].g = g /\ pend[u].g = g => t = u
        /\ Known(g) => /\ \A t \in Tasks : pend[t].g = g => pend[t].row = mem[g]
                       /\ (\A t \in Tasks : pend[t].g # g) => store[g] = mem[g]
\* No timeout is about to cancel g.
NoTimeout(g) == \A q \in Questions : /\ timer[q].at = "checked" => timer[q].g # g
                                     /\ todo[Timer(q)] # <<CallStatus(g, "Cancelled")>>
\* A goal that never ran was never paused.
NeverRan ==
    \A g \in Goals : /\ sig[g].on => loop[g] # "none"
                     /\ loop[g] = "none" =>
                           /\ mem[g].status # "Paused" /\ store[g].status # "Paused"
                           /\ intent[g].status # "Paused"
                           /\ \A t \in Tasks : pend[t].g = g => pend[t].row.status # "Paused"
                           /\ NoTimeout(g)
\* A goal evicted from the map and dispatched again before the purge of the table.
PurgeSpares ==
    \A S \in SUBSET Goals : todo[Op] = <<CallPurge(S)>> =>
        \A g \in S : Known(g) => mem[g].status \notin Terminal \cup {"Paused"} /\ NoTimeout(g)

\* Where the number of a question can be; it is there for one goal.
Asked(g, q) == \/ mem[g].ask = q \/ store[g].ask = q \/ intent[g].ask = q
               \/ \E t \in Tasks : pend[t].g = g /\ pend[t].row.ask = q
               \/ (reply.g = g /\ reply.q = q)
               \/ (todo[Op] = <<CallAsk(g, asks), CallArm(g, asks)>> /\ q = asks)
OneGoalAsks ==
    \A q \in Questions : /\ \A g \in Goals : Asked(g, q) => q <= asks
                         /\ \A g, h \in Goals : Asked(g, q) /\ Asked(h, q) => g = h
AnsweredGone ==
    /\ answered \subseteq 1..asks
    /\ \A q \in answered, g \in Goals : mem[g].ask # q
    /\ reply.g = NoGoal => reply.q = 0
    /\ \A g \in Goals : todo[Op] = <<CallAsk(g, asks), CallArm(g, asks)>> =>
          asks \notin answered /\ reply.q # asks /\ \A h \in Goals : mem[h].ask # asks

TypeInv == RowsOK /\ CapOK /\ DriverOK /\ AskingOK /\ QueueOK /\ PhaseOK
TaskInv == Plans /\ Booting /\ Serving /\ TimersIdle /\ ReplyIdle /\ Unarmed
DiskInv == Follows /\ NeverRan /\ PurgeSpares
AskInv == OneGoalAsks /\ AnsweredGone /\ TimerRespectsAnswer
GoalInv == TypeInv /\ TaskInv /\ DiskInv /\ AskInv /\ CapHolds

-----------------------------------------------------------------------------
(***************************************************************************)
(* Lemmas about tasks, rows and the queue.                                 *)
(***************************************************************************)
LEMMA TaskNames ==
    /\ Op \in Tasks /\ Reply \in Tasks /\ Boot \in Tasks
    /\ Op # Reply /\ Op # Boot /\ Reply # Boot
    /\ \A g \in Goals : /\ Disp(g) \in Tasks /\ Loop(g) \in Tasks
                        /\ Disp(g) \notin {Op, Reply, Boot} /\ Loop(g) \notin {Op, Reply, Boot}
    /\ \A q \in Questions : Timer(q) \in Tasks /\ Timer(q) \notin {Op, Reply, Boot}
    /\ \A g, h \in Goals : /\ Disp(g) # Loop(h)
                           /\ Disp(g) = Disp(h) => g = h
                           /\ Loop(g) = Loop(h) => g = h
    /\ \A g \in Goals, q \in Questions : Timer(q) # Disp(g) /\ Timer(q) # Loop(g)
    /\ \A p, q \in Questions : Timer(p) = Timer(q) => p = q
BY DEF Op, Reply, Boot, Disp, Loop, Timer, Tasks

\* Every task is one of these.
LEMMA TaskCases ==
    ASSUME NEW t \in Tasks
    PROVE  \/ t \in {Op, Reply, Boot}
           \/ \E g \in Goals : t \in {Disp(g), Loop(g)}
           \/ \E q \in Questions : t = Timer(q)
BY DEF Tasks

LEMMA RowIsNot == \A r \in LiveRows : r # NoRow /\ r.status # "absent"
BY DEF LiveRows, NoRow

LEMMA WriteIsNot == \A w \in Writes : /\ w.g = NoGoal <=> w = NoWrite
                                      /\ w # NoWrite => w.g \in Goals /\ w.row \in LiveRows
BY RegistryAssumption DEF Writes, NoWrite, RegistryAssumption

\* Rows are equal when their columns are.
RowRecords == [status : Status, sleep : BOOLEAN, ask : 0..MaxAsks]
LEMMA SameRow ==
    ASSUME NEW r \in RowRecords, NEW w \in RowRecords,
           r.status = w.status, r.sleep = w.sleep, r.ask = w.ask
    PROVE  r = w
BY DEF RowRecords

LEMMA LiveIsRow == LiveRows \subseteq RowRecords
BY DEF LiveRows, RowRecords

\* The rows that the calls make.
LEMMA StatusRow ==
    ASSUME NEW r \in LiveRows, NEW s \in Status \ {"absent", "Sleeping"}
    PROVE  /\ WithStatus(r, s) \in LiveRows
           /\ WithStatus(r, s).status = s /\ ~WithStatus(r, s).sleep /\ WithStatus(r, s).ask = r.ask
BY DEF LiveRows, WithStatus

LEMMA AskRow ==
    ASSUME NEW r \in LiveRows, NEW q \in 0..MaxAsks
    PROVE  /\ [r EXCEPT !.ask = q] \in LiveRows
           /\ [r EXCEPT !.ask = q].status = r.status /\ [r EXCEPT !.ask = q].ask = q
BY DEF LiveRows

SleepRow(r) == [r EXCEPT !.status = "Sleeping", !.sleep = TRUE]
LEMMA SleepRowIs ==
    ASSUME NEW r \in LiveRows
    PROVE  /\ SleepRow(r) \in LiveRows
           /\ SleepRow(r).status = "Sleeping" /\ SleepRow(r).sleep /\ SleepRow(r).ask = r.ask
BY DEF LiveRows, SleepRow, Status, Counted

AwakeRow(r) == [r EXCEPT !.status = IF @ = "Sleeping" THEN "Running" ELSE @, !.sleep = FALSE]
LEMMA AwakeRowIs ==
    ASSUME NEW r \in LiveRows
    PROVE  /\ AwakeRow(r) \in LiveRows /\ AwakeRow(r).ask = r.ask
           /\ AwakeRow(r).status \in {r.status, "Running"}
BY DEF LiveRows, AwakeRow, Status, Counted

AdmitRow(r, s) == [r EXCEPT !.status = s, !.sleep = FALSE]
LEMMA AdmitRowIs ==
    ASSUME NEW r \in LiveRows, NEW s \in {"Running", "Queued"}
    PROVE  /\ AdmitRow(r, s) \in LiveRows
           /\ AdmitRow(r, s).status = s /\ ~AdmitRow(r, s).sleep /\ AdmitRow(r, s).ask = r.ask
BY DEF LiveRows, AdmitRow, Status, Counted

LEMMA NewRowOK == NewRow \in LiveRows /\ NewRow.ask = 0
BY RegistryAssumption DEF NewRow, LiveRows, Status, Counted, RegistryAssumption

\* Induction, for a set in place of a predicate.
LEMMA LeastNat ==
    ASSUME NEW T, T \subseteq Nat, T # {}
    PROVE  \E x \in T : \A y \in T : x <= y
<1> DEFINE R == OpToRel(<, Nat)
<1>1. IsWellFoundedOn(R, Nat) BY NatLessThanWellFounded
<1>2. \A x, y \in Nat : <<x, y>> \in R <=> x < y BY DEF OpToRel
<1> HIDE DEF R
<1>3. PICK x \in T : \A y \in T : ~(<<y, x>> \in R) BY <1>1, WFMin
<1>4. x \in Nat BY <1>3
<1>5. ASSUME NEW y \in T PROVE x <= y
  <2>1. y \in Nat /\ ~(<<y, x>> \in R) BY <1>3
  <2>2. ~(y < x) BY <1>2, <1>4, <2>1
  <2> QED BY <1>4, <2>1, <2>2
<1> QED BY <1>3, <1>5

LEMMA InductionSet ==
    ASSUME NEW S, 0 \in S, \A n \in Nat : n \in S => n + 1 \in S
    PROVE  Nat \subseteq S
<1> SUFFICES ASSUME ~(Nat \subseteq S) PROVE FALSE OBVIOUS
<1> DEFINE T == {n \in Nat : n \notin S}
<1>1. PICK x \in T : \A y \in T : x <= y
  <2>1. T \subseteq Nat /\ T # {} OBVIOUS
  <2> HIDE DEF T
  <2> QED BY <2>1, LeastNat
<1>2. x \in Nat /\ x # 0 /\ x \notin S OBVIOUS
<1>3. x - 1 \in Nat /\ ~(x <= x - 1) /\ (x - 1) + 1 = x BY <1>2
<1>4. x - 1 \in S BY <1>1, <1>3
<1> QED BY <1>2, <1>3, <1>4

\* What is left of the queue is a queue.
LEMMA RetainedIsQueue ==
    ASSUME NEW s \in Seq(Goals), NEW g
    PROVE  QueueWithout(s, g) \in Seq(Goals)
<1> DEFINE Grown(v, n) == IF s[n] = g THEN v ELSE Append(v, s[n])
           Prefixes(m, f) == f = [n \in 0..m |-> IF n = 0 THEN <<>> ELSE Grown(f[n - 1], n)]
           S == {m \in Nat : \E f : Prefixes(m, f)}
<1>1. Nat \subseteq S
  <2>1. 0 \in S
    <3> DEFINE f == [n \in 0..0 |-> <<>>]
    <3>1. Prefixes(0, f) OBVIOUS
    <3> QED BY <3>1
  <2>2. ASSUME NEW m \in Nat, m \in S PROVE m + 1 \in S
    <3>1. PICK f : Prefixes(m, f) BY <2>2
    <3> DEFINE h == [n \in 0..(m + 1) |-> IF n <= m THEN f[n] ELSE Grown(f[m], n)]
    <3>2. \A n \in 0..m : f[n] = IF n = 0 THEN <<>> ELSE Grown(f[n - 1], n) BY <3>1
    <3> HIDE DEF Grown
    <3>3. ASSUME NEW n \in 0..(m + 1) PROVE h[n] = IF n = 0 THEN <<>> ELSE Grown(h[n - 1], n)
      <4>1. CASE n = 0 BY <3>2, <4>1
      <4>2. CASE n \in 1..m
        <5>1. n - 1 \in 0..m /\ n - 1 <= m /\ n <= m /\ n \in 0..m /\ n # 0 BY <4>2
        <5>2. h[n] = f[n] /\ h[n - 1] = f[n - 1] BY <5>1
        <5> QED BY <3>2, <5>1, <5>2
      <4>3. CASE n = m + 1
        <5>1. n - 1 = m /\ ~(n <= m) /\ n # 0 BY <4>3
        <5>2. h[n] = Grown(f[m], n) /\ h[m] = f[m] BY <5>1
        <5> QED BY <5>1, <5>2
      <4> QED BY <4>1, <4>2, <4>3
    <3>4. Prefixes(m + 1, h)
      <4> DEFINE k == [n \in 0..(m + 1) |-> IF n = 0 THEN <<>> ELSE Grown(h[n - 1], n)]
      <4>1. \A n \in 0..(m + 1) : h[n] = k[n] BY <3>3
      <4>2. h = k BY <4>1
      <4> QED BY <4>2
    <3> HIDE DEF h
    <3> QED BY <3>4
  <2> HIDE DEF S
  <2> QED BY <2>1, <2>2, InductionSet
<1>2. Len(s) \in Nat /\ s \in [1..Len(s) -> Goals] OBVIOUS
<1> DEFINE kept == CHOOSE f : Prefixes(Len(s), f)
<1>3. QueueWithout(s, g) = kept[Len(s)] BY DEF QueueWithout
<1>4. Prefixes(Len(s), kept)
  <2>1. \E f : Prefixes(Len(s), f) BY <1>1, <1>2
  <2> HIDE DEF Prefixes
  <2> QED BY <2>1
<1> HIDE DEF kept
<1>5. \A n \in 0..Len(s) : kept[n] = IF n = 0 THEN <<>> ELSE Grown(kept[n - 1], n) BY <1>4
<1> DEFINE Q == {n \in Nat : n <= Len(s) => kept[n] \in Seq(Goals)}
<1>6. 0 \in Q
  <2>1. 0 \in 0..Len(s) BY <1>2
  <2>2. kept[0] = <<>> BY <1>5, <2>1
  <2>3. <<>> \in Seq(Goals) OBVIOUS
  <2> QED BY <2>2, <2>3
<1>7. ASSUME NEW n \in Nat, n \in Q PROVE n + 1 \in Q
  <2>1. CASE n + 1 <= Len(s)
    <3>1. n + 1 \in 0..Len(s) /\ n + 1 # 0 /\ (n + 1) - 1 = n /\ n <= Len(s) /\ n + 1 \in 1..Len(s)
      BY <1>2, <2>1
    <3>2. kept[n + 1] = Grown(kept[n], n + 1) BY <1>5, <3>1
    <3>3. kept[n] \in Seq(Goals) /\ s[n + 1] \in Goals BY <1>2, <1>7, <3>1
    <3>4. Grown(kept[n], n + 1) \in Seq(Goals) BY <3>3
    <3>5. kept[n + 1] \in Seq(Goals) BY <3>2, <3>4
    <3> QED BY <3>5
  <2>2. CASE ~(n + 1 <= Len(s)) BY <2>2
  <2> QED BY <2>1, <2>2
<1>8. Nat \subseteq Q
  <2> HIDE DEF Q
  <2> QED BY <1>6, <1>7, InductionSet
<1>9. Len(s) \in Q BY <1>2, <1>8
<1> QED BY <1>2, <1>3, <1>9

-----------------------------------------------------------------------------
(***************************************************************************)
(* The next call of each task.                                             *)
(***************************************************************************)
Calm == UNCHANGED <<driver, asking, bounds, boot>>

LEMMA Tuples ==
    ASSUME NEW a, NEW b, NEW c
    PROVE  /\ Head(<<a>>) = a /\ Tail(<<a>>) = <<>> /\ <<a>> # <<>> /\ <<a>> \o <<>> = <<a>>
           /\ Head(<<a, b>>) = a /\ Tail(<<a, b>>) = <<b>> /\ <<a, b>> # <<>>
           /\ Head(<<a, b, c>>) = a /\ Tail(<<a, b, c>>) = <<b, c>> /\ <<a, b, c>> # <<>>
           /\ <<>> \o <<>> = <<>>
OBVIOUS

\* NextCall with the call to make and the calls after it as parameters.
Make(t, a, rest) ==
    /\ \/ a.c = "status"  /\ SetStatus(t, a.g, a.s, rest)
       \/ a.c = "ask"     /\ SetAskPending(t, a.g, a.q, rest)
       \/ a.c = "sleep"   /\ SetSleeping(t, a.g, rest)
       \/ a.c = "admit"   /\ Admit(t, a.g, a.row, TRUE, rest)
       \/ a.c = "store"   /\ StoreWrite(t, a.g, a.row, rest)
       \/ a.c = "purge"   /\ PurgeStore(t, a.set, rest)
       \/ a.c = "pop"     /\ PopNext(t, rest)
       \/ a.c = "promote" /\ PromoteQueued(t, a.g, rest)
       \/ a.c \in {"spawn", "arm"} /\ Then(t, rest) /\ UNCHANGED <<registry, pend>>
    /\ IF a.c = "spawn" THEN RunGoal(a.g) ELSE UNCHANGED driver
    /\ timer' = IF a.c = "arm" THEN [timer EXCEPT ![a.q] = [at |-> "armed", g |-> a.g]] ELSE timer
    /\ UNCHANGED <<reply, answered, late, bounds, boot>>

LEMMA NextMakes ==
    ASSUME NEW t \in Tasks, NextCall(t)
    PROVE  pend[t] = NoWrite /\ todo[t] # <<>> /\ Make(t, Head(todo[t]), Tail(todo[t]))
BY DEF NextCall, Make

LEMMA MakeStatus ==
    ASSUME NEW t, NEW g, NEW s, NEW rest, Make(t, CallStatus(g, s), rest)
    PROVE  SetStatus(t, g, s, rest) /\ Calm
BY DEF Make, CallStatus, Calm, asking

LEMMA MakeSleep ==
    ASSUME NEW t, NEW g, NEW rest, Make(t, CallSleep(g), rest)
    PROVE  SetSleeping(t, g, rest) /\ Calm
BY DEF Make, CallSleep, Calm, asking

LEMMA MakeAsk ==
    ASSUME NEW t, NEW g, NEW q, NEW rest, Make(t, CallAsk(g, q), rest)
    PROVE  SetAskPending(t, g, q, rest) /\ Calm
BY DEF Make, CallAsk, Calm, asking

LEMMA MakeOther ==
    ASSUME NEW t, NEW g, NEW rest
    PROVE  /\ Make(t, CallPromote(g), rest) => PromoteQueued(t, g, rest) /\ Calm
           /\ Make(t, CallPop, rest) => PopNext(t, rest) /\ Calm
           /\ Make(t, CallPurge(g), rest) => PurgeStore(t, g, rest) /\ Calm
<1>1. Make(t, CallPromote(g), rest) => PromoteQueued(t, g, rest) /\ Calm
  BY DEF Make, CallPromote, Calm, asking
<1>2. Make(t, CallPop, rest) => PopNext(t, rest) /\ Calm
  BY DEF Make, CallPop, Calm, asking
<1>3. Make(t, CallPurge(g), rest) => PurgeStore(t, g, rest) /\ Calm
  BY DEF Make, CallPurge, Calm, asking
<1> QED BY <1>1, <1>2, <1>3

LEMMA MakeArm ==
    ASSUME NEW t, NEW g, NEW q, NEW rest, Make(t, CallArm(g, q), rest)
    PROVE  /\ Then(t, rest) /\ timer' = [timer EXCEPT ![q] = [at |-> "armed", g |-> g]]
           /\ UNCHANGED <<registry, pend, driver, reply, answered, late, bounds, boot>>
BY DEF Make, CallArm

LEMMA MakeSpawn ==
    ASSUME NEW t, NEW g, NEW rest, Make(t, CallSpawn(g), rest)
    PROVE  /\ Then(t, rest) /\ RunGoal(g)
           /\ UNCHANGED <<registry, pend, asking, bounds, boot>>
BY DEF Make, CallSpawn, asking

LEMMA MakeRow ==
    ASSUME NEW t, NEW g, NEW row, NEW rest
    PROVE  /\ Make(t, CallAdmit(g, row), rest) => Admit(t, g, row, TRUE, rest) /\ Calm
           /\ Make(t, CallStore(g, row), rest) => StoreWrite(t, g, row, rest) /\ Calm
<1>1. Make(t, CallAdmit(g, row), rest) => Admit(t, g, row, TRUE, rest) /\ Calm
  BY DEF Make, CallAdmit, Calm, asking
<1>2. Make(t, CallStore(g, row), rest) => StoreWrite(t, g, row, rest) /\ Calm
  BY DEF Make, CallStore, Calm, asking
<1> QED BY <1>1, <1>2

\* The operator's task.
OpCall ==
    \/ \E g \in Goals, s \in {"Cancelled", "Running"}, rest \in Seq(StatusCalls) :
          SetStatus(Op, g, s, rest) /\ Calm /\ todo[Op] \in Seq(StatusCalls)
    \/ \E g \in Goals : /\ todo[Op] = <<CallAsk(g, asks), CallArm(g, asks)>>
                        /\ SetAskPending(Op, g, asks, <<CallArm(g, asks)>>) /\ Calm
    \/ \E g \in Goals : /\ todo[Op] = <<CallArm(g, asks)>> /\ Then(Op, <<>>)
                        /\ timer' = [timer EXCEPT ![asks] = [at |-> "armed", g |-> g]]
                        /\ UNCHANGED <<registry, pend, driver, reply, answered, late, bounds, boot>>
    \/ \E g \in Goals : todo[Op] = <<CallPromote(g)>> /\ PromoteQueued(Op, g, <<>>) /\ Calm
    \/ todo[Op] = <<CallPop>> /\ PopNext(Op, <<>>) /\ Calm
    \/ \E S \in SUBSET Goals : todo[Op] = <<CallPurge(S)>> /\ PurgeStore(Op, S, <<>>) /\ Calm

LEMMA OpMakes ==
    ASSUME Plans, NextCall(Op)
    PROVE  pend[Op] = NoWrite /\ todo[Op] # <<>> /\ OpCall
<1>1. pend[Op] = NoWrite /\ todo[Op] # <<>> /\ Make(Op, Head(todo[Op]), Tail(todo[Op]))
  BY NextMakes, TaskNames
<1>2. OpPlan BY DEF Plans
<1>3. CASE todo[Op] \in Seq(StatusCalls)
  <2>1. Head(todo[Op]) \in StatusCalls /\ Tail(todo[Op]) \in Seq(StatusCalls) BY <1>1, <1>3
  <2>2. PICK g \in Goals, s \in {"Cancelled", "Running"} : Head(todo[Op]) = CallStatus(g, s)
    BY <2>1 DEF StatusCalls, CallStatus
  <2>3. SetStatus(Op, g, s, Tail(todo[Op])) /\ Calm BY <1>1, <2>2, MakeStatus
  <2> QED BY <1>1, <1>3, <2>1, <2>3 DEF OpCall
<1>4. ASSUME NEW g \in Goals, todo[Op] = <<CallAsk(g, asks), CallArm(g, asks)>> PROVE OpCall
  <2>1. Head(todo[Op]) = CallAsk(g, asks) /\ Tail(todo[Op]) = <<CallArm(g, asks)>> BY <1>4, Tuples
  <2> QED BY <1>1, <1>4, <2>1, MakeAsk DEF OpCall
<1>5. ASSUME NEW g \in Goals, todo[Op] = <<CallArm(g, asks)>> PROVE OpCall
  <2>1. Head(todo[Op]) = CallArm(g, asks) /\ Tail(todo[Op]) = <<>> BY <1>5, Tuples
  <2> QED BY <1>1, <1>5, <2>1, MakeArm DEF OpCall
<1>6. ASSUME NEW g \in Goals, todo[Op] = <<CallPromote(g)>> PROVE OpCall
  <2>1. Head(todo[Op]) = CallPromote(g) /\ Tail(todo[Op]) = <<>> BY <1>6, Tuples
  <2> QED BY <1>1, <1>6, <2>1, MakeOther DEF OpCall
<1>7. CASE todo[Op] = <<CallPop>>
  <2>1. Head(todo[Op]) = CallPop /\ Tail(todo[Op]) = <<>> BY <1>7, Tuples
  <2> QED BY <1>1, <1>7, <2>1, MakeOther DEF OpCall
<1>8. ASSUME NEW S \in SUBSET Goals, todo[Op] = <<CallPurge(S)>> PROVE OpCall
  <2>1. Head(todo[Op]) = CallPurge(S) /\ Tail(todo[Op]) = <<>> BY <1>8, Tuples
  <2> QED BY <1>1, <1>8, <2>1, MakeOther DEF OpCall
<1> QED BY <1>1, <1>2, <1>3, <1>4, <1>5, <1>6, <1>7, <1>8 DEF OpPlan

\* The tasks of a goal, of a timeout and of an answer.
LEMMA GoalMakes ==
    ASSUME Plans, NEW g \in Goals
    PROVE  /\ NextCall(Disp(g)) => /\ todo[Disp(g)] = <<CallSpawn(g)>> /\ pend[Disp(g)] = NoWrite
                                   /\ Then(Disp(g), <<>>) /\ RunGoal(g)
                                   /\ UNCHANGED <<registry, pend, asking, bounds, boot>>
           /\ NextCall(Loop(g)) => /\ pend[Loop(g)] = NoWrite /\ todo[Loop(g)] # <<>>
                                   /\ SetSleeping(Loop(g), g, <<>>) /\ Calm
<1>1. ASSUME NextCall(Disp(g))
      PROVE  /\ todo[Disp(g)] = <<CallSpawn(g)>> /\ pend[Disp(g)] = NoWrite
             /\ Then(Disp(g), <<>>) /\ RunGoal(g)
             /\ UNCHANGED <<registry, pend, asking, bounds, boot>>
  <2>1. /\ pend[Disp(g)] = NoWrite /\ todo[Disp(g)] # <<>>
        /\ Make(Disp(g), Head(todo[Disp(g)]), Tail(todo[Disp(g)]))
    BY <1>1, NextMakes, TaskNames
  <2>2. todo[Disp(g)] = <<CallSpawn(g)>> BY <2>1 DEF Plans
  <2>3. Make(Disp(g), CallSpawn(g), <<>>) BY <2>1, <2>2, Tuples
  <2> QED BY <2>1, <2>2, <2>3, MakeSpawn
<1>2. ASSUME NextCall(Loop(g))
      PROVE  /\ pend[Loop(g)] = NoWrite /\ todo[Loop(g)] # <<>>
             /\ SetSleeping(Loop(g), g, <<>>) /\ Calm
  <2>1. /\ pend[Loop(g)] = NoWrite /\ todo[Loop(g)] # <<>>
        /\ Make(Loop(g), Head(todo[Loop(g)]), Tail(todo[Loop(g)]))
    BY <1>2, NextMakes, TaskNames
  <2>2. todo[Loop(g)] = <<CallSleep(g)>> BY <2>1 DEF Plans
  <2>3. Make(Loop(g), CallSleep(g), <<>>) BY <2>1, <2>2, Tuples
  <2> QED BY <2>1, <2>3, MakeSleep
<1> QED BY <1>1, <1>2

LEMMA TimerMakes ==
    ASSUME Plans, NEW q \in Questions, NextCall(Timer(q))
    PROVE  /\ pend[Timer(q)] = NoWrite
           /\ \E g \in Goals : /\ todo[Timer(q)] = <<CallStatus(g, "Cancelled")>>
                               /\ SetStatus(Timer(q), g, "Cancelled", <<>>) /\ Calm
<1>1. /\ pend[Timer(q)] = NoWrite /\ todo[Timer(q)] # <<>>
      /\ Make(Timer(q), Head(todo[Timer(q)]), Tail(todo[Timer(q)]))
  BY NextMakes, TaskNames
<1>2. PICK g \in Goals : todo[Timer(q)] = <<CallStatus(g, "Cancelled")>> BY <1>1 DEF Plans
<1>3. Make(Timer(q), CallStatus(g, "Cancelled"), <<>>) BY <1>1, <1>2, Tuples
<1> QED BY <1>1, <1>2, <1>3, MakeStatus

LEMMA ReplyMakes ==
    ASSUME Plans, NextCall(Reply)
    PROVE  /\ pend[Reply] = NoWrite /\ todo[Reply] # <<>>
           /\ \E g \in Goals : SetStatus(Reply, g, "Running", <<>>) /\ Calm
<1>1. /\ pend[Reply] = NoWrite /\ todo[Reply] # <<>>
      /\ Make(Reply, Head(todo[Reply]), Tail(todo[Reply]))
  BY NextMakes, TaskNames
<1>2. PICK g \in Goals : todo[Reply] = <<CallStatus(g, "Running")>> BY <1>1 DEF Plans
<1>3. Make(Reply, CallStatus(g, "Running"), <<>>) BY <1>1, <1>2, Tuples
<1> QED BY <1>1, <1>3, MakeStatus

\* The task of reattach, on the row it is at.
BootCall ==
    \E g \in Goals \ walk :
        /\ intent[g] \in LiveRows /\ Settled({g}) /\ Calm
        /\ \/ /\ ~Known(g) /\ StoreWrite(Boot, g, NoRow, <<>>)
           \/ /\ ~Known(g) 
              /\ StoreWrite(Boot, g, WithStatus(intent[g], "LostOnRestart"),
                            <<CallAdmit(g, intent[g]), Final(g, intent[g])>>)
           \/ ~Known(g) /\ Admit(Boot, g, intent[g], TRUE, <<Final(g, intent[g])>>)
           \/ /\ mem[g] \in LiveRows /\ mem[g].ask = intent[g].ask /\ ~mem[g].sleep
              /\ IF intent[g].status = "Sleeping" THEN SetSleeping(Boot, g, <<>>)
                 ELSE SetStatus(Boot, g, IF intent[g].status = "Running" THEN "LostOnRestart"
                                         ELSE intent[g].status, <<>>)

LEMMA BootMakes ==
    ASSUME PhaseOK, Booting, Serving, NextCall(Boot)
    PROVE  phase = "boot" /\ pend[Boot] = NoWrite /\ BootCall
<1>1. /\ pend[Boot] = NoWrite /\ todo[Boot] # <<>>
      /\ Make(Boot, Head(todo[Boot]), Tail(todo[Boot]))
  BY NextMakes, TaskNames
<1>2. phase = "boot" BY <1>1 DEF PhaseOK, Serving, Idle
<1>3. PICK g \in Goals \ walk : intent[g] \in LiveRows /\ Block(g, intent[g]) /\ Settled({g})
  BY <1>1, <1>2 DEF Booting, BootPlan
<1> DEFINE row == intent[g]
           lost == WithStatus(row, "LostOnRestart")
           last == Final(g, row)
<1>4. CASE ~Known(g) /\ todo[Boot] = <<CallStore(g, NoRow)>>
  <2>1. Make(Boot, CallStore(g, NoRow), <<>>) BY <1>1, <1>4, Tuples
  <2> QED BY <1>1, <1>2, <1>3, <1>4, <2>1, MakeRow DEF BootCall
<1>5. CASE ~Known(g) /\ todo[Boot] = <<CallStore(g, lost), CallAdmit(g, row), last>>
  <2>1. Make(Boot, CallStore(g, lost), <<CallAdmit(g, row), last>>) BY <1>1, <1>5, Tuples
  <2>2. StoreWrite(Boot, g, lost, <<CallAdmit(g, row), last>>) /\ Calm BY <2>1, MakeRow
  <2> QED BY <1>1, <1>2, <1>3, <1>5, <2>2 DEF BootCall
<1>6. CASE ~Known(g) /\ todo[Boot] = <<CallAdmit(g, row), last>>
  <2>1. Make(Boot, CallAdmit(g, row), <<last>>) BY <1>1, <1>6, Tuples
  <2>2. Admit(Boot, g, row, TRUE, <<last>>) /\ Calm BY <2>1, MakeRow
  <2> QED BY <1>1, <1>2, <1>3, <1>6, <2>2 DEF BootCall
<1>7. CASE /\ mem[g] \in LiveRows /\ mem[g].ask = row.ask /\ ~mem[g].sleep
           /\ todo[Boot] = <<last>>
  <2>1. Make(Boot, last, <<>>) BY <1>1, <1>7, Tuples
  <2>2. CASE row.status = "Sleeping"
    <3>1. last = CallSleep(g) BY <2>2 DEF Final
    <3>2. SetSleeping(Boot, g, <<>>) /\ Calm BY <2>1, <3>1, MakeSleep
    <3> QED BY <1>1, <1>2, <1>3, <1>7, <2>2, <3>2 DEF BootCall
  <2>3. CASE row.status # "Sleeping"
    <3> DEFINE s == IF row.status = "Running" THEN "LostOnRestart" ELSE row.status
    <3>1. last = CallStatus(g, s) BY <2>3 DEF Final
    <3>2. SetStatus(Boot, g, s, <<>>) /\ Calm BY <2>1, <3>1, MakeStatus
    <3> QED BY <1>1, <1>2, <1>3, <1>7, <2>3, <3>2 DEF BootCall
  <2> QED BY <2>2, <2>3
<1> QED BY <1>3, <1>4, <1>5, <1>6, <1>7 DEF Block

-----------------------------------------------------------------------------
(***************************************************************************)
(* The steps, by phase.                                                    *)
(***************************************************************************)
SpawnStep(g) == /\ todo[Disp(g)] = <<CallSpawn(g)>> /\ pend[Disp(g)] = NoWrite
                /\ Then(Disp(g), <<>>) /\ RunGoal(g)
                /\ UNCHANGED <<registry, pend, asking, bounds, boot>>
SleepStep(g) == /\ pend[Loop(g)] = NoWrite /\ todo[Loop(g)] # <<>>
                /\ SetSleeping(Loop(g), g, <<>>) /\ Calm
TimerStep(q) == /\ pend[Timer(q)] = NoWrite
                /\ \E g \in Goals : /\ todo[Timer(q)] = <<CallStatus(g, "Cancelled")>>
                                    /\ SetStatus(Timer(q), g, "Cancelled", <<>>) /\ Calm
ReplyStep == /\ pend[Reply] = NoWrite /\ todo[Reply] # <<>>
             /\ \E g \in Goals : SetStatus(Reply, g, "Running", <<>>) /\ Calm
OpStep == pend[Op] = NoWrite /\ todo[Op] # <<>> /\ OpCall
BootMakesCall == pend[Boot] = NoWrite /\ BootCall

\* The store failed: nothing but the write is lost.
WriteLost(t) == /\ UNCHANGED <<mem, queue, store, lifted, cap, capHigh>>
                /\ pend' = [pend EXCEPT ![t] = NoWrite]
                /\ adrift' = adrift \cup {pend[t].g}
UpFails == PurgeFails \/ \E t \in Tasks \ {Boot} : UpsertFails(t)

UpStep == \/ OpStep \/ ReplyStep \/ UpFails \/ \E g \in Goals : SpawnStep(g) \/ SleepStep(g)
          \/ \E q \in Questions : TimerStep(q)
          \/ \E t \in Tasks \ {Boot} : Upsert(t)
          \/ \E g \in Goals : Dispatch(g) \/ DispatchAudit(g) \/ GoalTask(g)
          \/ ControlTool \/ Questioning
BootStep == \/ BootMakesCall \/ Upsert(Boot) \/ RearmTimers \/ ReattachFails
            \/ \E g \in Goals : Reattach(g)

LEMMA StepCases ==
    ASSUME TypeInv, TaskInv, [Next]_vars
    PROVE  \/ phase = "up" /\ UpStep
           \/ phase = "boot" /\ BootStep
           \/ CrashAndBoot
           \/ UNCHANGED vars
<1> USE DEF TypeInv, TaskInv
<1>1. ASSUME NEW t \in Tasks, NextCall(t)
      PROVE  (phase = "up" /\ UpStep) \/ (phase = "boot" /\ BootStep)
  <2>1. CASE t = Boot BY <1>1, <2>1, BootMakes DEF BootStep, BootMakesCall
  <2>2. CASE t # Boot
    <3>1. ~Idle(t) BY <1>1 DEF NextCall, Idle
    <3>2. phase = "up" BY <2>2, <3>1 DEF Booting, PhaseOK
    <3>3. CASE t = Op BY <1>1, <3>2, <3>3, OpMakes DEF UpStep, OpStep
    <3>4. CASE t = Reply BY <1>1, <3>2, <3>4, ReplyMakes DEF UpStep, ReplyStep
    <3>5. ASSUME NEW g \in Goals, t \in {Disp(g), Loop(g)} PROVE UpStep
      BY <1>1, <3>5, GoalMakes DEF UpStep, SpawnStep, SleepStep
    <3>6. ASSUME NEW q \in Questions, t = Timer(q) PROVE UpStep
      BY <1>1, <3>6, TimerMakes DEF UpStep, TimerStep
    <3> QED BY <2>2, <3>2, <3>3, <3>4, <3>5, <3>6, TaskCases
  <2> QED BY <2>1, <2>2
<1>2. ASSUME NEW t \in Tasks, Upsert(t)
      PROVE  (phase = "up" /\ UpStep) \/ (phase = "boot" /\ BootStep)
  <2>1. ~Idle(t) BY <1>2 DEF Upsert, Idle
  <2>2. CASE t = Boot BY <1>2, <2>1, <2>2 DEF Serving, PhaseOK, BootStep
  <2>3. CASE t # Boot BY <1>2, <2>1, <2>3 DEF Booting, PhaseOK, UpStep
  <2> QED BY <2>2, <2>3
<1>3. ASSUME NEW g \in Goals, Dispatch(g) \/ DispatchAudit(g) PROVE phase = "up" /\ UpStep
  BY <1>3 DEF Dispatch, DispatchAudit, Fresh, UpStep
<1>4. ASSUME NEW g \in Goals, GoalTask(g) PROVE phase = "up" /\ UpStep
  <2>1. loop[g] \in {"top", "turn", "asleep", "closing"}
    BY <1>4 DEF GoalTask, StartTurn, EndTurn, AttemptError, Wake, Complete, At
  <2> QED BY <1>4, <2>1 DEF Booting, PhaseOK, UpStep
<1>5. CASE ControlTool
  <2>1. phase = "up"
    BY <1>5 DEF ControlTool, CancelAgent, PauseAgent, ResumeAgent, AskUserQuestion, Release,
                SetConcurrencyCap, FlushAgentQueue, EvictCompleted, Control
  <2> QED BY <1>5, <2>1 DEF UpStep
<1>6. CASE Questioning
  <2>1. phase = "up"
    BY <1>6 DEF Questioning, TimerCheck, TimerCancel, ReplyFind, ReplyResume, Booting, PhaseOK
  <2> QED BY <1>6, <2>1 DEF UpStep
<1>7. ASSUME NEW g \in Goals, Reattach(g) PROVE phase = "boot" /\ BootStep
  BY <1>7 DEF Reattach, BootStep
<1>8. CASE RearmTimers BY <1>8 DEF RearmTimers, Booted, BootStep
<1>9. CASE ReattachFails BY <1>9 DEF ReattachFails, BootStep
<1>10. ASSUME NEW t \in Tasks, UpsertFails(t) PROVE phase = "up" /\ UpStep
  <2>1. ~Idle(t) /\ t # Boot BY <1>10 DEF UpsertFails, Idle
  <2> QED BY <1>10, <2>1 DEF Booting, PhaseOK, UpStep, UpFails
<1>11. CASE PurgeFails
  <2>1. ~Idle(Op) BY <1>11 DEF PurgeFails, Idle
  <2> QED BY <1>11, <2>1, TaskNames DEF Booting, PhaseOK, UpStep, UpFails
<1> QED BY <1>1, <1>2, <1>3, <1>4, <1>5, <1>6, <1>7, <1>8, <1>9, <1>10, <1>11 DEF Next

-----------------------------------------------------------------------------
(***************************************************************************)
(* What a step does to map, table and counts.                              *)
(***************************************************************************)
Upd(t, g, row) == /\ pend[t] = NoWrite /\ (Known(g) => row \in LiveRows)
                  /\ \E rest : Update(t, g, row, rest)
Unwritten == UNCHANGED <<mem, pend, store, adrift, lifted, cap, capHigh>>

\* Who ends or pauses a goal.
FreshStatus(t, g, row) ==
    \/ row.status \notin Terminal \cup {"Paused"} \/ row.status = mem[g].status
    \/ /\ t = Op /\ \A S \in SUBSET Goals : todo[Op] # <<CallPurge(S)>>
       /\ row.status = "Paused" => sig[g].on
    \/ row.status = "Cancelled" /\ ~NoTimeout(g)
\* Who numbers its question.
FreshAsk(g, row) ==
    \/ row.ask \in {0, mem[g].ask}
    \/ /\ row.ask = asks /\ todo[Op] = <<CallAsk(g, asks), CallArm(g, asks)>>
       /\ asks' = asks /\ todo'[Op] # todo[Op]
    \/ row.ask = asks + 1 /\ asks' = asks + 1
UpUpd(t, g, row) == /\ Upd(t, g, row)
                    /\ Known(g) => FreshStatus(t, g, row) /\ FreshAsk(g, row)

LEMMA KnownIsLive == ASSUME RowsOK, NEW g \in Goals, Known(g) PROVE mem[g] \in LiveRows
BY DEF RowsOK, Rows, Known

LEMMA UpdStatus ==
    ASSUME RowsOK, NEW t, NEW g \in Goals, NEW s \in Status \ {"absent", "Sleeping"}, NEW rest,
           pend[t] = NoWrite, SetStatus(t, g, s, rest)
    PROVE  Upd(t, g, WithStatus(mem[g], s))
BY KnownIsLive, StatusRow DEF Upd, SetStatus

LEMMA UpdAsk ==
    ASSUME RowsOK, NEW t, NEW g \in Goals, NEW q \in 0..MaxAsks, NEW rest,
           pend[t] = NoWrite, SetAskPending(t, g, q, rest)
    PROVE  Upd(t, g, [mem[g] EXCEPT !.ask = q])
BY KnownIsLive, AskRow DEF Upd, SetAskPending

LEMMA UpdSleep ==
    ASSUME RowsOK, NEW t, NEW g \in Goals, NEW rest, pend[t] = NoWrite, SetSleeping(t, g, rest)
    PROVE  Upd(t, g, SleepRow(mem[g]))
BY KnownIsLive, SleepRowIs DEF Upd, SetSleeping, SleepRow

UpWrites == \/ \E t \in Tasks, g \in Goals : \E row : UpUpd(t, g, row)
            \/ \E g \in Goals, enqueue \in BOOLEAN : \E rest :
                  Fresh(g) /\ Admit(Disp(g), g, NewRow, enqueue, rest)
            \/ \E t \in Tasks \ {Boot} : Upsert(t)
            \/ \E S \in SUBSET Goals : todo[Op] = <<CallPurge(S)>> /\ PurgeStore(Op, S, <<>>)
            \/ EvictCompleted
            \/ \E c \in Caps : SetConcurrencyCap(c)
            \/ \E t \in Tasks : WriteLost(t)
            \/ Unwritten

LEMMA NotPurge ==
    ASSUME NEW S
    PROVE  /\ <<>> # <<CallPurge(S)>> /\ <<CallPop>> # <<CallPurge(S)>>
           /\ \A s \in Seq(StatusCalls) : s # <<CallPurge(S)>>
           /\ \A g, q : /\ <<CallPromote(g)>> # <<CallPurge(S)>>
                        /\ <<CallArm(g, q)>> # <<CallPurge(S)>>
                        /\ <<CallAsk(g, q), CallArm(g, q)>> # <<CallPurge(S)>>
<1>1. <<>> # <<CallPurge(S)>> OBVIOUS
<1>2. <<CallPop>> # <<CallPurge(S)>> BY DEF CallPop, CallPurge
<1>3. ASSUME NEW s \in Seq(StatusCalls), s = <<CallPurge(S)>> PROVE FALSE
  <2>1. Head(s) \in StatusCalls /\ Head(s) = CallPurge(S) BY <1>3
  <2> QED BY <2>1 DEF StatusCalls, CallPurge
<1>4. ASSUME NEW g, NEW q
      PROVE  /\ <<CallPromote(g)>> # <<CallPurge(S)>>
             /\ <<CallArm(g, q)>> # <<CallPurge(S)>>
             /\ <<CallAsk(g, q), CallArm(g, q)>> # <<CallPurge(S)>>
  <2>1. CallPromote(g) # CallPurge(S) BY DEF CallPromote, CallPurge
  <2>2. CallArm(g, q) # CallPurge(S) BY DEF CallArm, CallPurge
  <2>3. <<CallAsk(g, q), CallArm(g, q)>> # <<CallPurge(S)>> OBVIOUS
  <2> QED BY <2>1, <2>2, <2>3
<1> QED BY <1>1, <1>2, <1>3, <1>4

LEMMA UpRegistry == ASSUME TypeInv, TaskInv, UpStep PROVE UpWrites
<1>0. /\ RowsOK /\ TimersIdle /\ ReplyIdle /\ AskingOK
      /\ {"Cancelled", "Running", "Paused", "Done"} \subseteq Status \ {"absent", "Sleeping"}
      /\ 0 \in 0..MaxAsks /\ asks \in 0..MaxAsks
  BY RegistryAssumption DEF TypeInv, TaskInv, Status, Terminal, Counted, AskingOK, RegistryAssumption
<1>1. ASSUME NEW t \in Tasks, NEW g \in Goals, NEW s \in {"Cancelled", "Running", "Paused", "Done"},
             NEW rest, pend[t] = NoWrite, SetStatus(t, g, s, rest),
             \/ s = "Running"
             \/ /\ t = Op /\ \A S \in SUBSET Goals : todo[Op] # <<CallPurge(S)>>
                /\ s = "Paused" => sig[g].on
             \/ s = "Cancelled" /\ ~NoTimeout(g)
      PROVE  UpWrites
  <2> DEFINE row == WithStatus(mem[g], s)
  <2>1. Upd(t, g, row) BY <1>0, <1>1, UpdStatus
  <2>2. ASSUME Known(g) PROVE FreshStatus(t, g, row) /\ FreshAsk(g, row)
    <3>1. row.status = s /\ row.ask = mem[g].ask BY <1>0, <2>2, KnownIsLive, StatusRow
    <3> HIDE DEF row
    <3>2. FreshAsk(g, row) BY <3>1 DEF FreshAsk
    <3>3. FreshStatus(t, g, row) BY <1>1, <3>1 DEF FreshStatus, Terminal
    <3> QED BY <3>2, <3>3
  <2> QED BY <2>1, <2>2 DEF UpUpd, UpWrites
<1>2. ASSUME NEW t \in Tasks, NEW g \in Goals, NEW q \in 0..MaxAsks, NEW rest,
             pend[t] = NoWrite, SetAskPending(t, g, q, rest),
             \/ q = 0
             \/ /\ q = asks /\ todo[Op] = <<CallAsk(g, asks), CallArm(g, asks)>>
                /\ asks' = asks /\ todo'[Op] # todo[Op]
             \/ q = asks + 1 /\ asks' = asks + 1
      PROVE  UpWrites
  <2> DEFINE row == [mem[g] EXCEPT !.ask = q]
  <2>1. Upd(t, g, row) BY <1>0, <1>2, UpdAsk
  <2>2. ASSUME Known(g) PROVE FreshStatus(t, g, row) /\ FreshAsk(g, row)
    <3>1. row.status = mem[g].status /\ row.ask = q BY <1>0, <2>2, KnownIsLive, AskRow
    <3> HIDE DEF row
    <3>2. FreshAsk(g, row) BY <1>2, <3>1 DEF FreshAsk
    <3> QED BY <3>1, <3>2 DEF FreshStatus
  <2> QED BY <2>1, <2>2 DEF UpUpd, UpWrites
<1>3. CASE OpStep
  <2>0. pend[Op] = NoWrite /\ Op \in Tasks BY <1>3, TaskNames DEF OpStep
  <2>1. ASSUME NEW g \in Goals, NEW s \in {"Cancelled", "Running"}, NEW rest,
               SetStatus(Op, g, s, rest), todo[Op] \in Seq(StatusCalls)
        PROVE  UpWrites
    BY <1>1, <2>0, <2>1, NotPurge
  <2>2. ASSUME NEW g \in Goals, todo[Op] = <<CallAsk(g, asks), CallArm(g, asks)>>,
               SetAskPending(Op, g, asks, <<CallArm(g, asks)>>), Calm
        PROVE  UpWrites
    <3>1. Then(Op, <<CallArm(g, asks)>>) \/ Then(Op, <<>>) BY <2>2 DEF SetAskPending, Update
    <3>2. todo'[Op] # todo[Op]
      <4>1. DOMAIN todo = Tasks BY DEF TaskInv, Plans
      <4>2. todo'[Op] \in {<<CallArm(g, asks)>>, <<>>} BY <2>0, <3>1, <4>1 DEF Then
      <4> QED BY <2>2, <4>2
    <3>3. asks' = asks BY <2>2 DEF Calm, bounds
    <3> QED BY <1>0, <1>2, <2>0, <2>2, <3>2, <3>3
  <2>3. CASE UNCHANGED <<registry, pend>> BY <2>3 DEF registry, Unwritten, UpWrites
  <2>4. CASE PopNext(Op, <<>>) \/ \E g \in Goals : PromoteQueued(Op, g, <<>>)
    BY <2>4 DEF PopNext, PromoteQueued, Unwritten, UpWrites
  <2>5. CASE \E S \in SUBSET Goals : todo[Op] = <<CallPurge(S)>> /\ PurgeStore(Op, S, <<>>)
    BY <2>5 DEF UpWrites
  <2> QED BY <1>3, <2>1, <2>2, <2>3, <2>4, <2>5 DEF OpStep, OpCall
<1>4. CASE ReplyStep BY <1>1, <1>4, TaskNames DEF ReplyStep
<1>5. ASSUME NEW g \in Goals, SpawnStep(g) \/ SleepStep(g) PROVE UpWrites
  <2>1. CASE SpawnStep(g) BY <2>1 DEF SpawnStep, registry, Unwritten, UpWrites
  <2>2. CASE SleepStep(g)
    <3>1. Upd(Loop(g), g, SleepRow(mem[g])) BY <1>0, <2>2, UpdSleep DEF SleepStep
    <3>2. ASSUME Known(g)
          PROVE  FreshStatus(Loop(g), g, SleepRow(mem[g])) /\ FreshAsk(g, SleepRow(mem[g]))
      BY <1>0, <3>2, KnownIsLive, SleepRowIs DEF FreshStatus, FreshAsk, Terminal
    <3> QED BY <3>1, <3>2, TaskNames DEF UpUpd, UpWrites
  <2> QED BY <1>5, <2>1, <2>2
<1>6. ASSUME NEW q \in Questions, TimerStep(q) PROVE UpWrites
  <2>1. PICK g \in Goals : /\ todo[Timer(q)] = <<CallStatus(g, "Cancelled")>>
                           /\ SetStatus(Timer(q), g, "Cancelled", <<>>)
    BY <1>6 DEF TimerStep
  <2>2. ~NoTimeout(g) BY <2>1 DEF NoTimeout
  <2>3. pend[Timer(q)] = NoWrite BY <1>6 DEF TimerStep
  <2> QED BY <1>1, <2>1, <2>2, <2>3, TaskNames
<1>7. ASSUME NEW g \in Goals, Dispatch(g) \/ DispatchAudit(g) PROVE UpWrites
  <2>1. CASE Dispatch(g) BY <2>1 DEF Dispatch, UpWrites
  <2>2. CASE DispatchAudit(g)
    <3>1. FALSE \in BOOLEAN OBVIOUS
    <3> QED BY <2>2, <3>1 DEF DispatchAudit, UpWrites
  <2> QED BY <1>7, <2>1, <2>2
<1>8. ASSUME NEW g \in Goals, GoalTask(g) PROVE UpWrites
  <2>0. Loop(g) \in Tasks BY TaskNames
  <2>1. CASE StartTurn(g)
    <3>2. CASE ClearSleeping(Loop(g), g, <<>>)
      <4>1. Update(Loop(g), g, AwakeRow(mem[g]), <<>>) BY <3>2 DEF ClearSleeping, AwakeRow
      <4>2. pend[Loop(g)] = NoWrite BY <2>1 DEF StartTurn, At, Idle
      <4>3. Upd(Loop(g), g, AwakeRow(mem[g]))
        BY <1>0, <4>1, <4>2, KnownIsLive, AwakeRowIs DEF Upd
      <4>4. ASSUME Known(g)
            PROVE  FreshStatus(Loop(g), g, AwakeRow(mem[g])) /\ FreshAsk(g, AwakeRow(mem[g]))
        BY <1>0, <4>4, KnownIsLive, AwakeRowIs DEF FreshStatus, FreshAsk, Terminal
      <4> QED BY <2>0, <4>3, <4>4 DEF UpUpd, UpWrites
    <3>3. CASE NoCall BY <3>3 DEF NoCall, registry, Unwritten, UpWrites
    <3> QED BY <2>1, <3>2, <3>3 DEF StartTurn
  <2>2. CASE EndTurn(g)
    <3>2. pend[Loop(g)] = NoWrite BY <2>2 DEF EndTurn, At, Idle
    <3>3. \E rest : Update(Loop(g), g, mem[g], rest) BY <2>2 DEF EndTurn, ApplyAttempt
    <3>4. FreshStatus(Loop(g), g, mem[g]) /\ FreshAsk(g, mem[g]) BY DEF FreshStatus, FreshAsk
    <3> QED BY <1>0, <2>0, <3>2, <3>3, <3>4, KnownIsLive DEF Upd, UpUpd, UpWrites
  <2>3. CASE AttemptError(g) \/ Wake(g) \/ Complete(g)
    BY <2>3 DEF AttemptError, Wake, Complete, NoCall, registry, Unwritten, UpWrites
  <2> QED BY <1>8, <2>1, <2>2, <2>3 DEF GoalTask
<1>9. CASE ControlTool
  <2>1. ASSUME NEW g \in Goals,
               CancelAgent(g) \/ PauseAgent(g) \/ ResumeAgent(g) \/ AskUserQuestion(g) \/ Release(g)
        PROVE  UpWrites
    <3>1. Op \in Tasks /\ pend[Op] = NoWrite /\ todo[Op] = <<>>
      BY <2>1, TaskNames
      DEF CancelAgent, PauseAgent, ResumeAgent, AskUserQuestion, Release, Control, Idle
    <3>0. \A S \in SUBSET Goals : todo[Op] # <<CallPurge(S)>> BY <3>1, NotPurge
    <3>2. CASE CancelAgent(g) BY <1>1, <3>0, <3>1, <3>2 DEF CancelAgent
    <3>3. CASE PauseAgent(g) BY <1>1, <3>0, <3>1, <3>3 DEF PauseAgent
    <3>4. CASE ResumeAgent(g) BY <1>1, <3>1, <3>4 DEF ResumeAgent
    <3>5. CASE AskUserQuestion(g)
      <4>1. asks + 1 \in 0..MaxAsks BY <1>0, <3>5, RegistryAssumption DEF AskUserQuestion, RegistryAssumption
      <4>2. CASE sig[g].on /\ SetStatus(Op, g, "Paused", <<CallAsk(g, asks + 1), CallArm(g, asks + 1)>>)
        BY <1>1, <3>0, <3>1, <4>2
      <4>3. CASE SetAskPending(Op, g, asks + 1, <<CallArm(g, asks + 1)>>)
        <5>1. asks' = asks + 1 BY <3>5 DEF AskUserQuestion
        <5> QED BY <1>2, <3>1, <4>1, <4>3, <5>1
      <4> QED BY <3>5, <4>2, <4>3 DEF AskUserQuestion
    <3>6. CASE Release(g) BY <1>1, <3>0, <3>1, <3>6 DEF Release
    <3> QED BY <2>1, <3>2, <3>3, <3>4, <3>5, <3>6
  <2>2. CASE \E c \in Caps : SetConcurrencyCap(c) BY <2>2 DEF UpWrites
  <2>3. CASE FlushAgentQueue BY <2>3 DEF FlushAgentQueue, Unwritten, UpWrites
  <2>4. CASE EvictCompleted BY <2>4 DEF UpWrites
  <2> QED BY <1>9, <2>1, <2>2, <2>3, <2>4 DEF ControlTool
<1>10. CASE Questioning
  <2>1. ASSUME NEW q \in Questions, TimerCheck(q) PROVE UpWrites
    BY <2>1 DEF TimerCheck, registry, Unwritten, UpWrites
  <2>2. ASSUME NEW q \in Questions, TimerCancel(q) PROVE UpWrites
    <3>1. timer[q].at = "checked" BY <2>2 DEF TimerCancel
    <3>2. pend[Timer(q)] = NoWrite /\ timer[q].g \in Goals /\ Timer(q) \in Tasks
      BY <1>0, <3>1, TaskNames DEF TimersIdle, Idle, AskingOK
    <3> QED BY <1>0, <1>2, <2>2, <3>2 DEF TimerCancel
  <2>3. ASSUME NEW g \in Goals, ReplyFind(g) PROVE UpWrites
    BY <2>3 DEF ReplyFind, registry, Unwritten, UpWrites
  <2>4. CASE ReplyResume
    <3>1. reply.g # NoGoal BY <2>4 DEF ReplyResume
    <3>2. pend[Reply] = NoWrite /\ reply.g \in Goals /\ Reply \in Tasks
      BY <1>0, <3>1, TaskNames DEF ReplyIdle, Idle, AskingOK
    <3>3. CASE SetAskPending(Reply, reply.g, 0, <<CallStatus(reply.g, "Running")>>)
      BY <1>0, <1>2, <3>2, <3>3
    <3>4. CASE NoCall BY <3>4 DEF NoCall, registry, Unwritten, UpWrites
    <3> QED BY <2>4, <3>3, <3>4 DEF ReplyResume
  <2> QED BY <1>10, <2>1, <2>2, <2>3, <2>4 DEF Questioning
<1>11. CASE \E t \in Tasks \ {Boot} : Upsert(t) BY <1>11 DEF UpWrites
<1>12. CASE UpFails
  BY <1>12 DEF UpFails, UpsertFails, PurgeFails, WriteLost, Unwritten, registry, UpWrites
<1> QED BY <1>3, <1>4, <1>5, <1>6, <1>7, <1>8, <1>9, <1>10, <1>11, <1>12 DEF UpStep

BootWrites == \/ \E g \in Goals : \E row : /\ Upd(Boot, g, row) /\ mem[g] \in LiveRows
                                          /\ row.status \in {intent[g].status, "LostOnRestart"}
                                          /\ row.ask = intent[g].ask
              \/ \E g \in Goals : \E rest : /\ pend[Boot] = NoWrite /\ intent[g] \in LiveRows /\ ~Known(g)
                                           /\ Admit(Boot, g, intent[g], TRUE, rest)
              \/ \E g \in Goals, row \in Rows : \E rest :
                    /\ ~Known(g) /\ StoreWrite(Boot, g, row, rest)
                    /\ row = NoRow \/ row.ask = intent[g].ask
                    /\ row.status # "Paused"
              \/ Upsert(Boot) \/ WriteLost(Boot)
              \/ Unwritten

LEMMA BootRegistry ==
    ASSUME TypeInv, TaskInv, phase = "boot", BootStep
    PROVE  BootWrites
<1>0. RowsOK BY DEF TypeInv
<1>1. CASE BootMakesCall
  <2>1. PICK g \in Goals \ walk :
        /\ intent[g] \in LiveRows
        /\ \/ /\ ~Known(g) /\ StoreWrite(Boot, g, NoRow, <<>>)
           \/ /\ ~Known(g) 
              /\ StoreWrite(Boot, g, WithStatus(intent[g], "LostOnRestart"),
                            <<CallAdmit(g, intent[g]), Final(g, intent[g])>>)
           \/ ~Known(g) /\ Admit(Boot, g, intent[g], TRUE, <<Final(g, intent[g])>>)
           \/ /\ mem[g] \in LiveRows /\ mem[g].ask = intent[g].ask /\ ~mem[g].sleep
              /\ IF intent[g].status = "Sleeping" THEN SetSleeping(Boot, g, <<>>)
                 ELSE SetStatus(Boot, g, IF intent[g].status = "Running" THEN "LostOnRestart"
                                         ELSE intent[g].status, <<>>)
    BY <1>1 DEF BootMakesCall, BootCall
  <2>2. pend[Boot] = NoWrite BY <1>1 DEF BootMakesCall
  <2>3. CASE ~Known(g) /\ StoreWrite(Boot, g, NoRow, <<>>)
    <3>1. NoRow \in Rows /\ NoRow.status # "Paused" BY DEF Rows, NoRow
    <3> QED BY <2>3, <3>1 DEF BootWrites
  <2>4. CASE ~Known(g) /\ StoreWrite(Boot, g, WithStatus(intent[g], "LostOnRestart"),
                                     <<CallAdmit(g, intent[g]), Final(g, intent[g])>>)
    <3>1. "LostOnRestart" \in Status \ {"absent", "Sleeping"} BY DEF Status, Terminal
    <3>2. /\ WithStatus(intent[g], "LostOnRestart") \in Rows
          /\ WithStatus(intent[g], "LostOnRestart").status = "LostOnRestart"
          /\ WithStatus(intent[g], "LostOnRestart").ask = intent[g].ask
      BY <2>1, <3>1, StatusRow DEF Rows
    <3> QED BY <2>4, <3>2 DEF BootWrites
  <2>5. CASE ~Known(g) /\ Admit(Boot, g, intent[g], TRUE, <<Final(g, intent[g])>>)
    BY <2>1, <2>2, <2>5 DEF BootWrites
  <2>6. CASE /\ mem[g] \in LiveRows /\ mem[g].ask = intent[g].ask
             /\ intent[g].status = "Sleeping" /\ SetSleeping(Boot, g, <<>>)
    <3>1. Upd(Boot, g, SleepRow(mem[g])) BY <1>0, <2>1, <2>2, <2>6, UpdSleep
    <3>2. SleepRow(mem[g]).status = "Sleeping" /\ SleepRow(mem[g]).ask = mem[g].ask
      BY <2>6, SleepRowIs
    <3> QED BY <2>6, <3>1, <3>2 DEF BootWrites
  <2>7. CASE /\ mem[g] \in LiveRows /\ mem[g].ask = intent[g].ask
             /\ intent[g].status # "Sleeping"
             /\ SetStatus(Boot, g, IF intent[g].status = "Running" THEN "LostOnRestart"
                                   ELSE intent[g].status, <<>>)
    <3> DEFINE s == IF intent[g].status = "Running" THEN "LostOnRestart" ELSE intent[g].status
    <3>1. s \in Status \ {"absent", "Sleeping"} BY <2>1, <2>7 DEF LiveRows, Status, Terminal
    <3> HIDE DEF s
    <3>2. SetStatus(Boot, g, s, <<>>) BY <2>7 DEF s
    <3>3. Upd(Boot, g, WithStatus(mem[g], s)) BY <1>0, <2>1, <2>2, <3>1, <3>2, UpdStatus
    <3>4. WithStatus(mem[g], s).status = s /\ WithStatus(mem[g], s).ask = mem[g].ask
      BY <2>7, <3>1, StatusRow
    <3>5. s \in {intent[g].status, "LostOnRestart"} BY DEF s
    <3> QED BY <2>7, <3>3, <3>4, <3>5 DEF BootWrites
  <2> QED BY <2>1, <2>3, <2>4, <2>5, <2>6, <2>7
<1>2. CASE RearmTimers BY <1>2 DEF RearmTimers, registry, Unwritten, BootWrites
<1>3. CASE \E g \in Goals : Reattach(g) BY <1>3 DEF Reattach, registry, Unwritten, BootWrites
<1>4. CASE Upsert(Boot) BY <1>4 DEF BootWrites
<1>5. CASE ReattachFails BY <1>5 DEF ReattachFails, WriteLost, BootWrites
<1> QED BY <1>1, <1>2, <1>3, <1>4, <1>5 DEF BootStep

-----------------------------------------------------------------------------
(***************************************************************************)
(* What a step does to everything else.                                    *)
(***************************************************************************)
LEMMA UpBoot == ASSUME UpStep PROVE UNCHANGED boot
<1>1. CASE OpStep \/ ReplyStep \/ UpFails \/ (\E g \in Goals : SpawnStep(g) \/ SleepStep(g))
           \/ (\E q \in Questions : TimerStep(q)) \/ (\E t \in Tasks \ {Boot} : Upsert(t))
  BY <1>1 DEF OpStep, OpCall, ReplyStep, SpawnStep, SleepStep, TimerStep, Upsert, Calm, UpFails,
              UpsertFails, PurgeFails
<1>2. CASE \E g \in Goals : Dispatch(g) \/ DispatchAudit(g) \/ GoalTask(g)
  BY <1>2 DEF Dispatch, DispatchAudit, Fresh, GoalTask, StartTurn, EndTurn, AttemptError, Wake,
              Complete, Goes
<1>3. CASE ControlTool
  BY <1>3 DEF ControlTool, CancelAgent, PauseAgent, ResumeAgent, AskUserQuestion, Release,
              SetConcurrencyCap, FlushAgentQueue, EvictCompleted, Control
<1>4. CASE Questioning BY <1>4 DEF Questioning, TimerCheck, TimerCancel, ReplyFind, ReplyResume
<1> QED BY <1>1, <1>2, <1>3, <1>4 DEF UpStep

LEMMA BootFrame ==
    ASSUME BootStep
    PROVE  /\ UNCHANGED <<driver, reply, answered, late, asks>>
           /\ Serve \/ UNCHANGED <<timer, phase, intent>>
           /\ \A t \in Tasks \ {Boot} : todo'[t] = todo[t]
<1>1. CASE BootMakesCall
  <2>1. Calm BY <1>1 DEF BootMakesCall, BootCall
  <2>2. \E rest : Then(Boot, rest)
    <3>1. ASSUME NEW g, NEW row, NEW rest, Update(Boot, g, row, rest) PROVE \E r : Then(Boot, r)
      BY <3>1 DEF Update
    <3> QED BY <1>1, <3>1 DEF BootMakesCall, BootCall, StoreWrite, Admit, SetSleeping, SetStatus
  <2> QED BY <2>1, <2>2 DEF Calm, asking, boot, bounds, Then
<1>2. CASE Upsert(Boot) BY <1>2 DEF Upsert, asking, boot, bounds
<1>3. CASE RearmTimers BY <1>3 DEF RearmTimers, Serve, bounds
<1>4. CASE \E g \in Goals : Reattach(g) BY <1>4 DEF Reattach, asking, bounds, Then
<1>5. CASE ReattachFails BY <1>5 DEF ReattachFails, Serve, Fault, Then
<1> QED BY <1>1, <1>2, <1>3, <1>4, <1>5 DEF BootStep

\* The signals and the loop of a goal.
SigRecs == [on : BOOLEAN, paused : BOOLEAN, cancelled : BOOLEAN]
UpDrives ==
    /\ DriverOK'
    /\ \A g \in Goals : /\ sig'[g].on => sig[g].on \/ loop'[g] # "none"
                        /\ loop'[g] = "none" => loop[g] = "none"
LEMMA SetSignal ==
    ASSUME DriverOK, NEW h \in Goals, NEW b \in BOOLEAN,
           \/ sig' = [sig EXCEPT ![h].paused = b] \/ sig' = [sig EXCEPT ![h].cancelled = b]
           \/ sig' = sig,
           loop' = loop
    PROVE  UpDrives
BY DEF DriverOK, UpDrives

LEMMA UpDriver == ASSUME TypeInv, TaskInv, UpStep PROVE UpDrives
<1>0. DriverOK /\ AskingOK /\ TimersIdle BY DEF TypeInv, TaskInv
<1>1. CASE UNCHANGED driver BY <1>0, <1>1 DEF DriverOK, UpDrives, driver
<1>2. ASSUME NEW g \in Goals, SpawnStep(g) PROVE UpDrives
  <2>1. PICK to \in {"top", "dead"} : /\ loop' = [loop EXCEPT ![g] = to]
                                      /\ sig' = [sig EXCEPT ![g] = FreshSig]
    BY <1>2 DEF SpawnStep, RunGoal
  <2>2. FreshSig \in SigRecs BY DEF FreshSig, SigRecs
  <2> QED BY <1>0, <2>1, <2>2 DEF DriverOK, LoopPlaces, UpDrives, SigRecs
<1>3. ASSUME NEW g \in Goals, GoalTask(g) PROVE UpDrives
  <2>1. PICK to \in {"top", "turn", "asleep", "closing", "done", "dead"} : loop' = [loop EXCEPT ![g] = to]
    BY <1>3 DEF GoalTask, StartTurn, EndTurn, AttemptError, Wake, Complete, Goes
  <2>2. sig' = sig \/ sig' = [sig EXCEPT ![g] = NoSig]
    BY <1>3 DEF GoalTask, StartTurn, EndTurn, AttemptError, Wake, Complete
  <2>3. NoSig \in SigRecs /\ ~NoSig.on BY DEF NoSig, SigRecs
  <2> QED BY <1>0, <2>1, <2>2, <2>3 DEF DriverOK, LoopPlaces, UpDrives, SigRecs
<1>4. CASE ControlTool
  <2>1. loop' = loop
    BY <1>4 DEF ControlTool, CancelAgent, PauseAgent, ResumeAgent, AskUserQuestion, Release,
                SetConcurrencyCap, FlushAgentQueue, EvictCompleted, Control
  <2>2. \/ sig' = sig
        \/ \E g \in Goals, b \in BOOLEAN : \/ sig' = [sig EXCEPT ![g].paused = b]
                                           \/ sig' = [sig EXCEPT ![g].cancelled = b]
    <3>1. ASSUME NEW g \in Goals, CancelAgent(g)
          PROVE  \E b \in BOOLEAN : sig' = [sig EXCEPT ![g].cancelled = b]
      <4>1. sig[g].cancelled \/ sig[g].on \in BOOLEAN BY <1>0 DEF DriverOK
      <4>2. sig' = [sig EXCEPT ![g].cancelled = sig[g].cancelled \/ sig[g].on] BY <3>1 DEF CancelAgent
      <4> QED BY <4>1, <4>2
    <3>2. ASSUME NEW g \in Goals, AskUserQuestion(g)
          PROVE  \E b \in BOOLEAN : sig' = [sig EXCEPT ![g].paused = b]
      <4>1. sig[g].paused \/ sig[g].on \in BOOLEAN BY <1>0 DEF DriverOK
      <4>2. sig' = [sig EXCEPT ![g].paused = sig[g].paused \/ sig[g].on] BY <3>2 DEF AskUserQuestion
      <4> QED BY <4>1, <4>2
    <3>3. ASSUME NEW g \in Goals, PauseAgent(g) \/ ResumeAgent(g)
          PROVE  \E b \in BOOLEAN : sig' = [sig EXCEPT ![g].paused = b]
      BY <3>3 DEF PauseAgent, ResumeAgent
    <3> QED BY <1>4, <3>1, <3>2, <3>3
            DEF ControlTool, Release, SetConcurrencyCap, FlushAgentQueue, EvictCompleted
  <2>3. CASE sig' = sig BY <1>0, <2>1, <2>3 DEF DriverOK, UpDrives
  <2> QED BY <1>0, <2>1, <2>2, <2>3, SetSignal
<1>5. CASE Questioning
  <2>1. ASSUME NEW q \in Questions, TimerCancel(q) PROVE UpDrives
    <3>1. timer[q].g \in Goals BY <1>0, <2>1 DEF TimerCancel, AskingOK
    <3> DEFINE g == timer[q].g
    <3>2. sig[g].cancelled \/ sig[g].on \in BOOLEAN BY <1>0, <3>1 DEF DriverOK
    <3>3. sig' = [sig EXCEPT ![g].cancelled = sig[g].cancelled \/ sig[g].on] /\ loop' = loop
      BY <2>1 DEF TimerCancel
    <3> HIDE DEF g
    <3>4. g \in Goals BY <3>1 DEF g
    <3> QED BY <1>0, <3>2, <3>3, <3>4, SetSignal
  <2>2. CASE ReplyResume
    <3>1. reply.g \in Goals BY <1>0, <2>2 DEF ReplyResume, AskingOK
    <3>2. loop' = loop /\ (sig' = sig \/ sig' = [sig EXCEPT ![reply.g].paused = FALSE])
      BY <2>2 DEF ReplyResume
    <3>3. CASE sig' = sig BY <1>0, <3>2, <3>3 DEF DriverOK, UpDrives
    <3> QED BY <1>0, <3>1, <3>2, <3>3, SetSignal
  <2> QED BY <1>1, <1>5, <2>1, <2>2 DEF Questioning, TimerCheck, ReplyFind
<1>6. CASE OpStep \/ ReplyStep \/ UpFails \/ (\E g \in Goals : SleepStep(g))
           \/ (\E q \in Questions : TimerStep(q)) \/ (\E t \in Tasks \ {Boot} : Upsert(t))
  BY <1>1, <1>6 DEF OpStep, OpCall, ReplyStep, SleepStep, TimerStep, Upsert, Calm, UpFails,
                    UpsertFails, PurgeFails
<1>7. CASE \E g \in Goals : Dispatch(g) \/ DispatchAudit(g)
  BY <1>1, <1>7 DEF Dispatch, DispatchAudit, Fresh
<1> QED BY <1>2, <1>3, <1>4, <1>5, <1>6, <1>7 DEF UpStep

\* The timeouts, the answer being routed and the numbers of the questions.
TimerMoves(q) ==
    \/ timer'[q] = timer[q]
    \/ timer'[q].at = "over" /\ timer[q].at \in {"armed", "checked"}
    \/ /\ timer[q].at = "armed" /\ timer'[q].at = "checked"
       /\ timer'[q].g = timer[q].g /\ timer[q].g \in Goals /\ StillPending(q)
    \/ /\ timer'[q].at = "armed" /\ q = asks
       /\ \E g \in Goals : todo[Op] = <<CallArm(g, asks)>> /\ todo'[Op] = <<>>
UpAsks == /\ AskingOK'
          /\ \A q \in Questions : TimerMoves(q)
          /\ asks' = asks \/ (asks' = asks + 1 /\ \E g \in Goals : AskUserQuestion(g))
          /\ reply' = reply \/ (\E g \in Goals : ReplyFind(g)) \/ ReplyResume

LEMMA TodoIs ==
    ASSUME Plans, NEW t \in Tasks, NEW rest, Then(t, rest)
    PROVE  /\ DOMAIN todo' = Tasks /\ todo'[t] = rest
           /\ \A u \in Tasks : u # t => todo'[u] = todo[u]
BY DEF Plans, Then

LEMMA UpAsking == ASSUME TypeInv, TaskInv, UpStep PROVE UpAsks
<1>0. AskingOK /\ RowsOK /\ TimersIdle /\ Plans BY DEF TypeInv, TaskInv
<1>1. CASE UNCHANGED asking /\ asks' = asks
  BY <1>0, <1>1 DEF AskingOK, UpAsks, TimerMoves, asking
<1>2. CASE OpStep
  <2>1. CASE Calm BY <1>1, <2>1 DEF Calm, bounds
  <2>2. ASSUME NEW g \in Goals, todo[Op] = <<CallArm(g, asks)>>, Then(Op, <<>>),
               timer' = [timer EXCEPT ![asks] = [at |-> "armed", g |-> g]],
               UNCHANGED <<registry, pend, driver, reply, answered, late, bounds, boot>>
        PROVE  UpAsks
    <3>1. todo'[Op] = <<>> BY <1>0, <2>2, TodoIs, TaskNames
    <3>2. AskingOK' BY <1>0, <2>2 DEF AskingOK, bounds
    <3>3. \A q \in Questions : TimerMoves(q) BY <1>0, <2>2, <3>1 DEF AskingOK, TimerMoves
    <3> QED BY <2>2, <3>2, <3>3 DEF UpAsks, bounds
  <2> QED BY <1>2, <2>1, <2>2 DEF OpStep, OpCall
<1>3. CASE ReplyStep \/ UpFails \/ (\E g \in Goals : SpawnStep(g) \/ SleepStep(g))
           \/ (\E q \in Questions : TimerStep(q)) \/ (\E t \in Tasks \ {Boot} : Upsert(t))
  BY <1>1, <1>3 DEF ReplyStep, SpawnStep, SleepStep, TimerStep, Upsert, Calm, bounds, UpFails,
                    UpsertFails, PurgeFails, Fault
<1>4. CASE \E g \in Goals : Dispatch(g) \/ DispatchAudit(g) \/ GoalTask(g)
  BY <1>1, <1>4 DEF Dispatch, DispatchAudit, Fresh, GoalTask, StartTurn, EndTurn, AttemptError, Wake,
              Complete, Goes, bounds
<1>5. CASE ControlTool
  <2>1. UNCHANGED asking
    BY <1>5 DEF ControlTool, CancelAgent, PauseAgent, ResumeAgent, AskUserQuestion, Release,
                SetConcurrencyCap, FlushAgentQueue, EvictCompleted, Control
  <2>2. ASSUME NEW g \in Goals, AskUserQuestion(g) PROVE UpAsks
    <3>1. asks' = asks + 1 /\ asks' \in 0..MaxAsks
      BY <1>0, <2>2, RegistryAssumption DEF AskUserQuestion, AskingOK, RegistryAssumption
    <3> QED BY <1>0, <2>1, <2>2, <3>1 DEF AskingOK, UpAsks, TimerMoves, asking
  <2> QED BY <1>1, <1>5, <2>1, <2>2 DEF ControlTool, CancelAgent, PauseAgent, ResumeAgent, Release,
                SetConcurrencyCap, FlushAgentQueue, EvictCompleted
<1>6. CASE Questioning
  <2>1. ASSUME NEW q \in Questions, TimerCheck(q) PROVE UpAsks
    <3>1. timer[q].at = "armed" /\ timer[q].g \in Goals BY <1>0, <2>1 DEF TimerCheck, AskingOK
    <3>2. UNCHANGED <<reply, asks>> BY <2>1 DEF TimerCheck, bounds
    <3>3. CASE StillPending(q)
      <4>1. timer' = [timer EXCEPT ![q].at = "checked"] BY <2>1, <3>3 DEF TimerCheck
      <4>2. AskingOK' BY <1>0, <3>1, <3>2, <4>1 DEF AskingOK
      <4>3. \A p \in Questions : TimerMoves(p) BY <1>0, <3>1, <3>3, <4>1 DEF AskingOK, TimerMoves
      <4> QED BY <3>2, <4>2, <4>3 DEF UpAsks
    <3>4. CASE ~StillPending(q)
      <4>1. timer' = [timer EXCEPT ![q].at = "over"] BY <2>1, <3>4 DEF TimerCheck
      <4>2. AskingOK' BY <1>0, <3>1, <3>2, <4>1 DEF AskingOK
      <4>3. \A p \in Questions : TimerMoves(p) BY <1>0, <3>1, <4>1 DEF AskingOK, TimerMoves
      <4> QED BY <3>2, <4>2, <4>3 DEF UpAsks
    <3> QED BY <3>3, <3>4
  <2>2. ASSUME NEW q \in Questions, TimerCancel(q) PROVE UpAsks
    <3>1. /\ timer[q].at = "checked" /\ timer' = [timer EXCEPT ![q].at = "over"]
          /\ UNCHANGED <<reply, asks>>
      BY <2>2 DEF TimerCancel, bounds
    <3>2. AskingOK' BY <1>0, <3>1 DEF AskingOK
    <3>3. \A p \in Questions : TimerMoves(p) BY <1>0, <3>1 DEF AskingOK, TimerMoves
    <3> QED BY <3>1, <3>2, <3>3 DEF UpAsks
  <2>3. ASSUME NEW g \in Goals, ReplyFind(g) PROVE UpAsks
    <3>1. /\ reply' = [g |-> g, q |-> mem[g].ask] /\ UNCHANGED <<timer, asks>>
      BY <2>3 DEF ReplyFind, bounds
    <3>2. mem[g].ask \in 0..MaxAsks
      BY <1>0, RegistryAssumption DEF RowsOK, Rows, LiveRows, NoRow, RegistryAssumption
    <3>3. AskingOK' BY <1>0, <3>1, <3>2 DEF AskingOK
    <3> QED BY <2>3, <3>1, <3>3 DEF UpAsks, TimerMoves
  <2>4. CASE ReplyResume
    <3>1. /\ reply' = [g |-> NoGoal, q |-> 0] /\ UNCHANGED <<timer, asks>>
      BY <2>4 DEF ReplyResume, bounds
    <3>2. AskingOK' BY <1>0, <3>1, RegistryAssumption DEF AskingOK, RegistryAssumption
    <3> QED BY <2>4, <3>1, <3>2 DEF UpAsks, TimerMoves
  <2> QED BY <1>6, <2>1, <2>2, <2>3, <2>4 DEF Questioning
<1> QED BY <1>2, <1>3, <1>4, <1>5, <1>6 DEF UpStep

\* The queue.
LEMMA UpQueue == ASSUME TypeInv, UpStep PROVE QueueOK'
<1>0. QueueOK BY DEF TypeInv
<1>1. ASSUME NEW t, NEW g, NEW row, NEW rest, Update(t, g, row, rest) PROVE QueueOK'
  BY <1>0, <1>1 DEF Update, QueueOK
<1>2. CASE UNCHANGED <<registry, pend>> \/ queue' = queue BY <1>0, <1>2 DEF registry, QueueOK
<1>3. CASE OpStep
  <2>1. CASE PopNext(Op, <<>>) BY <1>0, <2>1 DEF PopNext, QueueOK
  <2>2. ASSUME NEW g \in Goals, PromoteQueued(Op, g, <<>>) PROVE QueueOK'
    BY <1>0, <2>2, RetainedIsQueue DEF PromoteQueued, QueueOK
  <2> QED BY <1>1, <1>2, <1>3, <2>1, <2>2
          DEF OpStep, OpCall, PurgeStore, SetStatus, SetAskPending
<1>4. CASE ReplyStep \/ UpFails \/ (\E g \in Goals : SpawnStep(g) \/ SleepStep(g))
           \/ (\E q \in Questions : TimerStep(q)) \/ (\E t \in Tasks \ {Boot} : Upsert(t))
  BY <1>1, <1>2, <1>4 DEF ReplyStep, SpawnStep, SleepStep, TimerStep, Upsert, SetStatus, SetSleeping,
                          UpFails, UpsertFails, PurgeFails
<1>5. ASSUME NEW g \in Goals, Dispatch(g) \/ DispatchAudit(g) PROVE QueueOK'
  <2>1. queue' = queue \/ queue' = Append(queue, g)
    BY <1>5 DEF Dispatch, DispatchAudit, Admit
  <2> QED BY <1>0, <2>1 DEF QueueOK
<1>6. ASSUME NEW g \in Goals, GoalTask(g) PROVE QueueOK'
  BY <1>1, <1>2, <1>6
  DEF GoalTask, StartTurn, EndTurn, AttemptError, Wake, Complete, ApplyAttempt, ClearSleeping, NoCall
<1>7. CASE ControlTool
  <2>1. CASE FlushAgentQueue BY <2>1 DEF FlushAgentQueue, QueueOK
  <2> QED BY <1>1, <1>2, <1>7, <2>1
          DEF ControlTool, CancelAgent, PauseAgent, ResumeAgent, AskUserQuestion, Release,
              SetConcurrencyCap, EvictCompleted, SetStatus, SetAskPending
<1>8. CASE Questioning
  BY <1>1, <1>2, <1>8 DEF Questioning, TimerCheck, TimerCancel, ReplyFind, ReplyResume, SetAskPending, NoCall
<1> QED BY <1>3, <1>4, <1>5, <1>6, <1>7, <1>8 DEF UpStep

-----------------------------------------------------------------------------
(***************************************************************************)
(* Types and the cap.                                                      *)
(***************************************************************************)
LEMMA UpdEffect ==
    ASSUME NEW t, NEW g, NEW row, Upd(t, g, row)
    PROVE  /\ UNCHANGED <<cap, capHigh, store>> /\ pend[t] = NoWrite
           /\ lifted' = IF row.status \notin Counted \/ ~Known(g) THEN lifted \ {g}
                        ELSE IF mem[g].status \in Counted THEN lifted ELSE lifted \cup {g}
           /\ \/ Known(g) /\ row \in LiveRows /\ Write(t, g, row)
              \/ ~Known(g) /\ UNCHANGED <<mem, pend, adrift>>
BY DEF Upd, Update

LEMMA AdmitEffect ==
    ASSUME NEW t, NEW g, NEW row, NEW enqueue, NEW rest, Admit(t, g, row, enqueue, rest)
    PROVE  /\ UNCHANGED <<cap, capHigh, store>> /\ Then(t, rest)
           /\ \/ UNCHANGED <<mem, pend, adrift, lifted>>
              \/ \E s \in {"Running", "Queued"} : /\ Write(t, g, AdmitRow(row, s))
                                                  /\ lifted' = lifted \ {g}
                                                  /\ s = "Running" => ~Full
<1> DEFINE out == AdmitOutcome(enqueue)
           s == IF out = "Admitted" THEN "Running" ELSE "Queued"
<1>1. CASE out = "Rejected" BY <1>1 DEF Admit
<1>2. CASE out # "Rejected"
  <2>1. s \in {"Running", "Queued"} /\ (s = "Running" => ~Full) BY DEF AdmitOutcome
  <2>2. Write(t, g, AdmitRow(row, s)) /\ lifted' = lifted \ {g} BY <1>2 DEF Admit, AdmitRow
  <2>3. UNCHANGED <<cap, capHigh, store>> /\ Then(t, rest) BY DEF Admit
  <2> HIDE DEF s
  <2> QED BY <2>1, <2>2, <2>3
<1> QED BY <1>1, <1>2

LEMMA WriteTypes ==
    ASSUME RowsOK, NEW t \in Tasks, NEW g \in Goals, NEW row \in LiveRows, Write(t, g, row)
    PROVE  mem' \in [Goals -> Rows] /\ pend' \in [Tasks -> Writes]
<1>1. row \in Rows BY DEF Rows
<1>2. [g |-> g, row |-> row] \in Writes BY DEF Writes
<1> QED BY <1>1, <1>2 DEF RowsOK, Write

LEMMA NoRowOK == NoRow \in Rows /\ NoWrite \in Writes
BY DEF Rows, Writes

LEMMA WritesTyped ==
    ASSUME TypeInv, UpWrites \/ BootWrites
    PROVE  /\ mem' \in [Goals -> Rows] /\ store' \in [Goals -> Rows] /\ pend' \in [Tasks -> Writes]
           /\ CapOK'
<1> USE DEF TypeInv
<1>1. ASSUME NEW t \in Tasks, NEW g \in Goals, NEW row, Upd(t, g, row)
      PROVE  /\ mem' \in [Goals -> Rows] /\ store' \in [Goals -> Rows] /\ pend' \in [Tasks -> Writes]
             /\ CapOK'
  <2>1. UNCHANGED <<cap, capHigh, store>> BY <1>1, UpdEffect
  <2>2. CapOK' /\ store' \in [Goals -> Rows] BY <2>1 DEF CapOK, RowsOK
  <2>3. \/ row \in LiveRows /\ Write(t, g, row)
        \/ UNCHANGED <<mem, pend>>
    BY <1>1, UpdEffect
  <2> QED BY <2>2, <2>3, WriteTypes DEF RowsOK
<1>2. ASSUME NEW t \in Tasks, NEW g \in Goals, NEW row \in LiveRows, NEW enqueue, NEW rest,
             Admit(t, g, row, enqueue, rest)
      PROVE  /\ mem' \in [Goals -> Rows] /\ store' \in [Goals -> Rows] /\ pend' \in [Tasks -> Writes]
             /\ CapOK'
  <2>1. UNCHANGED <<cap, capHigh, store>> BY <1>2, AdmitEffect
  <2>2. CapOK' /\ store' \in [Goals -> Rows] BY <2>1 DEF CapOK, RowsOK
  <2>3. CASE UNCHANGED <<mem, pend>> BY <2>2, <2>3 DEF RowsOK
  <2>4. ASSUME NEW s \in {"Running", "Queued"}, Write(t, g, AdmitRow(row, s))
        PROVE  mem' \in [Goals -> Rows] /\ pend' \in [Tasks -> Writes]
    BY <2>4, AdmitRowIs, WriteTypes
  <2> QED BY <1>2, <2>2, <2>3, <2>4, AdmitEffect
<1>3. ASSUME NEW t \in Tasks, Upsert(t)
      PROVE  /\ mem' \in [Goals -> Rows] /\ store' \in [Goals -> Rows] /\ pend' \in [Tasks -> Writes]
             /\ CapOK'
  <2>1. pend[t].g \in Goals /\ pend[t].row \in Rows BY <1>3, WriteIsNot DEF Upsert, RowsOK, Rows
  <2> QED BY <1>3, <2>1, NoRowOK DEF Upsert, RowsOK, CapOK
<1>4. ASSUME NEW S, NEW t, NEW rest, PurgeStore(t, S, rest)
      PROVE  /\ mem' \in [Goals -> Rows] /\ store' \in [Goals -> Rows] /\ pend' \in [Tasks -> Writes]
             /\ CapOK'
  BY <1>4, NoRowOK DEF PurgeStore, RowsOK, CapOK
<1>5. CASE EvictCompleted BY <1>5, NoRowOK DEF EvictCompleted, RowsOK, CapOK
<1>6. ASSUME NEW c \in Caps, SetConcurrencyCap(c)
      PROVE  /\ mem' \in [Goals -> Rows] /\ store' \in [Goals -> Rows] /\ pend' \in [Tasks -> Writes]
             /\ CapOK'
  <2>1. c \in Nat BY RegistryAssumption DEF RegistryAssumption
  <2>2. UNCHANGED <<mem, store, pend>> BY <1>6 DEF SetConcurrencyCap
  <2>3. cap' = c /\ capHigh' = IF c > capHigh THEN c ELSE capHigh BY <1>6 DEF SetConcurrencyCap
  <2>4. CapOK' BY <2>1, <2>3 DEF CapOK
  <2> QED BY <2>2, <2>4 DEF RowsOK
<1>7. CASE Unwritten BY <1>7 DEF Unwritten, RowsOK, CapOK
<1>8. ASSUME NEW t, NEW g \in Goals, NEW row \in Rows, NEW rest, StoreWrite(t, g, row, rest)
      PROVE  /\ mem' \in [Goals -> Rows] /\ store' \in [Goals -> Rows] /\ pend' \in [Tasks -> Writes]
             /\ CapOK'
  BY <1>8 DEF StoreWrite, RowsOK, CapOK
<1>9. ASSUME NEW t, WriteLost(t)
      PROVE  /\ mem' \in [Goals -> Rows] /\ store' \in [Goals -> Rows] /\ pend' \in [Tasks -> Writes]
             /\ CapOK'
  BY <1>9, NoRowOK DEF WriteLost, RowsOK, CapOK
<1>10. CASE UpWrites
  BY <1>1, <1>2, <1>3, <1>4, <1>5, <1>6, <1>7, <1>9, <1>10, TaskNames, NewRowOK DEF UpWrites, UpUpd
<1>11. CASE BootWrites BY <1>1, <1>2, <1>3, <1>7, <1>8, <1>9, <1>11, TaskNames DEF BootWrites
<1> QED BY <1>10, <1>11

LEMMA TypeStep == ASSUME TypeInv, TaskInv, [Next]_vars PROVE TypeInv'
<1>1. CASE phase = "up" /\ UpStep
  <2>1. UNCHANGED <<phase, intent>> BY <1>1, UpBoot DEF boot
  <2>2. UpWrites /\ UpDrives /\ UpAsks /\ QueueOK' BY <1>1, UpRegistry, UpDriver, UpAsking, UpQueue
  <2>3. RowsOK' /\ CapOK' BY <2>1, <2>2, WritesTyped DEF TypeInv, RowsOK
  <2>4. PhaseOK' BY <2>1 DEF TypeInv, PhaseOK
  <2> QED BY <2>2, <2>3, <2>4 DEF TypeInv, UpDrives, UpAsks
<1>2. CASE phase = "boot" /\ BootStep
  <2>1. BootWrites BY <1>2, BootRegistry
  <2>2. Serve \/ UNCHANGED <<timer, phase, intent>> BY <1>2, BootFrame
  <2>3. UNCHANGED <<driver, reply, answered, late, asks>> BY <1>2, BootFrame
  <2>4. intent' \in [Goals -> Rows] /\ PhaseOK'
    BY <2>2, NoRowOK DEF TypeInv, RowsOK, Serve, PhaseOK
  <2>5. RowsOK' /\ CapOK' BY <2>1, <2>4, WritesTyped DEF RowsOK
  <2>6. DriverOK' BY <2>3 DEF TypeInv, DriverOK, driver
  <2>7. AskingOK'
    <3>1. CASE UNCHANGED timer BY <2>3, <3>1 DEF TypeInv, AskingOK
    <3>2. CASE Serve
      <4> DEFINE Waits(q, g) == mem[g].status = "Paused" /\ mem[g].ask = q
                 Who(q) == CHOOSE g \in Goals : Waits(q, g)
      <4>1. timer' = [q \in Questions |-> IF \E g \in Goals : Waits(q, g)
                                          THEN [at |-> "armed", g |-> Who(q)] ELSE timer[q]]
        BY <3>2 DEF Serve
      <4>2. \A q \in Questions : (\E g \in Goals : Waits(q, g)) => Who(q) \in Goals OBVIOUS
      <4> HIDE DEF Waits, Who
      <4> QED BY <2>3, <4>1, <4>2 DEF TypeInv, AskingOK
    <3> QED BY <2>2, <3>1, <3>2
  <2>8. QueueOK'
    <3>0. QueueOK BY DEF TypeInv
    <3>1. ASSUME NEW g \in Goals, queue' = queue \/ queue' = Append(queue, g) PROVE QueueOK'
      BY <3>0, <3>1 DEF QueueOK
    <3>2. CASE queue' = queue BY <3>0, <3>2 DEF QueueOK
    <3>3. CASE BootMakesCall
      BY <3>1, <3>3 DEF BootMakesCall, BootCall, StoreWrite, Admit, SetSleeping, SetStatus, Update
    <3> QED BY <1>2, <3>2, <3>3 DEF BootStep, Upsert, RearmTimers, ReattachFails, Reattach, registry
  <2> QED BY <2>4, <2>5, <2>6, <2>7, <2>8 DEF TypeInv
<1>3. CASE CrashAndBoot
  <2>1. RowsOK' BY <1>3, NoRowOK DEF TypeInv, RowsOK, CrashAndBoot
  <2>2. CapOK' BY <1>3, RegistryAssumption DEF CapOK, CrashAndBoot, RegistryAssumption
  <2>3. DriverOK'
    <3>1. NoSig \in SigRecs BY DEF NoSig, SigRecs
    <3> QED BY <1>3, <3>1 DEF TypeInv, DriverOK, CrashAndBoot, LoopPlaces, SigRecs
  <2>4. AskingOK' BY <1>3, RegistryAssumption DEF TypeInv, AskingOK, CrashAndBoot, RegistryAssumption
  <2>5. QueueOK' /\ PhaseOK' BY <1>3 DEF CrashAndBoot, QueueOK, PhaseOK
  <2> QED BY <2>1, <2>2, <2>3, <2>4, <2>5 DEF TypeInv
<1>4. CASE UNCHANGED vars
  BY <1>4 DEF TypeInv, RowsOK, CapOK, DriverOK, AskingOK, QueueOK, PhaseOK, vars, registry, driver,
              asking, bounds, boot
<1> QED BY <1>1, <1>2, <1>3, <1>4, StepCases

\* The goals that CapHolds counts.
Taken == {g \in Goals : mem[g].status \in Counted} \ lifted

LEMMA Shrinks ==
    ASSUME NEW A, NEW B, IsFiniteSet(B), A \subseteq B
    PROVE  /\ Cardinality(A) \in Nat /\ Cardinality(B) \in Nat
           /\ Cardinality(A) <= Cardinality(B)
BY FS_Subset, FS_CardinalityType

LEMMA Grows ==
    ASSUME NEW A, NEW B, NEW x, IsFiniteSet(B), A \subseteq B \cup {x}
    PROVE  Cardinality(A) \in Nat /\ Cardinality(A) <= Cardinality(B) + 1
<1>1. /\ IsFiniteSet(B \cup {x})
      /\ Cardinality(B \cup {x}) = IF x \in B THEN Cardinality(B) ELSE Cardinality(B) + 1
  BY FS_AddElement
<1>2. Cardinality(A) \in Nat /\ Cardinality(A) <= Cardinality(B \cup {x}) BY <1>1, Shrinks
<1>3. Cardinality(B) \in Nat BY FS_CardinalityType
<1> QED BY <1>1, <1>2, <1>3

LEMMA TakenFinite == IsFiniteSet(Taken) /\ IsFiniteSet({g \in Goals : mem[g].status \in Counted})
<1>1. Taken \subseteq Goals /\ {g \in Goals : mem[g].status \in Counted} \subseteq Goals BY DEF Taken
<1> QED BY <1>1, FS_Subset, RegistryAssumption DEF RegistryAssumption

\* The cap is tested and the row is put under one lock; nothing else adds to the count.
LEMMA CapStep == ASSUME TypeInv, CapHolds, UpWrites \/ BootWrites PROVE CapHolds'
<1>0. /\ RowsOK /\ CapOK /\ IsFiniteSet(Taken) /\ Cardinality(Taken) <= capHigh
      /\ Cardinality(Taken) \in Nat
  BY TakenFinite, FS_CardinalityType DEF TypeInv, CapHolds, Taken
<1>1. ASSUME Taken' \subseteq Taken, capHigh' \in Nat, capHigh' >= capHigh PROVE CapHolds'
  <2>1. Cardinality(Taken') \in Nat /\ Cardinality(Taken') <= Cardinality(Taken) BY <1>0, <1>1, Shrinks
  <2>2. Cardinality(Taken') <= capHigh' BY <1>0, <1>1, <2>1 DEF CapOK
  <2> QED BY <2>2 DEF CapHolds, Taken
<1>2. ASSUME Taken' \subseteq Taken, capHigh' = capHigh PROVE CapHolds'
  BY <1>0, <1>1, <1>2 DEF CapOK
<1>3. ASSUME NEW t \in Tasks, NEW g \in Goals, NEW row, Upd(t, g, row) PROVE CapHolds'
  <2>1. /\ lifted' = IF row.status \notin Counted \/ ~Known(g) THEN lifted \ {g}
                     ELSE IF mem[g].status \in Counted THEN lifted ELSE lifted \cup {g}
        /\ capHigh' = capHigh
    BY <1>3, UpdEffect
  <2>2. CASE Known(g) /\ Write(t, g, row)
    <3>1. mem' = [mem EXCEPT ![g] = row] BY <2>2 DEF Write
    <3>2. Taken' \subseteq Taken BY <1>0, <2>1, <2>2, <3>1 DEF Taken, RowsOK
    <3> QED BY <1>2, <2>1, <3>2
  <2>3. CASE ~Known(g) /\ UNCHANGED mem
    <3>1. mem[g].status \notin Counted BY <2>3 DEF Known, NoRow, Counted
    <3>2. Taken' \subseteq Taken BY <2>1, <2>3, <3>1 DEF Taken
    <3> QED BY <1>2, <2>1, <3>2
  <2> QED BY <1>3, <2>2, <2>3, UpdEffect
<1>4. ASSUME NEW t \in Tasks, NEW g \in Goals, NEW row \in LiveRows, NEW enqueue, NEW rest,
             Admit(t, g, row, enqueue, rest)
      PROVE  CapHolds'
  <2>1. capHigh' = capHigh BY <1>4, AdmitEffect
  <2>2. CASE UNCHANGED <<mem, lifted>>
    <3>1. Taken' \subseteq Taken BY <2>2 DEF Taken
    <3> QED BY <1>2, <2>1, <3>1
  <2>3. ASSUME NEW s \in {"Running", "Queued"}, Write(t, g, AdmitRow(row, s)),
               lifted' = lifted \ {g}, s = "Running" => ~Full
        PROVE  CapHolds'
    <3>1. mem' = [mem EXCEPT ![g] = AdmitRow(row, s)] /\ AdmitRow(row, s).status = s
      BY <2>3, AdmitRowIs DEF Write
    <3>2. CASE s = "Queued"
      <4>1. Taken' \subseteq Taken BY <1>0, <2>3, <3>1, <3>2 DEF Taken, RowsOK, Counted
      <4> QED BY <1>2, <2>1, <4>1
    <3>3. CASE s = "Running"
      <4> DEFINE B == {h \in Goals : mem[h].status \in Counted}
      <4>1. Taken' \subseteq B \cup {g} BY <1>0, <2>3, <3>1 DEF Taken, RowsOK
      <4>2. IsFiniteSet(B) /\ Cardinality(B) = CountRunning BY TakenFinite DEF CountRunning
      <4> HIDE DEF B
      <4>3. Cardinality(Taken') \in Nat /\ Cardinality(Taken') <= CountRunning + 1 BY <4>1, <4>2, Grows
      <4>4. CountRunning \in Nat BY <4>2, FS_CardinalityType
      <4>5. ~(CountRunning >= cap) BY <2>3, <3>3 DEF Full
      <4>6. Cardinality(Taken') <= capHigh' BY <1>0, <2>1, <4>3, <4>4, <4>5 DEF CapOK
      <4> QED BY <4>6 DEF CapHolds, Taken
    <3> QED BY <3>2, <3>3
  <2> QED BY <1>4, <2>2, <2>3, AdmitEffect
<1>5. CASE UNCHANGED <<mem, lifted, capHigh>>
  <2>1. Taken' \subseteq Taken BY <1>5 DEF Taken
  <2> QED BY <1>2, <1>5, <2>1
<1>6. CASE EvictCompleted
  <2>1. Taken' \subseteq Taken BY <1>6 DEF EvictCompleted, Taken, NoRow, Counted
  <2> QED BY <1>2, <1>6, <2>1 DEF EvictCompleted
<1>7. ASSUME NEW c \in Caps, SetConcurrencyCap(c) PROVE CapHolds'
  <2>1. c \in Nat BY RegistryAssumption DEF RegistryAssumption
  <2>2. Taken' \subseteq Taken BY <1>7 DEF SetConcurrencyCap, Taken
  <2>3. capHigh' = IF c > capHigh THEN c ELSE capHigh BY <1>7 DEF SetConcurrencyCap
  <2>4. capHigh' \in Nat /\ capHigh' >= capHigh BY <1>0, <2>1, <2>3 DEF CapOK
  <2> QED BY <1>1, <2>2, <2>4
<1>8. CASE UpWrites
  BY <1>3, <1>4, <1>5, <1>6, <1>7, <1>8, TaskNames, NewRowOK
  DEF UpWrites, UpUpd, Upsert, WriteLost, PurgeStore, Unwritten
<1>9. CASE BootWrites
  BY <1>3, <1>4, <1>5, <1>9, TaskNames DEF BootWrites, Upsert, WriteLost, StoreWrite, Unwritten
<1> QED BY <1>8, <1>9

-----------------------------------------------------------------------------
(***************************************************************************)
(* What a step does to the tasks.                                          *)
(***************************************************************************)
OpLegal(r, n) ==
    \/ r \in Seq(StatusCalls)
    \/ \E g \in Goals : \/ r = <<CallAsk(g, n), CallArm(g, n)>>
                        \/ r = <<CallArm(g, n)>> \/ r = <<CallPromote(g)>>
    \/ r = <<CallPop>>
    \/ \E S \in SUBSET Goals : r = <<CallPurge(S)>>
Legal(t, r, n) ==
    /\ t = Op => OpLegal(r, n)
    /\ \A g \in Goals : /\ t = Disp(g) => r \in {<<>>, <<CallSpawn(g)>>}
                        /\ t = Loop(g) => r \in {<<>>, <<CallSleep(g)>>}
    /\ \A q \in Questions :
          t = Timer(q) => r = <<>> \/ \E g \in Goals : r = <<CallStatus(g, "Cancelled")>>
    /\ t = Reply => r = <<>> \/ \E g \in Goals : r = <<CallStatus(g, "Running")>>

LEMMA PlansLegal == ASSUME Plans, NEW t \in Tasks PROVE Legal(t, todo[t], asks)
BY DEF Plans, OpPlan, Legal, OpLegal
LEMMA LegalPlans ==
    ASSUME DOMAIN todo' = Tasks, \A t \in Tasks : Legal(t, todo'[t], asks')
    PROVE  Plans'
<1>1. Legal(Op, todo'[Op], asks') /\ Legal(Reply, todo'[Reply], asks') BY TaskNames
<1>2. OpPlan' BY <1>1 DEF OpPlan, Legal, OpLegal
<1>3. \A g \in Goals : /\ todo'[Disp(g)] \in {<<>>, <<CallSpawn(g)>>}
                       /\ todo'[Loop(g)] \in {<<>>, <<CallSleep(g)>>}
  BY TaskNames DEF Legal
<1>4. \A q \in Questions : \/ todo'[Timer(q)] = <<>>
                           \/ \E g \in Goals : todo'[Timer(q)] = <<CallStatus(g, "Cancelled")>>
  BY TaskNames DEF Legal
<1>5. \/ todo'[Reply] = <<>> \/ \E g \in Goals : todo'[Reply] = <<CallStatus(g, "Running")>>
  BY <1>1 DEF Legal
<1> QED BY <1>2, <1>3, <1>4, <1>5 DEF Plans

LEMMA EmptyLegal == ASSUME NEW t, NEW n PROVE Legal(t, <<>>, n)
BY DEF Legal, OpLegal

LEMMA NotAsk ==
    ASSUME NEW g, NEW q
    PROVE  /\ \A s \in Seq(StatusCalls) : s # <<CallArm(g, q)>> /\ s # <<CallAsk(g, q), CallArm(g, q)>>
           /\ \A s \in {<<CallPop>>} : s # <<CallArm(g, q)>> /\ s # <<CallAsk(g, q), CallArm(g, q)>>
           /\ \A h : /\ <<CallPromote(h)>> # <<CallArm(g, q)>>
                     /\ <<CallPromote(h)>> # <<CallAsk(g, q), CallArm(g, q)>>
                     /\ <<CallPurge(h)>> # <<CallArm(g, q)>>
                     /\ <<CallPurge(h)>> # <<CallAsk(g, q), CallArm(g, q)>>
<1>1. ASSUME NEW s \in Seq(StatusCalls),
             s = <<CallArm(g, q)>> \/ s = <<CallAsk(g, q), CallArm(g, q)>>
      PROVE  FALSE
  <2>1. Head(s) \in StatusCalls /\ Head(s) \in {CallArm(g, q), CallAsk(g, q)} BY <1>1
  <2> QED BY <2>1 DEF StatusCalls, CallArm, CallAsk
<1>2. CallPop # CallArm(g, q) BY DEF CallPop, CallArm
<1>3. ASSUME NEW h PROVE CallPromote(h) # CallArm(g, q) /\ CallPurge(h) # CallArm(g, q)
  <2>1. CallPromote(h) # CallArm(g, q) BY DEF CallPromote, CallArm
  <2>2. CallPurge(h) # CallArm(g, q) BY DEF CallPurge, CallArm
  <2> QED BY <2>1, <2>2
<1>4. \A h : /\ <<h>> # <<CallAsk(g, q), CallArm(g, q)>>
             /\ h # CallArm(g, q) => <<h>> # <<CallArm(g, q)>> OBVIOUS
<1> QED BY <1>1, <1>2, <1>3, <1>4

\* How the operator's task gets to its next calls.
OpNext(r) ==
    /\ \A g \in Goals : \/ r = <<CallAsk(g, asks'), CallArm(g, asks')>>
                        \/ r = <<CallArm(g, asks')>>
                        => \/ AskUserQuestion(g)
                           \/ /\ asks' = asks /\ timer' = timer /\ r = <<CallArm(g, asks)>>
                              /\ todo[Op] = <<CallAsk(g, asks), CallArm(g, asks)>>
    /\ \A S \in SUBSET Goals : r = <<CallPurge(S)>> => EvictCompleted

LEMMA OpNextPlain ==
    ASSUME NEW r, r \in Seq(StatusCalls) \/ r = <<CallPop>> \/ \E g \in Goals : r = <<CallPromote(g)>>
    PROVE  OpNext(r) /\ Legal(Op, r, asks')
<1>1. \A g \in Goals : r # <<CallAsk(g, asks'), CallArm(g, asks')>> /\ r # <<CallArm(g, asks')>>
  BY NotAsk
<1>2. \A S \in SUBSET Goals : r # <<CallPurge(S)>> BY NotPurge
<1> QED BY <1>1, <1>2, TaskNames DEF OpNext, Legal, OpLegal

TaskNext(t, r) ==
    /\ t = Op => OpNext(r)
    /\ \A q \in Questions : t = Timer(q) =>
          \/ ~Idle(t) /\ r = <<>> /\ timer' = timer
          \/ /\ timer[q].at = "checked" /\ timer'[q].at = "over"
             /\ r = <<CallStatus(timer[q].g, "Cancelled")>>
    /\ t = Reply => ~Idle(t) \/ ReplyResume
TaskMove(t, r) == /\ Then(t, r) /\ Legal(t, r, asks') /\ TaskNext(t, r)
                  /\ pend' = pend \/ \E w : pend' = [pend EXCEPT ![t] = w]
                  /\ asks' = asks \/ t = Op
UpMove == \/ /\ todo' = todo /\ asks' = asks
             /\ pend' = pend \/ \E t \in Tasks \ {Boot} : Upsert(t) \/ UpsertFails(t)
          \/ \E t \in Tasks \ {Boot} : \E r : TaskMove(t, r)

LEMMA UpdMove ==
    ASSUME NEW t, NEW g, NEW row, NEW rest, Update(t, g, row, rest)
    PROVE  /\ Then(t, rest) \/ (Then(t, <<>>) /\ ~Ignores(t))
           /\ pend' = pend \/ \E w : pend' = [pend EXCEPT ![t] = w]
BY DEF Update, Write

LEMMA Ignoring == /\ ~Ignores(Op) /\ ~Ignores(Boot) /\ Ignores(Reply)
                  /\ \A g : Ignores(Loop(g)) /\ \A q : Ignores(Timer(q))
BY DEF Ignores, Op, Boot, Reply, Loop, Timer

LEMMA OpMoves ==
    ASSUME NEW r, r \in Seq(StatusCalls) \/ r = <<CallPop>> \/ (\E g \in Goals : r = <<CallPromote(g)>>),
           Then(Op, r), pend' = pend \/ \E w : pend' = [pend EXCEPT ![Op] = w]
    PROVE  UpMove
<1>1. OpNext(r) /\ Legal(Op, r, asks') BY OpNextPlain
<1>2. TaskNext(Op, r) BY <1>1, TaskNames DEF TaskNext
<1> QED BY <1>1, <1>2, TaskNames DEF UpMove, TaskMove

LEMMA OpUpdates ==
    ASSUME NEW g, NEW row, NEW r, r \in Seq(StatusCalls) \/ r = <<CallPop>>, Update(Op, g, row, r)
    PROVE  UpMove
<1>1. <<>> \in Seq(StatusCalls) OBVIOUS
<1> QED BY <1>1, UpdMove, OpMoves

\* A task that is neither the operator's nor a timeout's nor an answer's.
LEMMA GoalMove ==
    ASSUME NEW g \in Goals, NEW t \in {Disp(g), Loop(g)}, NEW r,
           Then(t, r), Legal(t, r, asks'), pend' = pend \/ (\E w : pend' = [pend EXCEPT ![t] = w]),
           asks' = asks
    PROVE  UpMove
<1>1. t \in Tasks \ {Boot} /\ t # Op /\ t # Reply /\ \A q \in Questions : t # Timer(q) BY TaskNames
<1>2. TaskNext(t, r) BY <1>1 DEF TaskNext
<1> QED BY <1>1, <1>2 DEF UpMove, TaskMove

LEMMA UpMoves == ASSUME TypeInv, TaskInv, UpStep PROVE UpMove
<1>0. /\ Plans /\ AskingOK /\ TimersIdle /\ ReplyIdle /\ QueueOK BY DEF TypeInv, TaskInv
<1>1. CASE UNCHANGED <<todo, pend, asks>> BY <1>1 DEF UpMove
<1>2. CASE OpStep
  <2>1. ASSUME NEW g \in Goals, NEW s, NEW rest \in Seq(StatusCalls), SetStatus(Op, g, s, rest)
        PROVE  UpMove
    BY <2>1, OpUpdates DEF SetStatus
  <2>2. ASSUME NEW g \in Goals, todo[Op] = <<CallAsk(g, asks), CallArm(g, asks)>>, Calm,
               SetAskPending(Op, g, asks, <<CallArm(g, asks)>>)
        PROVE  UpMove
    <3> DEFINE r == <<CallArm(g, asks)>>
    <3>1. asks' = asks /\ timer' = timer BY <2>2 DEF Calm, bounds, asking
    <3>2. \A h \in Goals : r = <<CallArm(h, asks')>> => h = g BY <3>1 DEF CallArm
    <3>3. \A S \in SUBSET Goals : r # <<CallPurge(S)>> BY NotPurge
    <3>4. \A h \in Goals : r # <<CallAsk(h, asks'), CallArm(h, asks')>> OBVIOUS
    <3>5. OpNext(r) BY <2>2, <3>1, <3>2, <3>3, <3>4 DEF OpNext
    <3>6. Legal(Op, r, asks') BY <3>1, TaskNames DEF Legal, OpLegal
    <3>7. TaskNext(Op, r) BY <3>5, TaskNames DEF TaskNext
    <3>8. Then(Op, r) \/ Then(Op, <<>>) BY <2>2, UpdMove DEF SetAskPending
    <3>9. pend' = pend \/ \E w : pend' = [pend EXCEPT ![Op] = w] BY <2>2, UpdMove DEF SetAskPending
    <3>10. <<>> \in Seq(StatusCalls) OBVIOUS
    <3> HIDE DEF r
    <3>11. CASE Then(Op, r) BY <3>6, <3>7, <3>9, <3>11, TaskNames DEF UpMove, TaskMove
    <3>12. CASE Then(Op, <<>>) BY <3>9, <3>10, <3>12, OpMoves
    <3> QED BY <3>8, <3>11, <3>12
  <2>3. ASSUME Then(Op, <<>>), pend' = pend PROVE UpMove
    <3>1. <<>> \in Seq(StatusCalls) OBVIOUS
    <3> QED BY <2>3, <3>1, OpMoves
  <2>4. ASSUME NEW g \in Goals, PromoteQueued(Op, g, <<>>) PROVE UpMove
    <3>1. CallStatus(g, "Running") \in StatusCalls BY DEF CallStatus, StatusCalls
    <3>2. <<CallStatus(g, "Running")>> \in Seq(StatusCalls) BY <3>1
    <3>3. pend' = pend /\ (Then(Op, <<CallStatus(g, "Running")>>) \/ Then(Op, <<>>))
      BY <2>4, Tuples DEF PromoteQueued
    <3> QED BY <2>3, <3>2, <3>3, OpMoves
  <2>5. CASE PopNext(Op, <<>>)
    <3>1. pend' = pend BY <2>5 DEF PopNext
    <3>2. CASE queue = <<>> BY <2>3, <2>5, <3>1, <3>2 DEF PopNext
    <3>3. CASE queue # <<>>
      <4>1. Head(queue) \in Goals BY <1>0, <3>3 DEF QueueOK
      <4>2. Then(Op, <<CallPromote(Head(queue))>>) BY <2>5, <3>3, Tuples DEF PopNext
      <4> QED BY <3>1, <4>1, <4>2, OpMoves
    <3> QED BY <3>2, <3>3
  <2>6. ASSUME NEW S, PurgeStore(Op, S, <<>>) PROVE UpMove BY <2>3, <2>6 DEF PurgeStore
  <2> QED BY <1>2, <2>1, <2>2, <2>3, <2>4, <2>5, <2>6 DEF OpStep, OpCall
<1>3. CASE ReplyStep
  <2>1. PICK g \in Goals : SetStatus(Reply, g, "Running", <<>>) /\ Calm BY <1>3 DEF ReplyStep
  <2>2. Then(Reply, <<>>) /\ (pend' = pend \/ \E w : pend' = [pend EXCEPT ![Reply] = w])
    BY <2>1, UpdMove DEF SetStatus
  <2>3. ~Idle(Reply) BY <1>3 DEF ReplyStep, Idle
  <2>4. TaskNext(Reply, <<>>) BY <2>3, TaskNames DEF TaskNext
  <2>5. asks' = asks BY <2>1 DEF Calm, bounds
  <2> QED BY <2>2, <2>4, <2>5, EmptyLegal, TaskNames DEF UpMove, TaskMove
<1>4. ASSUME NEW g \in Goals, SpawnStep(g) \/ SleepStep(g) PROVE UpMove
  <2>1. CASE SpawnStep(g) BY <2>1, GoalMove, EmptyLegal DEF SpawnStep, bounds
  <2>2. CASE SleepStep(g)
    <3>1. Then(Loop(g), <<>>) /\ (pend' = pend \/ \E w : pend' = [pend EXCEPT ![Loop(g)] = w])
      BY <2>2, UpdMove DEF SleepStep, SetSleeping
    <3>2. asks' = asks BY <2>2 DEF SleepStep, Calm, bounds
    <3> QED BY <3>1, <3>2, GoalMove, EmptyLegal
  <2> QED BY <1>4, <2>1, <2>2
<1>5. ASSUME NEW q \in Questions, TimerStep(q) PROVE UpMove
  <2>1. PICK g \in Goals : /\ todo[Timer(q)] = <<CallStatus(g, "Cancelled")>>
                           /\ SetStatus(Timer(q), g, "Cancelled", <<>>) /\ Calm
    BY <1>5 DEF TimerStep
  <2>2. Then(Timer(q), <<>>) /\ (pend' = pend \/ \E w : pend' = [pend EXCEPT ![Timer(q)] = w])
    BY <2>1, UpdMove DEF SetStatus
  <2>3. ~Idle(Timer(q)) BY <2>1, Tuples DEF Idle
  <2>4. asks' = asks /\ timer' = timer BY <2>1 DEF Calm, bounds, asking
  <2>5. TaskNext(Timer(q), <<>>) BY <2>3, <2>4, TaskNames DEF TaskNext
  <2> QED BY <2>2, <2>4, <2>5, EmptyLegal, TaskNames DEF UpMove, TaskMove
<1>6. CASE \E t \in Tasks \ {Boot} : Upsert(t) BY <1>6 DEF UpMove, Upsert, bounds
<1>11. CASE UpFails
  <2>1. CASE PurgeFails
    <3>1. <<>> \in Seq(StatusCalls) OBVIOUS
    <3>2. Then(Op, <<>>) /\ pend' = pend BY <2>1 DEF PurgeFails
    <3> QED BY <3>1, <3>2, OpMoves
  <2>2. ASSUME NEW t \in Tasks \ {Boot}, UpsertFails(t) PROVE UpMove
    <3>1. asks' = asks /\ timer' = timer BY <2>2 DEF UpsertFails, Fault, asking
    <3>2. CASE todo' = todo BY <2>2, <3>1, <3>2 DEF UpMove
    <3>3. CASE Then(t, <<>>)
      <4>1. ~Idle(t) /\ pend' = [pend EXCEPT ![t] = NoWrite] BY <2>2 DEF UpsertFails, Idle
      <4>2. <<>> \in Seq(StatusCalls) OBVIOUS
      <4>3. OpNext(<<>>) BY <4>2, OpNextPlain
      <4>4. TaskNext(t, <<>>) BY <3>1, <4>1, <4>3 DEF TaskNext
      <4> QED BY <3>1, <3>3, <4>1, <4>4, EmptyLegal DEF UpMove, TaskMove
    <3> QED BY <2>2, <3>2, <3>3 DEF UpsertFails
  <2> QED BY <1>11, <2>1, <2>2 DEF UpFails
<1>7. ASSUME NEW g \in Goals, Dispatch(g) \/ DispatchAudit(g) PROVE UpMove
  <2>1. asks' = asks BY <1>7 DEF Dispatch, DispatchAudit, Fresh
  <2>2. ASSUME NEW enqueue, NEW rest, Admit(Disp(g), g, NewRow, enqueue, rest)
        PROVE  Then(Disp(g), rest) /\ (pend' = pend \/ \E w : pend' = [pend EXCEPT ![Disp(g)] = w])
    BY <2>2, AdmitEffect DEF Write
  <2>3. Legal(Disp(g), <<CallSpawn(g)>>, asks') BY TaskNames DEF Legal
  <2>4. \E rest \in {<<>>, <<CallSpawn(g)>>} :
           Then(Disp(g), rest) /\ (pend' = pend \/ \E w : pend' = [pend EXCEPT ![Disp(g)] = w])
    <3>1. CASE DispatchAudit(g) BY <2>2, <3>1 DEF DispatchAudit
    <3>2. CASE Dispatch(g)
      <4>1. PICK enqueue \in BOOLEAN :
               Admit(Disp(g), g, NewRow, enqueue,
                     IF AdmitOutcome(enqueue) = "Admitted" THEN <<CallSpawn(g)>> ELSE <<>>)
        BY <3>2 DEF Dispatch
      <4> DEFINE rest == IF AdmitOutcome(enqueue) = "Admitted" THEN <<CallSpawn(g)>> ELSE <<>>
      <4>2. rest \in {<<>>, <<CallSpawn(g)>>} OBVIOUS
      <4> HIDE DEF rest
      <4>3. Admit(Disp(g), g, NewRow, enqueue, rest) BY <4>1 DEF rest
      <4> QED BY <2>2, <4>2, <4>3
    <3> QED BY <1>7, <3>1, <3>2
  <2> QED BY <2>1, <2>3, <2>4, GoalMove, EmptyLegal
<1>8. ASSUME NEW g \in Goals, GoalTask(g) PROVE UpMove
  <2>1. asks' = asks
    BY <1>8 DEF GoalTask, StartTurn, EndTurn, AttemptError, Wake, Complete, Goes, bounds
  <2>2. CASE NoCall BY <1>1, <2>1, <2>2 DEF NoCall
  <2>3. ASSUME NEW row, NEW rest \in {<<>>, <<CallSleep(g)>>}, Update(Loop(g), g, row, rest)
        PROVE  UpMove
    <3>1. Then(Loop(g), rest) /\ (pend' = pend \/ \E w : pend' = [pend EXCEPT ![Loop(g)] = w])
      BY <2>3, UpdMove, Ignoring
    <3>2. Legal(Loop(g), rest, asks') BY TaskNames DEF Legal
    <3> QED BY <2>1, <3>1, <3>2, GoalMove
  <2>4. CASE StartTurn(g)
    <3>1. CASE ClearSleeping(Loop(g), g, <<>>) BY <2>3, <3>1 DEF ClearSleeping
    <3> QED BY <2>2, <2>4, <3>1 DEF StartTurn
  <2>5. CASE EndTurn(g) BY <2>3, <2>5 DEF EndTurn, ApplyAttempt
  <2> QED BY <1>8, <2>2, <2>4, <2>5 DEF GoalTask, AttemptError, Wake, Complete
<1>9. CASE ControlTool
  <2>0. ASSUME NEW g, NEW s, NEW r, r \in {<<>>, <<CallPop>>}, SetStatus(Op, g, s, r) PROVE UpMove
    <3>1. <<>> \in Seq(StatusCalls) OBVIOUS
    <3> QED BY <2>0, <3>1, OpUpdates DEF SetStatus
  <2>1. ASSUME NEW g \in Goals, CancelAgent(g) \/ PauseAgent(g) \/ ResumeAgent(g) \/ Release(g)
        PROVE  UpMove
    BY <2>0, <2>1 DEF CancelAgent, PauseAgent, ResumeAgent, Release
  <2>2. ASSUME NEW g \in Goals, AskUserQuestion(g) PROVE UpMove
    <3>1. PICK row, r : /\ Update(Op, g, row, r)
                        /\ \/ r = <<CallAsk(g, asks'), CallArm(g, asks')>>
                           \/ r = <<CallArm(g, asks')>>
      BY <2>2 DEF AskUserQuestion, SetStatus, SetAskPending
    <3>2. \A h \in Goals : r \in {<<CallAsk(h, asks'), CallArm(h, asks')>>, <<CallArm(h, asks')>>} => h = g
      BY <3>1 DEF CallArm, CallAsk
    <3>3. \A S \in SUBSET Goals : r # <<CallPurge(S)>> BY <3>1, NotPurge
    <3>4. TaskNext(Op, r) BY <2>2, <3>2, <3>3, TaskNames DEF TaskNext, OpNext
    <3>5. Legal(Op, r, asks') BY <3>1, TaskNames DEF Legal, OpLegal
    <3>6. Then(Op, r) \/ Then(Op, <<>>) BY <3>1, UpdMove
    <3>7. pend' = pend \/ \E w : pend' = [pend EXCEPT ![Op] = w] BY <3>1, UpdMove
    <3>8. CASE Then(Op, r) BY <3>4, <3>5, <3>7, <3>8, TaskNames DEF UpMove, TaskMove
    <3>9. CASE Then(Op, <<>>)
      <4>1. <<>> \in Seq(StatusCalls) OBVIOUS
      <4> QED BY <3>7, <3>9, <4>1, OpMoves
    <3> QED BY <3>6, <3>8, <3>9
  <2>3. CASE \E c \in Caps : SetConcurrencyCap(c) BY <1>1, <2>3 DEF SetConcurrencyCap
  <2>4. CASE FlushAgentQueue
    <3> DEFINE r == [i \in DOMAIN queue |-> CallStatus(queue[i], "Cancelled")]
    <3>1. Then(Op, r) /\ pend' = pend BY <2>4 DEF FlushAgentQueue
    <3>2. \A g \in Goals : CallStatus(g, "Cancelled") \in StatusCalls BY DEF CallStatus, StatusCalls
    <3>3. DOMAIN queue = 1..Len(queue) /\ Len(queue) \in Nat /\ \A i \in DOMAIN queue : queue[i] \in Goals
      BY <1>0 DEF QueueOK
    <3>4. r \in Seq(StatusCalls) BY <3>2, <3>3
    <3> HIDE DEF r
    <3> QED BY <3>1, <3>4, OpMoves
  <2>5. CASE EvictCompleted
    <3>1. PICK S \in SUBSET Goals : Then(Op, <<CallPurge(S)>>) BY <2>5 DEF EvictCompleted
    <3>2. TaskNext(Op, <<CallPurge(S)>>) BY <2>5, NotAsk, TaskNames DEF TaskNext, OpNext
    <3>3. Legal(Op, <<CallPurge(S)>>, asks') BY TaskNames DEF Legal, OpLegal
    <3>4. pend' = pend BY <2>5 DEF EvictCompleted
    <3> QED BY <3>1, <3>2, <3>3, <3>4, TaskNames DEF UpMove, TaskMove
  <2> QED BY <1>9, <2>1, <2>2, <2>3, <2>4, <2>5 DEF ControlTool
<1>10. CASE Questioning
  <2>1. CASE \E q \in Questions : TimerCheck(q) BY <1>1, <2>1 DEF TimerCheck, bounds
  <2>2. ASSUME NEW q \in Questions, TimerCancel(q) PROVE UpMove
    <3> DEFINE g == timer[q].g
    <3>1. timer[q].at = "checked" /\ timer' = [timer EXCEPT ![q].at = "over"] /\ asks' = asks
      BY <2>2 DEF TimerCancel, bounds
    <3>2. g \in Goals BY <1>0, <3>1 DEF AskingOK
    <3>3. timer'[q].at = "over" BY <1>0, <3>1 DEF AskingOK
    <3>4. /\ Then(Timer(q), <<CallStatus(g, "Cancelled")>>)
          /\ pend' = pend \/ \E w : pend' = [pend EXCEPT ![Timer(q)] = w]
      BY <2>2, UpdMove, Ignoring DEF TimerCancel, SetAskPending
    <3>5. TaskNext(Timer(q), <<CallStatus(g, "Cancelled")>>) BY <3>1, <3>3, TaskNames DEF TaskNext
    <3>6. Legal(Timer(q), <<CallStatus(g, "Cancelled")>>, asks') BY <3>2, TaskNames DEF Legal
    <3> QED BY <3>1, <3>4, <3>5, <3>6, TaskNames DEF UpMove, TaskMove
  <2>3. CASE \E g \in Goals : ReplyFind(g) BY <1>1, <2>3 DEF ReplyFind, bounds
  <2>4. CASE ReplyResume
    <3>1. asks' = asks BY <2>4 DEF ReplyResume, bounds
    <3>2. CASE NoCall BY <1>1, <3>1, <3>2 DEF NoCall
    <3>3. CASE SetAskPending(Reply, reply.g, 0, <<CallStatus(reply.g, "Running")>>)
      <4>1. reply.g \in Goals BY <1>0, <2>4 DEF ReplyResume, AskingOK
      <4>2. /\ Then(Reply, <<CallStatus(reply.g, "Running")>>)
            /\ pend' = pend \/ \E w : pend' = [pend EXCEPT ![Reply] = w]
        BY <3>3, UpdMove, Ignoring DEF SetAskPending
      <4>3. TaskNext(Reply, <<CallStatus(reply.g, "Running")>>) BY <2>4, TaskNames DEF TaskNext
      <4>4. Legal(Reply, <<CallStatus(reply.g, "Running")>>, asks') BY <4>1, TaskNames DEF Legal
      <4> QED BY <3>1, <4>2, <4>3, <4>4, TaskNames DEF UpMove, TaskMove
    <3> QED BY <2>4, <3>2, <3>3 DEF ReplyResume
  <2> QED BY <1>10, <2>1, <2>2, <2>3, <2>4 DEF Questioning
<1> QED BY <1>2, <1>3, <1>4, <1>5, <1>6, <1>7, <1>8, <1>9, <1>10, <1>11 DEF UpStep

LEMMA IdleStays ==
    ASSUME RowsOK, Plans, UpMove, NEW u \in Tasks, Idle(u), \A r : ~TaskMove(u, r)
    PROVE  Idle(u)'
<1>1. CASE todo' = todo /\ pend' = pend BY <1>1 DEF Idle
<1>2. ASSUME NEW t \in Tasks, Upsert(t) \/ UpsertFails(t), todo' = todo PROVE Idle(u)'
  <2>1. t # u /\ pend' = [pend EXCEPT ![t] = NoWrite] BY <1>2 DEF Upsert, UpsertFails, Idle
  <2> QED BY <1>2, <2>1 DEF Idle, RowsOK
<1>3. ASSUME NEW t \in Tasks, NEW r, TaskMove(t, r) PROVE Idle(u)'
  <2>1. t # u BY <1>3
  <2>2. todo'[u] = todo[u] BY <1>3, <2>1, TodoIs DEF TaskMove
  <2>3. pend'[u] = pend[u] BY <1>3, <2>1 DEF TaskMove, RowsOK
  <2> QED BY <2>2, <2>3 DEF Idle
<1> QED BY <1>1, <1>2, <1>3 DEF UpMove

LEMMA UpTasks ==
    ASSUME TypeInv, TaskInv, phase = "up", UpStep
    PROVE  TaskInv'
<1>0. RowsOK /\ AskingOK /\ Plans /\ Serving /\ TimersIdle /\ ReplyIdle /\ Unarmed /\ UpMove /\ UpAsks
  BY UpMoves, UpAsking DEF TypeInv, TaskInv
<1>1. phase' = "up" /\ walk' = walk BY UpBoot DEF boot
<1>2. Plans'
  <2>1. CASE todo' = todo /\ asks' = asks BY <1>0, <2>1, PlansLegal, LegalPlans DEF Plans
  <2>2. ASSUME NEW t \in Tasks, NEW r, TaskMove(t, r) PROVE Plans'
    <3>1. DOMAIN todo' = Tasks /\ todo'[t] = r /\ \A u \in Tasks : u # t => todo'[u] = todo[u]
      BY <1>0, <2>2, TodoIs DEF TaskMove
    <3>2. Legal(t, r, asks') BY <2>2 DEF TaskMove
    <3>3. ASSUME NEW u \in Tasks, u # t PROVE Legal(u, todo'[u], asks')
      <4>1. Legal(u, todo[u], asks) BY <1>0, PlansLegal
      <4>2. CASE asks' = asks BY <3>1, <3>3, <4>1, <4>2
      <4>3. CASE t = Op BY <3>1, <3>3, <4>1, <4>3 DEF Legal
      <4> QED BY <2>2, <4>2, <4>3 DEF TaskMove
    <3> QED BY <3>1, <3>2, <3>3, LegalPlans
  <2> QED BY <1>0, <2>1, <2>2 DEF UpMove
<1>3. Booting' BY <1>1 DEF Booting
<1>4. Serving'
  <2>1. Idle(Boot)'
    <3>1. Idle(Boot) /\ Boot \in Tasks BY <1>0, TaskNames DEF Serving
    <3>2. CASE todo' = todo /\ pend' = pend BY <3>1, <3>2 DEF Idle
    <3>3. ASSUME NEW t \in Tasks \ {Boot}, Upsert(t) \/ UpsertFails(t), todo' = todo PROVE Idle(Boot)'
      <4>1. pend' = [pend EXCEPT ![t] = NoWrite] BY <3>3 DEF Upsert, UpsertFails
      <4> QED BY <1>0, <3>1, <3>3, <4>1 DEF Idle, RowsOK
    <3>4. ASSUME NEW t \in Tasks \ {Boot}, NEW r, TaskMove(t, r) PROVE Idle(Boot)'
      <4>1. todo'[Boot] = todo[Boot] BY <1>0, <3>1, <3>4, TodoIs DEF TaskMove
      <4>2. pend'[Boot] = pend[Boot] BY <1>0, <3>1, <3>4 DEF TaskMove, RowsOK
      <4> QED BY <3>1, <4>1, <4>2 DEF Idle
    <3> QED BY <1>0, <3>2, <3>3, <3>4 DEF UpMove
  <2> QED BY <1>0, <1>1, <2>1 DEF Serving
<1>5. ASSUME NEW q \in Questions, timer[q].at = "over" PROVE timer'[q].at = "over"
  BY <1>0, <1>5 DEF UpAsks, TimerMoves, Unarmed
<1>6. TimersIdle'
  <2>1. SUFFICES ASSUME NEW q \in Questions, timer'[q].at # "over" PROVE Idle(Timer(q))'
    BY DEF TimersIdle
  <2>2. Idle(Timer(q)) /\ Timer(q) \in Tasks BY <1>0, <1>5, <2>1, TaskNames DEF TimersIdle
  <2>3. ASSUME NEW r, TaskMove(Timer(q), r) PROVE FALSE
    BY <2>1, <2>2, <2>3 DEF TaskMove, TaskNext
  <2> QED BY <1>0, <2>2, <2>3, IdleStays
<1>7. ReplyIdle'
  <2>1. SUFFICES ASSUME reply'.g # NoGoal PROVE Idle(Reply)' /\ reply'.q # 0
    BY DEF ReplyIdle
  <2>2. ~ReplyResume BY <2>1 DEF ReplyResume
  <2>3. CASE reply' = reply
    <3>1. Idle(Reply) /\ Reply \in Tasks /\ reply'.q # 0 BY <1>0, <2>1, <2>3, TaskNames DEF ReplyIdle
    <3>2. ASSUME NEW r, TaskMove(Reply, r) PROVE FALSE BY <2>2, <3>1, <3>2 DEF TaskMove, TaskNext
    <3> QED BY <1>0, <3>1, <3>2, IdleStays
  <2>4. ASSUME NEW g \in Goals, ReplyFind(g) PROVE Idle(Reply)' /\ reply'.q # 0
    BY <2>4 DEF ReplyFind, Idle
  <2> QED BY <1>0, <2>2, <2>3, <2>4 DEF UpAsks
<1>8. Unarmed'
  <2>0. asks \in Nat /\ asks' \in Nat /\ (asks' = asks \/ asks' = asks + 1) /\ Questions \subseteq Nat
        /\ asks' \in 0..MaxAsks
    BY <1>0, RegistryAssumption DEF AskingOK, UpAsks, Questions, RegistryAssumption
  <2>1. ASSUME NEW q \in Questions, q > asks PROVE timer'[q].at = "none"
    <3>1. timer[q].at = "none" BY <1>0, <2>1 DEF Unarmed
    <3>2. q # asks BY <2>0, <2>1
    <3> QED BY <1>0, <3>1, <3>2 DEF UpAsks, TimerMoves
  <2>2. ASSUME NEW q \in Questions, q > asks' PROVE timer'[q].at = "none"
    <3>1. q > asks BY <2>0, <2>2
    <3> QED BY <2>1, <3>1
  <2>3. ASSUME NEW g \in Goals,
               todo'[Op] \in {<<CallAsk(g, asks'), CallArm(g, asks')>>, <<CallArm(g, asks')>>}
        PROVE  asks' # 0 /\ timer'[asks'].at = "none"
    <3>1. ASSUME AskUserQuestion(g) PROVE asks' # 0 /\ timer'[asks'].at = "none"
      <4>1. asks' = asks + 1 BY <3>1 DEF AskUserQuestion
      <4>2. asks' \in Questions /\ asks' > asks BY <2>0, <4>1, RegistryAssumption DEF Questions, RegistryAssumption
      <4> QED BY <2>0, <2>1, <4>1, <4>2
    <3>2. ASSUME asks' = asks, todo[Op] \in {<<CallAsk(g, asks), CallArm(g, asks)>>, <<CallArm(g, asks)>>}
          PROVE  asks' # 0 /\ timer'[asks'].at = "none"
      <4>1. asks # 0 /\ timer[asks].at = "none" BY <1>0, <3>2 DEF Unarmed
      <4>2. asks \in Questions BY <1>0, <2>0, <4>1 DEF AskingOK, Questions
      <4>3. todo'[Op] # <<>> BY <2>3
      <4>4. TimerMoves(asks) BY <1>0, <4>2 DEF UpAsks
      <4>5. timer'[asks] = timer[asks] BY <4>1, <4>3, <4>4 DEF TimerMoves
      <4> QED BY <3>2, <4>1, <4>5
    <3>3. CASE todo' = todo /\ asks' = asks BY <2>3, <3>2, <3>3
    <3>4. ASSUME NEW t \in Tasks, NEW r, TaskMove(t, r)
          PROVE  asks' # 0 /\ timer'[asks'].at = "none"
      <4>1. todo'[t] = r /\ \A u \in Tasks : u # t => todo'[u] = todo[u]
        BY <1>0, <3>4, TodoIs DEF TaskMove
      <4>2. CASE t # Op
        <5>1. asks' = asks /\ todo'[Op] = todo[Op] BY <3>4, <4>1, <4>2, TaskNames DEF TaskMove
        <5> QED BY <2>3, <3>2, <5>1
      <4>3. CASE t = Op
        <5>1. OpNext(todo'[Op]) BY <3>4, <4>1, <4>3 DEF TaskMove, TaskNext
        <5> QED BY <2>3, <3>1, <3>2, <5>1 DEF OpNext
      <4> QED BY <4>2, <4>3
    <3> QED BY <1>0, <3>3, <3>4 DEF UpMove
  <2> QED BY <2>2, <2>3 DEF Unarmed
<1> QED BY <1>2, <1>3, <1>4, <1>6, <1>7, <1>8 DEF TaskInv

\* The rows that reattach gives back their status are the rows it listed.
LEMMA RestoredStatus ==
    ASSUME NEW m \in LiveRows, NEW r \in LiveRows, m.ask = r.ask, r.status # "Sleeping"
    PROVE  WithStatus(m, IF r.status = "Running" THEN "LostOnRestart" ELSE r.status) = Restored(r)
<1> DEFINE s == IF r.status = "Running" THEN "LostOnRestart" ELSE r.status
<1>1. s \in Status \ {"absent", "Sleeping"} BY DEF LiveRows, Status, Terminal
<1>2. Restored(r) = WithStatus(r, s) BY DEF Restored
<1> HIDE DEF s
<1>3. WithStatus(m, s) \in RowRecords /\ WithStatus(r, s) \in RowRecords
  BY <1>1, StatusRow, LiveIsRow
<1>4. /\ WithStatus(m, s).status = WithStatus(r, s).status /\ WithStatus(m, s).ask = WithStatus(r, s).ask
      /\ ~WithStatus(m, s).sleep /\ ~WithStatus(r, s).sleep
  BY <1>1, StatusRow
<1>5. WithStatus(m, s).sleep = WithStatus(r, s).sleep BY <1>3, <1>4 DEF RowRecords
<1>6. WithStatus(m, s) = WithStatus(r, s) BY <1>3, <1>4, <1>5, SameRow
<1> QED BY <1>2, <1>6 DEF s

LEMMA RestoredSleep ==
    ASSUME NEW m \in LiveRows, NEW r \in LiveRows, m.ask = r.ask, r.status = "Sleeping"
    PROVE  SleepRow(m) = Restored(r)
<1>1. Restored(r) = WithStatus(r, "Sleeping") BY DEF Restored
<1>2. r.sleep BY DEF LiveRows
<1>3. /\ WithStatus(r, "Sleeping") \in RowRecords /\ WithStatus(r, "Sleeping").status = "Sleeping"
      /\ WithStatus(r, "Sleeping").ask = r.ask /\ WithStatus(r, "Sleeping").sleep
  BY <1>2 DEF WithStatus, LiveRows, RowRecords
<1>4. /\ SleepRow(m) \in RowRecords /\ SleepRow(m).status = "Sleeping" /\ SleepRow(m).ask = m.ask
      /\ SleepRow(m).sleep
  BY SleepRowIs, LiveIsRow
<1>5. SleepRow(m).sleep = WithStatus(r, "Sleeping").sleep BY <1>3, <1>4 DEF RowRecords
<1> QED BY <1>1, <1>3, <1>4, <1>5, SameRow

\* While reattach runs its calls are the only writes.
LEMMA BootAlone ==
    ASSUME RowsOK, Booting, phase = "boot", pend[Boot] = NoWrite
    PROVE  \A g \in Goals : \A t \in Tasks : pend[t].g # g
<1>1. \A t \in Tasks : pend[t] = NoWrite BY DEF Booting, Idle
<1> QED BY <1>1, RegistryAssumption DEF NoWrite, RegistryAssumption

\* A call of reattach for g, which it is at, keeps the invariant of the boot.
LEMMA BootPut ==
    ASSUME RowsOK, Booting, phase = "boot", pend[Boot] = NoWrite, Plans,
           NEW g \in Goals \ walk, NEW row \in LiveRows, NEW rest, Write(Boot, g, row),
           Then(Boot, rest), Calm, Settled({g}), intent[g] \in LiveRows,
           \/ rest = <<>> /\ row = Restored(intent[g])
           \/ rest = <<Final(g, intent[g])>> /\ row.ask = intent[g].ask /\ ~row.sleep
    PROVE  Booting'
<1>1. todo'[Boot] = rest /\ \A t \in Tasks : t # Boot => todo'[t] = todo[t] BY TodoIs, TaskNames
<1>2. mem' = [mem EXCEPT ![g] = row] /\ \A t \in Tasks : t # Boot => pend'[t] = pend[t]
  BY DEF Write, RowsOK
<1>3. adrift' = {}
  <2>1. ~\E t \in Tasks : pend[t].g = g BY BootAlone
  <2>2. adrift = {} BY DEF Booting
  <2> QED BY <2>1, <2>2 DEF Write
<1>4. UNCHANGED <<sig, loop, timer, reply, answered, phase, intent, walk>>
  BY DEF Calm, driver, asking, boot
<1>5. mem'[g] = row /\ \A h \in Goals : h # g => mem'[h] = mem[h] BY <1>2 DEF RowsOK
<1>6. Settled({g})' BY <1>4, <1>5 DEF Settled, Known
<1>7. BootPlan'
  <2>1. CASE rest = <<>> /\ row = Restored(intent[g])
    <3>1. Settled({})' BY <1>4, <1>5, <1>6, <2>1 DEF Settled
    <3> QED BY <1>1, <2>1, <3>1 DEF BootPlan
  <2>2. CASE rest = <<Final(g, intent[g])>> /\ row.ask = intent[g].ask /\ ~row.sleep
    <3>1. Block(g, intent[g])' BY <1>1, <1>4, <1>5, <2>2 DEF Block, Final
    <3> QED BY <1>4, <1>6, <3>1 DEF BootPlan
  <2> QED BY <2>1, <2>2
<1>8. \A t \in Tasks \ {Boot} : Idle(t)' BY <1>1, <1>2 DEF Booting, Idle
<1>9. \A h \in walk' : ~Known(h)' /\ intent'[h] # NoRow BY <1>4, <1>5 DEF Booting, Known
<1> QED BY <1>3, <1>4, <1>7, <1>8, <1>9 DEF Booting

LEMMA BootStays ==
    ASSUME RowsOK, Booting, phase = "boot", BootMakesCall, Plans
    PROVE  Booting'
<1>1. PICK g \in Goals \ walk :
        /\ intent[g] \in LiveRows /\ Settled({g}) /\ Calm
        /\ \/ /\ ~Known(g) /\ StoreWrite(Boot, g, NoRow, <<>>)
           \/ /\ ~Known(g) 
              /\ StoreWrite(Boot, g, WithStatus(intent[g], "LostOnRestart"),
                            <<CallAdmit(g, intent[g]), Final(g, intent[g])>>)
           \/ ~Known(g) /\ Admit(Boot, g, intent[g], TRUE, <<Final(g, intent[g])>>)
           \/ /\ mem[g] \in LiveRows /\ mem[g].ask = intent[g].ask /\ ~mem[g].sleep
              /\ IF intent[g].status = "Sleeping" THEN SetSleeping(Boot, g, <<>>)
                 ELSE SetStatus(Boot, g, IF intent[g].status = "Running" THEN "LostOnRestart"
                                         ELSE intent[g].status, <<>>)
  BY DEF BootMakesCall, BootCall
<1>2. pend[Boot] = NoWrite BY DEF BootMakesCall
<1>3. UNCHANGED <<sig, loop, timer, reply, answered, phase, intent, walk>>
  BY <1>1 DEF Calm, driver, asking, boot
<1>4. ASSUME NEW row, NEW rest, StoreWrite(Boot, g, row, rest), ~Known(g),
             \/ rest = <<>>
             \/ rest = <<CallAdmit(g, intent[g]), Final(g, intent[g])>>
      PROVE  Booting'
  <2>1. todo'[Boot] = rest /\ \A t \in Tasks : t # Boot => todo'[t] = todo[t]
    BY <1>4, TodoIs, TaskNames DEF StoreWrite
  <2>2. UNCHANGED <<mem, pend, adrift>> BY <1>4 DEF StoreWrite
  <2>3. BootPlan'
    <3>1. CASE rest = <<>>
      <4>1. Settled({})' BY <1>1, <1>3, <1>4, <2>2 DEF Settled, Known
      <4> QED BY <2>1, <3>1, <4>1 DEF BootPlan
    <3>2. CASE rest = <<CallAdmit(g, intent[g]), Final(g, intent[g])>>
      <4>1. Settled({g})' BY <1>1, <1>3, <2>2 DEF Settled, Known
      <4>2. Block(g, intent[g])' BY <1>3, <1>4, <2>1, <2>2, <3>2 DEF Block, Final, Known
      <4> QED BY <1>1, <1>3, <4>1, <4>2 DEF BootPlan
    <3> QED BY <1>4, <3>1, <3>2
  <2>4. \A t \in Tasks \ {Boot} : Idle(t)' BY <2>1, <2>2 DEF Booting, Idle
  <2>5. \A h \in walk' : ~Known(h)' /\ intent'[h] # NoRow BY <1>3, <2>2 DEF Booting, Known
  <2> QED BY <1>3, <2>2, <2>3, <2>4, <2>5 DEF Booting
<1>5. CASE ~Known(g) /\ Admit(Boot, g, intent[g], TRUE, <<Final(g, intent[g])>>)
  <2>1. Then(Boot, <<Final(g, intent[g])>>) BY <1>5, AdmitEffect
  <2>2. AdmitOutcome(TRUE) # "Rejected" BY DEF AdmitOutcome
  <2> DEFINE s == IF AdmitOutcome(TRUE) = "Admitted" THEN "Running" ELSE "Queued"
  <2>3. Write(Boot, g, AdmitRow(intent[g], s)) BY <1>5, <2>2 DEF Admit, AdmitRow
  <2>4. s \in {"Running", "Queued"} OBVIOUS
  <2> HIDE DEF s
  <2>5. /\ AdmitRow(intent[g], s) \in LiveRows /\ ~AdmitRow(intent[g], s).sleep
        /\ AdmitRow(intent[g], s).ask = intent[g].ask
    BY <1>1, <2>4, AdmitRowIs
  <2> QED BY <1>1, <1>2, <2>1, <2>3, <2>5, BootPut
<1>6. ASSUME NEW row, Update(Boot, g, row, <<>>), mem[g] \in LiveRows, row \in LiveRows,
             row = Restored(intent[g])
      PROVE  Booting'
  <2>1. Known(g) BY <1>6, RowIsNot DEF Known
  <2>2. Write(Boot, g, row) /\ Then(Boot, <<>>) BY <1>6, <2>1 DEF Update
  <2> QED BY <1>1, <1>2, <1>6, <2>2, BootPut
<1>7. CASE /\ mem[g] \in LiveRows /\ mem[g].ask = intent[g].ask
           /\ intent[g].status = "Sleeping" /\ SetSleeping(Boot, g, <<>>)
  <2>1. SleepRow(mem[g]) = Restored(intent[g]) /\ SleepRow(mem[g]) \in LiveRows
    BY <1>1, <1>7, RestoredSleep, SleepRowIs
  <2>2. Update(Boot, g, SleepRow(mem[g]), <<>>) BY <1>7 DEF SetSleeping, SleepRow
  <2> QED BY <1>6, <1>7, <2>1, <2>2
<1>8. CASE /\ mem[g] \in LiveRows /\ mem[g].ask = intent[g].ask
           /\ intent[g].status # "Sleeping"
           /\ SetStatus(Boot, g, IF intent[g].status = "Running" THEN "LostOnRestart"
                                 ELSE intent[g].status, <<>>)
  <2> DEFINE s == IF intent[g].status = "Running" THEN "LostOnRestart" ELSE intent[g].status
  <2>1. WithStatus(mem[g], s) = Restored(intent[g]) BY <1>1, <1>8, RestoredStatus
  <2>2. s \in Status \ {"absent", "Sleeping"} BY <1>1, <1>8 DEF LiveRows, Status, Terminal
  <2>3. SetStatus(Boot, g, s, <<>>) BY <1>8
  <2> HIDE DEF s
  <2>4. WithStatus(mem[g], s) \in LiveRows BY <1>8, <2>2, StatusRow
  <2>5. Update(Boot, g, WithStatus(mem[g], s), <<>>) BY <2>3 DEF SetStatus
  <2> QED BY <1>6, <1>8, <2>1, <2>4, <2>5
<1> QED BY <1>1, <1>4, <1>5, <1>7, <1>8

LEMMA ReattachStays ==
    ASSUME RowsOK, Booting, phase = "boot", Plans, NEW g \in Goals, Reattach(g)
    PROVE  Booting'
<1> DEFINE row == intent[g]
<1>1. PICK old \in BOOLEAN : Then(Boot, ReattachRow(g, row, old)) BY DEF Reattach
<1>2. row \in LiveRows /\ ~Known(g) BY DEF Reattach, Booting, RowsOK, Rows
<1>3. /\ UNCHANGED <<mem, pend, adrift, sig, loop, timer, reply, answered, phase, intent>>
      /\ walk' = walk \ {g}
  BY DEF Reattach, registry, driver, asking
<1>4. /\ todo'[Boot] = ReattachRow(g, row, old)
      /\ \A t \in Tasks : t # Boot => todo'[t] = todo[t]
  BY <1>1, TodoIs, TaskNames
<1>5. \/ ReattachRow(g, row, old) = <<CallStore(g, NoRow)>>
      \/ ReattachRow(g, row, old) =
           <<CallStore(g, WithStatus(row, "LostOnRestart")), CallAdmit(g, row), Final(g, row)>>
      \/ ReattachRow(g, row, old) = <<CallAdmit(g, row), Final(g, row)>>
  <2>1. CASE row.status = "Running"
    BY <2>1 DEF ReattachRow, Final, Terminal
  <2>2. CASE row.status = "Sleeping"
    <3>1. row.sleep BY <1>2, <2>2 DEF LiveRows
    <3> QED BY <2>2, <3>1 DEF ReattachRow, Final, Terminal
  <2>3. CASE row.status \notin {"Running", "Sleeping"} /\ row.status \in Terminal /\ old
    BY <2>3 DEF ReattachRow
  <2>4. CASE row.status \notin {"Running", "Sleeping"} /\ ~(row.status \in Terminal /\ old)
    BY <2>4 DEF ReattachRow, Restore, Final
  <2> QED BY <2>1, <2>2, <2>3, <2>4
<1>6. Settled({})
  <2>1. todo[Boot] = <<>> BY DEF Reattach, Idle
  <2>2. BootPlan BY DEF Booting
  <2> QED BY <2>1, <2>2, Tuples DEF BootPlan, Block
<1>7. Settled({g})' BY <1>3, <1>6 DEF Settled, Known
<1>8. Block(g, row)' BY <1>2, <1>3, <1>4, <1>5 DEF Block, Known, Final
<1>9. BootPlan' BY <1>2, <1>3, <1>7, <1>8 DEF BootPlan
<1>10. \A t \in Tasks \ {Boot} : Idle(t)' BY <1>3, <1>4 DEF Booting, Idle
<1>11. walk' \subseteq Goals /\ \A h \in walk' : ~Known(h)' /\ intent'[h] # NoRow
  BY <1>3 DEF Booting, Known
<1> QED BY <1>3, <1>9, <1>10, <1>11 DEF Booting

LEMMA BootTasks ==
    ASSUME TypeInv, TaskInv, OneGoalAsks, phase = "boot", BootStep
    PROVE  TaskInv'
<1>0. RowsOK /\ AskingOK /\ Plans /\ Booting /\ Serving BY DEF TypeInv, TaskInv
<1>1. /\ UNCHANGED <<driver, reply, answered, late, asks>>
      /\ Serve \/ UNCHANGED <<timer, phase, intent>>
      /\ \A t \in Tasks \ {Boot} : todo'[t] = todo[t]
  BY BootFrame
<1>2. \A t \in Tasks \ {Boot} : pend'[t] = pend[t]
  <2>1. ASSUME NEW t \in Tasks \ {Boot}, NEW g, NEW row, NEW rest, Update(Boot, g, row, rest)
        PROVE  pend'[t] = pend[t]
    BY <1>0, <2>1, UpdMove DEF RowsOK
  <2>2. ASSUME NEW t \in Tasks \ {Boot}, NEW g, NEW row, NEW enqueue, NEW rest,
               Admit(Boot, g, row, enqueue, rest)
        PROVE  pend'[t] = pend[t]
    BY <1>0, <2>2 DEF Admit, Write, RowsOK
  <2>3. CASE BootMakesCall
    BY <2>1, <2>2, <2>3 DEF BootMakesCall, BootCall, StoreWrite, SetSleeping, SetStatus
  <2>4. CASE Upsert(Boot) \/ ReattachFails BY <1>0, <2>4 DEF Upsert, ReattachFails, RowsOK
  <2> QED BY <2>3, <2>4 DEF BootStep, RearmTimers, Reattach
<1>3. \A t \in Tasks \ {Boot} : Idle(t)' BY <1>0, <1>1, <1>2 DEF Booting, Idle
<1>4. Plans'
  <2>1. DOMAIN todo' = Tasks
    <3>1. ASSUME NEW g, NEW row, NEW rest, Update(Boot, g, row, rest) PROVE DOMAIN todo' = Tasks
      BY <1>0, <3>1, UpdMove DEF Then, Plans
    <3>2. CASE BootMakesCall
      BY <1>0, <3>1, <3>2 DEF BootMakesCall, BootCall, StoreWrite, Admit, SetSleeping, SetStatus, Then, Plans
    <3> QED BY <1>0, <3>2 DEF BootStep, Upsert, RearmTimers, ReattachFails, Reattach, Then, Plans
  <2>2. \A t \in Tasks \ {Boot} : Legal(t, todo'[t], asks') BY <1>0, <1>1, PlansLegal
  <2>3. Legal(Boot, todo'[Boot], asks') BY TaskNames DEF Legal
  <2> QED BY <2>1, <2>2, <2>3, LegalPlans
<1>5. Booting'
  <2>1. CASE BootMakesCall BY <1>0, <2>1, BootStays
  <2>2. CASE \E g \in Goals : Reattach(g) BY <1>0, <2>2, ReattachStays
  <2>3. CASE Serve BY <2>3 DEF Serve, Booting
  <2>4. CASE Upsert(Boot)
    <3>1. UNCHANGED <<mem, todo, adrift, sig, loop, timer, reply, answered, phase, intent, walk>>
      BY <2>4 DEF Upsert, driver, asking, boot
    <3>2. BootPlan' BY <1>0, <3>1 DEF Booting, BootPlan, Block, Settled, Known, Final
    <3> QED BY <1>0, <1>3, <3>1, <3>2 DEF Booting, Known
  <2> QED BY <2>1, <2>2, <2>3, <2>4 DEF BootStep, RearmTimers, ReattachFails
<1>6. Serving'
  <2>1. CASE RearmTimers
    <3>1. Idle(Boot) /\ walk = {} /\ UNCHANGED <<todo, pend, walk>> BY <2>1 DEF RearmTimers, Booted
    <3> QED BY <3>1 DEF Serving, Idle
  <2>2. CASE ReattachFails
    <3>1. todo'[Boot] = <<>> BY <1>0, <2>2, TodoIs, TaskNames DEF ReattachFails
    <3>2. pend'[Boot] = NoWrite /\ walk' = {} BY <1>0, <2>2, TaskNames DEF ReattachFails, RowsOK
    <3> QED BY <3>1, <3>2 DEF Serving, Idle
  <2>3. CASE phase' = phase BY <2>3 DEF Serving
  <2>4. CASE BootMakesCall BY <2>3, <2>4 DEF BootMakesCall, BootCall, Calm, boot
  <2> QED BY <2>1, <2>2, <2>3, <2>4 DEF BootStep, Upsert, Reattach, boot
<1>7. TimersIdle' BY <1>3, TaskNames DEF TimersIdle
<1>8. ReplyIdle' BY <1>0, <1>1 DEF ReplyIdle, Booting
<1>9. Unarmed'
  <2>1. todo'[Op] = <<>> BY <1>3, TaskNames DEF Idle
  <2>2. asks' = asks BY <1>1
  <2>3. ASSUME NEW q \in Questions, q > asks PROVE timer'[q].at = "none"
    <3>1. timer[q].at = "none" BY <1>0 DEF Booting
    <3>2. CASE Serve
      <4>1. \A g \in Goals : mem[g].ask # q
        <5>1. \A g \in Goals : mem[g].ask = q => q <= asks BY DEF OneGoalAsks, Asked
        <5>2. asks \in Nat /\ q \in Nat BY <1>0, RegistryAssumption DEF AskingOK, Questions, RegistryAssumption
        <5> QED BY <2>3, <5>1, <5>2
      <4> QED BY <3>1, <3>2, <4>1 DEF Serve
    <3> QED BY <1>1, <3>1, <3>2
  <2> QED BY <2>1, <2>2, <2>3, Tuples DEF Unarmed
<1> QED BY <1>4, <1>5, <1>6, <1>7, <1>8, <1>9 DEF TaskInv

LEMMA CrashTasks == ASSUME TypeInv, CrashAndBoot PROVE TaskInv'
<1>1. /\ \A t \in Tasks : todo'[t] = <<>> /\ pend'[t] = NoWrite
      /\ DOMAIN todo' = Tasks
  BY DEF CrashAndBoot
<1>2. \A g \in Goals : mem'[g] = NoRow BY DEF CrashAndBoot
<1>3. Plans' BY <1>1, EmptyLegal, LegalPlans
<1>4. \A t \in Tasks : Idle(t)' BY <1>1 DEF Idle
<1>5. BootPlan' BY <1>1, <1>2, TaskNames DEF BootPlan, Settled, Known
<1>6. Booting'
  <2>1. \A g \in Goals : ~sig'[g].on /\ loop'[g] \in {"none", "gone"} BY DEF CrashAndBoot, NoSig
  <2>2. /\ \A q \in Questions : timer'[q].at = "none"
        /\ reply'.g = NoGoal /\ answered' = {} /\ adrift' = {}
    BY DEF CrashAndBoot
  <2>3. walk' \subseteq Goals /\ \A g \in walk' : ~Known(g)' /\ intent'[g] # NoRow
    BY <1>2 DEF CrashAndBoot, Known
  <2> QED BY <1>4, <1>5, <2>1, <2>2, <2>3 DEF Booting
<1>7. Serving' BY DEF Serving, CrashAndBoot
<1>8. TimersIdle' /\ ReplyIdle' BY <1>4, TaskNames DEF TimersIdle, ReplyIdle, CrashAndBoot
<1>9. Unarmed'
  <2>1. todo'[Op] = <<>> BY <1>1, TaskNames
  <2>2. \A q \in Questions : timer'[q].at = "none" BY DEF CrashAndBoot
  <2> QED BY <2>1, <2>2, Tuples DEF Unarmed
<1> QED BY <1>3, <1>6, <1>7, <1>8, <1>9 DEF TaskInv

LEMMA TaskStep == ASSUME TypeInv, TaskInv, OneGoalAsks, [Next]_vars PROVE TaskInv'
<1>1. CASE UNCHANGED vars
  BY <1>1 DEF TaskInv, Plans, OpPlan, Booting, BootPlan, Block, Settled, Final, Serving, TimersIdle,
              ReplyIdle, Unarmed, Idle, Known, vars, registry, driver, asking, bounds, boot
<1> QED BY <1>1, UpTasks, BootTasks, CrashTasks, StepCases

-----------------------------------------------------------------------------
(***************************************************************************)
(* The table follows the map.                                              *)
(***************************************************************************)
LEMMA WriteIs ==
    ASSUME RowsOK, NEW t \in Tasks, NEW g \in Goals, NEW row, Write(t, g, row)
    PROVE  /\ mem'[g] = row /\ \A h \in Goals : h # g => mem'[h] = mem[h]
           /\ pend'[t].g = g /\ pend'[t].row = row /\ \A u \in Tasks : u # t => pend'[u] = pend[u]
           /\ \A h \in Goals : h # g => (h \in adrift' <=> h \in adrift)
           /\ g \in adrift' <=> \E u \in Tasks : pend[u].g = g
<1>1. mem' = [mem EXCEPT ![g] = row] /\ pend' = [pend EXCEPT ![t] = [g |-> g, row |-> row]]
  BY DEF Write
<1>2. adrift' = IF \E u \in Tasks : pend[u].g = g THEN adrift \cup {g} ELSE adrift \ {g} BY DEF Write
<1>3. mem'[g] = row /\ \A h \in Goals : h # g => mem'[h] = mem[h] BY <1>1 DEF RowsOK
<1>4. pend'[t].g = g /\ pend'[t].row = row /\ \A u \in Tasks : u # t => pend'[u] = pend[u]
  BY <1>1 DEF RowsOK
<1> QED BY <1>2, <1>3, <1>4

LEMMA NoWriteIs == \A g \in Goals : NoWrite.g # g
BY RegistryAssumption DEF NoWrite, RegistryAssumption

\* Follows, for one goal.
FollowsGoal(g) ==
    g \notin adrift =>
        /\ \A t, u \in Tasks : pend[t].g = g /\ pend[u].g = g => t = u
        /\ Known(g) => /\ \A t \in Tasks : pend[t].g = g => pend[t].row = mem[g]
                       /\ (\A t \in Tasks : pend[t].g # g) => store[g] = mem[g]

LEMMA FollowsWrite ==
    ASSUME RowsOK, Follows, NEW t \in Tasks, NEW g \in Goals, NEW row, Write(t, g, row),
           pend[t] = NoWrite, store' = store, NEW h \in Goals
    PROVE  FollowsGoal(h)'
<1>1. /\ mem'[g] = row /\ \A x \in Goals : x # g => mem'[x] = mem[x]
      /\ pend'[t].g = g /\ pend'[t].row = row /\ \A u \in Tasks : u # t => pend'[u] = pend[u]
      /\ \A x \in Goals : x # g => (x \in adrift' <=> x \in adrift)
      /\ g \in adrift' <=> \E u \in Tasks : pend[u].g = g
  BY WriteIs
<1>2. pend[t].g # h BY NoWriteIs
<1>3. CASE h = g BY <1>1, <1>3 DEF FollowsGoal
<1>4. CASE h # g
  <2>1. \A u \in Tasks : pend'[u].g = h => pend'[u] = pend[u] /\ pend[u].g = h BY <1>1, <1>4
  <2>2. \A u \in Tasks : pend[u].g = h => pend'[u] = pend[u] BY <1>1, <1>2
  <2>3. mem'[h] = mem[h] /\ (h \in adrift' <=> h \in adrift) BY <1>1, <1>4
  <2> QED BY <2>1, <2>2, <2>3 DEF Follows, FollowsGoal, Known
<1> QED BY <1>3, <1>4

LEMMA FollowsStep ==
    ASSUME TypeInv, Follows, PurgeSpares, UpWrites \/ BootWrites
    PROVE  Follows'
<1>0. RowsOK BY DEF TypeInv
<1> SUFFICES ASSUME NEW h \in Goals PROVE FollowsGoal(h)' BY DEF Follows, FollowsGoal
<1>1. CASE UNCHANGED <<mem, pend, store, adrift>> BY <1>1 DEF Follows, FollowsGoal, Known
<1>2. ASSUME NEW t \in Tasks, NEW g \in Goals, NEW row, Upd(t, g, row) PROVE FollowsGoal(h)'
  BY <1>0, <1>1, <1>2, UpdEffect, FollowsWrite
<1>3. ASSUME NEW t \in Tasks, NEW g \in Goals, NEW row, NEW enqueue, NEW rest, pend[t] = NoWrite,
             Admit(t, g, row, enqueue, rest)
      PROVE  FollowsGoal(h)'
  BY <1>0, <1>1, <1>3, AdmitEffect, FollowsWrite
<1>4. ASSUME NEW t \in Tasks, Upsert(t) PROVE FollowsGoal(h)'
  <2> DEFINE g == pend[t].g
  <2>1. g \in Goals BY <1>0, <1>4, WriteIsNot DEF Upsert, RowsOK
  <2>2. /\ UNCHANGED <<mem, adrift>> /\ store'[g] = pend[t].row
        /\ \A x \in Goals : x # g => store'[x] = store[x]
        /\ pend'[t] = NoWrite /\ \A u \in Tasks : u # t => pend'[u] = pend[u]
    BY <1>0, <1>4, <2>1 DEF Upsert, RowsOK
  <2> HIDE DEF g
  <2>3. pend'[t].g # h BY <2>2, NoWriteIs
  <2>4. CASE h # g
    <3>1. pend[t].g # h BY <2>4 DEF g
    <3>2. \A u \in Tasks : \/ pend'[u] = pend[u]
                           \/ pend'[u].g # h /\ pend[u].g # h
      BY <2>2, <2>3, <3>1
    <3>3. store'[h] = store[h] BY <2>2, <2>4
    <3> QED BY <2>2, <3>2, <3>3 DEF Follows, FollowsGoal, Known
  <2>5. CASE h = g
    <3>1. SUFFICES ASSUME h \notin adrift' PROVE FollowsGoal(h)' BY DEF FollowsGoal
    <3>2. pend[t].g = h BY <2>5 DEF g
    <3>3. \A u \in Tasks : pend[u].g = h => u = t BY <2>2, <3>1, <3>2 DEF Follows
    <3>4. Known(h) => pend[t].row = mem[h] BY <2>2, <3>1, <3>2 DEF Follows
    <3>5. \A u \in Tasks : pend'[u].g # h BY <2>2, <2>3, <3>3
    <3> QED BY <2>2, <2>5, <3>4, <3>5 DEF FollowsGoal, Known
  <2> QED BY <2>4, <2>5
<1>5. ASSUME NEW S \in SUBSET Goals, todo[Op] = <<CallPurge(S)>>, PurgeStore(Op, S, <<>>)
      PROVE  FollowsGoal(h)'
  <2>1. UNCHANGED <<mem, adrift, pend>> BY <1>5 DEF PurgeStore
  <2>2. store'[h] = IF h \in S /\ store[h].status \in Terminal THEN NoRow ELSE store[h]
    BY <1>5 DEF PurgeStore
  <2>3. h \in S /\ Known(h) => mem[h].status \notin Terminal BY <1>5 DEF PurgeSpares
  <2> QED BY <2>1, <2>2, <2>3 DEF Follows, FollowsGoal, Known
<1>6. CASE EvictCompleted
  <2>1. (mem'[h] = mem[h] \/ mem'[h] = NoRow) /\ UNCHANGED <<pend, store, adrift>>
    BY <1>6 DEF EvictCompleted
  <2> QED BY <2>1 DEF Follows, FollowsGoal, Known
<1>7. ASSUME NEW g \in Goals, NEW row, NEW t, NEW rest, ~Known(g), StoreWrite(t, g, row, rest)
      PROVE  FollowsGoal(h)'
  <2>1. UNCHANGED <<mem, adrift, pend>> /\ (h # g => store'[h] = store[h])
    BY <1>0, <1>7 DEF StoreWrite, RowsOK
  <2> QED BY <1>7, <2>1 DEF Follows, FollowsGoal, Known
<1>8. ASSUME NEW t \in Tasks, WriteLost(t) PROVE FollowsGoal(h)'
  <2>1. /\ UNCHANGED <<mem, store>> /\ (h \in adrift \/ h = pend[t].g => h \in adrift')
        /\ pend'[t] = NoWrite /\ \A u \in Tasks : u # t => pend'[u] = pend[u]
    BY <1>0, <1>8 DEF WriteLost, RowsOK
  <2>2. pend'[t].g # h BY <2>1, NoWriteIs
  <2>3. CASE h = pend[t].g BY <2>1, <2>3 DEF FollowsGoal
  <2>4. CASE h # pend[t].g
    <3>1. \A u \in Tasks : \/ pend'[u] = pend[u]
                           \/ pend'[u].g # h /\ pend[u].g # h
      BY <2>1, <2>2, <2>4
    <3> QED BY <2>1, <3>1 DEF Follows, FollowsGoal, Known
  <2> QED BY <2>3, <2>4
<1>9. CASE UpWrites
  BY <1>1, <1>2, <1>3, <1>4, <1>5, <1>6, <1>8, <1>9, TaskNames
  DEF UpWrites, UpUpd, SetConcurrencyCap, Unwritten, Fresh, Idle
<1>10. CASE BootWrites BY <1>1, <1>2, <1>3, <1>4, <1>7, <1>8, <1>10, TaskNames DEF BootWrites, Unwritten
<1> QED BY <1>9, <1>10

\* No new timeout decides on a goal that is not paused.
LEMMA NoTimeoutStays ==
    ASSUME TypeInv, TaskInv, UpStep, NEW g \in Goals, NoTimeout(g), mem[g].status # "Paused"
    PROVE  NoTimeout(g)'
<1>0. Plans /\ UpAsks /\ UpMove BY UpAsking, UpMoves DEF TaskInv
<1> SUFFICES ASSUME NEW q \in Questions
             PROVE  /\ timer'[q].at = "checked" => timer'[q].g # g
                    /\ todo'[Timer(q)] # <<CallStatus(g, "Cancelled")>>
  BY DEF NoTimeout
<1>1. timer'[q].at = "checked" => timer'[q].g # g
  BY <1>0 DEF UpAsks, TimerMoves, StillPending, NoTimeout
<1>2. todo'[Timer(q)] # <<CallStatus(g, "Cancelled")>>
  <2>1. CASE todo' = todo BY <2>1 DEF NoTimeout
  <2>2. ASSUME NEW t \in Tasks, NEW r, TaskMove(t, r)
        PROVE  todo'[Timer(q)] # <<CallStatus(g, "Cancelled")>>
    <3>1. todo'[t] = r /\ \A u \in Tasks : u # t => todo'[u] = todo[u]
      BY <1>0, <2>2, TodoIs DEF TaskMove
    <3>2. CASE t # Timer(q) BY <3>1, <3>2, TaskNames DEF NoTimeout
    <3>3. CASE t = Timer(q)
      <4>1. \/ r = <<>>
            \/ timer[q].at = "checked" /\ r = <<CallStatus(timer[q].g, "Cancelled")>>
        BY <2>2, <3>3 DEF TaskMove, TaskNext
      <4>2. \A x : <<CallStatus(x, "Cancelled")>> = <<CallStatus(g, "Cancelled")>> => x = g
        BY DEF CallStatus
      <4> QED BY <3>1, <3>3, <4>1, <4>2, Tuples DEF NoTimeout
    <3> QED BY <3>2, <3>3
  <2> QED BY <1>0, <2>1, <2>2 DEF UpMove
<1> QED BY <1>1, <1>2

Unpaused(g) == /\ mem[g].status # "Paused" /\ store[g].status # "Paused"
               /\ \A t \in Tasks : pend[t].g = g => pend[t].row.status # "Paused"

\* Only a goal that the orchestrator knows is paused.
LEMMA UnpausedStays ==
    ASSUME TypeInv, UpWrites \/ BootWrites, NEW h \in Goals, Unpaused(h),
           intent[h].status # "Paused", ~sig[h].on
    PROVE  Unpaused(h)'
<1>0. RowsOK /\ NoRow.status # "Paused" BY DEF TypeInv, NoRow
<1>1. CASE UNCHANGED <<mem, pend, store>> BY <1>1 DEF Unpaused
<1>2. ASSUME NEW t \in Tasks, NEW g \in Goals, NEW row, Write(t, g, row), store' = store,
             g = h => row.status # "Paused"
      PROVE  Unpaused(h)'
  <2>1. /\ mem'[g] = row /\ \A x \in Goals : x # g => mem'[x] = mem[x]
        /\ pend'[t].g = g /\ pend'[t].row = row /\ \A u \in Tasks : u # t => pend'[u] = pend[u]
    BY <1>0, <1>2, WriteIs
  <2>2. mem'[h].status # "Paused" BY <1>2, <2>1 DEF Unpaused
  <2>3. \A u \in Tasks : pend'[u].g = h => pend'[u].row.status # "Paused" BY <1>2, <2>1 DEF Unpaused
  <2> QED BY <1>2, <2>2, <2>3 DEF Unpaused
<1>3. ASSUME NEW t \in Tasks, NEW g \in Goals, NEW row, Upd(t, g, row), 
             Known(g) /\ g = h => row.status # "Paused"
      PROVE  Unpaused(h)'
  BY <1>1, <1>2, <1>3, UpdEffect
<1>4. ASSUME NEW t \in Tasks, NEW g \in Goals, NEW row \in LiveRows, NEW enqueue, NEW rest,
             Admit(t, g, row, enqueue, rest)
      PROVE  Unpaused(h)'
  <2>1. ASSUME NEW s \in {"Running", "Queued"}, Write(t, g, AdmitRow(row, s)) PROVE Unpaused(h)'
    <3>1. AdmitRow(row, s).status # "Paused" BY AdmitRowIs
    <3>2. store' = store BY <1>4, AdmitEffect
    <3> QED BY <1>2, <2>1, <3>1, <3>2
  <2> QED BY <1>1, <1>4, <2>1, AdmitEffect
<1>5. ASSUME NEW t \in Tasks, Upsert(t) PROVE Unpaused(h)'
  <2> DEFINE g == pend[t].g
  <2>1. g \in Goals BY <1>0, <1>5, WriteIsNot DEF Upsert, RowsOK
  <2>2. /\ UNCHANGED mem /\ store'[g] = pend[t].row
        /\ \A x \in Goals : x # g => store'[x] = store[x]
        /\ pend'[t] = NoWrite /\ \A u \in Tasks : u # t => pend'[u] = pend[u]
    BY <1>0, <1>5, <2>1 DEF Upsert, RowsOK
  <2>3. store'[h].status # "Paused" BY <2>2 DEF Unpaused
  <2>4. \A u \in Tasks : pend'[u].g = h => pend'[u].row.status # "Paused"
    BY <2>2, NoWriteIs DEF Unpaused
  <2> QED BY <2>2, <2>3, <2>4 DEF Unpaused
<1>6. ASSUME NEW S, NEW t, NEW rest, PurgeStore(t, S, rest) PROVE Unpaused(h)'
  BY <1>0, <1>6 DEF PurgeStore, Unpaused
<1>7. CASE EvictCompleted
  <2>1. (mem'[h] = mem[h] \/ mem'[h] = NoRow) /\ UNCHANGED <<pend, store>> BY <1>7 DEF EvictCompleted
  <2> QED BY <1>0, <2>1 DEF Unpaused
<1>8. ASSUME NEW g \in Goals, NEW row, NEW t, NEW rest, row.status # "Paused", StoreWrite(t, g, row, rest)
      PROVE  Unpaused(h)'
  BY <1>0, <1>8 DEF StoreWrite, RowsOK, Unpaused
<1>11. ASSUME NEW t \in Tasks, WriteLost(t) PROVE Unpaused(h)'
  <2>1. /\ UNCHANGED <<mem, store>>
        /\ pend'[t] = NoWrite /\ \A u \in Tasks : u # t => pend'[u] = pend[u]
    BY <1>0, <1>11 DEF WriteLost, RowsOK
  <2>2. \A u \in Tasks : pend'[u].g = h => pend'[u].row.status # "Paused"
    BY <2>1, NoWriteIs DEF Unpaused
  <2> QED BY <2>1, <2>2 DEF Unpaused
<1>9. CASE UpWrites
  <2>1. ASSUME NEW t \in Tasks, NEW g \in Goals, NEW row, UpUpd(t, g, row) PROVE Unpaused(h)'
    <3>1. Upd(t, g, row) /\ (Known(g) => FreshStatus(t, g, row)) BY <2>1 DEF UpUpd
    <3>2. Known(g) /\ g = h => row.status # "Paused" BY <3>1 DEF FreshStatus, Unpaused
    <3> QED BY <1>3, <3>1, <3>2
  <2> QED BY <1>1, <1>4, <1>5, <1>6, <1>7, <1>9, <1>11, <2>1, TaskNames, NewRowOK
          DEF UpWrites, SetConcurrencyCap, Unwritten
<1>10. CASE BootWrites
  BY <1>1, <1>3, <1>4, <1>5, <1>8, <1>10, <1>11, TaskNames DEF BootWrites, Unwritten
<1> QED BY <1>9, <1>10

LEMMA NeverRanStep == ASSUME TypeInv, TaskInv, NeverRan, [Next]_vars PROVE NeverRan'
<1> USE DEF TypeInv
<1> DEFINE Ok(g) == /\ sig[g].on => loop[g] # "none"
                    /\ loop[g] = "none" => Unpaused(g) /\ intent[g].status # "Paused" /\ NoTimeout(g)
<1>a. \A g \in Goals : Ok(g) BY DEF NeverRan, Unpaused
<1>b. (\A g \in Goals : Ok(g)') => NeverRan' BY DEF NeverRan, Unpaused
<1> SUFFICES ASSUME NEW g \in Goals PROVE Ok(g)' BY <1>b
<1>1. CASE phase = "up" /\ UpStep
  <2>1. UpWrites /\ UpDrives /\ intent' = intent BY <1>1, UpRegistry, UpDriver, UpBoot DEF boot
  <2>2. sig'[g].on => loop'[g] # "none" BY <1>a, <2>1 DEF UpDrives
  <2>3. ASSUME loop'[g] = "none" PROVE Unpaused(g)' /\ intent'[g].status # "Paused" /\ NoTimeout(g)'
    <3>1. loop[g] = "none" BY <2>1, <2>3 DEF UpDrives
    <3>2. ~sig[g].on /\ Unpaused(g) /\ intent[g].status # "Paused" /\ NoTimeout(g) BY <1>a, <3>1
    <3>3. Unpaused(g)' BY <2>1, <3>2, UnpausedStays
    <3>4. NoTimeout(g)' BY <1>1, <3>2, NoTimeoutStays DEF Unpaused
    <3> QED BY <2>1, <3>2, <3>3, <3>4
  <2> QED BY <2>2, <2>3
<1>2. CASE phase = "boot" /\ BootStep
  <2>1. BootWrites /\ UNCHANGED <<sig, loop>> BY <1>2, BootRegistry, BootFrame DEF driver
  <2>2. ASSUME loop'[g] = "none" PROVE Unpaused(g)' /\ intent'[g].status # "Paused" /\ NoTimeout(g)'
    <3>1. ~sig[g].on /\ Unpaused(g) /\ intent[g].status # "Paused" /\ NoTimeout(g)
      BY <1>a, <2>1, <2>2
    <3>2. Unpaused(g)' BY <2>1, <3>1, UnpausedStays
    <3>3. /\ Serve \/ UNCHANGED <<timer, intent>>
          /\ \A q \in Questions : todo'[Timer(q)] = todo[Timer(q)]
      BY <1>2, BootFrame, TaskNames
    <3>4. CASE UNCHANGED <<timer, intent>> BY <3>1, <3>2, <3>3, <3>4 DEF NoTimeout
    <3>5. CASE Serve
      <4>1. intent'[g].status # "Paused" BY <3>5 DEF Serve, NoRow
      <4>2. \A q \in Questions : timer'[q] = timer[q] \/ timer'[q].at = "armed" BY <3>5 DEF Serve
      <4>3. NoTimeout(g)' BY <3>1, <3>3, <4>2 DEF NoTimeout
      <4> QED BY <3>2, <4>1, <4>3
    <3> QED BY <3>3, <3>4, <3>5
  <2> QED BY <1>a, <2>1, <2>2
<1>3. CASE CrashAndBoot
  <2>1. ~sig'[g].on BY <1>3 DEF CrashAndBoot, NoSig
  <2>2. ASSUME loop'[g] = "none" PROVE Unpaused(g)' /\ intent'[g].status # "Paused" /\ NoTimeout(g)'
    <3>1. loop[g] = "none" BY <1>3, <2>2 DEF CrashAndBoot
    <3>2. /\ mem'[g] = NoRow /\ store' = store /\ intent' = store
          /\ \A t \in Tasks : pend'[t] = NoWrite /\ todo'[t] = <<>>
          /\ \A q \in Questions : timer'[q].at = "none"
      BY <1>3 DEF CrashAndBoot
    <3>3. Unpaused(g)' /\ intent'[g].status # "Paused"
      BY <1>a, <3>1, <3>2, NoWriteIs DEF Unpaused, NoRow
    <3>4. NoTimeout(g)' BY <3>2, Tuples, TaskNames DEF NoTimeout
    <3> QED BY <3>3, <3>4
  <2> QED BY <2>1, <2>2
<1>4. CASE UNCHANGED vars
  BY <1>a, <1>4 DEF Unpaused, NoTimeout, vars, registry, driver, asking, boot
<1> QED BY <1>1, <1>2, <1>3, <1>4, StepCases

\* What the purge of an eviction can find under the name of an evicted goal.
LEMMA PurgeStep == ASSUME TypeInv, TaskInv, NeverRan, PurgeSpares, [Next]_vars PROVE PurgeSpares'
<1>0. RowsOK /\ Plans BY DEF TypeInv, TaskInv
<1> DEFINE Spared(g) == mem[g].status \notin Terminal \cup {"Paused"} /\ NoTimeout(g)
<1> SUFFICES ASSUME NEW S \in SUBSET Goals, todo'[Op] = <<CallPurge(S)>>, NEW g \in S, Known(g)'
             PROVE  Spared(g)'
  BY DEF PurgeSpares
<1>1. CASE phase = "up" /\ UpStep
  <2>1. UpWrites /\ UpMove /\ UpDrives BY <1>1, UpRegistry, UpMoves, UpDriver
  <2>2. ASSUME EvictCompleted PROVE FALSE
    <3>1. PICK R \in SUBSET Goals : /\ mem' = [h \in Goals |-> IF h \in R THEN NoRow ELSE mem[h]]
                                    /\ Then(Op, <<CallPurge(R)>>)
      BY <2>2 DEF EvictCompleted
    <3>2. <<CallPurge(R)>> = <<CallPurge(S)>> BY <1>0, <3>1, TodoIs, TaskNames
    <3>3. R = S BY <3>2 DEF CallPurge
    <3> QED BY <3>1, <3>3 DEF Known
  <2>3. todo[Op] = <<CallPurge(S)>>
    <3>1. CASE todo' = todo BY <3>1
    <3>2. ASSUME NEW t \in Tasks, NEW r, TaskMove(t, r) PROVE todo[Op] = <<CallPurge(S)>>
      <4>1. todo'[t] = r /\ \A u \in Tasks : u # t => todo'[u] = todo[u]
        BY <1>0, <3>2, TodoIs DEF TaskMove
      <4>2. CASE t # Op BY <4>1, <4>2, TaskNames
      <4>3. CASE t = Op BY <2>2, <3>2, <4>1, <4>3 DEF TaskMove, TaskNext, OpNext
      <4> QED BY <4>2, <4>3
    <3> QED BY <2>1, <3>1, <3>2 DEF UpMove
  <2>4. CASE Known(g)
    <3>1. Spared(g) BY <2>3, <2>4 DEF PurgeSpares
    <3>2. NoTimeout(g)' BY <1>1, <3>1, NoTimeoutStays
    <3>3. mem'[g].status \notin Terminal \cup {"Paused"}
      <4>1. CASE mem' = mem BY <3>1, <4>1
      <4>2. ASSUME NEW t \in Tasks, NEW h \in Goals, NEW row, UpUpd(t, h, row)
            PROVE  mem'[g].status \notin Terminal \cup {"Paused"}
        <5>1. CASE h # g BY <1>0, <3>1, <4>1, <4>2, <5>1, UpdEffect, WriteIs DEF UpUpd
        <5>2. CASE h = g
          <6>1. FreshStatus(t, g, row) BY <2>4, <4>2, <5>2 DEF UpUpd
          <6>2. row.status \notin Terminal \cup {"Paused"} BY <2>3, <3>1, <6>1 DEF FreshStatus
          <6>3. mem'[g] = row BY <1>0, <2>4, <4>2, <5>2, UpdEffect, WriteIs DEF UpUpd
          <6> QED BY <6>2, <6>3
        <5> QED BY <5>1, <5>2
      <4>3. ASSUME NEW h \in Goals, NEW enqueue, NEW rest, Admit(Disp(h), h, NewRow, enqueue, rest)
            PROVE  mem'[g].status \notin Terminal \cup {"Paused"}
        <5>1. ASSUME NEW s \in {"Running", "Queued"}, Write(Disp(h), h, AdmitRow(NewRow, s))
              PROVE  mem'[g].status \notin Terminal \cup {"Paused"}
          <6>1. AdmitRow(NewRow, s).status = s BY AdmitRowIs, NewRowOK
          <6>2. mem'[g] = mem[g] \/ mem'[g] = AdmitRow(NewRow, s)
            BY <1>0, <5>1, WriteIs, TaskNames
          <6> QED BY <3>1, <6>1, <6>2 DEF Terminal
        <5> QED BY <4>1, <4>3, <5>1, AdmitEffect
      <4> QED BY <2>1, <2>2, <4>1, <4>2, <4>3 DEF UpWrites, Upsert, WriteLost, PurgeStore, SetConcurrencyCap, Unwritten
    <3> QED BY <3>2, <3>3
  <2>5. CASE ~Known(g)
    <3>1. PICK enqueue \in BOOLEAN : \E rest : Fresh(g) /\ Admit(Disp(g), g, NewRow, enqueue, rest)
      <4>1. mem' # mem BY <2>5 DEF Known
      <4>2. ASSUME NEW t \in Tasks, NEW h \in Goals, NEW row, UpUpd(t, h, row) PROVE FALSE
        <5>1. CASE h # g BY <1>0, <2>5, <4>1, <4>2, <5>1, UpdEffect, WriteIs DEF UpUpd, Known
        <5>2. CASE h = g BY <2>5, <4>1, <4>2, <5>2, UpdEffect DEF UpUpd
        <5> QED BY <5>1, <5>2
      <4>3. PICK h \in Goals, enqueue \in BOOLEAN :
               \E rest : Fresh(h) /\ Admit(Disp(h), h, NewRow, enqueue, rest)
        BY <2>1, <2>2, <4>1, <4>2 DEF UpWrites, Upsert, WriteLost, PurgeStore, SetConcurrencyCap, Unwritten
      <4>4. h = g
        <5>1. PICK s \in {"Running", "Queued"} : Write(Disp(h), h, AdmitRow(NewRow, s))
          BY <4>1, <4>3, AdmitEffect
        <5> QED BY <1>0, <2>5, <5>1, WriteIs, TaskNames DEF Known
      <4> QED BY <4>3, <4>4
    <3>2. loop[g] = "none" BY <3>1 DEF Fresh
    <3>3. NoTimeout(g) /\ mem[g].status # "Paused" BY <3>2 DEF NeverRan
    <3>4. NoTimeout(g)' BY <1>1, <3>3, NoTimeoutStays
    <3>5. PICK s \in {"Running", "Queued"} : Write(Disp(g), g, AdmitRow(NewRow, s))
      <4>1. mem' # mem BY <2>5 DEF Known
      <4> QED BY <3>1, <4>1, AdmitEffect
    <3>6. mem'[g] = AdmitRow(NewRow, s) /\ AdmitRow(NewRow, s).status = s
      BY <1>0, <3>5, WriteIs, TaskNames, AdmitRowIs, NewRowOK
    <3> QED BY <3>4, <3>6 DEF Terminal
  <2> QED BY <2>4, <2>5
<1>2. CASE phase = "boot" /\ BootStep
  <2>1. todo[Op] = <<>> /\ todo'[Op] = todo[Op]
    BY <1>2, BootFrame, TaskNames DEF TaskInv, Booting, Idle
  <2> QED BY <2>1, NotPurge
<1>3. CASE CrashAndBoot
  <2>1. todo'[Op] = <<>> BY <1>3, TaskNames DEF CrashAndBoot
  <2> QED BY <2>1, NotPurge
<1>4. CASE UNCHANGED vars
  BY <1>4 DEF PurgeSpares, NoTimeout, Known, vars, registry, asking
<1> QED BY <1>1, <1>2, <1>3, <1>4, StepCases

-----------------------------------------------------------------------------
(***************************************************************************)
(* Questions and answers.                                                  *)
(***************************************************************************)
LEMMA UpHistory ==
    ASSUME UpStep
    PROVE  /\ late' = late \/ \E q \in Questions : TimerCheck(q)
           /\ answered' = answered \/ ReplyResume
<1>1. CASE UNCHANGED asking BY <1>1 DEF asking
<1>2. CASE OpStep \/ ReplyStep \/ UpFails \/ (\E g \in Goals : SpawnStep(g) \/ SleepStep(g))
           \/ (\E q \in Questions : TimerStep(q)) \/ (\E t \in Tasks \ {Boot} : Upsert(t))
  BY <1>2 DEF OpStep, OpCall, ReplyStep, SpawnStep, SleepStep, TimerStep, Upsert, Calm, asking,
              UpFails, UpsertFails, PurgeFails
<1>3. CASE \E g \in Goals : Dispatch(g) \/ DispatchAudit(g) \/ GoalTask(g)
  BY <1>1, <1>3 DEF Dispatch, DispatchAudit, Fresh, GoalTask, StartTurn, EndTurn, AttemptError, Wake,
              Complete, Goes
<1>4. CASE ControlTool
  BY <1>1, <1>4 DEF ControlTool, CancelAgent, PauseAgent, ResumeAgent, AskUserQuestion, Release,
              SetConcurrencyCap, FlushAgentQueue, EvictCompleted, Control
<1>5. CASE Questioning BY <1>5 DEF Questioning, TimerCheck, TimerCancel, ReplyFind, ReplyResume
<1> QED BY <1>2, <1>3, <1>4, <1>5 DEF UpStep

LEMMA QuestionsAre ==
    /\ Questions \subseteq Nat /\ 0 \notin Questions /\ NoRow.ask = 0
    /\ \A q \in 0..MaxAsks : q # 0 => q \in Questions
BY RegistryAssumption DEF Questions, NoRow, RegistryAssumption

\* The question in the row of a goal after a step.
MemAsk(h) == \/ mem'[h].ask \in {0, mem[h].ask}
             \/ /\ mem'[h].ask = asks /\ todo[Op] = <<CallAsk(h, asks), CallArm(h, asks)>>
                /\ asks' = asks /\ todo'[Op] # todo[Op]
             \/ mem'[h].ask = asks + 1 /\ asks' = asks + 1
LEMMA UpMemAsk == ASSUME TypeInv, UpWrites, NEW h \in Goals PROVE MemAsk(h)
<1>0. RowsOK /\ NoRow.ask = 0 BY QuestionsAre DEF TypeInv
<1>1. CASE mem'[h] = mem[h] BY <1>1 DEF MemAsk
<1>2. CASE mem'[h] = NoRow BY <1>0, <1>2 DEF MemAsk
<1>3. ASSUME NEW t \in Tasks, NEW g \in Goals, NEW row, UpUpd(t, g, row) PROVE MemAsk(h)
  <2>1. CASE Known(g) /\ Write(t, g, row)
    <3>1. mem'[g] = row /\ \A x \in Goals : x # g => mem'[x] = mem[x] BY <1>0, <2>1, WriteIs
    <3>2. FreshAsk(g, row) BY <1>3, <2>1 DEF UpUpd
    <3>3. CASE h = g BY <3>1, <3>2, <3>3 DEF FreshAsk, MemAsk
    <3> QED BY <1>1, <3>1, <3>3
  <2> QED BY <1>1, <1>3, <2>1, UpdEffect DEF UpUpd
<1>4. ASSUME NEW g \in Goals, NEW enqueue, NEW rest, Admit(Disp(g), g, NewRow, enqueue, rest)
      PROVE  MemAsk(h)
  <2>1. ASSUME NEW s \in {"Running", "Queued"}, Write(Disp(g), g, AdmitRow(NewRow, s)) PROVE MemAsk(h)
    <3>1. AdmitRow(NewRow, s).ask = 0 BY AdmitRowIs, NewRowOK
    <3>2. mem'[h] = mem[h] \/ mem'[h] = AdmitRow(NewRow, s) BY <1>0, <2>1, WriteIs, TaskNames
    <3> QED BY <3>1, <3>2 DEF MemAsk
  <2> QED BY <1>1, <1>4, <2>1, AdmitEffect
<1>5. CASE EvictCompleted
  <2>1. mem'[h] = mem[h] \/ mem'[h] = NoRow BY <1>5 DEF EvictCompleted
  <2> QED BY <1>1, <1>2, <2>1
<1> QED BY <1>1, <1>3, <1>4, <1>5 DEF UpWrites, Upsert, WriteLost, PurgeStore, SetConcurrencyCap, Unwritten

RowAsks(h, q) == \/ mem[h].ask = q \/ store[h].ask = q
                 \/ \E t \in Tasks : pend[t].g = h /\ pend[t].row.ask = q
\* Rows only carry numbers that are already with the goal.
LEMMA RowAsksStep ==
    ASSUME TypeInv, (UpWrites /\ asks' = asks) \/ BootWrites, NEW h \in Goals, NEW q \in Questions,
           RowAsks(h, q)'
    PROVE  Asked(h, q)
<1>0. RowsOK /\ q # 0 /\ NoRow.ask = 0 BY QuestionsAre DEF TypeInv
<1>1. CASE UNCHANGED <<mem, pend, store>> BY <1>1 DEF RowAsks, Asked
<1>2. ASSUME NEW t \in Tasks, NEW g \in Goals, NEW row, Write(t, g, row), store' = store,
             g = h /\ row.ask = q => Asked(h, q)
      PROVE  Asked(h, q)
  <2>1. /\ mem'[g] = row /\ \A x \in Goals : x # g => mem'[x] = mem[x]
        /\ pend'[t].g = g /\ pend'[t].row = row /\ \A u \in Tasks : u # t => pend'[u] = pend[u]
    BY <1>0, <1>2, WriteIs
  <2>2. CASE mem'[h].ask = q BY <1>2, <2>1, <2>2 DEF Asked
  <2>3. CASE store'[h].ask = q BY <1>2, <2>3 DEF Asked
  <2>4. ASSUME NEW u \in Tasks, pend'[u].g = h, pend'[u].row.ask = q PROVE Asked(h, q)
    BY <1>2, <2>1, <2>4 DEF Asked
  <2> QED BY <2>2, <2>3, <2>4 DEF RowAsks
<1>3. ASSUME NEW t \in Tasks, NEW g \in Goals, NEW row, Upd(t, g, row),
             Known(g) /\ g = h /\ row.ask = q => Asked(h, q)
      PROVE  Asked(h, q)
  BY <1>1, <1>2, <1>3, UpdEffect
<1>4. ASSUME NEW t \in Tasks, NEW g \in Goals, NEW row \in LiveRows, NEW enqueue, NEW rest,
             Admit(t, g, row, enqueue, rest), g = h /\ row.ask = q => Asked(h, q)
      PROVE  Asked(h, q)
  <2>1. ASSUME NEW s \in {"Running", "Queued"}, Write(t, g, AdmitRow(row, s)) PROVE Asked(h, q)
    <3>1. AdmitRow(row, s).ask = row.ask BY AdmitRowIs
    <3>2. store' = store BY <1>4, AdmitEffect
    <3> QED BY <1>2, <1>4, <2>1, <3>1, <3>2
  <2> QED BY <1>1, <1>4, <2>1, AdmitEffect
<1>5. ASSUME NEW t \in Tasks, Upsert(t) PROVE Asked(h, q)
  <2> DEFINE g == pend[t].g
  <2>1. g \in Goals BY <1>0, <1>5, WriteIsNot DEF Upsert, RowsOK
  <2>2. /\ UNCHANGED mem /\ store'[g] = pend[t].row
        /\ \A x \in Goals : x # g => store'[x] = store[x]
        /\ pend'[t] = NoWrite /\ \A u \in Tasks : u # t => pend'[u] = pend[u]
    BY <1>0, <1>5, <2>1 DEF Upsert, RowsOK
  <2>3. CASE mem'[h].ask = q BY <2>2, <2>3 DEF Asked
  <2>4. CASE store'[h].ask = q BY <2>2, <2>4 DEF Asked
  <2>5. ASSUME NEW u \in Tasks, pend'[u].g = h, pend'[u].row.ask = q PROVE Asked(h, q)
    BY <2>2, <2>5, NoWriteIs DEF Asked
  <2> QED BY <2>3, <2>4, <2>5 DEF RowAsks
<1>6. ASSUME NEW S, NEW t, NEW rest, PurgeStore(t, S, rest) PROVE Asked(h, q)
  <2>1. UNCHANGED <<mem, pend>> /\ (store'[h] = store[h] \/ store'[h] = NoRow) BY <1>6 DEF PurgeStore
  <2> QED BY <1>0, <2>1 DEF RowAsks, Asked
<1>7. CASE EvictCompleted
  <2>1. (mem'[h] = mem[h] \/ mem'[h] = NoRow) /\ UNCHANGED <<pend, store>> BY <1>7 DEF EvictCompleted
  <2> QED BY <1>0, <2>1 DEF RowAsks, Asked
<1>8. ASSUME NEW g \in Goals, NEW row, NEW t, NEW rest, StoreWrite(t, g, row, rest),
             row = NoRow \/ row.ask = intent[g].ask
      PROVE  Asked(h, q)
  <2>1. UNCHANGED <<mem, pend>> /\ (store'[h] = store[h] \/ (h = g /\ store'[h] = row))
    BY <1>0, <1>8 DEF StoreWrite, RowsOK
  <2> QED BY <1>0, <1>8, <2>1 DEF RowAsks, Asked
<1>11. ASSUME NEW t \in Tasks, WriteLost(t) PROVE Asked(h, q)
  <2>1. /\ UNCHANGED <<mem, store>>
        /\ pend'[t] = NoWrite /\ \A u \in Tasks : u # t => pend'[u] = pend[u]
    BY <1>0, <1>11 DEF WriteLost, RowsOK
  <2>2. ASSUME NEW u \in Tasks, pend'[u].g = h, pend'[u].row.ask = q PROVE Asked(h, q)
    BY <2>1, <2>2, NoWriteIs DEF Asked
  <2> QED BY <2>1, <2>2 DEF RowAsks, Asked
<1>9. CASE UpWrites /\ asks' = asks
  <2>1. ASSUME NEW t \in Tasks, NEW g \in Goals, NEW row, UpUpd(t, g, row) PROVE Asked(h, q)
    <3>1. Upd(t, g, row) /\ (Known(g) => FreshAsk(g, row)) BY <2>1 DEF UpUpd
    <3>2. asks' # asks + 1
      <4>1. asks \in Nat BY RegistryAssumption DEF TypeInv, AskingOK, RegistryAssumption
      <4> QED BY <1>9, <4>1
    <3>3. Known(g) /\ g = h /\ row.ask = q => Asked(h, q) BY <1>0, <3>1, <3>2 DEF FreshAsk, Asked
    <3> QED BY <1>3, <3>1, <3>3
  <2>2. ASSUME NEW g \in Goals, NEW enqueue, NEW rest, Admit(Disp(g), g, NewRow, enqueue, rest)
        PROVE  Asked(h, q)
    BY <1>0, <1>4, <2>2, NewRowOK, TaskNames
  <2> QED BY <1>1, <1>5, <1>6, <1>7, <1>9, <1>11, <2>1, <2>2 DEF UpWrites, SetConcurrencyCap, Unwritten
<1>10. CASE BootWrites
  <2>1. \A g \in Goals : g = h /\ intent[g].ask = q => Asked(h, q) BY DEF Asked
  <2> QED BY <1>1, <1>3, <1>4, <1>5, <1>8, <1>10, <1>11, <2>1, TaskNames DEF BootWrites, Unwritten
<1> QED BY <1>9, <1>10

LEMMA OpAsks ==
    ASSUME Plans, UpMove, NEW g \in Goals, todo'[Op] = <<CallAsk(g, asks'), CallArm(g, asks')>>
    PROVE  \/ AskUserQuestion(g)
           \/ asks' = asks /\ todo'[Op] = todo[Op]
<1>1. CASE todo' = todo /\ asks' = asks BY <1>1
<1>2. ASSUME NEW t \in Tasks, NEW r, TaskMove(t, r)
      PROVE  AskUserQuestion(g) \/ (asks' = asks /\ todo'[Op] = todo[Op])
  <2>1. todo'[t] = r /\ \A u \in Tasks : u # t => todo'[u] = todo[u]
    BY <1>2, TodoIs DEF TaskMove
  <2>2. CASE t # Op BY <1>2, <2>1, <2>2, TaskNames DEF TaskMove
  <2>3. CASE t = Op
    <3>1. OpNext(todo'[Op]) BY <1>2, <2>1, <2>3 DEF TaskMove, TaskNext
    <3>2. todo'[Op] # <<CallArm(g, asks)>> OBVIOUS
    <3> QED BY <3>1, <3>2 DEF OpNext
  <2> QED BY <2>2, <2>3
<1> QED BY <1>1, <1>2 DEF UpMove

\* A new question gives its number to its goal.
LEMMA AskUserAsks ==
    ASSUME TypeInv, TaskInv, NEW g \in Goals, AskUserQuestion(g), NEW h \in Goals, NEW q \in Questions,
           Asked(h, q)'
    PROVE  /\ Asked(h, q) \/ (h = g /\ q = asks + 1)
           /\ mem'[h].ask = mem[h].ask \/ todo'[Op] # <<CallAsk(g, asks'), CallArm(g, asks')>>
<1>0. RowsOK /\ Plans BY DEF TypeInv, TaskInv
<1>1. Known(g) /\ asks' = asks + 1 /\ UNCHANGED <<reply, intent>>
  BY DEF AskUserQuestion, Control, asking, boot
<1>2. mem[g] \in LiveRows BY <1>0, <1>1, KnownIsLive
<1>3. asks + 1 \in 0..MaxAsks
  BY RegistryAssumption DEF AskUserQuestion, TypeInv, AskingOK, RegistryAssumption
<1>4. PICK row, r : /\ Update(Op, g, row, r) /\ row.ask \in {mem[g].ask, asks + 1}
                    /\ \/ r = <<CallAsk(g, asks'), CallArm(g, asks')>> /\ row.ask = mem[g].ask
                       \/ r = <<CallArm(g, asks')>>
  <2>1. CASE sig[g].on
    <3>1. SetStatus(Op, g, "Paused", <<CallAsk(g, asks'), CallArm(g, asks')>>)
      BY <1>1, <2>1 DEF AskUserQuestion
    <3>2. "Paused" \in Status \ {"absent", "Sleeping"} BY DEF Status
    <3>3. WithStatus(mem[g], "Paused").ask = mem[g].ask BY <1>2, <3>2, StatusRow
    <3> QED BY <3>1, <3>3 DEF SetStatus
  <2>2. CASE ~sig[g].on
    <3>1. SetAskPending(Op, g, asks + 1, <<CallArm(g, asks')>>) BY <1>1, <2>2 DEF AskUserQuestion
    <3>2. [mem[g] EXCEPT !.ask = asks + 1].ask = asks + 1 BY <1>2, <1>3, AskRow
    <3> QED BY <3>1, <3>2 DEF SetAskPending
  <2> QED BY <2>1, <2>2
<1>5. Write(Op, g, row) /\ Then(Op, r) /\ store' = store BY <1>1, <1>4 DEF Update
<1>6. /\ mem'[g] = row /\ \A x \in Goals : x # g => mem'[x] = mem[x]
      /\ pend'[Op].g = g /\ pend'[Op].row = row /\ \A u \in Tasks : u # Op => pend'[u] = pend[u]
  BY <1>0, <1>5, WriteIs, TaskNames
<1>7. todo'[Op] = r BY <1>0, <1>5, TodoIs, TaskNames
<1>8. Asked(h, q) \/ (h = g /\ q = asks + 1)
  <2>1. CASE mem'[h].ask = q BY <1>4, <1>6, <2>1 DEF Asked
  <2>2. CASE store'[h].ask = q \/ intent'[h].ask = q \/ (reply'.g = h /\ reply'.q = q)
    BY <1>1, <1>5, <2>2 DEF Asked
  <2>3. ASSUME NEW u \in Tasks, pend'[u].g = h, pend'[u].row.ask = q
        PROVE  Asked(h, q) \/ (h = g /\ q = asks + 1)
    <3>1. CASE u = Op BY <1>4, <1>6, <2>3, <3>1 DEF Asked
    <3>2. CASE u # Op BY <1>6, <2>3, <3>2 DEF Asked
    <3> QED BY <3>1, <3>2
  <2>4. ASSUME todo'[Op] = <<CallAsk(h, asks'), CallArm(h, asks')>>, q = asks'
        PROVE  h = g /\ q = asks + 1
    <3>1. <<CallAsk(h, asks'), CallArm(h, asks')>> \in
             {<<CallAsk(g, asks'), CallArm(g, asks')>>, <<CallArm(g, asks')>>} BY <1>4, <1>7, <2>4
    <3>2. h = g BY <3>1 DEF CallAsk, CallArm
    <3> QED BY <1>1, <2>4, <3>2
  <2> QED BY <2>1, <2>2, <2>3, <2>4 DEF Asked
<1>9. mem'[h].ask = mem[h].ask \/ todo'[Op] # <<CallAsk(g, asks'), CallArm(g, asks')>>
  <2>1. <<CallArm(g, asks')>> # <<CallAsk(g, asks'), CallArm(g, asks')>> OBVIOUS
  <2> QED BY <1>4, <1>6, <1>7, <2>1
<1> QED BY <1>8, <1>9

\* Every other step keeps the numbers where they are.
LEMMA AskedStep ==
    ASSUME TypeInv, TaskInv, phase = "up", UpStep, asks' = asks, NEW h \in Goals, NEW q \in Questions,
           Asked(h, q)'
    PROVE  Asked(h, q)
<1>0. Plans /\ UpWrites /\ UpAsks /\ UpMove /\ intent' = intent
  BY UpRegistry, UpAsking, UpMoves, UpBoot DEF TaskInv, boot
<1>1. CASE RowAsks(h, q)' BY <1>0, <1>1, RowAsksStep
<1>2. CASE intent'[h].ask = q BY <1>0, <1>2 DEF Asked
<1>3. CASE reply'.g = h /\ reply'.q = q
  <2>1. CASE reply' = reply BY <1>3, <2>1 DEF Asked
  <2>2. ASSUME NEW g \in Goals, ReplyFind(g) PROVE Asked(h, q)
    BY <1>3, <2>2 DEF ReplyFind, Asked
  <2>3. CASE ReplyResume
    <3>1. reply'.q = 0 BY <2>3 DEF ReplyResume
    <3> QED BY <1>3, <3>1, QuestionsAre
  <2> QED BY <1>0, <2>1, <2>2, <2>3 DEF UpAsks
<1>4. CASE todo'[Op] = <<CallAsk(h, asks'), CallArm(h, asks')>> /\ q = asks'
  <2>1. ~AskUserQuestion(h)
    <3>1. asks \in Nat BY RegistryAssumption DEF TypeInv, AskingOK, RegistryAssumption
    <3>2. asks + 1 # asks BY <3>1
    <3> QED BY <3>2 DEF AskUserQuestion
  <2>2. todo'[Op] = todo[Op] BY <1>0, <1>4, <2>1, OpAsks
  <2> QED BY <1>4, <2>2 DEF Asked
<1> QED BY <1>1, <1>2, <1>3, <1>4 DEF Asked, RowAsks

LEMMA OneGoalStep == ASSUME TypeInv, TaskInv, OneGoalAsks, [Next]_vars PROVE OneGoalAsks'
<1>0. RowsOK /\ asks \in Nat
  BY RegistryAssumption DEF TypeInv, AskingOK, RegistryAssumption
<1>1. ASSUME asks' = asks, \A h \in Goals, q \in Questions : Asked(h, q)' => Asked(h, q)
      PROVE  OneGoalAsks'
  BY <1>1 DEF OneGoalAsks
<1>2. CASE phase = "up" /\ UpStep
  <2>1. UpAsks BY <1>2, UpAsking
  <2>2. CASE asks' = asks BY <1>1, <1>2, <2>2, AskedStep
  <2>3. ASSUME NEW g \in Goals, AskUserQuestion(g), asks' = asks + 1 PROVE OneGoalAsks'
    <3>1. \A h \in Goals, q \in Questions : Asked(h, q)' => Asked(h, q) \/ (h = g /\ q = asks + 1)
      BY <2>3, AskUserAsks
    <3>2. \A h \in Goals, q \in Questions : Asked(h, q) => q <= asks /\ q # asks + 1
      BY <1>0, QuestionsAre DEF OneGoalAsks
    <3>3. \A q \in Questions : q <= asks => q <= asks' BY <1>0, <2>3, QuestionsAre
    <3>4. asks + 1 <= asks' BY <1>0, <2>3
    <3> QED BY <3>1, <3>2, <3>3, <3>4 DEF OneGoalAsks
  <2> QED BY <2>1, <2>2, <2>3 DEF UpAsks
<1>3. CASE phase = "boot" /\ BootStep
  <2>1. BootWrites /\ asks' = asks /\ reply' = reply BY <1>3, BootRegistry, BootFrame
  <2>2. todo'[Op] = <<>> BY <1>3, BootFrame, TaskNames DEF TaskInv, Booting, Idle
  <2>3. ASSUME NEW h \in Goals, NEW q \in Questions, Asked(h, q)' PROVE Asked(h, q)
    <3>1. CASE RowAsks(h, q)' BY <2>1, <3>1, RowAsksStep
    <3>2. CASE intent'[h].ask = q
      <4>1. intent'[h] = intent[h] \/ intent'[h] = NoRow BY <1>3, BootFrame DEF Serve
      <4> QED BY <3>2, <4>1, QuestionsAre DEF Asked
    <3>3. CASE reply'.g = h /\ reply'.q = q BY <2>1, <3>3 DEF Asked
    <3> QED BY <2>2, <2>3, <3>1, <3>2, <3>3, Tuples DEF Asked, RowAsks
  <2> QED BY <1>1, <2>1, <2>3
<1>4. CASE CrashAndBoot
  <2>1. ASSUME NEW h \in Goals, NEW q \in Questions, Asked(h, q)' PROVE Asked(h, q)
    <3>1. /\ mem'[h] = NoRow /\ store' = store /\ intent' = store /\ reply'.g = NoGoal
          /\ \A t \in Tasks : pend'[t] = NoWrite /\ todo'[t] = <<>>
      BY <1>4 DEF CrashAndBoot
    <3>2. reply'.g # h BY <3>1, RegistryAssumption DEF RegistryAssumption
    <3> QED BY <2>1, <3>1, <3>2, QuestionsAre, NoWriteIs, Tuples, TaskNames DEF Asked
  <2> QED BY <1>1, <1>4, <2>1 DEF CrashAndBoot
<1>5. CASE UNCHANGED vars
  BY <1>5 DEF OneGoalAsks, Asked, vars, registry, asking, bounds, boot
<1> QED BY <1>2, <1>3, <1>4, <1>5, StepCases

\* The row of an answered question does not come back.
LEMMA AnsweredStep ==
    ASSUME TypeInv, TaskInv, OneGoalAsks, AnsweredGone, [Next]_vars
    PROVE  AnsweredGone'
<1>0. RowsOK /\ Plans /\ AskingOK /\ ReplyIdle /\ asks \in Nat /\ 1..asks \subseteq Nat
  BY RegistryAssumption DEF TypeInv, TaskInv, AskingOK, RegistryAssumption
<1>1. CASE phase = "up" /\ UpStep
  <2>1. /\ UpWrites /\ UpAsks /\ UpMove /\ (answered' = answered \/ ReplyResume)
        /\ \A h \in Goals : MemAsk(h)
    BY <1>1, UpRegistry, UpAsking, UpMoves, UpHistory, UpMemAsk
  <2>2. asks' \in Nat /\ (asks' = asks \/ asks' = asks + 1) BY <1>0, <2>1 DEF UpAsks
  <2>3. CASE ReplyResume /\ answered' # answered
    <3> DEFINE g == reply.g
               n == reply.q
    <3>1. /\ g # NoGoal /\ reply' = [g |-> NoGoal, q |-> 0] /\ asks' = asks
          /\ SetAskPending(Reply, g, 0, <<CallStatus(g, "Running")>>)
          /\ answered' = answered \cup {n}
      BY <2>3 DEF ReplyResume, bounds
    <3>2. g \in Goals /\ n # 0 /\ n \in 0..MaxAsks BY <1>0, <3>1 DEF AskingOK, ReplyIdle
    <3>3. n \in Questions /\ Asked(g, n) BY <3>2, QuestionsAre DEF Asked
    <3>4. n \in 1..asks
      <4>1. n <= asks BY <3>2, <3>3 DEF OneGoalAsks
      <4> QED BY <1>0, <3>2, <3>3, <4>1, QuestionsAre
    <3>5. Update(Reply, g, [mem[g] EXCEPT !.ask = 0], <<CallStatus(g, "Running")>>)
      BY <3>1 DEF SetAskPending
    <3>6. /\ mem'[g].ask = 0 /\ \A h \in Goals : h # g => mem'[h] = mem[h]
      <4>1. CASE Known(g)
        <5>1. Write(Reply, g, [mem[g] EXCEPT !.ask = 0]) BY <3>5, <4>1 DEF Update
        <5>2. 0 \in 0..MaxAsks BY RegistryAssumption DEF RegistryAssumption
        <5>3. [mem[g] EXCEPT !.ask = 0].ask = 0 BY <1>0, <3>2, <4>1, <5>2, KnownIsLive, AskRow
        <5>4. PICK row : row.ask = 0 /\ Write(Reply, g, row) BY <5>1, <5>3
        <5>5. mem'[g] = row /\ \A h \in Goals : h # g => mem'[h] = mem[h]
          BY <1>0, <3>2, <5>4, WriteIs, TaskNames
        <5> QED BY <5>4, <5>5
      <4>2. CASE ~Known(g)
        <5>1. mem' = mem BY <3>5, <4>2 DEF Update
        <5> QED BY <4>2, <5>1, QuestionsAre DEF Known
      <4> QED BY <4>1, <4>2
    <3> HIDE DEF g, n
    <3>7. \A q \in answered', h \in Goals : mem'[h].ask # q
      <4>1. SUFFICES ASSUME NEW q \in answered', NEW h \in Goals, mem'[h].ask = q PROVE FALSE
        OBVIOUS
      <4>2. q # 0 BY <3>1, <3>4, <4>1, <1>0 DEF AnsweredGone
      <4>3. h # g /\ mem[h].ask = q BY <3>6, <4>1, <4>2
      <4>4. q = n BY <3>1, <4>1, <4>3 DEF AnsweredGone
      <4>5. Asked(h, n) BY <4>3, <4>4 DEF Asked
      <4> QED BY <3>2, <3>3, <4>3, <4>5 DEF OneGoalAsks
    <3>8. answered' \subseteq 1..asks' BY <3>1, <3>4 DEF AnsweredGone
    <3>9. ASSUME NEW x \in Goals, todo'[Op] = <<CallAsk(x, asks'), CallArm(x, asks')>>
          PROVE  asks' \notin answered' /\ reply'.q # asks' /\ \A h \in Goals : mem'[h].ask # asks'
      <4>1. ~AskUserQuestion(x) BY <1>0, <3>1 DEF AskUserQuestion
      <4>2. todo'[Op] = todo[Op] BY <1>0, <2>1, <3>9, <4>1, OpAsks
      <4>3. asks \notin answered /\ n # asks /\ \A h \in Goals : mem[h].ask # asks
        BY <3>1, <3>9, <4>2 DEF AnsweredGone, n
      <4>4. asks # 0 BY <3>4, <1>0
      <4>5. reply'.q = 0 BY <3>1
      <4> QED BY <3>1, <3>6, <4>3, <4>4, <4>5
    <3>10. reply'.q = 0 BY <3>1
    <3> QED BY <3>7, <3>8, <3>9, <3>10 DEF AnsweredGone
  <2>4. CASE answered' = answered
    <3>1. answered' \subseteq 1..asks' BY <1>0, <2>2, <2>4 DEF AnsweredGone
    <3>2. \A q \in answered', h \in Goals : mem'[h].ask # q
      <4>1. SUFFICES ASSUME NEW q \in answered, NEW h \in Goals, mem'[h].ask = q PROVE FALSE BY <2>4
      <4>2. q # 0 /\ q # asks + 1 /\ mem[h].ask # q BY <1>0 DEF AnsweredGone
      <4>3. MemAsk(h) BY <2>1
      <4>4. q = asks /\ todo[Op] = <<CallAsk(h, asks), CallArm(h, asks)>> BY <4>1, <4>2, <4>3 DEF MemAsk
      <4> QED BY <4>4 DEF AnsweredGone
    <3>3. reply'.g = NoGoal => reply'.q = 0
      <4>1. ASSUME NEW x \in Goals, ReplyFind(x) PROVE reply'.g # NoGoal
        BY <4>1, RegistryAssumption DEF ReplyFind, RegistryAssumption
      <4>2. ASSUME ReplyResume PROVE reply'.q = 0 BY <4>2 DEF ReplyResume
      <4> QED BY <2>1, <4>1, <4>2 DEF UpAsks, AnsweredGone
    <3>4. ASSUME NEW x \in Goals, todo'[Op] = <<CallAsk(x, asks'), CallArm(x, asks')>>
          PROVE  asks' \notin answered' /\ reply'.q # asks' /\ \A h \in Goals : mem'[h].ask # asks'
      <4>1. CASE asks' = asks /\ todo'[Op] = todo[Op]
        <5>1. asks \notin answered /\ reply.q # asks /\ \A h \in Goals : mem[h].ask # asks
          BY <3>4, <4>1 DEF AnsweredGone
        <5>2. asks # 0 BY <3>4, <4>1 DEF TaskInv, Unarmed
        <5>3. \A h \in Goals : mem'[h].ask # asks
          BY <1>0, <2>1, <4>1, <5>1, <5>2 DEF MemAsk
        <5>4. reply'.q # asks
          <6>1. ASSUME NEW y \in Goals, ReplyFind(y) PROVE reply'.q # asks
            BY <5>1, <6>1 DEF ReplyFind
          <6>2. ASSUME ReplyResume PROVE reply'.q # asks BY <5>2, <6>2 DEF ReplyResume
          <6> QED BY <2>1, <5>1, <6>1, <6>2 DEF UpAsks
        <5> QED BY <2>4, <4>1, <5>1, <5>3, <5>4
      <4>2. CASE AskUserQuestion(x)
        <5>1. asks' = asks + 1 /\ reply' = reply BY <4>2 DEF AskUserQuestion, Control, asking
        <5>2. asks' \notin answered' BY <1>0, <2>4, <5>1 DEF AnsweredGone
        <5>3. asks' \in Questions
          <6>1. asks' \in 0..MaxAsks /\ asks' # 0 BY <1>0, <2>1, <5>1 DEF UpAsks, AskingOK
          <6> QED BY <6>1, QuestionsAre
        <5>4. \A h \in Goals : ~Asked(h, asks') BY <1>0, <5>1, <5>3 DEF OneGoalAsks
        <5>5. reply'.q # asks'
          <6>1. CASE reply.g = NoGoal BY <1>0, <5>1, <6>1 DEF AnsweredGone
          <6>2. CASE reply.g # NoGoal
            <7>1. reply.g \in Goals BY <1>0, <6>2 DEF AskingOK
            <7> QED BY <5>1, <5>4, <7>1 DEF Asked
          <6> QED BY <6>1, <6>2
        <5>6. ASSUME NEW h \in Goals, mem'[h].ask = asks' PROVE FALSE
          <6>0. PICK m \in Questions : m = asks' BY <5>3
          <6>1. Asked(h, m)' BY <5>6, <6>0 DEF Asked
          <6>2. mem'[h].ask = mem[h].ask BY <3>4, <4>2, <5>3, <6>1, AskUserAsks
          <6> QED BY <5>4, <5>6, <6>2 DEF Asked
        <5> QED BY <5>2, <5>5, <5>6
      <4> QED BY <1>0, <2>1, <3>4, <4>1, <4>2, OpAsks
    <3> QED BY <3>1, <3>2, <3>3, <3>4 DEF AnsweredGone
  <2> QED BY <2>1, <2>3, <2>4
<1>2. CASE phase = "boot" /\ BootStep
  <2>1. answered' = {} /\ reply' = reply BY <1>2, BootFrame DEF TaskInv, Booting
  <2>2. todo'[Op] = <<>> BY <1>2, BootFrame, TaskNames DEF TaskInv, Booting, Idle
  <2> QED BY <2>1, <2>2, Tuples DEF AnsweredGone
<1>3. CASE CrashAndBoot
  <2>1. answered' = {} /\ reply'.q = 0 /\ todo'[Op] = <<>> BY <1>3, TaskNames DEF CrashAndBoot
  <2> QED BY <2>1, Tuples DEF AnsweredGone
<1>4. CASE UNCHANGED vars BY <1>4 DEF AnsweredGone, vars, registry, asking, bounds
<1> QED BY <1>1, <1>2, <1>3, <1>4, StepCases

LEMMA LateStep ==
    ASSUME TypeInv, TaskInv, AnsweredGone, TimerRespectsAnswer, [Next]_vars
    PROVE  TimerRespectsAnswer'
<1>1. ASSUME NEW q \in Questions, TimerCheck(q) PROVE late' = {}
  <2>1. timer[q].g \in Goals BY <1>1 DEF TimerCheck, TypeInv, AskingOK
  <2>2. ~(StillPending(q) /\ q \in answered) BY <2>1 DEF StillPending, AnsweredGone
  <2> QED BY <1>1, <2>2 DEF TimerCheck, TimerRespectsAnswer
<1>2. CASE phase = "up" /\ UpStep BY <1>1, <1>2, UpHistory DEF TimerRespectsAnswer
<1>3. CASE phase = "boot" /\ BootStep BY <1>3, BootFrame DEF TimerRespectsAnswer
<1>4. CASE CrashAndBoot BY <1>4 DEF CrashAndBoot, TimerRespectsAnswer
<1>5. CASE UNCHANGED vars BY <1>5 DEF vars, asking, TimerRespectsAnswer
<1> QED BY <1>2, <1>3, <1>4, <1>5, StepCases

-----------------------------------------------------------------------------
(***************************************************************************)
(* The theorems.                                                           *)
(***************************************************************************)
LEMMA NoneTaken ==
    ASSUME RegistryAssumption
    PROVE  /\ (\A g \in Goals : mem[g] = NoRow) /\ capHigh \in Nat => CapHolds
           /\ (\A g \in Goals : mem'[g] = NoRow) /\ capHigh' \in Nat => CapHolds'
<1>1. NoRow.status \notin Counted BY DEF NoRow, Counted
<1>2. Cardinality({}) = 0 BY FS_EmptySet
<1>3. ASSUME \A g \in Goals : mem[g] = NoRow, capHigh \in Nat PROVE CapHolds
  <2>1. {g \in Goals : mem[g].status \in Counted} \ lifted = {} BY <1>1, <1>3
  <2> QED BY <1>2, <1>3, <2>1 DEF CapHolds
<1>4. ASSUME \A g \in Goals : mem'[g] = NoRow, capHigh' \in Nat PROVE CapHolds'
  <2>1. {g \in Goals : mem'[g].status \in Counted} \ lifted' = {} BY <1>1, <1>4
  <2>2. 0 <= capHigh' BY <1>4
  <2>3. Cardinality({g \in Goals : mem'[g].status \in Counted} \ lifted') <= capHigh' BY <1>2, <2>1, <2>2
  <2> QED BY <2>3 DEF CapHolds
<1> QED BY <1>3, <1>4

LEMMA GoalInit == ASSUME Init PROVE GoalInv
<1> USE RegistryAssumption DEF RegistryAssumption
<1>1. /\ \A g \in Goals : /\ mem[g] = NoRow /\ store[g] = NoRow /\ intent[g] = NoRow
                          /\ sig[g] = NoSig /\ loop[g] = "none"
      /\ \A t \in Tasks : todo[t] = <<>> /\ pend[t] = NoWrite
      /\ \A q \in Questions : timer[q].at = "none"
      /\ reply.g = NoGoal /\ reply.q = 0 /\ answered = {} /\ late = {} /\ adrift = {} /\ walk = {}
      /\ asks = 0 /\ phase = "up"
  BY DEF Init
<1>2. TypeInv
  <2>1. RowsOK BY NoRowOK DEF Init, RowsOK
  <2>2. CapOK BY DEF Init, CapOK
  <2>3. NoSig \in SigRecs BY DEF NoSig, SigRecs
  <2>4. DriverOK BY <2>3 DEF Init, DriverOK, SigRecs, LoopPlaces
  <2>5. AskingOK BY DEF Init, AskingOK
  <2>6. QueueOK /\ PhaseOK BY DEF Init, QueueOK, PhaseOK
  <2> QED BY <2>1, <2>2, <2>4, <2>5, <2>6 DEF TypeInv
<1>3. TaskInv
  <2>1. Plans
    <3>1. DOMAIN todo = Tasks BY DEF Init
    <3>2. todo[Op] = <<>> /\ <<>> \in Seq(StatusCalls) BY <1>1, TaskNames
    <3> QED BY <1>1, <3>1, <3>2, TaskNames DEF Plans, OpPlan
  <2>2. Booting /\ Serving BY <1>1, TaskNames DEF Booting, Serving, Idle
  <2>3. TimersIdle /\ ReplyIdle BY <1>1, TaskNames DEF TimersIdle, ReplyIdle, Idle
  <2>4. Unarmed BY <1>1, TaskNames, Tuples DEF Unarmed
  <2> QED BY <2>1, <2>2, <2>3, <2>4 DEF TaskInv
<1>4. DiskInv
  <2>1. Follows BY <1>1, NoWriteIs DEF Follows, Known
  <2>2. \A g \in Goals : NoTimeout(g) BY <1>1, TaskNames, Tuples DEF NoTimeout
  <2>3. NeverRan BY <1>1, <2>2, NoWriteIs DEF NeverRan, NoSig, NoRow
  <2>4. PurgeSpares BY <1>1, TaskNames, NotPurge DEF PurgeSpares
  <2> QED BY <2>1, <2>3, <2>4 DEF DiskInv
<1>5. AskInv
  <2>1. \A g \in Goals, q \in Questions : ~Asked(g, q)
    BY <1>1, NoWriteIs, QuestionsAre, TaskNames, Tuples DEF Asked
  <2>2. OneGoalAsks BY <2>1 DEF OneGoalAsks
  <2>3. AnsweredGone
    <3>1. todo[Op] = <<>> BY <1>1, TaskNames
    <3>2. \A g \in Goals : todo[Op] # <<CallAsk(g, asks), CallArm(g, asks)>> BY <3>1, Tuples
    <3> QED BY <1>1, <3>2 DEF AnsweredGone
  <2> QED BY <1>1, <2>2, <2>3 DEF AskInv, TimerRespectsAnswer
<1>6. CapHolds BY <1>1, <1>2, NoneTaken DEF TypeInv, CapOK
<1> QED BY <1>2, <1>3, <1>4, <1>5, <1>6 DEF GoalInv

LEMMA GoalNext == ASSUME GoalInv, [Next]_vars PROVE GoalInv'
<1> USE DEF GoalInv, DiskInv, AskInv
<1>1. TypeInv' BY TypeStep
<1>2. TaskInv' BY TaskStep
<1>3. NeverRan' /\ PurgeSpares' BY NeverRanStep, PurgeStep
<1>4. OneGoalAsks' /\ AnsweredGone' /\ TimerRespectsAnswer' BY OneGoalStep, AnsweredStep, LateStep
<1>5. Follows' /\ CapHolds'
  <2>1. CASE UpWrites \/ BootWrites BY <2>1, FollowsStep, CapStep
  <2>2. CASE CrashAndBoot
    <3>1. /\ \A g \in Goals : mem'[g] = NoRow
          /\ \A t \in Tasks : pend'[t] = NoWrite
      BY <2>2 DEF CrashAndBoot
    <3>2. Follows' BY <3>1, NoWriteIs DEF Follows, Known
    <3>3. capHigh' \in Nat BY <1>1 DEF TypeInv, CapOK
    <3> QED BY <3>1, <3>2, <3>3, NoneTaken, RegistryAssumption
  <2>3. CASE UNCHANGED vars BY <2>3 DEF Follows, Known, CapHolds, vars, registry
  <2> QED BY <2>1, <2>2, <2>3, StepCases, UpRegistry, BootRegistry
<1> QED BY <1>1, <1>2, <1>3, <1>4, <1>5

\* The invariant of the goal registry: GoalInv holds of every reachable state.
THEOREM GoalInvariant == Spec => []GoalInv
<1>1. Init => GoalInv BY GoalInit
<1>2. GoalInv /\ [Next]_vars => GoalInv' BY GoalNext
<1> QED BY <1>1, <1>2, PTL DEF Spec

\* However dispatches, control calls, restarts and their writes interleave, the goals that
\* count against the cap and came through admit are at most as many as the largest cap
\* since boot (AgentRegistry::admit tests and inserts under admit_lock).
THEOREM CapIsKept == Spec => []CapHolds
<1>1. GoalInv => CapHolds BY DEF GoalInv
<1> QED BY <1>1, GoalInvariant, PTL

\* As long as a goal's writes neither failed nor overlapped, the table holds what the map
\* holds whenever none is in flight, through evictions, purges, reattach and failures of
\* the store under other goals (AgentRegistry::persist).
THEOREM DiskFollows == Spec => []StoreFollowsMemory
<1>1. GoalInv => StoreFollowsMemory BY DEF GoalInv, DiskInv, Follows, StoreFollowsMemory, InFlight
<1> QED BY <1>1, GoalInvariant, PTL

\* A timeout never goes ahead after the answer to its question was recorded, for any number
\* of questions, goals and restarts (spawn_ask_timeout_task compares the question).
THEOREM AnswerWins == Spec => []TimerRespectsAnswer
<1>1. GoalInv => TimerRespectsAnswer BY DEF GoalInv, AskInv
<1> QED BY <1>1, GoalInvariant, PTL

\* A reattach that ran to its end has put every goal it keeps back as the table had it, or
\* lost when it was running, in the map and in the table (reattach.rs).
THEOREM RestartRestores == Spec => []RestartKeepsIntent
<1>1. ASSUME GoalInv PROVE RestartKeepsIntent
  <2>1. RowsOK /\ Booting /\ Follows BY <1>1 DEF GoalInv, TypeInv, TaskInv, DiskInv
  <2>2. SUFFICES ASSUME Booted, NEW g \in Goals, Known(g)
                 PROVE  mem[g] = Restored(intent[g]) /\ store[g] = mem[g]
    BY DEF RestartKeepsIntent
  <2>3. phase = "boot" /\ todo[Boot] = <<>> /\ pend[Boot] = NoWrite BY <2>2 DEF Booted, Idle
  <2>4. BootPlan /\ adrift = {} BY <2>1, <2>3 DEF Booting
  <2>5. Settled({}) BY <2>3, <2>4, Tuples DEF BootPlan, Block
  <2>6. mem[g] = Restored(intent[g]) BY <2>2, <2>5 DEF Settled
  <2>7. \A t \in Tasks : pend[t].g # g BY <2>1, <2>3, BootAlone
  <2>8. store[g] = mem[g] BY <2>1, <2>2, <2>4, <2>7 DEF Follows
  <2> QED BY <2>6, <2>8
<1> QED BY <1>1, GoalInvariant, PTL
=============================================================================
