--------------------------- MODULE ControlProofs ----------------------------
(*************************************************************************)
(* The safety invariants of what the operator controls besides goals,    *)
(* each for every value of its constants: the cron entries and the       *)
(* approval of configuration changes.                                    *)
(*************************************************************************)
EXTENDS ConfigApproval, Cron, TLAPS, FiniteSetTheorems

(*************************************************************************)
(* Cron: FiresBounded for any number of entries, retries, faults and     *)
(* ticks. A row the tick has read, or is firing, still has the           *)
(* failure_count of the table, because only its own settlement changes   *)
(* it: so the budget read from the stale row is the right one, and every *)
(* dispatch of a one-shot is a failure counted, a write lost, or the one *)
(* under way.                                                            *)
(*************************************************************************)

Row == [at : Nat, fails : Nat, paused : BOOLEAN]
ReadRows == [id : Entries, fails : Nat]
Dispatches == [id : Entries, fails : Nat, step : {"fired", "failed"}]

TableOK == DOMAIN cron \subseteq Entries /\ cron \in [DOMAIN cron -> Row]
TickOK == clock \in Nat /\ tickAt \in Nat /\ due \subseteq ReadRows
FiringOK == firing \in Dispatches \cup {Nothing}
CountsOK == shots \in [Entries -> Nat] /\ after \in [Entries -> Nat] /\ slack \in [Entries -> Nat]

\* An entry is in the list once, and not while it is fired.
ListedOnce == /\ \A x, y \in due : x.id = y.id => x = y
              /\ \A x \in due : ~Between => x.id # firing.id
\* What was read is still what the table has.
NotStale == /\ \A x \in due : x.id \in DOMAIN cron => x.fails = cron[x.id].fails
            /\ ~Between /\ firing.id \in DOMAIN cron => firing.fails = cron[firing.id].fails
\* The dispatch under way, as a number.
Pending(e) == IF ~Between /\ firing.id = e THEN 1 ELSE 0
Listed(e) == \E x \in due : x.id = e
\* The account of an entry in the table, and of one that has left it.
InTable == \A e \in DOMAIN cron :
              /\ after[e] = 0
              /\ e \in OneShots => /\ cron[e].fails <= MaxRetries
                                   /\ shots[e] <= cron[e].fails + slack[e] + Pending(e)
Gone == \A e \in Entries \ DOMAIN cron :
           /\ Listed(e) => after[e] = 0
           /\ Listed(e) /\ e \in OneShots => shots[e] <= MaxRetries + slack[e]

CronInv == /\ TableOK /\ TickOK /\ FiringOK /\ CountsOK
           /\ ListedOnce /\ NotStale /\ InTable /\ Gone /\ FiresBounded

\* Nothing is being fired exactly when firing is no dispatch.
LEMMA FiringType == ASSUME FiringOK, ~Between PROVE firing \in Dispatches
BY DEF FiringOK, Between

LEMMA DispatchIsFiring == \A d \in Dispatches : d # Nothing
BY DEF Dispatches, Nothing

LEMMA InitCronInv == CronInit => CronInv
<1> SUFFICES ASSUME CronInit PROVE CronInv OBVIOUS
<1> USE DEF CronInit
<1>0. /\ DOMAIN cron = Entries
      /\ \A e \in Entries : cron[e] \in Row /\ cron[e].fails = 0
  BY DEF Row
<1>1. TableOK /\ TickOK /\ FiringOK /\ CountsOK
  <2>1. cron \in [Entries -> Row] BY <1>0
  <2>2. TableOK BY <1>0, <2>1 DEF TableOK
  <2>3. TickOK /\ FiringOK BY DEF TickOK, FiringOK
  <2>4. CountsOK BY DEF CountsOK
  <2> QED BY <2>2, <2>3, <2>4
<1>2. ListedOnce /\ NotStale /\ Gone BY DEF ListedOnce, NotStale, Gone, Listed, Between
<1>3. InTable
  <2>1. \A e \in Entries : Pending(e) = 0 BY DEF Pending, Between
  <2>2. \A e \in Entries : after[e] = 0 /\ shots[e] = 0 /\ slack[e] = 0 OBVIOUS
  <2> QED BY <1>0, <2>1, <2>2, CronAssumption DEF InTable, CronAssumption
<1>4. FiresBounded BY CronAssumption DEF FiresBounded, CronAssumption, Entries
<1> QED BY <1>1, <1>2, <1>3, <1>4 DEF CronInv

\* due_at reads the table: the list is not stale yet, and everything in it is in the table.
LEMMA StepTickBegin == ASSUME CronInv, TickBegin PROVE CronInv'
<1> USE DEF TickBegin
<1>1. TableOK' /\ FiringOK' /\ CountsOK' BY DEF CronInv, TableOK, FiringOK, CountsOK
<1>2. \A x \in due' : /\ x.id \in DOMAIN cron
                      /\ x = [id |-> x.id, fails |-> cron[x.id].fails]
  OBVIOUS
<1>3. TickOK' BY <1>2 DEF CronInv, TickOK, TableOK, ReadRows, Row
<1>4. ListedOnce' BY <1>2 DEF ListedOnce, Between
<1>5. NotStale' BY <1>2 DEF NotStale, Between
<1>6. InTable' BY DEF CronInv, InTable, Pending, Between
<1>7. Gone' BY <1>2 DEF Gone, Listed
<1>8. FiresBounded' BY DEF CronInv, FiresBounded
<1> QED BY <1>1, <1>3, <1>4, <1>5, <1>6, <1>7, <1>8 DEF CronInv

\* The row leaves the list, so it cannot be fired from it again.
LEMMA StepFire == ASSUME CronInv, NEW row \in due, Fire(row) PROVE CronInv'
<1>0. row \in ReadRows /\ row.id \in Entries BY DEF CronInv, TickOK, ReadRows
<1>1. /\ firing' \in Dispatches /\ firing'.id = row.id /\ firing'.fails = row.fails
      /\ ~Between'
  <2>1. PICK ok \in BOOLEAN : firing' = [id |-> row.id, fails |-> row.fails,
                                         step |-> IF ok THEN "fired" ELSE "failed"]
    BY DEF Fire
  <2>2. firing' \in Dispatches BY <1>0, <2>1 DEF Dispatches, ReadRows
  <2> QED BY <2>1, <2>2, DispatchIsFiring DEF Between
<1>2. Between /\ due' = due \ {row} /\ cron' = cron /\ slack' = slack
  BY DEF Fire
<1>3. shots' = [shots EXCEPT ![row.id] = @ + 1] BY DEF Fire
<1>4. after' = IF row.id \in DOMAIN cron THEN after ELSE [after EXCEPT ![row.id] = @ + 1]
  BY DEF Fire
<1>5. \A x \in due' : x \in due /\ x.id # row.id BY <1>2 DEF CronInv, ListedOnce
<1>6. TableOK' /\ TickOK' /\ FiringOK'
  BY <1>1, <1>2 DEF CronInv, TableOK, TickOK, FiringOK, Fire
<1>7. CountsOK' BY <1>0, <1>2, <1>3, <1>4 DEF CronInv, CountsOK
<1>8. ListedOnce' BY <1>1, <1>5 DEF CronInv, ListedOnce
<1>9. NotStale' BY <1>1, <1>2, <1>5 DEF CronInv, NotStale
<1>10. InTable'
  BY <1>0, <1>1, <1>2, <1>3, <1>4, CronAssumption
  DEF CronInv, InTable, Pending, CountsOK, TableOK, Row, CronAssumption
<1>11. Gone'
  <2> SUFFICES ASSUME NEW e \in Entries \ DOMAIN cron', Listed(e)'
               PROVE  after'[e] = 0 /\ (e \in OneShots => shots'[e] <= MaxRetries + slack'[e])
    BY DEF Gone
  <2>1. Listed(e) /\ e # row.id BY <1>5 DEF Listed
  <2>2. after'[e] = after[e] /\ shots'[e] = shots[e] BY <2>1, <1>3, <1>4 DEF CronInv, CountsOK
  <2> QED BY <1>2, <2>1, <2>2 DEF CronInv, Gone
<1>12. FiresBounded'
  <2> SUFFICES ASSUME NEW e \in Entries
               PROVE  /\ e \in OneShots => shots'[e] <= 1 + MaxRetries + slack'[e]
                      /\ after'[e] <= 1
    BY DEF FiresBounded
  <2>1. CASE e # row.id BY <2>1, <1>2, <1>3, <1>4 DEF CronInv, FiresBounded, CountsOK
  <2>2. CASE e = row.id /\ e \in DOMAIN cron
    <3>1. after'[e] = 0 BY <2>2, <1>4 DEF CronInv, InTable
    <3>2. e \in OneShots => shots[e] <= MaxRetries + slack[e]
      BY <2>2, <1>2, CronAssumption
      DEF CronInv, InTable, Pending, CountsOK, TableOK, Row, CronAssumption
    <3> QED BY <2>2, <3>1, <3>2, <1>2, <1>3, CronAssumption DEF CronInv, CountsOK, CronAssumption
  <2>3. CASE e = row.id /\ e \notin DOMAIN cron
    <3>1. Listed(e) BY <2>3 DEF Listed
    <3>2. after[e] = 0 /\ (e \in OneShots => shots[e] <= MaxRetries + slack[e])
      BY <2>3, <3>1 DEF CronInv, Gone
    <3> QED BY <2>3, <3>2, <1>2, <1>3, <1>4, CronAssumption DEF CronInv, CountsOK, CronAssumption
  <2> QED BY <2>1, <2>2, <2>3
<1> QED BY <1>6, <1>7, <1>8, <1>9, <1>10, <1>11, <1>12 DEF CronInv

\* What settling a dispatch leaves in the table: other rows untouched, and the entry's own,
\* if it stays, is a recurring one or one whose retry is within the budget.
LEMMA SettledRows ==
    ASSUME CronInv, ~Between
    PROVE  /\ DOMAIN Settled \subseteq DOMAIN cron
           /\ Settled \in [DOMAIN Settled -> Row]
           /\ \A e \in DOMAIN Settled : e # firing.id => Settled[e] = cron[e]
           /\ \A e \in DOMAIN cron : e # firing.id => e \in DOMAIN Settled
           /\ firing.id \in DOMAIN Settled /\ firing.id \in OneShots =>
                 /\ Settled[firing.id].fails = cron[firing.id].fails + 1
                 /\ Settled[firing.id].fails <= MaxRetries
<1> DEFINE Goal ==
           /\ DOMAIN Settled \subseteq DOMAIN cron
           /\ Settled \in [DOMAIN Settled -> Row]
           /\ \A e \in DOMAIN Settled : e # firing.id => Settled[e] = cron[e]
           /\ \A e \in DOMAIN cron : e # firing.id => e \in DOMAIN Settled
           /\ firing.id \in DOMAIN Settled /\ firing.id \in OneShots =>
                 /\ Settled[firing.id].fails = cron[firing.id].fails + 1
                 /\ Settled[firing.id].fails <= MaxRetries
<1> SUFFICES Goal OBVIOUS
<1>1. firing \in Dispatches BY FiringType DEF CronInv
<1>2. TableOK /\ tickAt \in Nat BY DEF CronInv, TickOK
<1>3. CASE firing.id \notin DOMAIN cron
  <2>1. Settled = cron BY <1>3 DEF Settled
  <2> QED BY <1>2, <1>3, <2>1 DEF TableOK
<1>4. ASSUME NEW r \in Row, firing.id \in DOMAIN cron,
             Settled = [cron EXCEPT ![firing.id] = r],
             firing.id \in OneShots => r.fails = cron[firing.id].fails + 1 /\ r.fails <= MaxRetries
      PROVE  Goal
  BY <1>2, <1>4 DEF TableOK, Goal
<1>5. CASE firing.id \in DOMAIN cron /\ firing.id \in Recurring
  <2> DEFINE r == [at |-> tickAt + 1, fails |-> 0, paused |-> cron[firing.id].paused]
  <2>1. Settled = Advance BY <1>5 DEF Settled
  <2>2. firing.id \notin OneShots BY <1>5, CronAssumption DEF CronAssumption
  <2>3. r \in Row
    <3>1. cron[firing.id] \in Row BY <1>2, <1>5 DEF TableOK
    <3> QED BY <1>2, <3>1 DEF Row
  <2>4. Settled = [cron EXCEPT ![firing.id] = r] BY <2>1 DEF Advance
  <2> QED BY <1>4, <1>5, <2>2, <2>3, <2>4
<1>6. CASE firing.id \in DOMAIN cron /\ firing.id \notin Recurring
           /\ firing.step = "failed" /\ RetryLeft
  <2> DEFINE r == [at |-> tickAt + 1, fails |-> cron[firing.id].fails + 1,
                 paused |-> cron[firing.id].paused]
  <2>1. Settled = ScheduleRetry BY <1>6 DEF Settled
  <2>2. firing.fails = cron[firing.id].fails BY <1>6 DEF CronInv, NotStale
  <2>3. r \in Row /\ r.fails = cron[firing.id].fails + 1
    <3>1. cron[firing.id] \in Row BY <1>2, <1>6 DEF TableOK
    <3>2. cron[firing.id].fails + 1 \in Nat BY <3>1 DEF Row
    <3> QED BY <1>2, <3>1, <3>2 DEF Row
  <2>4. r.fails <= MaxRetries
    BY <1>2, <1>6, <2>2, <2>3, CronAssumption DEF TableOK, Row, RetryLeft, CronAssumption
  <2>5. Settled = [cron EXCEPT ![firing.id] = r] BY <2>1 DEF ScheduleRetry
  <2> QED BY <1>4, <1>6, <2>3, <2>4, <2>5
<1>7. CASE firing.id \in DOMAIN cron /\ firing.id \notin Recurring
           /\ ~(firing.step = "failed" /\ RetryLeft)
  <2>1. Settled = Without(firing.id) BY <1>7 DEF Settled
  <2> QED BY <1>7, <2>1 DEF CronInv, TableOK, Without
<1> QED BY <1>3, <1>5, <1>6, <1>7

LEMMA StepSettle == ASSUME CronInv, SettleFire PROVE CronInv'
<1>0. ~Between /\ firing' = Nothing /\ Between' BY DEF SettleFire, Between
<1>1. firing \in Dispatches /\ firing.id \in Entries
  BY <1>0, FiringType DEF CronInv, Dispatches
<1>2. UNCHANGED <<clock, due, tickAt, shots, after>> BY DEF SettleFire
<1>3. TickOK' /\ FiringOK' /\ ListedOnce'
  BY <1>0, <1>2 DEF CronInv, TickOK, FiringOK, ListedOnce
<1>4. CASE cron' = Settled /\ slack' = slack
  <2>1. TableOK' BY <1>4, <1>0, SettledRows DEF CronInv, TableOK
  <2>2. CountsOK' BY <1>4, <1>2 DEF CronInv, CountsOK
  <2>3. NotStale'
    <3>1. \A x \in due : x.id # firing.id BY <1>0 DEF CronInv, ListedOnce
    <3> QED BY <3>1, <1>0, <1>2, <1>4, SettledRows DEF CronInv, NotStale
  <2>4. InTable'
    <3> SUFFICES ASSUME NEW e \in DOMAIN cron'
                 PROVE  /\ after'[e] = 0
                        /\ e \in OneShots => /\ cron'[e].fails <= MaxRetries
                                             /\ shots'[e] <= cron'[e].fails + slack'[e] + Pending(e)'
      BY DEF InTable
    <3>1. e \in DOMAIN cron /\ e \in Entries BY <1>0, <1>4, SettledRows DEF CronInv, TableOK
    <3>2. after'[e] = 0 BY <3>1, <1>2 DEF CronInv, InTable
    <3>3. Pending(e)' = 0 BY <1>0 DEF Pending
    <3>4. CASE e = firing.id
      <4>1. Pending(e) = 1 BY <3>4, <1>0 DEF Pending
      <4>2. e \in OneShots => /\ cron'[e].fails = cron[e].fails + 1
                              /\ cron'[e].fails <= MaxRetries
        BY <3>4, <1>0, <1>4, SettledRows
      <4>3. e \in OneShots => shots[e] <= cron[e].fails + slack[e] + 1
        BY <3>1, <4>1 DEF CronInv, InTable
      <4>4. cron[e].fails \in Nat /\ slack[e] \in Nat /\ shots[e] \in Nat
        BY <3>1 DEF CronInv, TableOK, Row, CountsOK
      <4> QED BY <1>2, <1>4, <3>2, <3>3, <4>2, <4>3, <4>4
    <3>5. CASE e # firing.id
      <4>1. Pending(e) = 0 BY <3>5 DEF Pending
      <4>2. cron'[e] = cron[e] BY <3>5, <1>0, <1>4, SettledRows
      <4> QED BY <1>2, <1>4, <3>1, <3>2, <3>3, <4>1, <4>2 DEF CronInv, InTable
    <3> QED BY <3>4, <3>5
  <2>5. Gone'
    <3> SUFFICES ASSUME NEW e \in Entries \ DOMAIN cron', Listed(e)'
                 PROVE  after'[e] = 0 /\ (e \in OneShots => shots'[e] <= MaxRetries + slack'[e])
      BY DEF Gone
    <3>1. Listed(e) /\ e # firing.id BY <1>0, <1>2 DEF CronInv, ListedOnce, Listed
    <3>2. e \notin DOMAIN cron BY <3>1, <1>0, <1>4, SettledRows
    <3> QED BY <3>1, <3>2, <1>2, <1>4 DEF CronInv, Gone
  <2>6. FiresBounded' BY <1>2, <1>4 DEF CronInv, FiresBounded
  <2> QED BY <1>3, <2>1, <2>2, <2>3, <2>4, <2>5, <2>6 DEF CronInv
<1>5. CASE slack' = [slack EXCEPT ![firing.id] = @ + 1] /\ cron' = cron
  <2>1. TableOK' BY <1>5 DEF CronInv, TableOK
  <2>2. CountsOK' BY <1>1, <1>2, <1>5 DEF CronInv, CountsOK
  <2>3. NotStale' BY <1>0, <1>2, <1>5 DEF CronInv, NotStale
  <2>4. InTable'
    BY <1>0, <1>1, <1>2, <1>5 DEF CronInv, InTable, Pending, CountsOK, TableOK, Row
  <2>5. \A e \in Entries : slack[e] <= slack'[e] BY <1>1, <1>5 DEF CronInv, CountsOK
  <2>6. Gone' BY <1>2, <1>5, <2>2, <2>5, CronAssumption
              DEF CronInv, Gone, Listed, CountsOK, CronAssumption
  <2>7. FiresBounded' BY <1>2, <2>2, <2>5, CronAssumption
                      DEF CronInv, FiresBounded, CountsOK, CronAssumption
  <2> QED BY <1>3, <2>1, <2>2, <2>3, <2>4, <2>6, <2>7 DEF CronInv
<1> QED BY <1>4, <1>5 DEF SettleFire

\* A pause, a resume and a delete leave failure counts alone.
LEMMA StepPause == ASSUME CronInv, NEW e \in Entries, NEW flag \in BOOLEAN, SetPaused(e, flag)
                   PROVE  CronInv'
<1> USE DEF SetPaused
<1>1. TickOK' /\ FiringOK' /\ CountsOK' BY DEF CronInv, TickOK, FiringOK, CountsOK
<1>2. TableOK' BY DEF CronInv, TableOK, Row
<1>3. DOMAIN cron' = DOMAIN cron /\ \A k \in DOMAIN cron : cron'[k].fails = cron[k].fails
  BY DEF CronInv, TableOK, Row
<1>4. ListedOnce' BY DEF CronInv, ListedOnce, Between
<1>5. NotStale' BY <1>3 DEF CronInv, NotStale, Between
<1>6. InTable' BY <1>3 DEF CronInv, InTable, Pending, Between
<1>7. Gone' BY <1>3 DEF CronInv, Gone, Listed
<1>8. FiresBounded' BY DEF CronInv, FiresBounded
<1> QED BY <1>1, <1>2, <1>4, <1>5, <1>6, <1>7, <1>8 DEF CronInv

LEMMA StepDelete == ASSUME CronInv, NEW e \in Entries, DeleteEntry(e) PROVE CronInv'
<1> USE DEF DeleteEntry
<1>1. TickOK' /\ FiringOK' /\ CountsOK' BY DEF CronInv, TickOK, FiringOK, CountsOK
<1>2. DOMAIN cron' = DOMAIN cron \ {e} /\ \A k \in DOMAIN cron' : cron'[k] = cron[k]
  BY DEF Without
<1>3. TableOK' BY <1>2 DEF CronInv, TableOK, Without
<1>4. ListedOnce' BY DEF CronInv, ListedOnce, Between
<1>5. NotStale' BY <1>2 DEF CronInv, NotStale, Between
<1>6. InTable' BY <1>2 DEF CronInv, InTable, Pending, Between
<1>7. Gone'
  <2>1. Listed(e) /\ e \in OneShots => shots[e] <= MaxRetries + slack[e]
    <3> SUFFICES ASSUME Listed(e), e \in OneShots PROVE shots[e] <= MaxRetries + slack[e]
      OBVIOUS
    <3>1. Pending(e) = 0 BY DEF CronInv, ListedOnce, Listed, Pending
    <3>2. cron[e].fails <= MaxRetries /\ shots[e] <= cron[e].fails + slack[e]
      BY <3>1 DEF CronInv, InTable, TableOK, Row, CountsOK
    <3> QED BY <3>2, CronAssumption DEF CronInv, TableOK, Row, CountsOK, CronAssumption
  <2>2. after[e] = 0 BY DEF CronInv, InTable
  <2> QED BY <1>2, <2>1, <2>2 DEF CronInv, Gone, Listed
<1>8. FiresBounded' BY DEF CronInv, FiresBounded
<1> QED BY <1>1, <1>3, <1>4, <1>5, <1>6, <1>7, <1>8 DEF CronInv

\* A crash pays for the dispatch it cuts off.
LEMMA StepCrash == ASSUME CronInv, CronCrash PROVE CronInv'
<1>1. UNCHANGED <<cron, clock, tickAt, shots, after>> /\ due' = {} /\ firing' = Nothing
  BY DEF CronCrash
<1>2. slack' = IF Between THEN slack ELSE [slack EXCEPT ![firing.id] = @ + 1] BY DEF CronCrash
<1>3. ~Between => firing.id \in Entries BY FiringType DEF CronInv, Dispatches
<1>4. TableOK' /\ TickOK' /\ FiringOK' BY <1>1 DEF CronInv, TableOK, TickOK, FiringOK
<1>5. CountsOK' BY <1>1, <1>2, <1>3 DEF CronInv, CountsOK
<1>6. ListedOnce' /\ NotStale' /\ Gone' BY <1>1 DEF ListedOnce, NotStale, Between, Gone, Listed
<1>7. \A e \in Entries : slack'[e] = slack[e] + Pending(e)
  BY <1>2, <1>3 DEF CronInv, CountsOK, Pending
<1>8. InTable'
  <2>1. \A e \in Entries : Pending(e)' = 0 BY <1>1 DEF Pending, Between
  <2>2. \A e \in Entries : Pending(e) \in {0, 1} BY DEF Pending
  <2> QED BY <1>1, <1>7, <2>1, <2>2 DEF CronInv, InTable, CountsOK, TableOK, Row
<1>9. FiresBounded'
  <2>1. \A e \in Entries : slack[e] <= slack'[e] BY <1>7 DEF CronInv, CountsOK, Pending
  <2> QED BY <1>1, <1>5, <2>1, CronAssumption DEF CronInv, FiresBounded, CountsOK, CronAssumption
<1> QED BY <1>4, <1>5, <1>6, <1>8, <1>9 DEF CronInv

\* The clock, the killswitch and stuttering touch nothing of this.
LEMMA StepIdle ==
    ASSUME CronInv, clock' \in Nat,
           UNCHANGED <<cron, due, tickAt, firing, shots, after, slack>>
    PROVE  CronInv'
<1>1. TableOK' /\ TickOK' /\ FiringOK' /\ CountsOK'
  BY DEF CronInv, TableOK, TickOK, FiringOK, CountsOK
<1>2. ListedOnce' /\ NotStale' BY DEF CronInv, ListedOnce, NotStale, Between
<1>3. InTable' /\ Gone' BY DEF CronInv, InTable, Gone, Pending, Listed, Between
<1>4. FiresBounded' BY DEF CronInv, FiresBounded
<1> QED BY <1>1, <1>2, <1>3, <1>4 DEF CronInv

LEMMA NextCronInv == CronInv /\ [CronNext]_cronVars => CronInv'
<1> SUFFICES ASSUME CronInv, [CronNext]_cronVars PROVE CronInv' OBVIOUS
<1>1. CASE TickBegin BY <1>1, StepTickBegin
<1>2. CASE SettleFire BY <1>2, StepSettle
<1>3. CASE CronCrash BY <1>3, StepCrash
<1>4. ASSUME NEW row \in due, Fire(row) PROVE CronInv' BY <1>4, StepFire
<1>5. ASSUME NEW e \in Entries, DeleteEntry(e) \/ (\E flag \in BOOLEAN : SetPaused(e, flag))
      PROVE  CronInv'
  BY <1>5, StepDelete, StepPause
<1>6. CASE Killswitch \/ CronTick \/ UNCHANGED cronVars
  <2>1. clock' \in Nat BY <1>6 DEF CronInv, TickOK, Killswitch, CronTick, cronVars
  <2>2. UNCHANGED <<cron, due, tickAt, firing, shots, after, slack>>
    BY <1>6 DEF Killswitch, CronTick, cronVars
  <2> QED BY <2>1, <2>2, StepIdle
<1> QED BY <1>1, <1>2, <1>3, <1>4, <1>5, <1>6 DEF CronNext

\* However ticks, pauses, deletes, failed writes and restarts interleave, a one-shot is
\* dispatched at most 1 + max_retries times plus once per lost write, and an entry that has
\* left the table at most once more, for any set of entries and any retry budget
\* (cron_runner.rs, tick_once: fire before write, budget from the row as read).
THEOREM FiresAreBounded == CronSpec => []FiresBounded
<1>1. CronInv => FiresBounded BY DEF CronInv
<1> QED BY InitCronInv, NextCronInv, <1>1, PTL DEF CronSpec

-----------------------------------------------------------------------------
(*************************************************************************)
(* ConfigApproval: YamlFollowsDecisions for any patches, callers and     *)
(* number of parked proposals. The decision travels through a channel,   *)
(* so the invariant says that a channel belongs to one patch whoever     *)
(* holds a side of it, and that what it carries is true of that patch;   *)
(* then a call past its decision is about an approved patch, and so is   *)
(* everything in the snapshot it may restore.                            *)
(*************************************************************************)

ApplyPlaces == {"idle", "read", "await", "patch", "reload"}
ApplyCalls == [place : ApplyPlaces, patch : Patches \cup {"none"}, chan : Nat, snap : SUBSET Patches]
ParkedOK == /\ pending \in [Patches -> Nat] /\ receivers \in [Patches -> Nat]
            /\ parks \in 0..MaxParks /\ DOMAIN decided = Channels
            /\ staged \subseteq Patches /\ approved \subseteq Patches
HandOK == hand = EmptyHand \/ (hand.patch \in Patches /\ hand.chan \in 1..parks)
CallsOK == /\ apply \in [Applies -> ApplyCalls]
           /\ \A a \in Applies : /\ apply[a].place # "idle" => apply[a].patch \in Patches
                                 /\ apply[a].place \in {"read", "await"} => apply[a].chan \in 1..parks
                                 /\ apply[a].chan # 0 => apply[a].place \in {"read", "await"}

\* Some side of channel c is held for patch p.
Uses(p, c) == \/ pending[p] = c \/ receivers[p] = c \/ (hand.chan = c /\ hand.patch = p)
              \/ \E a \in Applies : apply[a].chan = c /\ apply[a].patch = p
\* A channel belongs to one patch, and what it carries is about that patch.
UsesMade == \A p \in Patches, c \in Nat \ {0} : Uses(p, c) => c <= parks
OneOwner == \A p, q \in Patches, c \in Nat \ {0} : Uses(p, c) /\ Uses(q, c) => p = q
AnswersTrue == \A p \in Patches, c \in Channels : Uses(p, c) /\ decided[c] = "approved" => p \in approved
FreshOpen == \A c \in Channels : c > parks => decided[c] # "approved"
ChannelsOK == UsesMade /\ OneOwner /\ AnswersTrue /\ FreshOpen

\* A call past its decision was approved, and so was all its snapshot holds.
PastDecision == \A a \in Applies : /\ apply[a].place \in {"patch", "reload"} =>
                                         apply[a].patch \in approved /\ apply[a].snap \subseteq approved
                                   /\ apply[a].place = "reload" => apply[a].patch \in yaml \cup undone

ApprovalInv == ParkedOK /\ HandOK /\ CallsOK /\ ChannelsOK /\ PastDecision /\ YamlFollowsDecisions

\* No new use of a channel and no new approval on one.
LEMMA NoNewUse ==
    ASSUME ApprovalInv, parks' = parks, DOMAIN decided' = Channels,
           \A p \in Patches, c \in Nat \ {0} : Uses(p, c)' => Uses(p, c),
           \A c \in Channels : decided'[c] = "approved" => decided[c] = "approved",
           approved \subseteq approved'
    PROVE  ChannelsOK'
<1>1. \A c \in Channels : c \in Nat \ {0} BY ApprovalAssumption DEF Channels, ApprovalAssumption
<1>2. UsesMade' BY DEF ApprovalInv, ChannelsOK, UsesMade
<1>3. OneOwner' BY DEF ApprovalInv, ChannelsOK, OneOwner
<1>4. AnswersTrue' BY <1>1 DEF ApprovalInv, ChannelsOK, AnswersTrue
<1>5. FreshOpen' BY DEF ApprovalInv, ChannelsOK, FreshOpen
<1> QED BY <1>2, <1>3, <1>4, <1>5 DEF ChannelsOK

\* The only new use is that of a channel just made.
LEMMA NewChannel ==
    ASSUME ApprovalInv, NEW p0 \in Patches, Park(p0),
           \A p \in Patches, c \in Nat \ {0} : Uses(p, c)' => Uses(p, c) \/ (p = p0 /\ c = parks + 1),
           approved' = approved
    PROVE  ChannelsOK'
<1>1. \A c \in Channels : c \in Nat \ {0} BY ApprovalAssumption DEF Channels, ApprovalAssumption
<1>2. parks \in Nat /\ parks' = parks + 1 /\ parks < MaxParks /\ MaxParks \in Nat
  BY ApprovalAssumption DEF ApprovalInv, ParkedOK, Park, ApprovalAssumption
<1>3. \A c \in Channels : decided'[c] = "approved" => decided[c] = "approved"
  BY DEF Park, Dropping
<1>4. \A p \in Patches, c \in Nat \ {0} : Uses(p, c) => c <= parks
  BY DEF ApprovalInv, ChannelsOK, UsesMade
<1>5. UsesMade' BY <1>2, <1>4 DEF UsesMade
<1>6. OneOwner' BY <1>2, <1>4 DEF ApprovalInv, ChannelsOK, OneOwner
<1>7. FreshOpen' BY <1>1, <1>2, <1>3 DEF ApprovalInv, ChannelsOK, FreshOpen
<1>8. AnswersTrue'
  <2> SUFFICES ASSUME NEW p \in Patches, NEW c \in Channels, Uses(p, c)', decided'[c] = "approved"
               PROVE  p \in approved
    BY DEF AnswersTrue
  <2>1. c # parks + 1 BY <1>2, <1>3 DEF ApprovalInv, ChannelsOK, FreshOpen
  <2> QED BY <1>1, <1>3, <2>1 DEF ApprovalInv, ChannelsOK, AnswersTrue
<1> QED BY <1>5, <1>6, <1>7, <1>8 DEF ChannelsOK

\* Steps of on_inbound, the reaper and propose leave the calls and the file alone.
LEMMA CallsAlone ==
    ASSUME ApprovalInv, UNCHANGED <<apply, yaml, reported, undone>>, approved \subseteq approved',
           parks' \in {parks, parks + 1}, ParkedOK', HandOK', ChannelsOK'
    PROVE  ApprovalInv'
<1>1. parks \in Nat /\ parks <= parks' BY DEF ApprovalInv, ParkedOK
<1>2. CallsOK' BY <1>1 DEF ApprovalInv, CallsOK, ParkedOK
<1>3. PastDecision' BY DEF ApprovalInv, PastDecision
<1>4. YamlFollowsDecisions' BY DEF ApprovalInv, YamlFollowsDecisions
<1> QED BY <1>2, <1>3, <1>4 DEF ApprovalInv

LEMMA CorrelatorKeeps ==
    ASSUME ApprovalInv,
           \/ \E p \in Patches, own \in BOOLEAN, cmd \in {"approved", "rejected"} : Inbound(p, own, cmd)
           \/ PutBack \/ Answer
           \/ \E p \in Patches : ReapExpired(p) \/ Expire(p)
    PROVE  ApprovalInv'
<1> USE DEF ApprovalInv
<1>0. \A c \in 1..parks : c \in Channels /\ c \in Nat \ {0}
  BY ApprovalAssumption DEF Channels, ParkedOK, ApprovalAssumption
<1>1. ASSUME NEW p \in Patches, NEW own \in BOOLEAN, NEW cmd \in {"approved", "rejected"}, Inbound(p, own, cmd)
      PROVE  ApprovalInv'
  <2>1. /\ pending[p] > 0 /\ pending' = [pending EXCEPT ![p] = 0]
        /\ hand' = [patch |-> p, chan |-> pending[p], own |-> own, cmd |-> cmd]
        /\ UNCHANGED <<receivers, decided, parks, staged, apply, yaml, reported, approved, undone>>
    BY <1>1 DEF Inbound
  <2>2. pending[p] \in Nat \ {0} /\ pending[p] <= parks
    <3>1. pending[p] \in Nat \ {0} BY <2>1 DEF ParkedOK
    <3> QED BY <3>1 DEF ChannelsOK, UsesMade, Uses
  <2>3. ParkedOK' /\ HandOK' BY <2>1, <2>2 DEF ParkedOK, HandOK
  <2>4. \A q \in Patches, c \in Nat \ {0} : Uses(q, c)' => Uses(q, c) BY <2>1 DEF Uses, ParkedOK
  <2>5. ChannelsOK' BY <2>1, <2>4, NoNewUse DEF ParkedOK
  <2> QED BY <2>1, <2>3, <2>5, CallsAlone
<1>2. CASE PutBack
  <2>1. /\ hand # EmptyHand /\ hand' = EmptyHand /\ decided' = Dropping(hand.patch)
        /\ pending' = [pending EXCEPT ![hand.patch] = hand.chan]
        /\ UNCHANGED <<receivers, parks, staged, apply, yaml, reported, approved, undone>>
    BY <1>2 DEF PutBack
  <2>2. hand.patch \in Patches /\ hand.chan \in Nat BY <1>0, <2>1 DEF HandOK
  <2>3. ParkedOK' /\ HandOK' BY <2>1, <2>2 DEF ParkedOK, HandOK, Dropping
  <2>4. \A q \in Patches, c \in Nat \ {0} : Uses(q, c)' => Uses(q, c)
    BY <2>1, <2>2 DEF Uses, ParkedOK, EmptyHand
  <2>5. \A c \in Channels : decided'[c] = "approved" => decided[c] = "approved" BY <2>1 DEF Dropping
  <2>6. ChannelsOK' BY <2>1, <2>3, <2>4, <2>5, NoNewUse DEF ParkedOK
  <2> QED BY <2>1, <2>3, <2>6, CallsAlone
<1>3. CASE Answer
  <2>1. /\ hand # EmptyHand /\ hand.own /\ hand' = EmptyHand
        /\ decided' = [decided EXCEPT ![hand.chan] = hand.cmd]
        /\ approved' = IF hand.cmd = "approved" THEN approved \cup {hand.patch} ELSE approved
        /\ UNCHANGED <<pending, receivers, parks, staged, apply, yaml, reported, undone>>
    BY <1>3 DEF Answer, SameBinding
  <2>2. hand.patch \in Patches /\ hand.chan \in 1..parks BY <2>1 DEF HandOK
  <2>3. ParkedOK' /\ HandOK' BY <2>1, <2>2 DEF ParkedOK, HandOK
  <2>4. \A q \in Patches, c \in Nat \ {0} : Uses(q, c)' => Uses(q, c)
    BY <2>1 DEF Uses, EmptyHand
  <2>5. UsesMade' /\ OneOwner' BY <2>1, <2>4 DEF ChannelsOK, UsesMade, OneOwner
  <2>6. FreshOpen'
    <3> SUFFICES ASSUME NEW c \in Channels, c > parks PROVE decided'[c] # "approved"
      BY <2>1 DEF FreshOpen
    <3>1. c # hand.chan BY <2>2 DEF ParkedOK
    <3> QED BY <2>1, <3>1 DEF ChannelsOK, FreshOpen, ParkedOK
  <2>7. AnswersTrue'
    <3> SUFFICES ASSUME NEW q \in Patches, NEW c \in Channels, Uses(q, c)', decided'[c] = "approved"
                 PROVE  q \in approved'
      BY DEF AnswersTrue
    <3>0. c \in Nat \ {0} BY ApprovalAssumption DEF Channels, ApprovalAssumption
    <3>1. CASE c = hand.chan
      <4>1. hand.cmd = "approved" BY <2>1, <3>1 DEF ParkedOK
      <4>2. Uses(hand.patch, c) BY <3>1 DEF Uses
      <4>3. q = hand.patch BY <2>2, <2>4, <3>0, <4>2 DEF ChannelsOK, OneOwner
      <4> QED BY <2>1, <4>1, <4>3
    <3>2. CASE c # hand.chan
      <4>1. decided'[c] = decided[c] BY <2>1, <3>2 DEF ParkedOK
      <4> QED BY <2>1, <2>4, <3>0, <4>1 DEF ChannelsOK, AnswersTrue
    <3> QED BY <3>1, <3>2
  <2>8. ChannelsOK' BY <2>5, <2>6, <2>7 DEF ChannelsOK
  <2> QED BY <2>1, <2>3, <2>8, CallsAlone
<1>4. ASSUME NEW p \in Patches, ReapExpired(p) PROVE ApprovalInv'
  <2>1. /\ pending[p] > 0 /\ pending' = [pending EXCEPT ![p] = 0]
        /\ decided' = [decided EXCEPT ![pending[p]] = "expired"]
        /\ UNCHANGED <<receivers, parks, staged, hand, apply, yaml, reported, approved, undone>>
    BY <1>4 DEF ReapExpired
  <2>2. ParkedOK' /\ HandOK' BY <2>1 DEF ParkedOK, HandOK
  <2>3. \A q \in Patches, c \in Nat \ {0} : Uses(q, c)' => Uses(q, c) BY <2>1 DEF Uses, ParkedOK
  <2>4. \A c \in Channels : decided'[c] = "approved" => decided[c] = "approved" BY <2>1 DEF ParkedOK
  <2>5. ChannelsOK' BY <2>1, <2>2, <2>3, <2>4, NoNewUse DEF ParkedOK
  <2> QED BY <2>1, <2>2, <2>5, CallsAlone
<1>5. ASSUME NEW p \in Patches, Expire(p) PROVE ApprovalInv'
  <2>1. UNCHANGED <<pending, receivers, decided, parks, staged, hand, apply, yaml, reported, approved, undone>>
    BY <1>5 DEF Expire
  <2> QED BY <2>1 DEF ParkedOK, HandOK, CallsOK, ChannelsOK, UsesMade, OneOwner, AnswersTrue, FreshOpen,
                      Uses, PastDecision, YamlFollowsDecisions
<1> QED BY <1>1, <1>2, <1>3, <1>4, <1>5

LEMMA ProposeKeeps ==
    ASSUME ApprovalInv, NEW p \in Patches, Propose(p) \/ Stage(p)
    PROVE  ApprovalInv'
<1> USE DEF ApprovalInv
<1>1. CASE Propose(p)
  <2>1. /\ Park(p) /\ receivers' = [receivers EXCEPT ![p] = parks + 1]
        /\ pending' = [pending EXCEPT ![p] = parks + 1] /\ parks' = parks + 1 /\ parks < MaxParks
        /\ decided' = Dropping(p)
        /\ UNCHANGED <<staged, hand, apply, yaml, reported, approved, undone>>
    BY <1>1 DEF Propose, Park
  <2>2. ParkedOK' /\ HandOK'
    BY <2>1, ApprovalAssumption DEF ParkedOK, HandOK, Dropping, ApprovalAssumption
  <2>3. \A q \in Patches, c \in Nat \ {0} : Uses(q, c)' => Uses(q, c) \/ (q = p /\ c = parks + 1)
    BY <2>1 DEF Uses, ParkedOK
  <2>4. ChannelsOK' BY <2>1, <2>3, NewChannel
  <2> QED BY <2>1, <2>2, <2>4, CallsAlone
<1>2. CASE Stage(p)
  <2>1. /\ UNCHANGED <<parks, hand, apply, yaml, reported, approved, undone>>
        /\ \/ staged' = staged \cup {p} /\ UNCHANGED <<pending, receivers, decided>>
           \/ /\ receivers' = [receivers EXCEPT ![p] = 0] /\ pending' = [pending EXCEPT ![p] = 0]
              /\ decided' = Dropping(p) /\ UNCHANGED staged
    BY <1>2 DEF Stage
  <2>2. ParkedOK' /\ HandOK' BY <2>1 DEF ParkedOK, HandOK, Dropping
  <2>3. \A q \in Patches, c \in Nat \ {0} : Uses(q, c)' => Uses(q, c) BY <2>1 DEF Uses, ParkedOK
  <2>4. \A c \in Channels : decided'[c] = "approved" => decided[c] = "approved" BY <2>1 DEF Dropping
  <2>5. ChannelsOK' BY <2>1, <2>2, <2>3, <2>4, NoNewUse DEF ParkedOK
  <2> QED BY <2>1, <2>2, <2>5, CallsAlone
<1> QED BY <1>1, <1>2

\* A call that returns holds nothing any more.
LEMMA ReturnDoes ==
    ASSUME ApprovalInv, NEW a \in Applies, Return(a), parks' = parks
    PROVE  /\ CallsOK' /\ apply'[a] = Returned
           /\ \A b \in Applies : b # a => apply'[b] = apply[b]
           /\ \A b \in Applies : apply'[b].place # "idle" => apply'[b] = apply[b] /\ b # a
           /\ \A b \in Applies : apply'[b].chan # 0 => apply'[b] = apply[b]
<1>1. apply'[a] = Returned /\ \A b \in Applies : b # a => apply'[b] = apply[b]
  BY DEF Return, ApprovalInv, CallsOK
<1>2. Returned \in ApplyCalls BY DEF Returned, ApplyCalls, ApplyPlaces
<1>3. apply' \in [Applies -> ApplyCalls] BY <1>2 DEF Return, ApprovalInv, CallsOK
<1>4. Returned.place = "idle" /\ Returned.chan = 0 BY DEF Returned
<1>5. \A b \in Applies : /\ apply'[b].place # "idle" => apply'[b] = apply[b] /\ b # a
                         /\ apply'[b].chan # 0 => apply'[b] = apply[b]
  BY <1>1, <1>4
<1>6. CallsOK' BY <1>1, <1>3, <1>4 DEF ApprovalInv, CallsOK
<1> QED BY <1>1, <1>5, <1>6

LEMMA ApplyBeginKeeps ==
    ASSUME ApprovalInv, NEW a \in Applies, NEW p \in Patches, ApplyBegin(a, p)
    PROVE  ApprovalInv'
<1> USE DEF ApprovalInv
<1>0. UNCHANGED <<hand, yaml, reported, approved, undone>> /\ apply[a].place = "idle"
  BY DEF ApplyBegin, ApplyAt
<1>1. parks \in Nat /\ MaxParks \in Nat BY ApprovalAssumption DEF ParkedOK, ApprovalAssumption
\* The call holds channel c for p from now on.
<1>2. ASSUME NEW c \in 1..parks', parks' \in {parks, parks + 1},
             apply' = [apply EXCEPT ![a] = [place |-> "read", patch |-> p, chan |-> c, snap |-> {}]]
      PROVE  /\ CallsOK' /\ PastDecision' /\ YamlFollowsDecisions'
             /\ \A b \in Applies : b # a => apply'[b] = apply[b]
             /\ apply'[a] = [place |-> "read", patch |-> p, chan |-> c, snap |-> {}]
  <2> DEFINE r == [place |-> "read", patch |-> p, chan |-> c, snap |-> {}]
  <2>1. r \in ApplyCalls /\ r.place = "read" /\ r.patch = p /\ r.chan = c
    BY <1>1, <1>2 DEF ApplyCalls, ApplyPlaces
  <2>2. apply' = [apply EXCEPT ![a] = r] BY <1>2
  <2> HIDE DEF r
  <2>3. apply' \in [Applies -> ApplyCalls] /\ apply'[a] = r /\ \A b \in Applies : b # a => apply'[b] = apply[b]
    BY <2>1, <2>2 DEF CallsOK
  <2>4. CallsOK' BY <1>1, <1>2, <2>1, <2>3 DEF CallsOK
  <2>5. PastDecision' BY <1>0, <2>1, <2>3 DEF PastDecision
  <2>6. YamlFollowsDecisions' BY <1>0 DEF YamlFollowsDecisions
  <2> QED BY <2>3, <2>4, <2>5, <2>6 DEF r
<1>3. CASE /\ receivers[p] > 0 /\ receivers' = [receivers EXCEPT ![p] = 0]
           /\ apply' = [apply EXCEPT ![a] = [place |-> "read", patch |-> p, chan |-> receivers[p], snap |-> {}]]
           /\ UNCHANGED <<pending, decided, parks, staged>>
  <2>1. receivers[p] \in 1..parks
    <3>1. receivers[p] \in Nat \ {0} BY <1>3 DEF ParkedOK
    <3>2. receivers[p] <= parks BY <3>1 DEF ChannelsOK, UsesMade, Uses
    <3> QED BY <1>1, <3>1, <3>2
  <2>2. PICK c \in 1..parks : c = receivers[p] BY <2>1
  <2>3. /\ CallsOK' /\ PastDecision' /\ YamlFollowsDecisions'
        /\ \A b \in Applies : b # a => apply'[b] = apply[b]
        /\ apply'[a] = [place |-> "read", patch |-> p, chan |-> c, snap |-> {}]
    BY <1>2, <1>3, <2>2
  <2>4. ParkedOK' /\ HandOK' BY <1>0, <1>3 DEF ParkedOK, HandOK
  <2>5. \A q \in Patches, d \in Nat \ {0} : Uses(q, d)' => Uses(q, d)
    <3> SUFFICES ASSUME NEW q \in Patches, NEW d \in Nat \ {0}, Uses(q, d)' PROVE Uses(q, d) OBVIOUS
    <3>1. CASE \E b \in Applies : apply'[b].chan = d /\ apply'[b].patch = q
      BY <2>2, <2>3, <3>1 DEF Uses
    <3>2. CASE ~\E b \in Applies : apply'[b].chan = d /\ apply'[b].patch = q
      BY <1>0, <1>3, <3>2 DEF Uses, ParkedOK
    <3> QED BY <3>1, <3>2
  <2>6. ChannelsOK' BY <1>0, <1>3, <2>5, NoNewUse DEF ParkedOK
  <2> QED BY <2>3, <2>4, <2>6
<1>4. CASE /\ Park(p) /\ UNCHANGED <<receivers, staged>>
           /\ apply' = [apply EXCEPT ![a] = [place |-> "read", patch |-> p, chan |-> parks + 1, snap |-> {}]]
  <2>1. /\ parks' = parks + 1 /\ parks < MaxParks /\ decided' = Dropping(p)
        /\ pending' = [pending EXCEPT ![p] = parks + 1]
    BY <1>4 DEF Park
  <2>2. PICK c \in 1..parks' : c = parks + 1 BY <1>1, <2>1
  <2>3. /\ CallsOK' /\ PastDecision' /\ YamlFollowsDecisions'
        /\ \A b \in Applies : b # a => apply'[b] = apply[b]
        /\ apply'[a] = [place |-> "read", patch |-> p, chan |-> c, snap |-> {}]
    BY <1>2, <1>4, <2>1, <2>2
  <2>4. ParkedOK' BY <1>0, <1>1, <1>4, <2>1 DEF ParkedOK, Dropping
  <2>5. HandOK' BY <1>0, <1>1, <2>1 DEF HandOK
  <2>6. \A q \in Patches, d \in Nat \ {0} : Uses(q, d)' => Uses(q, d) \/ (q = p /\ d = parks + 1)
    <3> SUFFICES ASSUME NEW q \in Patches, NEW d \in Nat \ {0}, Uses(q, d)'
                 PROVE  Uses(q, d) \/ (q = p /\ d = parks + 1)
      OBVIOUS
    <3>1. CASE \E b \in Applies : apply'[b].chan = d /\ apply'[b].patch = q
      BY <2>2, <2>3, <3>1 DEF Uses
    <3>2. CASE ~\E b \in Applies : apply'[b].chan = d /\ apply'[b].patch = q
      BY <1>0, <1>4, <2>1, <3>2 DEF Uses, ParkedOK
    <3> QED BY <3>1, <3>2
  <2>7. ChannelsOK' BY <1>0, <1>4, <2>6, NewChannel
  <2> QED BY <2>3, <2>4, <2>5, <2>7
<1>5. CASE staged' = staged \ {p} /\ UNCHANGED <<pending, receivers, decided, parks, apply>>
  <2>1. ParkedOK' /\ HandOK' BY <1>0, <1>5 DEF ParkedOK, HandOK
  <2>2. \A q \in Patches, d \in Nat \ {0} : Uses(q, d)' => Uses(q, d) BY <1>0, <1>5 DEF Uses
  <2>3. ChannelsOK' BY <1>0, <1>5, <2>2, NoNewUse DEF ParkedOK
  <2> QED BY <1>0, <1>5, <2>1, <2>3, CallsAlone
<1> QED BY <1>3, <1>4, <1>5 DEF ApplyBegin

LEMMA ReadStagingKeeps ==
    ASSUME ApprovalInv, NEW a \in Applies, ReadStaging(a)
    PROVE  ApprovalInv'
<1> USE DEF ApprovalInv
<1>0. /\ UNCHANGED <<pending, decided, parks, staged, hand, yaml, reported, approved, undone>>
      /\ apply[a].place = "read"
  BY DEF ReadStaging, ApplyAt
<1>1. YamlFollowsDecisions' /\ HandOK' BY <1>0 DEF YamlFollowsDecisions, HandOK
<1>2. CASE apply' = [apply EXCEPT ![a].place = "await"] /\ UNCHANGED receivers
  <2>1. /\ \A b \in Applies : b # a => apply'[b] = apply[b]
        /\ apply'[a].place = "await" /\ apply'[a].patch = apply[a].patch /\ apply'[a].chan = apply[a].chan
        /\ apply' \in [Applies -> ApplyCalls]
    BY <1>2 DEF CallsOK, ApplyCalls, ApplyPlaces
  <2>2. CallsOK' BY <1>0, <2>1 DEF CallsOK
  <2>3. ParkedOK' BY <1>0, <1>2 DEF ParkedOK
  <2>4. PastDecision' BY <1>0, <2>1 DEF PastDecision
  <2>5. \A q \in Patches, d \in Nat \ {0} : Uses(q, d)' => Uses(q, d) BY <1>0, <1>2, <2>1 DEF Uses
  <2>6. ChannelsOK' BY <1>0, <2>5, NoNewUse DEF ParkedOK
  <2> QED BY <1>1, <2>2, <2>3, <2>4, <2>6
<1>3. CASE Return(a) /\ receivers' = [receivers EXCEPT ![apply[a].patch] = apply[a].chan]
  <2>1. /\ CallsOK' /\ \A b \in Applies : apply'[b].place # "idle" => apply'[b] = apply[b] /\ b # a
        /\ \A b \in Applies : apply'[b].chan # 0 => apply'[b] = apply[b]
    BY <1>0, <1>3, ReturnDoes
  <2>2. apply[a].patch \in Patches /\ apply[a].chan \in Nat BY <1>0 DEF CallsOK, ApplyCalls
  <2>3. ParkedOK' BY <1>0, <1>3, <2>2 DEF ParkedOK
  <2>4. PastDecision' BY <1>0, <2>1 DEF PastDecision
  <2>5. \A q \in Patches, d \in Nat \ {0} : Uses(q, d)' => Uses(q, d)
    BY <1>0, <1>3, <2>1, <2>2 DEF Uses, ParkedOK
  <2>6. ChannelsOK' BY <1>0, <2>5, NoNewUse DEF ParkedOK
  <2> QED BY <1>1, <2>1, <2>3, <2>4, <2>6
<1> QED BY <1>2, <1>3 DEF ReadStaging

LEMMA AwaitKeeps ==
    ASSUME ApprovalInv, NEW a \in Applies, AwaitDecision(a)
    PROVE  ApprovalInv'
<1> USE DEF ApprovalInv
<1>0. /\ UNCHANGED <<pending, receivers, parks, staged, hand, yaml, reported, approved, undone>>
      /\ apply[a].place = "await" /\ decided' = [decided EXCEPT ![apply[a].chan] = "dropped"]
  BY DEF AwaitDecision, ApplyAt
<1>1. YamlFollowsDecisions' /\ HandOK' /\ ParkedOK' BY <1>0 DEF YamlFollowsDecisions, HandOK, ParkedOK
<1>2. \A c \in Channels : decided'[c] = "approved" => decided[c] = "approved" BY <1>0 DEF ParkedOK
<1>3. CASE Return(a)
  <2>1. /\ CallsOK' /\ \A b \in Applies : apply'[b].place # "idle" => apply'[b] = apply[b] /\ b # a
        /\ \A b \in Applies : apply'[b].chan # 0 => apply'[b] = apply[b]
    BY <1>0, <1>3, ReturnDoes
  <2>2. PastDecision' BY <1>0, <2>1 DEF PastDecision
  <2>3. \A q \in Patches, d \in Nat \ {0} : Uses(q, d)' => Uses(q, d) BY <1>0, <2>1 DEF Uses
  <2>4. ChannelsOK' BY <1>0, <1>1, <1>2, <2>3, NoNewUse DEF ParkedOK
  <2> QED BY <1>1, <2>1, <2>2, <2>4
<1>4. CASE /\ decided[apply[a].chan] = "approved"
           /\ apply' = [apply EXCEPT ![a].place = "patch", ![a].snap = yaml, ![a].chan = 0]
  <2>1. apply[a].patch \in Patches /\ apply[a].chan \in Channels
    BY <1>0, ApprovalAssumption DEF CallsOK, Channels, ParkedOK, ApprovalAssumption
  <2>2. Uses(apply[a].patch, apply[a].chan) BY DEF Uses
  <2>3. apply[a].patch \in approved BY <1>4, <2>1, <2>2 DEF ChannelsOK, AnswersTrue
  <2>4. yaml \subseteq approved BY DEF YamlFollowsDecisions
  <2>5. yaml \in SUBSET Patches BY <2>4 DEF ParkedOK
  <2>6. /\ \A b \in Applies : b # a => apply'[b] = apply[b]
        /\ apply'[a].place = "patch" /\ apply'[a].patch = apply[a].patch /\ apply'[a].chan = 0 /\ apply'[a].snap = yaml
        /\ apply' \in [Applies -> ApplyCalls]
    <3> DEFINE one == [apply EXCEPT ![a].place = "patch"]
               two == [one EXCEPT ![a].snap = yaml]
    <3>1. apply' = [two EXCEPT ![a].chan = 0] BY <1>4
    <3>2. /\ \A b \in Applies : b # a => one[b] = apply[b]
          /\ one[a].place = "patch" /\ one[a].patch = apply[a].patch
          /\ one \in [Applies -> ApplyCalls]
      BY DEF CallsOK, ApplyCalls, ApplyPlaces
    <3> HIDE DEF one
    <3>3. /\ \A b \in Applies : b # a => two[b] = apply[b]
          /\ two[a].place = "patch" /\ two[a].patch = apply[a].patch /\ two[a].snap = yaml
          /\ two \in [Applies -> ApplyCalls]
      BY <2>5, <3>2 DEF ApplyCalls
    <3> HIDE DEF two
    <3> QED BY <3>1, <3>3 DEF ApplyCalls
  <2>7. CallsOK' BY <1>0, <2>1, <2>6 DEF CallsOK
  <2>8. PastDecision' BY <1>0, <2>3, <2>4, <2>6 DEF PastDecision
  <2>9. \A q \in Patches, d \in Nat \ {0} : Uses(q, d)' => Uses(q, d) BY <1>0, <2>6 DEF Uses
  <2>10. ChannelsOK' BY <1>0, <1>1, <1>2, <2>9, NoNewUse DEF ParkedOK
  <2> QED BY <1>1, <2>7, <2>8, <2>10
<1> QED BY <1>3, <1>4 DEF AwaitDecision

\* The last steps of a call touch no channel.
LEMMA FileStepKeeps ==
    ASSUME ApprovalInv, NEW a \in Applies, ApplyPatch(a) \/ ReloadOk(a) \/ ReloadRejected(a)
    PROVE  ApprovalInv'
<1> USE DEF ApprovalInv
<1>0. UNCHANGED <<pending, receivers, decided, parks, hand, approved>> /\ staged' \subseteq staged
  BY DEF ApplyPatch, ReloadOk, ReloadRejected
<1>1. HandOK' /\ ParkedOK' BY <1>0 DEF HandOK, ParkedOK
<1>2. ASSUME Return(a), yaml' \subseteq approved, reported' \subseteq yaml' \cup undone',
             \A b \in Applies : b # a /\ apply[b].place = "reload" => apply[b].patch \in yaml' \cup undone'
      PROVE  ApprovalInv'
  <2>1. /\ CallsOK' /\ \A b \in Applies : apply'[b].place # "idle" => apply'[b] = apply[b] /\ b # a
        /\ \A b \in Applies : apply'[b].chan # 0 => apply'[b] = apply[b]
    BY <1>0, <1>2, ReturnDoes
  <2>2. PastDecision' BY <1>0, <1>2, <2>1 DEF PastDecision
  <2>3. \A q \in Patches, d \in Nat \ {0} : Uses(q, d)' => Uses(q, d) BY <1>0, <2>1 DEF Uses
  <2>4. ChannelsOK' BY <1>0, <1>1, <2>3, NoNewUse DEF ParkedOK
  <2> QED BY <1>0, <1>1, <1>2, <2>1, <2>2, <2>4 DEF YamlFollowsDecisions
<1>3. CASE ApplyPatch(a)
  <2>1. apply[a].place = "patch" /\ UNCHANGED reported BY <1>3 DEF ApplyPatch, ApplyAt
  <2>2. CASE Return(a) /\ UNCHANGED <<yaml, undone>>
    BY <1>2, <2>1, <2>2 DEF YamlFollowsDecisions, PastDecision
  <2>3. CASE /\ yaml' = (yaml \ Replaced(apply[a].patch)) \cup {apply[a].patch}
             /\ undone' = undone \cup Replaced(apply[a].patch)
             /\ apply' = [apply EXCEPT ![a].place = "reload"]
    <3>0. yaml' \subseteq yaml \cup {apply[a].patch} /\ yaml \cup undone \subseteq yaml' \cup undone'
          /\ apply[a].patch \in yaml'
      BY <2>3
    <3>1. /\ \A b \in Applies : b # a => apply'[b] = apply[b]
          /\ apply'[a].place = "reload" /\ apply'[a].patch = apply[a].patch /\ apply'[a].chan = apply[a].chan
          /\ apply'[a].snap = apply[a].snap /\ apply' \in [Applies -> ApplyCalls]
      BY <2>3 DEF CallsOK, ApplyCalls, ApplyPlaces
    <3>2. CallsOK' BY <1>0, <2>1, <3>1 DEF CallsOK
    <3>3. PastDecision' BY <1>0, <2>1, <3>0, <3>1 DEF PastDecision
    <3>4. \A q \in Patches, d \in Nat \ {0} : Uses(q, d)' => Uses(q, d) BY <1>0, <3>1 DEF Uses
    <3>5. ChannelsOK' BY <1>0, <1>1, <3>4, NoNewUse DEF ParkedOK
    <3>6. YamlFollowsDecisions' BY <1>0, <2>1, <3>0 DEF YamlFollowsDecisions, PastDecision
    <3> QED BY <1>1, <3>2, <3>3, <3>5, <3>6
  <2> QED BY <1>3, <2>2, <2>3 DEF ApplyPatch
<1>4. CASE ReloadOk(a)
  <2>1. /\ apply[a].place = "reload" /\ Return(a) /\ UNCHANGED <<yaml, undone>>
        /\ reported' = reported \cup {apply[a].patch}
    BY <1>4 DEF ReloadOk, ApplyAt
  <2> QED BY <1>2, <2>1 DEF YamlFollowsDecisions, PastDecision
<1>5. CASE ReloadRejected(a)
  <2>1. /\ apply[a].place = "reload" /\ Return(a) /\ UNCHANGED reported
        /\ \/ /\ yaml' = apply[a].snap
              /\ undone' = undone \cup ((yaml \ apply[a].snap) \cap (reported \cup Overlapping(a)))
           \/ UNCHANGED <<yaml, undone>>
    BY <1>5 DEF ReloadRejected, ApplyAt
  <2>2. \A b \in Applies : b # a /\ apply[b].place = "reload" => apply[b].patch \in Overlapping(a)
    BY DEF Overlapping, ApplyAt
  <2>3. CASE UNCHANGED <<yaml, undone>> BY <1>2, <2>1, <2>3 DEF YamlFollowsDecisions, PastDecision
  <2>4. CASE /\ yaml' = apply[a].snap
             /\ undone' = undone \cup ((yaml \ apply[a].snap) \cap (reported \cup Overlapping(a)))
    <3>1. yaml' \subseteq approved BY <2>1, <2>4 DEF PastDecision
    <3>2. reported' \subseteq yaml' \cup undone' BY <2>1, <2>4 DEF YamlFollowsDecisions
    <3>3. \A b \in Applies : b # a /\ apply[b].place = "reload" => apply[b].patch \in yaml' \cup undone'
      BY <2>2, <2>4 DEF PastDecision
    <3> QED BY <1>2, <2>1, <3>1, <3>2, <3>3
  <2> QED BY <2>1, <2>3, <2>4
<1> QED BY <1>3, <1>4, <1>5

LEMMA RestartKeeps == ASSUME ApprovalInv, Restart PROVE ApprovalInv'
<1> USE DEF ApprovalInv
<1> DEFINE alive == staged \ overdue
           n == Cardinality(alive)
<1>0. IsFiniteSet(alive) /\ n \in Nat /\ alive \subseteq Patches
  BY ApprovalAssumption, FS_Subset, FS_CardinalityType DEF ApprovalAssumption, ParkedOK
<1>1. PICK chan \in [alive -> (parks + 1)..(parks + n)] :
         /\ \A p, q \in alive : p # q => chan[p] # chan[q]
         /\ pending' = [p \in Patches |-> IF p \in alive THEN chan[p] ELSE 0]
         /\ receivers' = pending'
  BY DEF Restart
<1>2. /\ parks + n <= MaxParks /\ parks' = parks + n /\ staged' = alive
      /\ apply' = [a \in Applies |-> Returned] /\ hand' = EmptyHand
      /\ decided' = [c \in Channels |-> IF c <= parks THEN "dropped" ELSE "open"]
      /\ UNCHANGED <<yaml, reported, approved, undone>>
  BY DEF Restart
<1> HIDE DEF n
<1>3. parks \in Nat /\ MaxParks \in Nat BY ApprovalAssumption DEF ParkedOK, ApprovalAssumption
<1>4. \A p \in alive : chan[p] \in Nat \ {0} /\ chan[p] <= parks' BY <1>0, <1>1, <1>2, <1>3
<1>5. \A p \in Patches : pending'[p] = (IF p \in alive THEN chan[p] ELSE 0) /\ receivers'[p] = pending'[p]
  BY <1>1
<1>6. ParkedOK'
  <2>1. \A p \in Patches : pending'[p] \in Nat BY <1>4, <1>5
  <2>2. pending' = [p \in Patches |-> pending'[p]] BY <1>1
  <2>3. pending' \in [Patches -> Nat] BY <2>1, <2>2
  <2> QED BY <1>0, <1>1, <1>2, <1>3, <2>3 DEF ParkedOK
<1>7. HandOK' BY <1>2 DEF HandOK
<1>8. Returned \in ApplyCalls /\ Returned.place = "idle" /\ Returned.chan = 0
  BY DEF Returned, ApplyCalls, ApplyPlaces
<1>9. \A a \in Applies : apply'[a] = Returned BY <1>2
<1>10. CallsOK' /\ PastDecision' BY <1>2, <1>8, <1>9 DEF CallsOK, PastDecision
<1>11. \A p \in Patches, c \in Nat \ {0} : Uses(p, c)' => p \in alive /\ c = chan[p]
  BY <1>2, <1>5, <1>8, <1>9 DEF Uses, EmptyHand
<1>12. UsesMade' BY <1>4, <1>11 DEF UsesMade
<1>13. OneOwner' BY <1>1, <1>11 DEF OneOwner
<1>14. AnswersTrue' /\ FreshOpen' BY <1>2 DEF AnswersTrue, FreshOpen
<1>15. YamlFollowsDecisions' BY <1>2 DEF YamlFollowsDecisions
<1> QED BY <1>6, <1>7, <1>10, <1>12, <1>13, <1>14, <1>15 DEF ChannelsOK

\* Config proposals: for any patches, calls and restarts, agents.yaml holds only what its
\* own binding approved, and what was reported as applied stays unless another
\* apply replaced it or rolled it back.
THEOREM YamlIsApproved == ApprovalSpec => []YamlFollowsDecisions
<1>1. ApprovalInit => ApprovalInv
  <2> SUFFICES ASSUME ApprovalInit PROVE ApprovalInv OBVIOUS
  <2>1. ParkedOK /\ HandOK BY ApprovalAssumption DEF ApprovalInit, ParkedOK, HandOK, ApprovalAssumption
  <2>2. Returned \in ApplyCalls /\ Returned.place = "idle" /\ Returned.chan = 0
    BY DEF Returned, ApplyCalls, ApplyPlaces
  <2>3. CallsOK /\ PastDecision BY <2>2 DEF ApprovalInit, CallsOK, PastDecision
  <2>4. \A p \in Patches, c \in Nat \ {0} : ~Uses(p, c) BY <2>2 DEF ApprovalInit, Uses, EmptyHand
  <2>5. \A c \in Channels : c \in Nat \ {0} /\ decided[c] = "open"
    BY ApprovalAssumption DEF Channels, ApprovalAssumption, ApprovalInit
  <2>6. ChannelsOK BY <2>4, <2>5 DEF ChannelsOK, UsesMade, OneOwner, AnswersTrue, FreshOpen
  <2> QED BY <2>1, <2>3, <2>6 DEF ApprovalInit, ApprovalInv, YamlFollowsDecisions
<1>2. ApprovalInv /\ [ApprovalNext]_approvalVars => ApprovalInv'
  <2> SUFFICES ASSUME ApprovalInv, [ApprovalNext]_approvalVars PROVE ApprovalInv' OBVIOUS
  <2>1. CASE UNCHANGED approvalVars
    BY <2>1 DEF approvalVars, ApprovalInv, ParkedOK, HandOK, CallsOK, ChannelsOK, UsesMade, OneOwner,
                AnswersTrue, FreshOpen, Uses, PastDecision, YamlFollowsDecisions
  <2>2. CASE ApprovalNext
    BY <2>2, CorrelatorKeeps, ProposeKeeps, ApplyBeginKeeps, ReadStagingKeeps, AwaitKeeps,
       FileStepKeeps, RestartKeeps DEF ApprovalNext, ApprovalStep
  <2> QED BY <2>1, <2>2
<1>3. ApprovalInv => YamlFollowsDecisions BY DEF ApprovalInv
<1> QED BY <1>1, <1>2, <1>3, PTL DEF ApprovalSpec
=============================================================================
