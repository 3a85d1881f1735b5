-------------------------------- MODULE Cron --------------------------------
(***************************************************************************)
(* CronRunner::tick_once (crates/core/src/cron_runner.rs) over the cron    *)
(* store (cron_schedule.rs): a tick reads the entries that are due and     *)
(* fires them one after another from that list, while tools and CLI pause, *)
(* resume and delete entries, store writes fail and the daemon restarts.   *)
(***************************************************************************)
EXTENDS Naturals, FiniteSets

CONSTANTS OneShots,     \* entries with recurring = 0
          Recurring,    \* entries with recurring = 1
          MaxRetries,   \* OneShotRetryPolicy.max_retries
          CronClock,    \* bound: last tick of the clock
          MaxCronFaults, \* bound: crashes and failed store calls
          MaxCronOps    \* bound: pauses, resumes and deletes

Entries == OneShots \cup Recurring
ASSUME CronAssumption == OneShots \cap Recurring = {} /\ MaxRetries \in Nat

VARIABLES cron,      \* the table: next_fire_at, failure_count and paused per entry id
          clock,     \* wall clock
          due,       \* the rows the tick has still to fire, as it read them
          tickAt,    \* now_unix of the tick
          firing,    \* the entry being fired: its row as read and how the dispatch went
          cronOn,    \* jitter_cfg.enabled, the killswitch
          \* history and bounds
          shots,     \* how often each entry was dispatched
          after,     \* dispatches of an entry since it left the table
          slack,     \* dispatches of an entry not followed by their write
          cronFaults, cronOps

cronVars == <<cron, clock, due, tickAt, firing, cronOn, shots, after, slack, cronFaults, cronOps>>
Nothing == [id |-> "none", fails |-> 0, step |-> "rest"]

CronInit ==
    /\ cron = [e \in Entries |-> [at |-> 1, fails |-> 0, paused |-> FALSE]]
    /\ clock = 1 /\ due = {} /\ tickAt = 0 /\ firing = Nothing /\ cronOn = TRUE
    /\ shots = [e \in Entries |-> 0] /\ after = shots /\ slack = shots
    /\ cronFaults = 0 /\ cronOps = 0

CronFault == cronFaults < MaxCronFaults /\ cronFaults' = cronFaults + 1
Without(e) == [k \in DOMAIN cron \ {e} |-> cron[k]]
Between == firing = Nothing

(***************************************************************************)
(* The tick.                                                               *)
(***************************************************************************)
\* due_at; a failed query skips the tick, and so does the killswitch.
TickBegin ==
    /\ Between /\ due = {} /\ cronOn /\ tickAt' = clock
    /\ due' = {[id |-> e, fails |-> cron[e].fails] :
                  e \in {k \in DOMAIN cron : ~cron[k].paused /\ cron[k].at <= clock}}
    /\ due' # {}
    /\ UNCHANGED <<cron, clock, firing, cronOn, shots, after, slack, cronFaults, cronOps>>

\* dispatcher.fire of the row as it was read: the table is not looked at again.
Fire(row) ==
    /\ Between /\ row \in due /\ due' = due \ {row}
    /\ \E ok \in BOOLEAN :
          firing' = [id |-> row.id, fails |-> row.fails, step |-> IF ok THEN "fired" ELSE "failed"]
    /\ shots' = [shots EXCEPT ![row.id] = @ + 1]
    /\ after' = IF row.id \in DOMAIN cron THEN after ELSE [after EXCEPT ![row.id] = @ + 1]
    /\ UNCHANGED <<cron, clock, tickAt, cronOn, slack, cronFaults, cronOps>>

\* advance_after_fire: the next fire lies after the tick, whatever has happened since.
Advance ==
    [cron EXCEPT ![firing.id] = [at |-> tickAt + 1, fails |-> 0, paused |-> @.paused]]

\* schedule_one_shot_retry counts in the table, the budget is read from the row.
RetryLeftM == firing.fails <= MaxRetries
RetryLeft == firing.fails < MaxRetries
ScheduleRetry ==
    [cron EXCEPT ![firing.id] = [at |-> tickAt + 1, fails |-> @.fails + 1, paused |-> @.paused]]

\* The store's statements find no row when the entry has been deleted meanwhile.
Settled == IF firing.id \notin DOMAIN cron THEN cron
           ELSE IF firing.id \in Recurring THEN Advance
           ELSE IF firing.step = "failed" /\ RetryLeft THEN ScheduleRetry
           ELSE Without(firing.id)

\* What follows the dispatch; an error is logged and the entry left as it is.
SettleFire ==
    /\ ~Between /\ firing' = Nothing
    /\ \/ cron' = Settled /\ UNCHANGED <<cronFaults, slack>>
       \/ CronFault /\ slack' = [slack EXCEPT ![firing.id] = @ + 1] /\ UNCHANGED cron
    /\ UNCHANGED <<clock, due, tickAt, cronOn, shots, after, cronOps>>

(***************************************************************************)
(* Tools, CLI, configuration, and the daemon's own end.                    *)
(***************************************************************************)
CronOp == cronOps < MaxCronOps /\ cronOps' = cronOps + 1

SetPaused(e, flag) ==
    /\ CronOp /\ e \in DOMAIN cron /\ cron' = [cron EXCEPT ![e].paused = flag]
    /\ UNCHANGED <<clock, due, tickAt, firing, cronOn, shots, after, slack, cronFaults>>

DeleteEntry(e) ==
    /\ CronOp /\ e \in DOMAIN cron /\ cron' = Without(e)
    /\ UNCHANGED <<clock, due, tickAt, firing, cronOn, shots, after, slack, cronFaults>>

Killswitch ==
    /\ CronOp /\ cronOn' = ~cronOn
    /\ UNCHANGED <<cron, clock, due, tickAt, firing, shots, after, slack, cronFaults>>

\* A dispatch under way is lost with its write.
CronCrash ==
    /\ CronFault /\ due' = {} /\ firing' = Nothing
    /\ slack' = IF Between THEN slack ELSE [slack EXCEPT ![firing.id] = @ + 1]
    /\ UNCHANGED <<cron, clock, tickAt, cronOn, shots, after, cronOps>>

CronTick ==
    /\ clock < CronClock /\ clock' = clock + 1
    /\ UNCHANGED <<cron, due, tickAt, firing, cronOn, shots, after, slack, cronFaults, cronOps>>

CronNext ==
    \/ TickBegin \/ SettleFire \/ Killswitch \/ CronCrash \/ CronTick
    \/ \E row \in due : Fire(row)
    \/ \E e \in Entries : DeleteEntry(e) \/ (\E flag \in BOOLEAN : SetPaused(e, flag))

CronSpec == CronInit /\ [][CronNext]_cronVars

(***************************************************************************)
(* Properties.                                                             *)
(***************************************************************************)
\* However ticks, pauses, deletes, failed writes and restarts interleave, a one-shot is
\* dispatched at most 1 + max_retries times, plus once for each dispatch whose write was
\* lost, and an entry that has left the table at most once more, from the list the tick
\* had already read (fire before write, budget from the stale row).
FiresBounded ==
    \A e \in Entries : /\ e \in OneShots => shots[e] <= 1 + MaxRetries + slack[e]
                       /\ after[e] <= 1
=============================================================================
