----------------------------- MODULE DriverLoop -----------------------------
(***************************************************************************)
(* DriverOrchestrator::run_goal (crates/driver-loop/src/orchestrator.rs)   *)
(* for one goal: the loop of attempts with its budget, replay decisions,   *)
(* compact turns and sleeps, against an operator who pauses, resumes,      *)
(* cancels, grows the budget and interrupts at any await, and against the  *)
(* other goals, with which it shares the breaker of compact turns.         *)
(***************************************************************************)
EXTENDS Naturals

CONSTANTS MaxTurns,       \* goal.budget.max_turns
          NewMaxTurns,    \* what set_goal_max_turns may be called with
          MaxErrors,      \* goal.budget.max_consecutive_errors, 0 disables the axis
          Max413,         \* goal.budget.max_consecutive_413, 0 disables the axis
          MaxFresh,       \* DefaultReplayPolicy.max_fresh_session_retries
          MinGap,         \* DefaultCompactPolicy.min_turns_between
          MaxCompactFailures, \* threshold of AutoCompactBreaker
          MaxCalls        \* bound: operator calls and compact turns of other goals

ASSUME LoopAssumption ==
    /\ {MaxTurns, MaxErrors, Max413, MaxFresh, MinGap, MaxCompactFailures, MaxCalls} \subseteq Nat
    /\ NewMaxTurns \subseteq Nat
    /\ NewMaxTurns # {} => \E n \in NewMaxTurns : \A k \in NewMaxTurns : k <= n \* u32

VARIABLES at,      \* where run_goal is
          ctl,     \* the goal's entries in pause_signals, cancel_tokens, budget_overrides
          msgs,    \* how many messages its entry in pending_interrupts holds
          used,    \* BudgetUsage: turns, consecutive_errors, consecutive_413
          extras,  \* next_extras: "none", "compact" or "tick"
          wasCompact,   \* last_was_compact
          prompt,  \* what the current attempt was asked: "work" or "compact"
          breaker, \* AutoCompactBreaker: consecutive_failures, last_compact_turn
          \* history, read by no action
          work,      \* attempts made with a work prompt
          slips,     \* attempts begun since the goal was last paused
          calls      \* counter: calls made

goalVars == <<at, used, extras, wasCompact, prompt>>
loopVars == <<goalVars, ctl, msgs, breaker, work, slips, calls>>

NoCtl == [known |-> FALSE, paused |-> FALSE, cancelled |-> FALSE, override |-> 0]
Ended == at \in {"done", "failed"}
Errors == {"413", "session", "transient", "other"}
Outcomes == {"Done", "NeedsRetry", "Sleep", "Cancelled"} \cup Errors

Larger(a, b) == IF a > b THEN a ELSE b

LoopInit ==
    /\ at = "idle" /\ ctl = NoCtl /\ msgs = 0
    /\ used = [turns |-> 0, errors |-> 0, c413 |-> 0]
    /\ extras = "none" /\ wasCompact = FALSE /\ prompt = "work"
    /\ breaker = [fails |-> 0, last |-> 0]
    /\ work = 0 /\ slips = 0 /\ calls = 0

(***************************************************************************)
(* run_goal.                                                               *)
(***************************************************************************)
\* Signals that pre_register_goal left are reused; the workspace may fail to come up.
BeginRun ==
    /\ at = "idle" /\ at' \in {"top", "failed"}
    /\ ctl' = [ctl EXCEPT !.known = TRUE]
    /\ UNCHANGED <<used, extras, wasCompact, prompt, msgs, breaker, work, slips, calls>>

\* The wait at the top of the loop: cancel wins over a stuck pause.
PauseGateM == ~ctl.paused
PauseGate == ~ctl.paused \/ ctl.cancelled
PassGate ==
    /\ at = "top" /\ PauseGate /\ at' = "checked"
    /\ UNCHANGED <<used, extras, wasCompact, prompt, ctl, msgs, breaker, work, slips, calls>>

\* The override only lifts the turn cap; whether tokens, time or denies are used up is
\* left open.
EffectiveTurns == Larger(ctl.override, MaxTurns)
IsExhausted == \/ used.turns >= EffectiveTurns
               \/ MaxErrors > 0 /\ used.errors >= MaxErrors
               \/ Max413 > 0 /\ used.c413 >= Max413
StopAtTop ==
    /\ at = "checked"   \* the other axes may be exhausted, so no further guard
    /\ at' = "closing"
    /\ UNCHANGED <<used, extras, wasCompact, prompt, ctl, msgs, breaker, work, slips, calls>>

\* The attempt's prompt: a compact request has no room for operator messages.
PromptOf(x) == IF x = "compact" THEN "compact" ELSE "work"

\* Drained whether or not the prompt has room for them.
DrainInterrupts == msgs' = 0

\* next_extras is taken, the interrupts are drained, the attempt starts.
StartAttempt ==
    /\ at = "checked" /\ ~IsExhausted /\ ~ctl.cancelled
    /\ at' = "turn" /\ prompt' = PromptOf(extras) /\ extras' = "none"
    /\ DrainInterrupts
    /\ work' = IF prompt' = "work" THEN work + 1 ELSE work
    /\ slips' = IF ctl.paused THEN slips + 1 ELSE slips
    /\ UNCHANGED <<used, wasCompact, ctl, breaker, calls>>

\* The attempt returns an outcome ...
CanReturn(o) == at = "turn" /\ (o = "Cancelled" => ctl.cancelled)
\* ... or an error, on which run_goal leaves at once, without GoalCompleted and cleanup.
AttemptFails ==
    /\ at = "turn" /\ at' = "failed"
    /\ UNCHANGED <<used, extras, wasCompact, prompt, ctl, msgs, breaker, work, slips, calls>>

\* The outcome of a compact turn goes to the breaker and nowhere else; failures past the
\* threshold make no difference and are not counted.
RecordCompact(ok, turn) ==
    breaker' = IF ok THEN [fails |-> 0, last |-> turn]
               ELSE [breaker EXCEPT !.fails = IF @ < MaxCompactFailures THEN @ + 1 ELSE @]
CompactReturns(o) ==
    /\ CanReturn(o) /\ wasCompact
    /\ wasCompact' = FALSE /\ at' = "top"
    /\ RecordCompact(o \in {"Done", "NeedsRetry"}, used.turns)
    /\ UNCHANGED <<used, extras, prompt, ctl, msgs, work, slips, calls>>

\* CompactPolicy::classify behind the breaker; pressure and age are left open.
MayCompact(turn) ==
    /\ ~(MaxCompactFailures > 0 /\ breaker.fails >= MaxCompactFailures)
    /\ MinGap = 0 \/ turn >= breaker.last + MinGap
ScheduleCompact(turn) ==
    \/ MayCompact(turn) /\ extras' = "compact" /\ wasCompact' = TRUE
    \/ UNCHANGED <<extras, wasCompact>>

\* DefaultReplayPolicy::classify.
Replay(o) ==
    CASE o = "413" -> "CompactAndRetry"
      [] o = "session" -> "FreshSessionRetry"
      [] o = "transient" /\ used.errors < MaxFresh -> "FreshSessionRetry"
      [] o = "transient" /\ used.errors >= MaxFresh -> "Escalate"
      [] OTHER -> "NextTurn"

\* What each outcome of a work turn does to the counters; a retried turn is not counted.
UsedAfterM(o) ==
    CASE o \in {"Done", "NeedsRetry", "Sleep"} -> [used EXCEPT !.turns = @ + 1, !.errors = 0]
      [] o \in Errors /\ Replay(o) = "CompactAndRetry" -> [used EXCEPT !.c413 = @ + 1]
      [] o \in Errors /\ Replay(o) = "FreshSessionRetry" -> used
      [] OTHER -> [used EXCEPT !.turns = @ + 1]
UsedAfter(o) ==
    CASE o \in {"Done", "NeedsRetry", "Sleep"} -> [used EXCEPT !.turns = @ + 1, !.errors = 0]
      [] o \in Errors /\ Replay(o) = "CompactAndRetry" -> [used EXCEPT !.c413 = @ + 1]
      [] o \in Errors /\ Replay(o) = "FreshSessionRetry" -> [used EXCEPT !.errors = @ + 1]
      [] OTHER -> [used EXCEPT !.turns = @ + 1]

GoesTo(o) ==
    IF o = "Sleep" THEN "asleep"
    ELSE IF o \in {"Done", "Cancelled"} \/ (o \in Errors /\ Replay(o) = "Escalate")
         THEN "closing" ELSE "top"

WorkReturns(o) ==
    /\ CanReturn(o) /\ ~wasCompact
    /\ ScheduleCompact(used.turns + 1)
    /\ used' = UsedAfter(o)
    /\ at' = GoesTo(o)
    /\ UNCHANGED <<prompt, ctl, msgs, breaker, work, slips, calls>>

\* wait_for_wake: the wake-up prompt replaces whatever was scheduled; last_was_compact
\* stays.
WakeUpM ==
    /\ at = "asleep"
    /\ \/ ctl.cancelled /\ at' = "closing" /\ UNCHANGED extras
       \/ at' = "checked" /\ extras' = "tick"
    /\ UNCHANGED <<used, wasCompact, prompt, ctl, msgs, breaker, work, slips, calls>>
WakeUp ==
    /\ at = "asleep"
    /\ \/ ctl.cancelled /\ at' = "closing" /\ UNCHANGED extras
       \/ at' = "top" /\ extras' = "tick"
    /\ UNCHANGED <<used, wasCompact, prompt, ctl, msgs, breaker, work, slips, calls>>

\* GoalCompleted has been published; the goal's entries are removed.
CleanUp ==
    /\ at = "closing" /\ at' = "done"
    /\ ctl' = NoCtl /\ msgs' = 0
    /\ UNCHANGED <<used, extras, wasCompact, prompt, breaker, work, slips, calls>>

RunGoalStep ==
    \/ PassGate \/ StopAtTop \/ StartAttempt \/ AttemptFails \/ WakeUp \/ CleanUp
    \/ \E o \in Outcomes : CompactReturns(o) \/ WorkReturns(o)

(***************************************************************************)
(* The operator, and the other goals of the orchestrator.                  *)
(***************************************************************************)
Call == calls < MaxCalls /\ calls' = calls + 1 /\ UNCHANGED goalVars
Signalled == Call /\ UNCHANGED <<msgs, breaker, work>>

PreRegister == /\ Signalled /\ at = "idle" /\ ~ctl.known
               /\ ctl' = [ctl EXCEPT !.known = TRUE] /\ UNCHANGED slips
PauseGoal  == /\ Signalled /\ ctl.known /\ ctl' = [ctl EXCEPT !.paused = TRUE]
              /\ slips' = IF ctl.paused THEN slips ELSE 0
ResumeGoal == Signalled /\ ctl.known /\ ctl' = [ctl EXCEPT !.paused = FALSE] /\ UNCHANGED slips
CancelGoal == Signalled /\ ctl.known /\ ctl' = [ctl EXCEPT !.cancelled = TRUE] /\ UNCHANGED slips

\* set_goal_max_turns: an override only grows.
SetGoalMaxTurns(n) ==
    /\ Signalled /\ ctl.known
    /\ ctl' = [ctl EXCEPT !.override = Larger(@, n)] /\ UNCHANGED slips

\* interrupt_goal asks for no running goal.
InterruptGoal ==
    /\ Call /\ msgs' = msgs + 1
    /\ UNCHANGED <<ctl, breaker, work, slips>>

\* Another goal of the same orchestrator finishes a compact turn.
OtherCompact ==
    /\ Call /\ \E ok \in BOOLEAN : RecordCompact(ok, MaxTurns)
    /\ UNCHANGED <<ctl, msgs, work, slips>>

Operator == \/ PreRegister \/ PauseGoal \/ ResumeGoal \/ CancelGoal
            \/ \E n \in NewMaxTurns : SetGoalMaxTurns(n)
            \/ InterruptGoal \/ OtherCompact

LoopNext == BeginRun \/ RunGoalStep \/ Operator

LoopSpec == LoopInit /\ [][LoopNext]_loopVars

(***************************************************************************)
(* Properties.                                                             *)
(***************************************************************************)
\* Once pause_goal has returned, at most the attempt already past the gate begins before
\* the goal is resumed; in particular neither a wake-up nor a compact turn slips through.
PauseHolds == slips <= 1

\* Retries are not counted as turns, yet they cannot run away: the attempts made with a
\* work prompt are at most MaxErrors retries and one swallowed wake-up turn for each turn
\* of the budget, and Max413 retries in all (run_goal, is_exhausted, replay.rs).
Grown == IF NewMaxTurns = {} THEN MaxTurns
         ELSE Larger(MaxTurns, CHOOSE n \in NewMaxTurns : \A k \in NewMaxTurns : k <= n)
RetriesBounded == MaxErrors > 0 /\ Max413 > 0 => work <= Grown * (MaxErrors + 2) + Max413

\* A running goal ends, whatever its attempts return and however long it may retry and
\* sleep, unless it is held by a pause that nobody lifts; cancel wins over that pause.
GoalEnds == []<>(~ctl.paused \/ ctl.cancelled) => (at = "top" ~> Ended)
=============================================================================
