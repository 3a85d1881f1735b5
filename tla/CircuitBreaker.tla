--------------------------- MODULE CircuitBreaker ---------------------------
(***************************************************************************)
(* One CircuitBreaker shared by concurrent callers.  A caller goes through *)
(* `call': allow(), then the guarded future, then on_success() or          *)
(* on_failure().  The breaker's mutex is not held across the future, so    *)
(* outcomes arrive in any order, also from calls admitted before the       *)
(* breaker opened.  A future may be dropped before it returns; then no     *)
(* outcome is recorded.  Out-of-band signals trip or reset the breaker.    *)
(***************************************************************************)
EXTENDS Breaker

CONSTANTS
    Callers,     \* the tasks that share the breaker
    MaxTrips     \* bound on the out-of-band trips of a behaviour

ASSUME TripsAssumption == MaxTrips \in Nat

VARIABLES
    cb,          \* the state behind the mutex
    pc,          \* "idle" or "calling": inside the guarded future
    trips,       \* out-of-band trips so far
    errRun,      \* history: failures recorded since the last success or reset
    okRun        \* history: successes recorded since the last failure, trip or reset

vars == <<cb, pc, trips, errRun, okRun>>

(* The runs are counted up to the threshold they are compared with. *)
Saturated(n, cap) == IF n < cap THEN n ELSE cap

Init ==
    /\ cb = NewBreaker
    /\ pc = [c \in Callers |-> "idle"]
    /\ trips = 0
    /\ errRun = 0
    /\ okRun = 0

(* `call' up to the await: rejected inside an open window, else admitted. *)
Admit(c) ==
    /\ pc[c] = "idle"
    /\ Allowed(cb)
    /\ cb' = AfterAllow(cb)
    /\ pc' = [pc EXCEPT ![c] = "calling"]
    /\ UNCHANGED <<trips, errRun, okRun>>

Succeed(c) ==
    /\ pc[c] = "calling"
    /\ cb' = OnSuccess(cb)
    /\ pc' = [pc EXCEPT ![c] = "idle"]
    /\ errRun' = 0
    /\ okRun' = Saturated(okRun + 1, SuccessThreshold)
    /\ UNCHANGED trips

Fail(c) ==
    /\ pc[c] = "calling"
    /\ cb' = OnFailure(cb)
    /\ pc' = [pc EXCEPT ![c] = "idle"]
    /\ errRun' = Saturated(errRun + 1, FailureThreshold)
    /\ okRun' = 0
    /\ UNCHANGED trips

(* The future returned by `call' is dropped at its await. *)
DropCall(c) ==
    /\ pc[c] = "calling"
    /\ pc' = [pc EXCEPT ![c] = "idle"]
    /\ UNCHANGED <<cb, trips, errRun, okRun>>

Trip ==
    /\ trips < MaxTrips
    /\ trips' = trips + 1
    /\ cb' = TripBreaker(cb)
    /\ okRun' = 0
    /\ UNCHANGED <<pc, errRun>>

Reset ==
    /\ cb' = ResetBreaker
    /\ errRun' = 0
    /\ okRun' = 0
    /\ UNCHANGED <<pc, trips>>

Tick ==
    /\ cb.left > 0
    /\ cb' = TickBreaker(cb)
    /\ UNCHANGED <<pc, trips, errRun, okRun>>

Next ==
    \/ \E c \in Callers : Admit(c) \/ Succeed(c) \/ Fail(c) \/ DropCall(c)
    \/ Trip
    \/ Reset
    \/ Tick

(* Time passes; nothing else is promised: a dependency may never answer.   *)
Spec == Init /\ [][Next]_vars /\ WF_vars(Tick)

-----------------------------------------------------------------------------
(* The type invariant of the breaker and of its callers. *)
TypeOK ==
    /\ cb \in Breakers
    /\ pc \in [Callers -> {"idle", "calling"}]
    /\ trips \in 0..MaxTrips
    /\ errRun \in 0..FailureThreshold
    /\ okRun \in 0..SuccessThreshold

MaxWindow == IF InitialBackoff <= MaxBackoff THEN MaxBackoff ELSE InitialBackoff

(* However failures, late failures and trips interleave, a window is never *)
(* longer than the configured bound and its remainder never exceeds it:    *)
(* the cap of the doubling, min(max_backoff), holds on every path.    *)
WindowBounded ==
    /\ cb.mode # "Closed" => cb.backoff <= MaxWindow
    /\ cb.left <= cb.backoff

(* The counters of the enum never run ahead of the outcomes the callers    *)
(* really recorded, whatever late outcomes arrived in between.             *)
CountersAreHonest ==
    /\ cb.mode = "Closed" => cb.fails <= errRun /\ (FailureThreshold > 0 => cb.fails < FailureThreshold)
    /\ cb.mode = "HalfOpen" => cb.succ <= okRun

(* Recorded failures open a closed breaker only as a run of                *)
(* failure_threshold with no success in between, over all callers.         *)
OpensOnlyOnFailureRun ==
    [][cb.mode = "Closed" /\ cb'.mode = "Open" => Trip \/ errRun' = FailureThreshold]_vars

(* The breaker closes again only by reset(), or from HalfOpen after        *)
(* success_threshold successes with no failure or trip in between.         *)
ClosesOnlyOnSuccessRun ==
    [][cb.mode # "Closed" /\ cb'.mode = "Closed"
         => Reset \/ (cb.mode = "HalfOpen" /\ okRun' = SuccessThreshold)]_vars

(* "Calls while already Open extend the backoff": when the configured      *)
(* bounds are ordered, the outcome of a late call never shortens the       *)
(* window other callers are held off for, and no call starts inside it.    *)
WindowHolds ==
    [][cb.mode = "Open" /\ cb.left > 0
         => /\ \A c \in Callers : pc[c] = "idle" => pc'[c] = "idle"
            /\ \/ cb'.mode = "Open" /\ (cb'.left >= cb.left \/ Tick)
               \/ Reset]_vars

(* A window ends: late failures are bounded by the calls already in        *)
(* flight, so once trips stop the breaker lets a probe through.            *)
ProbeEventuallyAllowed == (cb.mode = "Open") ~> Allowed(cb)
=============================================================================
