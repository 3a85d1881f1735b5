------------------------ MODULE CircuitBreakerProofs ------------------------
(***************************************************************************)
(* Proofs about CircuitBreaker for any number of callers, any thresholds   *)
(* and any backoff configuration.                                          *)
(***************************************************************************)
EXTENDS CircuitBreaker, TLAPS

(* The invariant the proofs use.  Beyond the stated invariants it ties the *)
(* fields of the record to the variant: only an open breaker has a window. *)
IInv ==
    /\ TypeOK
    /\ WindowBounded
    /\ CountersAreHonest
    /\ cb.left > 0 => cb.mode = "Open"

(* Doubling stays a natural number and under the bound. *)
LEMMA NextBackoffBounded ==
    ASSUME NEW b \in Nat
    PROVE  NextBackoff(b) \in Nat /\ NextBackoff(b) <= MaxWindow
BY ConfigAssumption DEF NextBackoff, MaxWindow

(* Doubling never shortens a window that was already within max_backoff. *)
LEMMA NextBackoffGrows ==
    ASSUME NEW b \in Nat, b <= MaxBackoff
    PROVE  b <= NextBackoff(b)
BY ConfigAssumption DEF NextBackoff

LEMMA InitInv == Init => IInv
BY ConfigAssumption, TripsAssumption
   DEF Init, IInv, TypeOK, WindowBounded, CountersAreHonest, MaxWindow,
       Breakers, NewBreaker, Closed

(* Every operation keeps the invariant. *)
LEMMA NextInv == IInv /\ [Next]_vars => IInv'
<1> SUFFICES ASSUME IInv, [Next]_vars PROVE IInv'
  OBVIOUS
<1> USE ConfigAssumption, TripsAssumption
        DEF IInv, TypeOK, WindowBounded, CountersAreHonest, MaxWindow, Breakers,
            Closed, Open, HalfOpen
<1>0. NextBackoff(cb.backoff) \in Nat /\ NextBackoff(cb.backoff) <= MaxWindow
  BY NextBackoffBounded
<1>1. ASSUME NEW c \in Callers, Admit(c) PROVE IInv'
  BY <1>1 DEF Admit, Allowed, AfterAllow
<1>2. ASSUME NEW c \in Callers, Succeed(c) PROVE IInv'
  BY <1>2 DEF Succeed, OnSuccess, Saturated
<1>3. ASSUME NEW c \in Callers, Fail(c) PROVE IInv'
  BY <1>0, <1>3 DEF Fail, OnFailure, Saturated
<1>4. ASSUME NEW c \in Callers, DropCall(c) PROVE IInv'
  BY <1>4 DEF DropCall
<1>5. CASE Trip
  BY <1>0, <1>5 DEF Trip, TripBreaker
<1>6. CASE Reset
  BY <1>6 DEF Reset, ResetBreaker
<1>7. CASE Tick
  BY <1>7 DEF Tick, TickBreaker
<1>8. CASE UNCHANGED vars
  BY <1>8 DEF vars
<1> QED
  BY <1>1, <1>2, <1>3, <1>4, <1>5, <1>6, <1>7, <1>8 DEF Next

(* The breaker's state has its type, its window its bound, and its         *)
(* counters never exceed the outcomes that were recorded.                  *)
THEOREM Invariance == Spec => [](TypeOK /\ WindowBounded /\ CountersAreHonest)
<1>1. IInv => TypeOK /\ WindowBounded /\ CountersAreHonest
  BY DEF IInv
<1> QED
  BY InitInv, NextInv, <1>1, PTL DEF Spec

(* A closed breaker opens only by trip() or at the end of a run of         *)
(* failure_threshold recorded failures.                                    *)
THEOREM OpenNeedsFailures == Spec => OpensOnlyOnFailureRun
<1>1. ASSUME IInv, Next, cb.mode = "Closed", cb'.mode = "Open", ~Trip
      PROVE  errRun' = FailureThreshold
  <2> USE <1>1, ConfigAssumption
          DEF IInv, TypeOK, CountersAreHonest, Breakers, Closed, Open, HalfOpen
  <2>1. ASSUME NEW c \in Callers, Admit(c) PROVE FALSE
    BY <2>1 DEF Admit, AfterAllow
  <2>2. ASSUME NEW c \in Callers, Succeed(c) PROVE FALSE
    BY <2>2 DEF Succeed, OnSuccess
  <2>3. ASSUME NEW c \in Callers, Fail(c) PROVE errRun' = FailureThreshold
    BY <2>3 DEF Fail, OnFailure, Saturated
  <2>4. ASSUME NEW c \in Callers, DropCall(c) PROVE FALSE
    BY <2>4 DEF DropCall
  <2>5. CASE Reset
    BY <2>5 DEF Reset, ResetBreaker
  <2>6. CASE Tick
    BY <2>6 DEF Tick, TickBreaker
  <2> QED
    BY <2>1, <2>2, <2>3, <2>4, <2>5, <2>6 DEF Next
<1>2. IInv /\ [Next]_vars
        => [cb.mode = "Closed" /\ cb'.mode = "Open" => Trip \/ errRun' = FailureThreshold]_vars
  BY <1>1
<1> QED
  BY InitInv, NextInv, <1>2, PTL DEF Spec, OpensOnlyOnFailureRun

(* The breaker closes only by reset() or from HalfOpen after               *)
(* success_threshold successes in a row.                                   *)
THEOREM CloseNeedsSuccesses == Spec => ClosesOnlyOnSuccessRun
<1>1. ASSUME IInv, Next, cb.mode # "Closed", cb'.mode = "Closed", ~Reset
      PROVE  cb.mode = "HalfOpen" /\ okRun' = SuccessThreshold
  <2> USE <1>1, ConfigAssumption
          DEF IInv, TypeOK, CountersAreHonest, Breakers, Closed, Open, HalfOpen
  <2>1. ASSUME NEW c \in Callers, Admit(c) PROVE FALSE
    BY <2>1 DEF Admit, AfterAllow
  <2>2. ASSUME NEW c \in Callers, Succeed(c)
        PROVE  cb.mode = "HalfOpen" /\ okRun' = SuccessThreshold
    BY <2>2 DEF Succeed, OnSuccess, Saturated
  <2>3. ASSUME NEW c \in Callers, Fail(c) PROVE FALSE
    BY <2>3 DEF Fail, OnFailure
  <2>4. ASSUME NEW c \in Callers, DropCall(c) PROVE FALSE
    BY <2>4 DEF DropCall
  <2>5. CASE Trip
    BY <2>5 DEF Trip, TripBreaker
  <2>6. CASE Tick
    BY <2>6 DEF Tick, TickBreaker
  <2> QED
    BY <2>1, <2>2, <2>3, <2>4, <2>5, <2>6 DEF Next
<1>2. IInv /\ [Next]_vars
        => [cb.mode # "Closed" /\ cb'.mode = "Closed"
              => Reset \/ (cb.mode = "HalfOpen" /\ okRun' = SuccessThreshold)]_vars
  BY <1>1
<1> QED
  BY InitInv, NextInv, <1>2, PTL DEF Spec, ClosesOnlyOnSuccessRun

(* With ordered bounds, nothing but the clock and reset() brings the end   *)
(* of an open window nearer, and no call is admitted inside it.            *)
THEOREM WindowIsKept == ASSUME InitialBackoff <= MaxBackoff PROVE Spec => WindowHolds
<1> DEFINE Held == /\ \A c \in Callers : pc[c] = "idle" => pc'[c] = "idle"
                   /\ \/ cb'.mode = "Open" /\ (cb'.left >= cb.left \/ Tick)
                      \/ Reset
<1>1. ASSUME IInv, Next, cb.mode = "Open", cb.left > 0 PROVE Held
  <2> USE <1>1, ConfigAssumption
          DEF IInv, TypeOK, WindowBounded, MaxWindow, Breakers, Closed, Open, HalfOpen
  <2>0. NextBackoff(cb.backoff) \in Nat /\ cb.left <= NextBackoff(cb.backoff)
    BY NextBackoffBounded, NextBackoffGrows
  <2>1. ASSUME NEW c \in Callers, Admit(c) PROVE FALSE
    BY <2>1 DEF Admit, Allowed
  <2>2. ASSUME NEW c \in Callers, Succeed(c) PROVE Held
    BY <2>2 DEF Succeed, OnSuccess
  <2>3. ASSUME NEW c \in Callers, Fail(c) PROVE Held
    BY <2>0, <2>3 DEF Fail, OnFailure
  <2>4. ASSUME NEW c \in Callers, DropCall(c) PROVE Held
    BY <2>4 DEF DropCall
  <2>5. CASE Trip
    BY <2>0, <2>5 DEF Trip, TripBreaker
  <2>6. CASE Reset
    BY <2>6 DEF Reset
  <2>7. CASE Tick
    BY <2>7 DEF Tick, TickBreaker
  <2> QED
    BY <2>1, <2>2, <2>3, <2>4, <2>5, <2>6, <2>7 DEF Next
<1>2. IInv /\ [Next]_vars => [cb.mode = "Open" /\ cb.left > 0 => Held]_vars
  BY <1>1
<1> QED
  BY InitInv, NextInv, <1>2, PTL DEF Spec, WindowHolds
=============================================================================
