------------------------------- MODULE Breaker -------------------------------
(***************************************************************************)
(* The circuit breaker of crates/resilience as a value: its three states   *)
(* and the result of every method that changes them.  The methods run      *)
(* under one mutex, so each is one operator from a breaker to a breaker.   *)
(*                                                                         *)
(* A breaker is a record.  `mode' is the variant of `enum State'; `fails'  *)
(* and `succ' are its two counters; `left' is `until - now' in clock       *)
(* ticks, so that `now >= until' is left = 0; `backoff' is the length of   *)
(* the last window.  A field that the variant does not have is 0.          *)
(***************************************************************************)
EXTENDS Naturals

CONSTANTS FailureThreshold, SuccessThreshold, InitialBackoff, MaxBackoff

(* CircuitBreakerConfig is a plain struct of unsigned numbers: the code    *)
(* checks no relation between its fields.                                  *)
ASSUME ConfigAssumption ==
    /\ FailureThreshold \in Nat
    /\ SuccessThreshold \in Nat
    /\ InitialBackoff \in Nat
    /\ MaxBackoff \in Nat

Closed(n) == [mode |-> "Closed", fails |-> n, succ |-> 0, left |-> 0, backoff |-> 0]
Open(b) == [mode |-> "Open", fails |-> 0, succ |-> 0, left |-> b, backoff |-> b]
HalfOpen(n, b) == [mode |-> "HalfOpen", fails |-> 0, succ |-> n, left |-> 0, backoff |-> b]

Breakers == [mode : {"Closed", "Open", "HalfOpen"}, fails : 0..FailureThreshold,
             succ : 0..SuccessThreshold, left : Nat, backoff : Nat]

NewBreaker == Closed(0)

(* The window that follows one of length b. *)
NextBackoff(b) == IF 2 * b <= MaxBackoff THEN 2 * b ELSE MaxBackoff

(* What allow() answers: false only inside an open window. *)
Allowed(cb) == cb.mode # "Open" \/ cb.left = 0

(* What allow() leaves behind: an elapsed window becomes a probe phase. *)
AfterAllow(cb) == IF cb.mode = "Open" /\ cb.left = 0 THEN HalfOpen(0, cb.backoff) ELSE cb

OnSuccessEager(cb) == IF cb.mode = "Open" THEN cb ELSE NewBreaker
OnSuccess(cb) ==
    CASE cb.mode = "Closed"   -> Closed(0)
      [] cb.mode = "HalfOpen" -> IF cb.succ + 1 >= SuccessThreshold
                                   THEN Closed(0)
                                   ELSE HalfOpen(cb.succ + 1, cb.backoff)
      [] cb.mode = "Open"     -> cb

OnFailureEager(cb) == IF cb.mode = "Closed" THEN Open(InitialBackoff)
                                            ELSE Open(NextBackoff(cb.backoff))
OnFailureRestarts(cb) ==
    IF cb.mode = "Closed"
      THEN IF cb.fails + 1 >= FailureThreshold THEN Open(InitialBackoff) ELSE Closed(cb.fails + 1)
      ELSE Open(InitialBackoff)
OnFailure(cb) ==
    IF cb.mode = "Closed"
      THEN IF cb.fails + 1 >= FailureThreshold THEN Open(InitialBackoff) ELSE Closed(cb.fails + 1)
      ELSE Open(NextBackoff(cb.backoff))

TripBreaker(cb) == Open(IF cb.mode = "Closed" THEN InitialBackoff ELSE NextBackoff(cb.backoff))

ResetBreaker == Closed(0)

(* One tick of the clock that Instant::now() reads. *)
TickFrozen(cb) == cb
TickBreaker(cb) == [cb EXCEPT !.left = IF @ > 0 THEN @ - 1 ELSE 0]
==============================================================================
