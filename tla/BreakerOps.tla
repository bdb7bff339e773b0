----------------------------- MODULE BreakerOps -----------------------------
(***************************************************************************)
(* The methods of queue.CircuitBreaker (internal/queue/limiter.go) as      *)
(* operators on the value of one breaker.  Each method runs under cb.mu    *)
(* from beginning to end, so each is one indivisible step; the modules     *)
(* that use a breaker (CircuitBreaker, AccountPool) decide who calls what  *)
(* and when.                                                               *)
(*                                                                         *)
(* The wall clock is represented by sinceFailure, the time elapsed since   *)
(* lastFailureTime, counted in ticks and no further than Timeout + 1: the  *)
(* code only asks whether it exceeds cb.timeout.  The zero lastFailureTime *)
(* of a new breaker is "longer ago than any timeout".                      *)
(***************************************************************************)
EXTENDS Naturals

CONSTANTS
  Threshold,         (* CircuitBreakerConfig.FailureThreshold *)
  HalfOpenMaxCalls,  (* CircuitBreakerConfig.HalfOpenMaxCalls *)
  Timeout            (* CircuitBreakerConfig.Timeout, in ticks *)

\* DefaultCircuitBreakerConfig gives 5, 3 and 30s, and no caller in the
\* program overrides it with a zero.
ASSUME BreakerAssumption ==
  /\ Threshold \in Nat \ {0}
  /\ HalfOpenMaxCalls \in Nat \ {0}
  /\ Timeout \in Nat

BreakerState == {"closed", "open", "half-open"}

Breaker == [state : BreakerState, failureCount : Nat, successCount : Nat,
            sinceFailure : 0 .. Timeout + 1]

NewCircuitBreaker ==
  [state |-> "closed", failureCount |-> 0, successCount |-> 0,
   sinceFailure |-> Timeout + 1]

CooledDown(b) == b.state = "open" /\ b.sinceFailure > Timeout

\* What Allow returns ...
Allow(b) ==
  \/ b.state = "closed"
  \/ CooledDown(b)
  \/ b.state = "half-open" /\ b.successCount < HalfOpenMaxCalls

-----------------------------------------------------------------------------
(* Slips: each method below as an ordinary mistake would leave it.  The    *)
(* runs check that the properties tell the two apart.                      *)

\* Entering half-open without resetting successCount.
AllowKeepsSuccesses(b) ==
  IF CooledDown(b) THEN [b EXCEPT !.state = "half-open"] ELSE b

\* Closing without resetting failureCount.
SuccessKeepsFailures(b) ==
  LET closes == b.successCount + 1 >= HalfOpenMaxCalls
  IN IF b.state = "half-open"
     THEN [b EXCEPT !.successCount = @ + 1,
                    !.state = IF closes THEN "closed" ELSE @]
     ELSE [b EXCEPT !.failureCount = IF b.state = "closed" THEN 0 ELSE @]

\* The threshold is tested before the new failure is counted.
FailureCountsLate(b) ==
  LET opens == \/ b.state = "half-open"
               \/ b.state = "closed" /\ b.failureCount >= Threshold
  IN [b EXCEPT !.state = IF opens THEN "open" ELSE @,
               !.failureCount = @ + 1,
               !.sinceFailure = 0]
-----------------------------------------------------------------------------
\* ... and what it leaves behind: only the call that finds the timeout passed
\* changes the breaker.
AfterAllow(b) ==
  IF CooledDown(b) THEN [b EXCEPT !.state = "half-open", !.successCount = 0]
                   ELSE b

AfterSuccess(b) ==
  LET closes == b.successCount + 1 >= HalfOpenMaxCalls
  IN IF b.state = "half-open"
     THEN [b EXCEPT !.successCount = @ + 1,
                    !.state = IF closes THEN "closed" ELSE @,
                    !.failureCount = IF closes THEN 0 ELSE @]
     ELSE [b EXCEPT !.failureCount = IF b.state = "closed" THEN 0 ELSE @]

\* A failure restarts the timeout in every state, the open one included.
AfterFailure(b) ==
  LET opens == \/ b.state = "half-open"
               \/ b.state = "closed" /\ b.failureCount + 1 >= Threshold
  IN [b EXCEPT !.state = IF opens THEN "open" ELSE @,
               !.failureCount = @ + 1,
               !.sinceFailure = 0]

\* One tick of time.
AfterTick(b) ==
  [b EXCEPT !.sinceFailure = IF @ <= Timeout THEN @ + 1 ELSE @]
=============================================================================
