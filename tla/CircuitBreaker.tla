--------------------------- MODULE CircuitBreaker ---------------------------
(***************************************************************************)
(* One circuit breaker and the concurrent calls it guards                  *)
(* (internal/queue/limiter.go; its callers are Pool.GetToken,              *)
(* Pool.ReportSuccess and Pool.ReportFailure in internal/auth/pool.go).    *)
(* A caller asks Allow, does its work, and later reports a success, a      *)
(* failure, or nothing: an upstream error other than 401/403 is never      *)
(* reported (internal/proxy/proxy.go:141-146).                             *)
(*                                                                         *)
(* failRun and okRun are history: the reports are counted without looking  *)
(* at the breaker's own counters, so that the properties below compare the *)
(* breaker with what really happened.  The specification is BreakerSpec,   *)
(* so that it can be proved about beside the pool.                         *)
(***************************************************************************)
EXTENDS BreakerOps, FiniteSets

CONSTANTS
  Calls,       (* the calls that may be in flight together *)
  MaxFailures  (* bound: no failure is reported once failureCount is there *)

ASSUME CallsAssumption ==
  /\ IsFiniteSet(Calls)
  /\ MaxFailures \in Nat

VARIABLES
  cb,       (* the CircuitBreaker *)
  inFlight, (* the calls let through that have not come back *)
  failRun,  (* failures reported since the last reported success *)
  okRun     (* successes reported since the last failure or closing *)

breakerVars == <<cb, inFlight, failRun, okRun>>

BreakerInit ==
  /\ cb = NewCircuitBreaker
  /\ inFlight = {}
  /\ failRun = 0
  /\ okRun = 0

\* A call refused by Allow leaves no trace and is not a step of its own.
AllowCall(c) ==
  /\ c \notin inFlight
  /\ Allow(cb)
  /\ cb' = AfterAllow(cb)
  /\ inFlight' = inFlight \union {c}
  /\ UNCHANGED <<failRun, okRun>>

RecordSuccess(c) ==
  /\ c \in inFlight
  /\ cb' = AfterSuccess(cb)
  /\ inFlight' = inFlight \ {c}
  /\ failRun' = 0
  /\ okRun' = IF cb'.state = "closed" THEN 0 ELSE okRun + 1

RecordFailure(c) ==
  /\ c \in inFlight
  /\ cb.failureCount < MaxFailures
  /\ cb' = AfterFailure(cb)
  /\ inFlight' = inFlight \ {c}
  /\ failRun' = failRun + 1
  /\ okRun' = 0

\* The call ends with an outcome nobody reports.
Abandon(c) ==
  /\ c \in inFlight
  /\ inFlight' = inFlight \ {c}
  /\ UNCHANGED <<cb, failRun, okRun>>

Wait ==
  /\ cb.sinceFailure <= Timeout
  /\ cb' = AfterTick(cb)
  /\ UNCHANGED <<inFlight, failRun, okRun>>

BreakerNext ==
  \/ \E c \in Calls : AllowCall(c)
  \/ \E c \in Calls : RecordSuccess(c)
  \/ \E c \in Calls : RecordFailure(c)
  \/ \E c \in Calls : Abandon(c)
  \/ Wait

BreakerSpec == BreakerInit /\ [][BreakerNext]_breakerVars

\* Time passes, and whoever may call does call and comes back with an answer.
FairBreakerSpec ==
  /\ BreakerSpec
  /\ WF_breakerVars(Wait)
  /\ \A c \in Calls : WF_breakerVars(AllowCall(c)) /\ WF_breakerVars(RecordSuccess(c))
-----------------------------------------------------------------------------
BreakerTypeOK ==
  /\ cb \in Breaker
  /\ inFlight \subseteq Calls
  /\ failRun \in Nat
  /\ okRun \in Nat

\* While closed, failureCount counts the failures in a row: no failure that a
\* later success has already cancelled, and none older than the last closing,
\* is still held against the account (limiter.go:93-102).
ClosedCountsRun == cb.state = "closed" => cb.failureCount = failRun

\* A half-open breaker is one success or more away from closing.
HalfOpenIsShort ==
  cb.state = "half-open" => /\ cb.successCount < HalfOpenMaxCalls
                            /\ cb.successCount <= okRun

\* Outside the open state no call is ever refused: the "return false" of the
\* half-open branch (limiter.go:81) is unreachable, so a half-open breaker
\* can never lock out the very calls that would close it.
NeverStuckHalfOpen == cb.state # "open" => Allow(cb)

TripIsEarned ==
  cb.state = "closed" /\ cb'.state = "open" => failRun' >= Threshold

ClosingIsEarned ==
  cb.state # "closed" /\ cb'.state = "closed"
    => okRun + 1 >= HalfOpenMaxCalls

\* Whatever order the reports of concurrent calls arrive in, the breaker trips
\* only on Threshold failures in a row (limiter.go:110-119), and closes again
\* only when HalfOpenMaxCalls successes have been reported with no failure
\* among them (limiter.go:69-74, 93-99).
ReportsInARow == [][TripIsEarned /\ ClosingIsEarned]_breakerVars

\* Once calls stop failing and are all reported, the account comes back for
\* good: the breaker ends up closed.
Recovers ==
  (<>[][\A c \in Calls : ~RecordFailure(c) /\ ~Abandon(c)]_breakerVars)
    => <>[](cb.state = "closed")
-----------------------------------------------------------------------------
\* The inductive invariant behind the safety properties: the counters agree
\* with the history in every state, and a breaker that is not closed has
\* reached its threshold.
BreakerInv ==
  /\ BreakerTypeOK
  /\ ClosedCountsRun
  /\ HalfOpenIsShort
  /\ cb.state = "closed" <=> cb.failureCount < Threshold
=============================================================================
