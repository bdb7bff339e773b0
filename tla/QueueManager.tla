---------------------------- MODULE QueueManager ----------------------------
(***************************************************************************)
(* The queue manager (internal/queue/manager.go): SubmitRequest asks the   *)
(* circuit breaker, the rate limiter and the degradation policy before it  *)
(* hands the request to the scheduler.  m.mu makes submissions one after   *)
(* another, and each is one step here: between its parts only the workers  *)
(* and the breaker's reports go on, as they do before or after it.         *)
(*                                                                         *)
(* The RequestProcessor is the caller's: it records the outcome of its     *)
(* request before it returns, or not at all.  The SSE broker the manager   *)
(* also holds is not modelled.                                             *)
(***************************************************************************)
EXTENDS Scheduler, RateLimiter

CONSTANTS
  AccountOf,       (* the account of each request *)
  QueueThreshold,  (* DegradationConfig.QueueThreshold *)
  Threshold, HalfOpenMaxCalls, Timeout

B == INSTANCE BreakerOps

ASSUME ManagerAssumption ==
  /\ AccountOf \in [Requests -> Accounts]
  /\ QueueThreshold \in Nat

VARIABLES
  breaker,   (* m.circuitBreaker *)
  degraded   (* dp.isDegraded *)

managerVars == <<breaker, degraded>>
vars == <<schedVars, rateVars, managerVars>>

Init ==
  /\ SchedInit /\ RateInit
  /\ breaker = B!NewCircuitBreaker
  /\ degraded = FALSE

\* What ShouldDegrade may answer, and leave in dp.isDegraded: yes while the
\* cooldown lasts, which may be over, and then as the queue's length says.
ShouldDegrade == {TotalLength > QueueThreshold} \union {d \in {TRUE} : degraded}

\* The levels above 1 are asked for when the length is not even above the
\* threshold: none is ever reached.
DegradationLevel ==
  IF TotalLength > QueueThreshold THEN 1
  ELSE IF TotalLength > 2 * QueueThreshold THEN 2
  ELSE IF TotalLength > 3 * QueueThreshold THEN 3
  ELSE 1

ErrDegraded(r) == DegradationLevel >= 2 /\ r \notin VIP \union High

\* ErrRateLimited: the limiter and a breaker that has cooled down have changed.
RateLimited(r) ==
  /\ B!Allow(breaker) /\ ~Allowed(AccountOf[r])
  /\ breaker' = B!AfterAllow(breaker)
  /\ Allow(AccountOf[r])
  /\ UNCHANGED <<schedVars, degraded>>

\* Past the limiter; the scheduler's queue may still be full.
Admit(r) ==
  /\ B!Allow(breaker) /\ Allowed(AccountOf[r])
  /\ breaker' = B!AfterAllow(breaker)
  /\ Allow(AccountOf[r])
  /\ degraded' \in ShouldDegrade
  /\ IF (degraded' /\ ErrDegraded(r)) \/ QueueFull THEN UNCHANGED schedVars
                                               ELSE Enqueue(r)

\* A refused request may be submitted again; with ErrCircuitOpen nothing
\* changes.
SubmitRequest(r) == ~Submitted(r) /\ (RateLimited(r) \/ Admit(r))

\* Process, ending with RecordSuccess or RecordFailure.
ProcessAndRecord(r) ==
  /\ Process(r)
  /\ breaker' \in {B!AfterSuccess(breaker), B!AfterFailure(breaker)}
  /\ UNCHANGED <<rateVars, degraded>>

BreakerTick ==
  /\ breaker' = B!AfterTick(breaker)
  /\ UNCHANGED <<schedVars, rateVars, degraded>>

Step ==
  \/ SchedNext /\ UNCHANGED <<rateVars, managerVars>>
  \/ \E r \in Requests : SubmitRequest(r) \/ ProcessAndRecord(r)
  \/ TimePasses /\ UNCHANGED <<schedVars, managerVars>>
  \/ BreakerTick

ManagerSpec == Init /\ [][Step]_vars

\* Nobody has to submit anything.
FairManagerSpec == ManagerSpec /\ SchedFairness
=============================================================================
