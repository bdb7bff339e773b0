----------------------------- MODULE RateLimiter ----------------------------
(***************************************************************************)
(* The rate limiter of the queue (internal/queue/queue.go): one token      *)
(* bucket for everybody, and for each account a sliding window twice, as   *)
(* the user's (UserRPM) and as the account's (AccountRPM): the one caller  *)
(* passes the account's name for both.  Allow asks the three in turn and   *)
(* takes nothing back from the first ones when a later one refuses.        *)
(*                                                                         *)
(* The windows are represented by how many timestamps they hold.  Each     *)
(* admitted request has one in both windows, an attempt refused by the     *)
(* account's window one in the user's only.  A window reads the clock for  *)
(* itself (queue.go:92), so the two timestamps of a request, though almost *)
(* the same, need not leave together; what leaves between the readings of  *)
(* one Allow might as well have left before it.  Timestamps leave here in  *)
(* any order.  The bucket counts whole tokens.                             *)
(*                                                                         *)
(* torn is history: whether a window has dropped a request's timestamp     *)
(* without the other window's, since both were last empty.                 *)
(***************************************************************************)
EXTENDS Naturals

CONSTANTS
  Accounts,
  Capacity,   (* tokens of the full bucket: GlobalRPS * 1.5 *)
  UserRPM, AccountRPM

\* DefaultRateLimiterConfig gives 150, 60 and 30.
ASSUME RateAssumption ==
  Capacity \in Nat /\ UserRPM \in Nat /\ AccountRPM \in Nat

VARIABLES bucket, user, account, torn

rateVars == <<bucket, user, account, torn>>

RateInit ==
  /\ bucket = Capacity
  /\ user = [a \in Accounts |-> 0]
  /\ account = [a \in Accounts |-> 0]
  /\ torn = [a \in Accounts |-> FALSE]

UserFull(a) == user[a] >= UserRPM
AccountFull(a) == account[a] >= AccountRPM

\* What Allow answers ...
Allowed(a) == bucket > 0 /\ ~UserFull(a) /\ ~AccountFull(a)

Counted(window, a, condition) ==
  IF condition THEN [window EXCEPT ![a] = @ + 1] ELSE window

\* Slip: the user's window takes the request before the bucket is asked.
AllowUserFirst(a) ==
  /\ bucket' = IF bucket > 0 THEN bucket - 1 ELSE 0
  /\ user' = Counted(user, a, ~UserFull(a))
  /\ account' = Counted(account, a, Allowed(a))
  /\ UNCHANGED torn

\* ... and what it leaves behind.
Allow(a) ==
  /\ bucket' = IF bucket > 0 THEN bucket - 1 ELSE 0
  /\ user' = Counted(user, a, bucket > 0 /\ ~UserFull(a))
  /\ account' = Counted(account, a, Allowed(a))
  /\ UNCHANGED torn

\* Time passes: a token more, or timestamps less.
Refill ==
  /\ bucket < Capacity
  /\ bucket' = bucket + 1
  /\ UNCHANGED <<user, account, torn>>

Drop(window, a) == window' = [window EXCEPT ![a] = @ - 1]

Empty(a) == user'[a] = 0 /\ account'[a] = 0

\* The minute is over of a refused attempt, of an admitted request in both
\* windows, or of one in one window only.
Expire(a) ==
  /\ \/ /\ user[a] > account[a]
        /\ Drop(user, a) /\ UNCHANGED account
        /\ torn' = [torn EXCEPT ![a] = @ /\ ~Empty(a)]
     \/ /\ user[a] > 0 /\ account[a] > 0
        /\ Drop(user, a) /\ Drop(account, a)
        /\ torn' = [torn EXCEPT ![a] = @ /\ ~Empty(a)]
     \/ /\ account[a] > 0
        /\ \/ user[a] > 0 /\ Drop(user, a) /\ UNCHANGED account
           \/ Drop(account, a) /\ UNCHANGED user
        /\ torn' = [torn EXCEPT ![a] = ~Empty(a)]
  /\ UNCHANGED bucket

TimePasses == Refill \/ \E a \in Accounts : Expire(a)
-----------------------------------------------------------------------------
\* The windows hold no more than their limits, and the bucket than its
\* capacity.
WithinLimits ==
  /\ bucket \in 0 .. Capacity
  /\ \A a \in Accounts : user[a] \in 0 .. UserRPM /\ account[a] \in 0 .. AccountRPM

\* The attempts an account makes beyond its own limit stay in the user's window
\* and are never given back.  Where the user's limit is not the lower one, they
\* still cost the account no request that its own limit would admit, as long as
\* the two timestamps of each request leave together.
RefusalsCostNothing ==
  \A a \in Accounts :
    AccountRPM <= UserRPM /\ ~torn[a] /\ UserFull(a) => AccountFull(a)

RateInv == WithinLimits /\ RefusalsCostNothing
=============================================================================
