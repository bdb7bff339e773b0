-------------------------- MODULE QueueManagerProofs ------------------------
(***************************************************************************)
(* What the queue manager promises for any requests, workers and limits:   *)
(* the rate limiter's windows, that a stopped scheduler is stopped, that   *)
(* no accepted request is lost or doubled, and that within a priority the  *)
(* older request is taken first.                                           *)
(***************************************************************************)
EXTENDS QueueManager, SequenceTheorems, FiniteSetTheorems, TLAPS

\* The two windows of an account hold what they may.
WindowsTyped ==
  /\ user \in [Accounts -> 0 .. UserRPM]
  /\ account \in [Accounts -> 0 .. AccountRPM]
  /\ torn \in [Accounts -> BOOLEAN]

\* The attempts that only the user's window u knows do not fill the room it has
\* beyond the account's window n.
RoomIn(u, n) == n <= u /\ (AccountRPM <= UserRPM => u - n <= UserRPM - AccountRPM)

\* The inductive invariant of the limiter: as long as a request's two timestamps
\* leave together, there is room.
RateRoom ==
  /\ bucket \in 0 .. Capacity
  /\ WindowsTyped
  /\ \A a \in Accounts : ~torn[a] => RoomIn(user[a], account[a])

\* The room left by the inductive invariant is what the limits promise.
LEMMA RoomSuffices == RateRoom => RateInv
BY RateAssumption DEF RateRoom, RoomIn, WindowsTyped, RateInv, WithinLimits,
                      RefusalsCostNothing, UserFull, AccountFull

\* What is left to show of a step that touches the windows of a alone.
LEMMA RoomKept ==
  ASSUME RateRoom, NEW a \in Accounts, bucket' \in 0 .. Capacity,
         NEW u \in 0 .. UserRPM, NEW n \in 0 .. AccountRPM, NEW t \in BOOLEAN,
         user' = [user EXCEPT ![a] = u], account' = [account EXCEPT ![a] = n],
         torn' = [torn EXCEPT ![a] = t], ~t => RoomIn(u, n)
  PROVE  RateRoom'
<1>1. WindowsTyped'
  BY DEF RateRoom, WindowsTyped
<1>2. ASSUME NEW b \in Accounts, ~torn'[b] PROVE RoomIn(user'[b], account'[b])
  <2>1. CASE b = a
    BY <1>2, <2>1 DEF RateRoom, WindowsTyped
  <2>2. CASE b # a
    <3>1. /\ user'[b] = user[b] /\ account'[b] = account[b]
          /\ torn'[b] <=> torn[b]
      BY <2>2 DEF RateRoom, WindowsTyped
    <3> QED BY <1>2, <3>1 DEF RateRoom
  <2> QED BY <2>1, <2>2
<1>3. \A b \in Accounts : ~torn'[b] => RoomIn(user[b], account[b])'
  BY <1>2 DEF RoomIn
<1> QED BY <1>1, <1>3 DEF RateRoom

\* A submission is counted where there is room for it, admitted or refused.
LEMMA AllowKeepsRoom ==
  ASSUME RateRoom, NEW a \in Accounts, Allow(a)
  PROVE  RateRoom'
<1> DEFINE u == IF bucket > 0 /\ ~UserFull(a) THEN user[a] + 1 ELSE user[a]
           n == IF Allowed(a) THEN account[a] + 1 ELSE account[a]
           t == torn[a]
<1>1. bucket' \in 0 .. Capacity
  BY RateAssumption DEF RateRoom, Allow
<1>2. user[a] \in 0 .. UserRPM /\ account[a] \in 0 .. AccountRPM /\ t \in BOOLEAN
  BY DEF RateRoom, WindowsTyped
<1>3. u \in 0 .. UserRPM
  BY <1>2, RateAssumption DEF UserFull
<1>4. n \in 0 .. AccountRPM
  BY <1>2, RateAssumption DEF Allowed, AccountFull
<1>5. user' = [user EXCEPT ![a] = u] /\ account' = [account EXCEPT ![a] = n]
  BY DEF Allow, Counted, RateRoom, WindowsTyped
<1>6. torn' = [torn EXCEPT ![a] = t]
  BY DEF Allow, RateRoom, WindowsTyped
<1>7. ASSUME ~t PROVE RoomIn(u, n)
  <2>1. RoomIn(user[a], account[a])
    BY <1>7 DEF RateRoom
  <2> QED BY <1>2, <2>1, RateAssumption DEF RoomIn, Allowed, UserFull, AccountFull
<1> HIDE DEF u, n, t
<1> QED BY <1>1, <1>2, <1>3, <1>4, <1>5, <1>6, <1>7, RoomKept

\* A refill fills the bucket at most, and what leaves the windows makes room in
\* both, or in the user's, or tears them apart.
LEMMA TimeKeepsRoom ==
  ASSUME RateRoom, TimePasses
  PROVE  RateRoom'
<1>1. CASE Refill
  BY <1>1, RateAssumption DEF RateRoom, WindowsTyped, RoomIn, Refill
<1>2. ASSUME NEW a \in Accounts, Expire(a)
      PROVE  RateRoom'
  <2>0. /\ user[a] \in 0 .. UserRPM /\ account[a] \in 0 .. AccountRPM
        /\ torn[a] \in BOOLEAN /\ bucket' \in 0 .. Capacity
        /\ user = [user EXCEPT ![a] = user[a]]
        /\ account = [account EXCEPT ![a] = account[a]]
    BY <1>2 DEF Expire, RateRoom, WindowsTyped
  <2>1. ASSUME user[a] > account[a], Drop(user, a), UNCHANGED account,
               torn' = [torn EXCEPT ![a] = @ /\ ~Empty(a)]
        PROVE  RateRoom'
    <3>1. user[a] - 1 \in 0 .. UserRPM
      BY <2>0, <2>1, RateAssumption
    <3>2. user' = [user EXCEPT ![a] = user[a] - 1]
          /\ account' = [account EXCEPT ![a] = account[a]]
      BY <2>0, <2>1 DEF Drop
    <3>3. ASSUME ~(torn[a] /\ ~Empty(a)) PROVE RoomIn(user[a] - 1, account[a])
      <4>1. CASE ~torn[a]
        BY <2>0, <2>1, <4>1, RateAssumption DEF RateRoom, RoomIn
      <4>2. CASE Empty(a)
        <5>1. user[a] - 1 = 0 /\ account[a] = 0
          BY <2>0, <3>2, <4>2 DEF Empty, RateRoom, WindowsTyped
        <5> QED BY <5>1, RateAssumption DEF RoomIn
      <4> QED BY <3>3, <4>1, <4>2
    <3>4. PICK t \in BOOLEAN : t <=> torn[a] /\ ~Empty(a)
      OBVIOUS
    <3>5. torn' = [torn EXCEPT ![a] = t]
      BY <2>0, <2>1, <3>4, Zenon
    <3> QED BY <2>0, <3>1, <3>2, <3>3, <3>4, <3>5, RoomKept
  <2>2. ASSUME user[a] > 0, account[a] > 0, Drop(user, a), Drop(account, a),
               torn' = [torn EXCEPT ![a] = @ /\ ~Empty(a)]
        PROVE  RateRoom'
    <3>1. user[a] - 1 \in 0 .. UserRPM /\ account[a] - 1 \in 0 .. AccountRPM
      BY <2>0, <2>2, RateAssumption
    <3>2. user' = [user EXCEPT ![a] = user[a] - 1]
          /\ account' = [account EXCEPT ![a] = account[a] - 1]
      BY <2>2 DEF Drop
    <3>3. ASSUME ~(torn[a] /\ ~Empty(a)) PROVE RoomIn(user[a] - 1, account[a] - 1)
      <4>1. CASE ~torn[a]
        BY <2>0, <2>2, <4>1, RateAssumption DEF RateRoom, RoomIn
      <4>2. CASE Empty(a)
        <5>1. user[a] - 1 = 0 /\ account[a] - 1 = 0
          BY <2>0, <3>2, <4>2 DEF Empty, RateRoom, WindowsTyped
        <5> QED BY <5>1, RateAssumption DEF RoomIn
      <4> QED BY <3>3, <4>1, <4>2
    <3>4. PICK t \in BOOLEAN : t <=> torn[a] /\ ~Empty(a)
      OBVIOUS
    <3>5. torn' = [torn EXCEPT ![a] = t]
      BY <2>0, <2>2, <3>4, Zenon
    <3> QED BY <2>0, <3>1, <3>2, <3>3, <3>4, <3>5, RoomKept
  <2>3. ASSUME account[a] > 0, torn' = [torn EXCEPT ![a] = ~Empty(a)],
               \/ user[a] > 0 /\ Drop(user, a) /\ UNCHANGED account
               \/ Drop(account, a) /\ UNCHANGED user
        PROVE  RateRoom'
    <3>1. PICK u \in 0 .. UserRPM, n \in 0 .. AccountRPM :
            /\ user' = [user EXCEPT ![a] = u]
            /\ account' = [account EXCEPT ![a] = n]
      <4>1. user[a] > 0 => user[a] - 1 \in 0 .. UserRPM
        BY <2>0, RateAssumption
      <4>2. account[a] - 1 \in 0 .. AccountRPM
        BY <2>0, <2>3, RateAssumption
      <4> QED BY <2>0, <2>3, <4>1, <4>2 DEF Drop
    <3>2. ASSUME Empty(a) PROVE RoomIn(u, n)
      <4>1. u = 0 /\ n = 0
        BY <3>1, <3>2 DEF Empty, RateRoom, WindowsTyped
      <4> QED BY <4>1, RateAssumption DEF RoomIn
    <3>3. PICK t \in BOOLEAN : t <=> ~Empty(a)
      OBVIOUS
    <3>4. torn' = [torn EXCEPT ![a] = t]
      BY <2>3, <3>3, Zenon
    <3> QED BY <2>0, <3>1, <3>2, <3>3, <3>4, RoomKept
  <2> QED BY <1>2, <2>1, <2>2, <2>3 DEF Expire
<1> QED BY <1>1, <1>2 DEF TimePasses

\* Only submissions and time touch the limiter.
LEMMA RateStep ==
  ASSUME Step
  PROVE  \/ UNCHANGED rateVars
         \/ TimePasses
         \/ \E a \in Accounts : Allow(a)
<1>1. ASSUME NEW r \in Requests, SubmitRequest(r)
      PROVE  \E a \in Accounts : Allow(a)
  <2>1. AccountOf[r] \in Accounts
    BY ManagerAssumption
  <2> QED BY <1>1, <2>1 DEF SubmitRequest, RateLimited, Admit
<1> QED BY <1>1 DEF Step, ProcessAndRecord, BreakerTick

\* Whatever the limits: no account is admitted more often in a minute than
\* AccountRPM allows or counted more often than UserRPM, and the bucket never
\* overflows; and if AccountRPM is not above UserRPM, the refused attempts that
\* stay in the user's window cost an account no request that its own limit would
\* admit, as long as the two timestamps of each request leave the two windows
\* together (queue.go:169-202).
THEOREM RateLimits == ManagerSpec => []RateInv
<1>1. Init => RateRoom
  BY RateAssumption DEF Init, RateInit, RateRoom, WindowsTyped, RoomIn
<1>2. RateRoom /\ [Step]_vars => RateRoom'
  <2> SUFFICES ASSUME RateRoom, [Step]_vars PROVE RateRoom'
    OBVIOUS
  <2>1. CASE UNCHANGED rateVars
    BY <2>1 DEF RateRoom, WindowsTyped, RoomIn, rateVars
  <2>2. CASE TimePasses
    BY <2>2, TimeKeepsRoom
  <2>3. ASSUME NEW a \in Accounts, Allow(a) PROVE RateRoom'
    BY <2>3, AllowKeepsRoom
  <2>4. UNCHANGED vars => UNCHANGED rateVars
    BY DEF vars
  <2> QED BY <2>1, <2>2, <2>3, <2>4, RateStep
<1> QED BY <1>1, <1>2, RoomSuffices, PTL DEF ManagerSpec
-----------------------------------------------------------------------------
\* Once Stop has returned every worker is gone.
StoppedGone == stop = "returned" => \A w \in Workers : At(w, "gone")

\* A worker that is gone does nothing.
LEMMA GoneIsIdle ==
  ASSUME NEW w \in Workers, At(w, "gone")
  PROVE  ~Work(w)
BY DEF Work, CheckContext, Dequeue, Idle, Acquire, At

\* What a step does to the scheduler is its own, a submission or a report.
LEMMA SchedStep ==
  ASSUME [Step]_vars
  PROVE  \/ UNCHANGED schedVars
         \/ SchedNext
         \/ \E r \in Requests : ~Submitted(r) /\ Enqueue(r)
         \/ \E r \in Requests : Process(r)
<1>1. ASSUME NEW r \in Requests, SubmitRequest(r)
      PROVE  UNCHANGED schedVars \/ (~Submitted(r) /\ Enqueue(r))
  BY <1>1 DEF SubmitRequest, RateLimited, Admit
<1>2. ASSUME NEW r \in Requests, ProcessAndRecord(r)
      PROVE  Process(r)
  BY <1>2 DEF ProcessAndRecord
<1>3. TimePasses /\ UNCHANGED <<schedVars, managerVars>> => UNCHANGED schedVars
  OBVIOUS
<1>4. BreakerTick \/ UNCHANGED vars => UNCHANGED schedVars
  BY DEF BreakerTick, vars
<1> QED BY <1>1, <1>2, <1>3, <1>4 DEF Step

\* Only a worker that is not gone starts anything, and Stop waits for them all.
LEMMA StoppedStep ==
  ASSUME StoppedGone, [Step]_vars
  PROVE  /\ StoppedGone'
         /\ stop = "returned" => \A r \in Requests : ~Starts(r)
<1>1. CASE UNCHANGED schedVars
  BY <1>1 DEF schedVars, StoppedGone, Starts, At
<1>2. ASSUME NEW w \in Workers, Work(w)
      PROVE  stop # "returned" /\ stop' = stop
  <2>1. stop # "returned"
    BY <1>2, GoneIsIdle DEF StoppedGone
  <2>2. stop' = stop
    BY <1>2 DEF Work, CheckContext, Dequeue, Idle, Acquire
  <2> QED BY <2>1, <2>2
<1>3. ASSUME NEW r \in Requests, Enqueue(r) \/ Process(r)
      PROVE  worker' = worker /\ stop' = stop /\ running' \subseteq running
  BY <1>3 DEF Enqueue, Process
<1>4. CASE Stop
  BY <1>4 DEF Stop, StoppedGone
<1>5. CASE StopReturns
  BY <1>5 DEF StopReturns, StoppedGone, At
<1>6. CASE \E w \in Workers : Work(w)
  BY <1>2, <1>6 DEF StoppedGone
<1>7. CASE \E r \in Requests : Enqueue(r) \/ Process(r)
  BY <1>3, <1>7 DEF StoppedGone, Starts, At
<1> QED BY <1>1, <1>4, <1>5, <1>6, <1>7, SchedStep DEF SchedNext

\* Once Stop has returned, no request is started any more, however many workers
\* held requests or waited for a slot, and whatever is still submitted
\* (scheduler.go:127-166).
THEOREM StopIsFinal == ManagerSpec => StoppedStartsNothing
<1>1. Init => StoppedGone
  BY DEF Init, SchedInit, StoppedGone
<1>2. StoppedGone /\ [Step]_vars => StoppedGone'
  BY StoppedStep
<1>3. StoppedGone /\ [Step]_vars
        => [stop = "returned" => \A r \in Requests : ~Starts(r)]_schedVars
  BY StoppedStep
<1> QED BY <1>1, <1>2, <1>3, PTL DEF ManagerSpec, StoppedStartsNothing
-----------------------------------------------------------------------------
\* The four priorities.
LEMMA PriorityIs == Priority = {"VIP", "High", "Normal", "Low"}
<1>1. DOMAIN Priorities = 1 .. 4
  BY DEF Priorities
<1>2. /\ Priorities[1] = "VIP" /\ Priorities[2] = "High"
      /\ Priorities[3] = "Normal" /\ Priorities[4] = "Low"
  BY DEF Priorities
<1> QED BY <1>1, <1>2 DEF Priority, ToSet

SumOfLengths == Len(queues["VIP"]) + Len(queues["High"])
                  + Len(queues["Normal"]) + Len(queues["Low"])

\* TotalLength, a fold over the set of priorities, is the sum of the four
\* lengths: its recursion goes down a well-founded order, so it has one
\* solution, and the sum is one.
LEMMA TotalLengthIs ==
  queues \in [Priority -> Seq(Requests)] => TotalLength = SumOfLengths
<1> SUFFICES ASSUME queues \in [Priority -> Seq(Requests)]
             PROVE  TotalLength = SumOfLengths
  OBVIOUS
<1> DEFINE Body(f) == [s \in SUBSET Priority |->
                       IF s = {} THEN 0
                       ELSE LET x == CHOOSE y \in s : TRUE
                            IN  f[s \ {x}] + Len(queues[x])]
           Of(p, s) == IF p \in s THEN Len(queues[p]) ELSE 0
           sum == [s \in SUBSET Priority |->
                     Of("VIP", s) + Of("High", s)
                       + Of("Normal", s) + Of("Low", s)]
<1>1. TotalLength = (CHOOSE f : f = Body(f))[Priority]
  BY DEF TotalLength, FoldSet, MapThenFoldSet
<1>2. \A p \in Priority : Len(queues[p]) \in Nat
  OBVIOUS
<1>3. ASSUME NEW s \in SUBSET Priority, NEW x \in s
      PROVE  sum[s] = sum[s \ {x}] + Len(queues[x])
  <2>1. /\ sum[s] = Of("VIP", s) + Of("High", s) + Of("Normal", s) + Of("Low", s)
        /\ sum[s \ {x}] = Of("VIP", s \ {x}) + Of("High", s \ {x})
                           + Of("Normal", s \ {x}) + Of("Low", s \ {x})
    OBVIOUS
  <2>2. \A p \in Priority :
          /\ p = x => Of(p, s) = Len(queues[p]) /\ Of(p, s \ {x}) = 0
          /\ p # x => Of(p, s \ {x}) = Of(p, s)
          /\ Of(p, s) \in Nat
    BY <1>2
  <2> HIDE DEF Of, sum
  <2>3. x \in {"VIP", "High", "Normal", "Low"}
    BY PriorityIs
  <2>4. /\ "VIP" \in Priority /\ "High" \in Priority
        /\ "Normal" \in Priority /\ "Low" \in Priority
    BY PriorityIs
  <2>5. /\ Of("VIP", s) \in Nat /\ Of("High", s) \in Nat
        /\ Of("Normal", s) \in Nat /\ Of("Low", s) \in Nat
    BY <2>2, <2>4
  <2>6. CASE x = "VIP"
    <3>1. Of("VIP", s) = Len(queues[x]) /\ Of("VIP", s \ {x}) = 0
      BY <2>2, <2>4, <2>6
    <3>2. /\ Of("High", s \ {x}) = Of("High", s)
          /\ Of("Normal", s \ {x}) = Of("Normal", s)
          /\ Of("Low", s \ {x}) = Of("Low", s)
      BY <2>2, <2>4, <2>6
    <3> QED BY <2>1, <2>5, <3>1, <3>2
  <2>7. CASE x = "High"
    <3>1. Of("High", s) = Len(queues[x]) /\ Of("High", s \ {x}) = 0
      BY <2>2, <2>4, <2>7
    <3>2. /\ Of("VIP", s \ {x}) = Of("VIP", s)
          /\ Of("Normal", s \ {x}) = Of("Normal", s)
          /\ Of("Low", s \ {x}) = Of("Low", s)
      BY <2>2, <2>4, <2>7
    <3> QED BY <2>1, <2>5, <3>1, <3>2
  <2>8. CASE x = "Normal"
    <3>1. Of("Normal", s) = Len(queues[x]) /\ Of("Normal", s \ {x}) = 0
      BY <2>2, <2>4, <2>8
    <3>2. /\ Of("VIP", s \ {x}) = Of("VIP", s)
          /\ Of("High", s \ {x}) = Of("High", s)
          /\ Of("Low", s \ {x}) = Of("Low", s)
      BY <2>2, <2>4, <2>8
    <3> QED BY <2>1, <2>5, <3>1, <3>2
  <2>9. CASE x = "Low"
    <3>1. Of("Low", s) = Len(queues[x]) /\ Of("Low", s \ {x}) = 0
      BY <2>2, <2>4, <2>9
    <3>2. /\ Of("VIP", s \ {x}) = Of("VIP", s)
          /\ Of("High", s \ {x}) = Of("High", s)
          /\ Of("Normal", s \ {x}) = Of("Normal", s)
      BY <2>2, <2>4, <2>9
    <3> QED BY <2>1, <2>5, <3>1, <3>2
  <2> QED BY <2>3, <2>6, <2>7, <2>8, <2>9
<1>4. sum[{}] = 0
  OBVIOUS
<1>5. sum = Body(sum)
  <2>1. ASSUME NEW s \in SUBSET Priority PROVE sum[s] = Body(sum)[s]
    <3> HIDE DEF sum
    <3>1. CASE s = {}
      BY <1>4, <3>1
    <3>2. CASE s # {}
      <4>1. (CHOOSE y \in s : TRUE) \in s
        BY <3>2
      <4> QED BY <1>3, <3>2, <4>1
    <3> QED BY <3>1, <3>2
  <2> QED BY <2>1
<1>6. ASSUME NEW f, f = Body(f)
      PROVE  f[Priority] = sum[Priority]
  <2> DEFINE Bad == {s \in SUBSET Priority : f[s] # sum[s]}
  <2>1. ASSUME NEW s \in Bad PROVE \E t \in Bad : t \subseteq s /\ t # s
    <3>1. f[s] = Body(f)[s]
      BY <1>6
    <3>2. s # {}
      BY <3>1, <1>4
    <3> DEFINE x == CHOOSE y \in s : TRUE
    <3>3. x \in s
      BY <3>2
    <3>4. f[s] = f[s \ {x}] + Len(queues[x])
      BY <3>1, <3>2
    <3> HIDE DEF x, sum
    <3>5. sum[s] = sum[s \ {x}] + Len(queues[x])
      BY <1>3, <3>3
    <3> QED BY <3>3, <3>4, <3>5
  <2>2. IsFiniteSet(Priority)
    <3>1. /\ IsFiniteSet({"VIP"} \union {"High"})
          /\ IsFiniteSet({"Normal"} \union {"Low"})
      BY FS_Singleton, FS_Union
    <3>2. Priority = ({"VIP"} \union {"High"}) \union ({"Normal"} \union {"Low"})
      BY PriorityIs
    <3> QED BY <3>1, <3>2, FS_Union
  <2>3. IsWellFoundedOn(StrictSubsetOrdering(Priority), SUBSET Priority)
    BY <2>2, FS_StrictSubsetOrderingWellFounded, FS_FiniteSubsetsOfFinite
  <2>4. Bad = {}
    <3> SUFFICES ASSUME Bad # {} PROVE FALSE
      OBVIOUS
    <3> HIDE DEF Bad
    <3>1. Bad \subseteq SUBSET Priority
      BY DEF Bad
    <3>2. PICK s \in Bad :
            \A t \in Bad : ~(<<t, s>> \in StrictSubsetOrdering(Priority))
      BY <2>3, <3>1, WFMin
    <3> QED BY <2>1, <3>1, <3>2 DEF StrictSubsetOrdering
  <2> QED BY <2>4
<1>7. TotalLength = sum[Priority]
  <2> HIDE DEF Body, sum
  <2> QED BY <1>1, <1>5, <1>6
<1> QED BY <1>7, PriorityIs DEF SumOfLengths

\* The same of the next state.
LEMMA TotalLengthNext ==
  (queues \in [Priority -> Seq(Requests)] => TotalLength = SumOfLengths)'
BY TotalLengthIs, PTL

\* The elements of a sequence one longer.
LEMMA AppendElements ==
  ASSUME NEW S, NEW s \in Seq(S), NEW e \in S
  PROVE  /\ ToSet(Append(s, e)) = ToSet(s) \union {e}
         /\ IsInjective(s) /\ e \notin ToSet(s) => IsInjective(Append(s, e))
<1> DEFINE t == Append(s, e)
<1>1. /\ Len(s) \in Nat /\ Len(t) = Len(s) + 1
      /\ DOMAIN s = 1 .. Len(s) /\ DOMAIN t = 1 .. Len(s) + 1
      /\ \A i \in 1 .. Len(s) : t[i] = s[i]
      /\ t[Len(s) + 1] = e
  BY AppendProperties
<1> HIDE DEF t
<1>2. ToSet(t) = ToSet(s) \union {e}
  BY <1>1 DEF ToSet
<1>3. IsInjective(s) /\ e \notin ToSet(s) => IsInjective(t)
  BY <1>1 DEF ToSet, IsInjective
<1> QED BY <1>2, <1>3 DEF t

\* The elements that follow the first of a sequence without repetitions.
LEMMA TailElements ==
  ASSUME NEW S, NEW s \in Seq(S), s # <<>>
  PROVE  /\ Head(s) \in ToSet(s) /\ ToSet(s) = {Head(s)} \union ToSet(Tail(s))
         /\ IsInjective(s) => /\ IsInjective(Tail(s)) 
                              /\ Head(s) \notin ToSet(Tail(s))
<1> DEFINE t == Tail(s)
<1>1. /\ Len(s) \in Nat \ {0} /\ Len(t) = Len(s) - 1
      /\ DOMAIN s = 1 .. Len(s) /\ DOMAIN t = 1 .. Len(s) - 1
      /\ \A i \in 1 .. Len(s) - 1 : t[i] = s[i + 1]
      /\ Head(s) = s[1]
  BY HeadTailProperties
<1> HIDE DEF t
<1>2. ToSet(s) = {Head(s)} \union ToSet(t)
  <2>1. \A i \in 2 .. Len(s) : i - 1 \in DOMAIN t /\ t[i - 1] = s[i]
    BY <1>1
  <2>2. ASSUME NEW i \in DOMAIN s PROVE s[i] \in {Head(s)} \union ToSet(t)
    <3>1. i = 1 \/ i \in 2 .. Len(s)
      BY <1>1
    <3> QED BY <1>1, <2>1, <3>1 DEF ToSet
  <2>3. ASSUME NEW i \in DOMAIN t PROVE t[i] \in ToSet(s)
    <3>1. i + 1 \in DOMAIN s /\ t[i] = s[i + 1]
      BY <1>1
    <3> QED BY <3>1 DEF ToSet
  <2>4. Head(s) \in ToSet(s)
    <3>1. 1 \in DOMAIN s
      BY <1>1
    <3> QED BY <1>1, <3>1 DEF ToSet
  <2> QED BY <2>2, <2>3, <2>4 DEF ToSet
<1>3. IsInjective(s) => IsInjective(t)
  BY <1>1 DEF IsInjective
<1>4. IsInjective(s) => Head(s) \notin ToSet(t)
  BY <1>1 DEF IsInjective, ToSet
<1> QED BY <1>2, <1>3, <1>4 DEF t

\* Some queue holds r.
InQueue(r) == \E p \in Priority : r \in ToSet(queues[p])

\* The workers that hold a request.
Holding == {w \in Workers : hand[w] # None}

\* A queue holds a request once, and only requests of its own priority.
QueuesProper ==
  \A p \in Priority :
    IsInjective(queues[p]) /\ \A r \in ToSet(queues[p]) : QueueOf(r) = p

\* A worker holds a request just while it waits for a slot, and alone.
HandsProper ==
  /\ \A w \in Workers : hand[w] # None <=> At(w, "acquire")
  /\ \A v, w \in Holding : hand[v] = hand[w] => v = w

\* No two of queue, hand, slot and done have a request, one of them if it was
\* accepted.
PlacesApart ==
  \A r \in Requests :
    /\ InQueue(r) => ~InHand(r) /\ r \notin running /\ r \notin processed
    /\ InHand(r) => r \notin running /\ r \notin processed
    /\ r \in running => r \notin processed
    /\ Submitted(r) <=> InQueue(r) \/ InHand(r) \/ r \in running \union processed

\* Every accepted request counts once.
AllCounted ==
  TotalLength + Cardinality(Holding) + Cardinality(running)
    + Cardinality(processed) = Len(accepted)

\* The inductive invariant of the scheduler.
SchedIInv ==
  /\ SchedTypeOK /\ QueuesProper /\ HandsProper /\ PlacesApart
  /\ AllCounted /\ SlotsMatch

\* The order of the queues is the order of acceptance, and a request is taken
\* from its queue only after those accepted before it.
InOrder ==
  /\ IsInjective(accepted)
  /\ \A p \in Priority : \A k, l \in DOMAIN queues[p] :
       \A i, j \in DOMAIN accepted :
         k < l /\ queues[p][k] = accepted[i] /\ queues[p][l] = accepted[j]
           => i < j
  /\ \A i, j \in DOMAIN accepted :
       /\ i < j
       /\ QueueOf(accepted[i]) = QueueOf(accepted[j])
       /\ Queued(accepted[i])
       => Queued(accepted[j])

\* Every request has a queue.
LEMMA QueueOfType == \A r \in Requests : QueueOf(r) \in Priority
BY PriorityIs DEF QueueOf

\* Replacing one queue changes the sum by the difference of the lengths.
LEMMA LengthChange ==
  ASSUME queues \in [Priority -> Seq(Requests)], NEW p \in Priority,
         NEW q \in Seq(Requests), queues' = [queues EXCEPT ![p] = q]
  PROVE  /\ TotalLength \in Nat /\ TotalLength' \in Nat
         /\ TotalLength' = TotalLength + Len(q) - Len(queues[p])
<1> DEFINE old(x) == Len(queues[x])  new(x) == Len(queues'[x])
<1>1. queues' \in [Priority -> Seq(Requests)]
  OBVIOUS
<1>2. \A x \in Priority : new(x) = IF x = p THEN Len(q) ELSE old(x)
  OBVIOUS
<1>3. /\ \A x \in Priority : old(x) \in Nat /\ new(x) \in Nat
      /\ Len(q) \in Nat
  BY <1>1
<1>4. /\ TotalLength = old("VIP") + old("High") + old("Normal") + old("Low")
      /\ TotalLength' = new("VIP") + new("High") + new("Normal") + new("Low")
  BY <1>1, TotalLengthIs, TotalLengthNext DEF SumOfLengths
<1> HIDE DEF old, new
<1>5. /\ TotalLength \in Nat /\ TotalLength' \in Nat
      /\ TotalLength' = TotalLength + Len(q) - old(p)
  <2>0. /\ old("VIP") \in Nat /\ old("High") \in Nat
        /\ old("Normal") \in Nat /\ old("Low") \in Nat
    BY <1>3, PriorityIs
  <2>1. CASE p = "VIP"
    <3>1. /\ new("VIP") = Len(q) /\ new("High") = old("High")
          /\ new("Normal") = old("Normal") /\ new("Low") = old("Low")
      BY <1>2, <2>1, PriorityIs
    <3> QED BY <1>3, <1>4, <2>0, <2>1, <3>1
  <2>2. CASE p = "High"
    <3>1. /\ new("High") = Len(q) /\ new("VIP") = old("VIP")
          /\ new("Normal") = old("Normal") /\ new("Low") = old("Low")
      BY <1>2, <2>2, PriorityIs
    <3> QED BY <1>3, <1>4, <2>0, <2>2, <3>1
  <2>3. CASE p = "Normal"
    <3>1. /\ new("Normal") = Len(q) /\ new("VIP") = old("VIP")
          /\ new("High") = old("High") /\ new("Low") = old("Low")
      BY <1>2, <2>3, PriorityIs
    <3> QED BY <1>3, <1>4, <2>0, <2>3, <3>1
  <2>4. CASE p = "Low"
    <3>1. /\ new("Low") = Len(q) /\ new("VIP") = old("VIP")
          /\ new("High") = old("High") /\ new("Normal") = old("Normal")
      BY <1>2, <2>4, PriorityIs
    <3> QED BY <1>3, <1>4, <2>0, <2>4, <3>1
  <2> QED BY <2>1, <2>2, <2>3, <2>4, PriorityIs
<1> QED BY <1>5 DEF old

\* Queues that stay the same hold as many requests as before.
LEMMA SameLength ==
  ASSUME queues \in [Priority -> Seq(Requests)], queues' = queues
  PROVE  TotalLength' = TotalLength
BY TotalLengthIs, TotalLengthNext DEF SumOfLengths

\* There are finitely many of everything that is counted.
LEMMA SchedFinite ==
  ASSUME SchedTypeOK
  PROVE  /\ IsFiniteSet(Holding) /\ IsFiniteSet(running)
         /\ IsFiniteSet(processed)
         /\ Cardinality(Holding) \in Nat /\ Cardinality(running) \in Nat
         /\ Cardinality(processed) \in Nat /\ Len(accepted) \in Nat
<1>1. IsFiniteSet(Holding) /\ IsFiniteSet(running) /\ IsFiniteSet(processed)
  BY SchedulerAssumption, FS_Subset DEF SchedTypeOK, Holding
<1>2. /\ Cardinality(Holding) \in Nat /\ Cardinality(running) \in Nat
      /\ Cardinality(processed) \in Nat
  BY <1>1, FS_CardinalityType
<1> QED BY <1>1, <1>2 DEF SchedTypeOK

\* At the start nothing is anywhere.
LEMMA InitScheduler == SchedInit => SchedIInv /\ InOrder
<1> SUFFICES ASSUME SchedInit PROVE SchedIInv /\ InOrder
  OBVIOUS
<1> USE DEF SchedInit
<1>1. /\ queues \in [Priority -> Seq(Requests)] 
      /\ \A p \in Priority : queues[p] = <<>> /\ Len(queues[p]) = 0
  OBVIOUS
<1>2. TotalLength = 0
  BY <1>1, TotalLengthIs, PriorityIs DEF SumOfLengths
<1>3. ToSet(<<>>) = {} /\ IsInjective(<<>>) /\ Len(<<>>) = 0 /\ DOMAIN <<>> = {}
  BY DEF ToSet, IsInjective
<1>4. Holding = {}
  BY DEF Holding
<1>5. SchedTypeOK
  BY <1>1, <1>2, SchedulerAssumption DEF SchedTypeOK
<1>6. QueuesProper
  BY <1>1, <1>3 DEF QueuesProper
<1>7. HandsProper
  BY <1>4 DEF HandsProper, At
<1>8. PlacesApart
  BY <1>1, <1>3, SchedulerAssumption DEF PlacesApart, InQueue, InHand, Submitted
<1>9. AllCounted /\ SlotsMatch
  BY <1>2, <1>3, <1>4, FS_EmptySet, SchedulerAssumption
     DEF AllCounted, SlotsMatch
<1>10. InOrder
  BY <1>1, <1>3 DEF InOrder
<1> QED BY <1>5, <1>6, <1>7, <1>8, <1>9, <1>10 DEF SchedIInv

\* A submitted request joins the end of its queue.
LEMMA EnqueueStep ==
  ASSUME SchedIInv, NEW r \in Requests, ~Submitted(r), Enqueue(r)
  PROVE  SchedIInv'
<1> USE DEF SchedIInv
<1> DEFINE p == QueueOf(r)  q == Append(queues[p], r)
<1>1. /\ ~QueueFull /\ queues' = [queues EXCEPT ![p] = q]
      /\ accepted' = Append(accepted, r)
      /\ UNCHANGED <<worker, hand, semaphore, running, processed, stop>>
  BY DEF Enqueue
<1>2. /\ p \in Priority /\ queues[p] \in Seq(Requests)
      /\ q \in Seq(Requests) /\ Len(q) = Len(queues[p]) + 1
  BY QueueOfType DEF SchedTypeOK
<1>3. ~InQueue(r) /\ ~InHand(r) /\ r \notin running /\ r \notin processed
  BY DEF PlacesApart
<1>4. ToSet(q) = ToSet(queues[p]) \union {r} /\ IsInjective(q)
  BY <1>2, <1>3, AppendElements DEF InQueue, QueuesProper
<1>5. /\ accepted' \in Seq(Requests) /\ Len(accepted') = Len(accepted) + 1
      /\ ToSet(accepted') = ToSet(accepted) \union {r}
  BY <1>1, AppendElements DEF SchedTypeOK
<1> HIDE DEF p, q
<1>6. /\ queues' \in [Priority -> Seq(Requests)]
      /\ \A x \in Priority : queues'[x] = IF x = p THEN q ELSE queues[x]
  BY <1>1, <1>2 DEF SchedTypeOK
<1>7. TotalLength \in Nat /\ TotalLength' = TotalLength + 1
  <2>1. /\ TotalLength \in Nat /\ TotalLength' \in Nat
        /\ TotalLength' = TotalLength + Len(q) - Len(queues[p])
    BY <1>1, <1>2, LengthChange DEF SchedTypeOK
  <2> QED BY <1>2, <2>1
<1>8. SchedTypeOK'
  BY <1>1, <1>5, <1>6, <1>7, SchedulerAssumption DEF SchedTypeOK, QueueFull
<1>9. QueuesProper'
  BY <1>4, <1>6 DEF QueuesProper, p
<1>10. HandsProper'
  BY <1>1 DEF HandsProper, Holding, At
<1>11. PlacesApart'
  <2>1. \A x \in Requests : /\ InQueue(x)' <=> InQueue(x) \/ x = r
                            /\ InHand(x)' <=> InHand(x)
                            /\ Submitted(x)' <=> Submitted(x) \/ x = r
    BY <1>1, <1>2, <1>4, <1>5, <1>6 DEF InQueue, InHand, Submitted
  <2> QED BY <1>1, <1>3, <2>1 DEF PlacesApart
<1>12. AllCounted'
  <2>1. Holding' = Holding
    BY <1>1 DEF Holding
  <2>2. /\ Cardinality(running') = Cardinality(running)
        /\ Cardinality(processed') = Cardinality(processed)
    BY <1>1
  <2> QED BY <1>5, <1>7, <2>1, <2>2, SchedFinite DEF AllCounted
<1>13. SlotsMatch'
  BY <1>1 DEF SlotsMatch
<1> QED BY <1>8, <1>9, <1>10, <1>11, <1>12, <1>13

\* The first of a queue goes into a worker's hand.
LEMMA DequeueStep ==
  ASSUME SchedIInv, NEW w \in Workers, Dequeue(w)
  PROVE  SchedIInv'
<1> USE DEF SchedIInv
<1>1. PICK p \in Priority : /\ queues[p] # <<>>
                            /\ hand' = [hand EXCEPT ![w] = Head(queues[p])]
                            /\ queues' = [queues EXCEPT ![p] = Tail(queues[p])]
  BY DEF Dequeue, NextQueue
<1> DEFINE r == Head(queues[p])  q == Tail(queues[p])
<1>2. /\ At(w, "take") /\ worker' = [worker EXCEPT ![w] = "acquire"]
      /\ UNCHANGED <<semaphore, running, processed, stop, accepted>>
  BY DEF Dequeue
<1>3. /\ queues[p] \in Seq(Requests) /\ r \in Requests /\ q \in Seq(Requests)
      /\ Len(queues[p]) = Len(q) + 1
  BY <1>1 DEF SchedTypeOK
<1>4. /\ r \in ToSet(queues[p]) /\ ToSet(queues[p]) = {r} \union ToSet(q)
      /\ IsInjective(q) /\ r \notin ToSet(q)
  BY <1>1, <1>3, TailElements DEF QueuesProper
<1>5. QueueOf(r) = p
  BY <1>4 DEF QueuesProper
<1>6. /\ queues' = [queues EXCEPT ![p] = q] /\ hand' = [hand EXCEPT ![w] = r]
  BY <1>1
<1> HIDE DEF r, q
<1>7. /\ queues' \in [Priority -> Seq(Requests)]
      /\ \A x \in Priority : queues'[x] = IF x = p THEN q ELSE queues[x]
  BY <1>3, <1>6 DEF SchedTypeOK
<1>8. /\ TotalLength \in Nat /\ TotalLength' \in Nat
      /\ TotalLength' = TotalLength - 1
  <2>1. /\ TotalLength \in Nat /\ TotalLength' \in Nat
        /\ TotalLength' = TotalLength + Len(q) - Len(queues[p])
    BY <1>3, <1>6, LengthChange DEF SchedTypeOK
  <2>2. Len(q) \in Nat /\ Len(queues[p]) = Len(q) + 1
    BY <1>3
  <2> QED BY <2>1, <2>2
<1>9. /\ InQueue(r) /\ ~InHand(r) /\ r # None
      /\ r \notin running /\ r \notin processed
  BY <1>3, <1>4, SchedulerAssumption DEF PlacesApart, InQueue
<1>10. /\ hand[w] = None
       /\ \A v \in Workers : hand'[v] = IF v = w THEN r ELSE hand[v]
       /\ \A v \in Workers : worker'[v] = IF v = w THEN "acquire" ELSE worker[v]
  BY <1>2, <1>6 DEF HandsProper, At, SchedTypeOK
<1>11. Holding' = Holding \union {w} /\ w \notin Holding
  BY <1>9, <1>10 DEF Holding
<1>12. SchedTypeOK'
  <2>1. TotalLength' <= MaxQueueLength
    <3>1. TotalLength <= MaxQueueLength /\ MaxQueueLength \in Nat
      BY SchedulerAssumption DEF SchedTypeOK
    <3> QED BY <1>8, <3>1
  <2> QED BY <1>2, <1>3, <1>6, <1>7, <2>1 DEF SchedTypeOK
<1>13. QueuesProper'
  BY <1>4, <1>7 DEF QueuesProper
<1>14. HandsProper'
  <2>1. \A v \in Workers : hand'[v] # None <=> At(v, "acquire")'
    BY <1>9, <1>10 DEF HandsProper, At
  <2>2. \A v \in Holding : hand[v] # r
    BY <1>9 DEF InHand, Holding
  <2>3. \A u, v \in Holding' : hand'[u] = hand'[v] => u = v
    BY <1>10, <1>11, <2>2 DEF HandsProper, Holding
  <2> QED BY <2>1, <2>3 DEF HandsProper
<1>15. PlacesApart'
  <2>1. \A x \in Requests : InQueue(x)' <=> InQueue(x) /\ x # r
    <3>1. ASSUME NEW x \in Priority, r \in ToSet(queues[x]) PROVE x = p
      BY <1>5, <3>1 DEF QueuesProper
    <3> QED BY <1>4, <1>7, <3>1 DEF InQueue
  <2>2. \A x \in Requests : InHand(x)' <=> InHand(x) \/ x = r
    BY <1>10, SchedulerAssumption DEF InHand
  <2>3. \A x \in Requests : Submitted(x)' <=> Submitted(x)
    BY <1>2 DEF Submitted
  <2> QED BY <1>2, <1>9, <2>1, <2>2, <2>3 DEF PlacesApart
<1>16. AllCounted'
  <2>1. Cardinality(Holding') = Cardinality(Holding) + 1
    BY <1>11, SchedFinite, FS_AddElement
  <2>2. /\ Cardinality(running') = Cardinality(running)
        /\ Cardinality(processed') = Cardinality(processed)
    BY <1>2
  <2>3. accepted' = accepted
    BY <1>2
  <2> QED BY <1>8, <2>1, <2>2, <2>3, SchedFinite DEF AllCounted
<1>17. SlotsMatch'
  BY <1>2 DEF SlotsMatch
<1> QED BY <1>12, <1>13, <1>14, <1>15, <1>16, <1>17

\* A worker that gets a slot starts the request it holds.
LEMMA AcquireStep ==
  ASSUME SchedIInv, NEW w \in Workers, Acquire(w)
  PROVE  SchedIInv'
<1> USE DEF SchedIInv
<1> DEFINE r == hand[w]
<1>1. /\ At(w, "acquire") /\ semaphore < MaxConcurrency
      /\ semaphore' = semaphore + 1 /\ running' = running \union {r}
      /\ hand' = [hand EXCEPT ![w] = None]
      /\ worker' = [worker EXCEPT ![w] = "check"]
      /\ UNCHANGED <<queues, processed, stop, accepted>>
  BY DEF Acquire
<1>2. r \in Requests /\ r # None /\ w \in Holding
  BY <1>1 DEF HandsProper, Holding, SchedTypeOK
<1> HIDE DEF r
<1>3. InHand(r) /\ r \notin running /\ r \notin processed /\ ~InQueue(r)
  BY <1>2 DEF PlacesApart, InHand, r
<1>4. \A v \in Workers : /\ hand'[v] = IF v = w THEN None ELSE hand[v]
                         /\ worker'[v] = IF v = w THEN "check" ELSE worker[v]
  BY <1>1 DEF SchedTypeOK
<1>5. Holding' = Holding \ {w}
  BY <1>4 DEF Holding
<1>6. Cardinality(running') = Cardinality(running) + 1
  BY <1>1, <1>3, SchedFinite, FS_AddElement
<1>7. TotalLength' = TotalLength
  BY <1>1, SameLength DEF SchedTypeOK
<1>8. SchedTypeOK'
  <2>1. semaphore' \in 0 .. MaxConcurrency
    BY <1>1, SchedulerAssumption DEF SchedTypeOK
  <2> QED BY <1>1, <1>2, <1>7, <2>1 DEF SchedTypeOK
<1>9. QueuesProper'
  BY <1>1 DEF QueuesProper
<1>10. HandsProper'
  BY <1>4, <1>5 DEF HandsProper, At, Holding
<1>11. PlacesApart'
  <2>1. \A x \in Requests : /\ InQueue(x)' <=> InQueue(x)
                            /\ Submitted(x)' <=> Submitted(x)
    BY <1>1 DEF InQueue, Submitted
  <2>2. \A x \in Requests : InHand(x)' <=> InHand(x) /\ x # r
    BY <1>2, <1>4, SchedulerAssumption DEF InHand, HandsProper, Holding, r
  <2> QED BY <1>1, <1>3, <2>1, <2>2 DEF PlacesApart
<1>12. AllCounted'
  <2>1. Cardinality(Holding') = Cardinality(Holding) - 1
    BY <1>2, <1>5, SchedFinite, FS_RemoveElement
  <2>2. TotalLength \in Nat
    BY TotalLengthIs, PriorityIs DEF SchedTypeOK, SumOfLengths
  <2> QED BY <1>1, <1>6, <1>7, <2>1, <2>2, SchedFinite DEF AllCounted
<1>13. SlotsMatch'
  BY <1>1, <1>6, SchedulerAssumption, SchedFinite DEF SlotsMatch
<1> QED BY <1>8, <1>9, <1>10, <1>11, <1>12, <1>13

\* A request whose processing ends gives its slot back.
LEMMA ProcessStep ==
  ASSUME SchedIInv, NEW r \in Requests, Process(r)
  PROVE  SchedIInv'
<1> USE DEF SchedIInv
<1>1. /\ r \in running /\ running' = running \ {r}
      /\ processed' = processed \union {r} /\ semaphore' = semaphore - 1
      /\ UNCHANGED <<queues, worker, hand, stop, accepted>>
  BY DEF Process
<1>2. r \notin processed /\ ~InHand(r) /\ ~InQueue(r)
  BY <1>1 DEF PlacesApart
<1>3. /\ Cardinality(running') = Cardinality(running) - 1
      /\ Cardinality(processed') = Cardinality(processed) + 1
  BY <1>1, <1>2, SchedFinite, FS_AddElement, FS_RemoveElement
<1>4. Cardinality(running) > 0
  BY <1>1, SchedFinite, FS_EmptySet
<1>5. TotalLength' = TotalLength /\ Holding' = Holding
  BY <1>1, SameLength DEF SchedTypeOK, Holding
<1>6. TotalLength \in Nat
  BY TotalLengthIs, PriorityIs DEF SchedTypeOK, SumOfLengths
<1>7. SchedTypeOK'
  BY <1>1, <1>4, <1>5, SchedulerAssumption, SchedFinite
     DEF SchedTypeOK, SlotsMatch
<1>8. QueuesProper' /\ HandsProper'
  BY <1>1, <1>5 DEF QueuesProper, HandsProper, At
<1>9. PlacesApart'
  <2>1. \A x \in Requests : /\ InQueue(x)' <=> InQueue(x)
                            /\ InHand(x)' <=> InHand(x)
                            /\ Submitted(x)' <=> Submitted(x)
    BY <1>1 DEF InQueue, InHand, Submitted
  <2> QED BY <1>1, <1>2, <2>1 DEF PlacesApart
<1>10. AllCounted'
  BY <1>1, <1>3, <1>5, <1>6, SchedFinite DEF AllCounted
<1>11. SlotsMatch'
  BY <1>1, <1>3, SchedFinite, SchedulerAssumption DEF SlotsMatch, SchedTypeOK
<1> QED BY <1>7, <1>8, <1>9, <1>10, <1>11

\* The other steps move no request.
LEMMA IdleStep ==
  ASSUME SchedIInv,
         \/ \E w \in Workers : CheckContext(w) \/ Idle(w)
         \/ Stop \/ StopReturns \/ UNCHANGED schedVars
  PROVE  SchedIInv' /\ UNCHANGED <<queues, running, accepted>>
<1> USE DEF SchedIInv
<1>1. UNCHANGED <<queues, hand, semaphore, running, processed, accepted>>
  BY DEF CheckContext, Idle, Stop, StopReturns, schedVars
<1>2. /\ stop' \in {"no", "waiting", "returned"}
      /\ worker' \in [Workers -> {"check", "take", "acquire", "gone"}]
      /\ \A w \in Workers : At(w, "acquire")' <=> At(w, "acquire")
  BY DEF CheckContext, Idle, Stop, StopReturns, schedVars, SchedTypeOK, At
<1>3. TotalLength' = TotalLength /\ Holding' = Holding
  BY <1>1, SameLength DEF SchedTypeOK, Holding
<1>4. SchedTypeOK'
  BY <1>1, <1>2, <1>3 DEF SchedTypeOK
<1>5. QueuesProper' /\ HandsProper' /\ AllCounted' /\ SlotsMatch'
  BY <1>1, <1>2, <1>3 DEF QueuesProper, HandsProper, AllCounted, SlotsMatch
<1>6. PlacesApart'
  <2>1. \A x \in Requests : /\ InQueue(x)' <=> InQueue(x)
                            /\ InHand(x)' <=> InHand(x)
                            /\ Submitted(x)' <=> Submitted(x)
    BY <1>1 DEF InQueue, InHand, Submitted
  <2> QED BY <1>1, <2>1 DEF PlacesApart
<1> QED BY <1>1, <1>4, <1>5, <1>6

\* Every step of the manager keeps the invariant of the scheduler.
LEMMA SchedIInvStep == SchedIInv /\ [Step]_vars => SchedIInv'
BY SchedStep, EnqueueStep, DequeueStep, AcquireStep, ProcessStep, IdleStep
   DEF SchedNext, Work

\* What is in exactly one place is counted once.
LEMMA SchedIInvSuffices == SchedIInv => SchedInv
<1> SUFFICES ASSUME SchedIInv PROVE OnePlace
  BY DEF SchedIInv, SchedInv
<1> USE DEF SchedIInv
<1> SUFFICES ASSUME NEW r \in Requests
             PROVE  Cardinality({p \in Priority : r \in ToSet(queues[p])})
                      + Cardinality({w \in Workers : hand[w] = r})
                      + Cardinality({s \in {running, processed} : r \in s})
                      = IF Submitted(r) THEN 1 ELSE 0
  BY DEF OnePlace, AllCounted, Holding
<1> DEFINE inQueues == {p \in Priority : r \in ToSet(queues[p])}
           inHands == {w \in Workers : hand[w] = r}
           inSlots == {s \in {running, processed} : r \in s}
<1>1. Cardinality(inQueues) = IF InQueue(r) THEN 1 ELSE 0
  <2>1. CASE InQueue(r)
    <3>1. inQueues = {QueueOf(r)}
      BY <2>1 DEF InQueue, QueuesProper
    <3> QED BY <2>1, <3>1, FS_Singleton
  <2>2. CASE ~InQueue(r)
    <3>1. inQueues = {}
      BY <2>2 DEF InQueue
    <3> QED BY <2>2, <3>1, FS_EmptySet
  <2> QED BY <2>1, <2>2
<1>2. Cardinality(inHands) = IF InHand(r) THEN 1 ELSE 0
  <2>1. CASE InHand(r)
    <3>1. PICK w \in Workers : hand[w] = r
      BY <2>1 DEF InHand
    <3>2. inHands = {w}
      BY <3>1, SchedulerAssumption DEF HandsProper, Holding
    <3> QED BY <2>1, <3>2, FS_Singleton
  <2>2. CASE ~InHand(r)
    <3>1. inHands = {}
      BY <2>2 DEF InHand
    <3> QED BY <2>2, <3>1, FS_EmptySet
  <2> QED BY <2>1, <2>2
<1>3. Cardinality(inSlots) = IF r \in running \union processed THEN 1 ELSE 0
  <2>1. CASE r \in running
    <3>1. inSlots = {running}
      BY <2>1 DEF PlacesApart
    <3> QED BY <2>1, <3>1, FS_Singleton
  <2>2. CASE r \in processed
    <3>1. inSlots = {processed}
      BY <2>2 DEF PlacesApart
    <3> QED BY <2>2, <3>1, FS_Singleton
  <2>3. CASE r \notin running \union processed
    <3>1. inSlots = {}
      BY <2>3
    <3> QED BY <2>3, <3>1, FS_EmptySet
  <2> QED BY <2>1, <2>2, <2>3
<1> HIDE DEF inQueues, inHands, inSlots
<1>4. Cardinality(inQueues) + Cardinality(inHands) + Cardinality(inSlots)
        = IF Submitted(r) THEN 1 ELSE 0
  BY <1>1, <1>2, <1>3 DEF PlacesApart
<1> QED BY <1>4 DEF inQueues, inHands, inSlots

\* However workers, submissions and Stop interleave, an accepted request is in
\* exactly one place, a refused one in none, and neither the queues nor the
\* slots are exceeded (scheduler.go:82-166).
THEOREM SchedulerInvariant == ManagerSpec => []SchedInv
<1>1. Init => SchedIInv
  BY InitScheduler DEF Init
<1> QED BY <1>1, SchedIInvStep, SchedIInvSuffices, PTL DEF ManagerSpec

\* A new request is the last accepted and the last of its queue.
LEMMA EnqueueOrder ==
  ASSUME SchedIInv, InOrder, NEW r \in Requests, ~Submitted(r), Enqueue(r)
  PROVE  InOrder'
<1> DEFINE p == QueueOf(r)  n == Len(accepted)  m == Len(queues[p])
<1>1. /\ queues \in [Priority -> Seq(Requests)] /\ accepted \in Seq(Requests)
      /\ p \in Priority
  BY QueueOfType DEF SchedIInv, SchedTypeOK
<1>2. /\ queues' = [queues EXCEPT ![p] = Append(queues[p], r)]
      /\ accepted' = Append(accepted, r)
  BY DEF Enqueue
<1>3. /\ n \in Nat /\ DOMAIN accepted = 1 .. n /\ DOMAIN accepted' = 1 .. n + 1
      /\ \A i \in 1 .. n : accepted'[i] = accepted[i] /\ accepted[i] # r
      /\ accepted'[n + 1] = r
  BY <1>1, <1>2, AppendProperties DEF Submitted, ToSet
<1>4. /\ m \in Nat /\ DOMAIN queues[p] = 1 .. m /\ DOMAIN queues'[p] = 1 .. m + 1
      /\ \A k \in 1 .. m : queues'[p][k] = queues[p][k]
      /\ queues'[p][m + 1] = r
  BY <1>1, <1>2, AppendProperties
<1>5. \A x \in Priority : x # p => queues'[x] = queues[x]
  BY <1>1, <1>2
<1>6. ASSUME NEW x \in Priority, NEW k \in DOMAIN queues[x]
      PROVE  queues[x][k] # r
  <2>1. queues[x][k] \in ToSet(queues[x])
    BY DEF ToSet
  <2> QED BY <2>1 DEF SchedIInv, PlacesApart, InQueue
<1>7. \A x \in Priority :
        ToSet(queues'[x]) = IF x = p THEN ToSet(queues[x]) \union {r}
                                     ELSE ToSet(queues[x])
  <2>1. queues'[p] = Append(queues[p], r) /\ queues[p] \in Seq(Requests)
    BY <1>1, <1>2
  <2>2. ToSet(queues'[p]) = ToSet(queues[p]) \union {r}
    BY <2>1, AppendElements
  <2> QED BY <1>5, <2>2
<1> HIDE DEF p, n, m
<1>8. IsInjective(accepted')
  BY <1>1, <1>2, AppendElements DEF InOrder, Submitted
<1>9. ASSUME NEW x \in Priority,
             NEW k \in DOMAIN queues'[x], NEW l \in DOMAIN queues'[x],
             NEW i \in DOMAIN accepted', NEW j \in DOMAIN accepted',
             k < l, queues'[x][k] = accepted'[i], queues'[x][l] = accepted'[j]
      PROVE  i < j
  <2>1. k \in DOMAIN queues[x] /\ queues'[x][k] = queues[x][k]
    BY <1>1, <1>4, <1>5, <1>9
  <2>2. i \in 1 .. n /\ accepted'[i] = accepted[i]
    <3>1. accepted'[i] # r
      BY <1>6, <1>9, <2>1
    <3>2. i # n + 1
      BY <1>3, <3>1
    <3> QED BY <1>3, <3>2
  <2>3. CASE j = n + 1
    BY <1>3, <2>2, <2>3
  <2>4. CASE j # n + 1
    <3>1. j \in 1 .. n /\ accepted'[j] = accepted[j] /\ queues'[x][l] # r
      BY <1>3, <1>9, <2>4
    <3>2. l \in DOMAIN queues[x] /\ queues'[x][l] = queues[x][l]
      BY <1>1, <1>4, <1>5, <3>1
    <3>3. /\ i \in DOMAIN accepted /\ j \in DOMAIN accepted
          /\ queues[x][k] = accepted[i] /\ queues[x][l] = accepted[j]
      BY <1>3, <1>9, <2>1, <2>2, <3>1, <3>2
    <3> QED BY <1>9, <2>1, <3>2, <3>3 DEF InOrder
  <2> QED BY <2>3, <2>4
<1>10. ASSUME NEW i \in DOMAIN accepted', NEW j \in DOMAIN accepted', i < j,
              QueueOf(accepted'[i]) = QueueOf(accepted'[j]), Queued(accepted[i])'
       PROVE  Queued(accepted[j])'
  <2>1. /\ i \in 1 .. n /\ accepted'[i] = accepted[i]
        /\ accepted[i] # r /\ accepted[i] \in Requests
    BY <1>1, <1>3, <1>10
  <2>2. Queued(accepted[i])
    BY <1>7, <1>10, <2>1, QueueOfType DEF Queued
  <2>3. CASE j = n + 1
    BY <1>1, <1>3, <1>7, <2>3 DEF Queued, p
  <2>4. CASE j # n + 1
    <3>1. j \in 1 .. n /\ accepted'[j] = accepted[j] /\ accepted[j] \in Requests
      BY <1>1, <1>3, <2>4
    <3>2. Queued(accepted[j])
      BY <1>3, <1>10, <2>1, <2>2, <3>1 DEF InOrder
    <3> QED BY <1>7, <3>1, <3>2, QueueOfType DEF Queued
  <2> QED BY <2>3, <2>4
<1> QED BY <1>8, <1>9, <1>10 DEF InOrder

\* The first of a queue was accepted before the others.
LEMMA DequeueOrder ==
  ASSUME SchedIInv, InOrder, NEW w \in Workers, Dequeue(w)
  PROVE  InOrder'
<1>1. PICK p \in Priority : /\ queues[p] # <<>>
                            /\ queues' = [queues EXCEPT ![p] = Tail(queues[p])]
  BY DEF Dequeue, NextQueue
<1> DEFINE r == Head(queues[p])  q == Tail(queues[p])
<1>2. /\ queues \in [Priority -> Seq(Requests)] /\ accepted \in Seq(Requests)
      /\ accepted' = accepted
  BY DEF SchedIInv, SchedTypeOK, Dequeue
<1>3. /\ \A k \in DOMAIN q :
           k + 1 \in DOMAIN queues[p] /\ q[k] = queues[p][k + 1]
      /\ DOMAIN q \subseteq Nat \ {0}
      /\ 1 \in DOMAIN queues[p] /\ r = queues[p][1]
  BY <1>1, <1>2, HeadTailProperties
<1>4. ToSet(queues[p]) = {r} \union ToSet(q) /\ r \in ToSet(queues[p])
  BY <1>1, <1>2, TailElements
<1>5. \A x \in Priority : queues'[x] = IF x = p THEN q ELSE queues[x]
  BY <1>1, <1>2
<1>6. QueueOf(r) = p
  BY <1>4 DEF SchedIInv, QueuesProper
<1> HIDE DEF r, q
<1>7. ASSUME NEW x \in Priority,
             NEW k \in DOMAIN queues'[x], NEW l \in DOMAIN queues'[x],
             NEW i \in DOMAIN accepted, NEW j \in DOMAIN accepted,
             k < l, queues'[x][k] = accepted[i], queues'[x][l] = accepted[j]
      PROVE  i < j
  <2>1. CASE x = p
    <3>1. /\ k + 1 \in DOMAIN queues[p] /\ queues[p][k + 1] = accepted[i]
          /\ l + 1 \in DOMAIN queues[p] /\ queues[p][l + 1] = accepted[j]
          /\ k + 1 < l + 1
      BY <1>3, <1>5, <1>7, <2>1
    <3> QED BY <3>1 DEF InOrder
  <2>2. CASE x # p
    BY <1>5, <1>7, <2>2 DEF InOrder
  <2> QED BY <2>1, <2>2
<1>8. ASSUME NEW i \in DOMAIN accepted, NEW j \in DOMAIN accepted, i < j,
             QueueOf(accepted[i]) = QueueOf(accepted[j]),
             accepted[i] \in ToSet(queues'[QueueOf(accepted[i])])
      PROVE  accepted[j] \in ToSet(queues'[QueueOf(accepted[j])])
  <2>1. QueueOf(accepted[i]) \in Priority
    BY <1>2, QueueOfType
  <2>2. Queued(accepted[i])
    BY <1>4, <1>5, <1>8, <2>1 DEF Queued
  <2>3. Queued(accepted[j])
    BY <1>8, <2>2 DEF InOrder
  <2>4. CASE QueueOf(accepted[j]) # p
    BY <1>5, <1>8, <2>1, <2>3, <2>4 DEF Queued
  <2>5. CASE QueueOf(accepted[j]) = p
    <3>1. accepted[i] \in ToSet(q)
      BY <1>5, <1>8, <2>1, <2>5
    <3>2. PICK k \in DOMAIN q : q[k] = accepted[i]
      BY <3>1 DEF ToSet
    <3>3. /\ k + 1 \in DOMAIN queues[p] /\ 1 < k + 1
          /\ queues[p][k + 1] = accepted[i]
      BY <1>3, <3>2
    <3>4. ASSUME accepted[j] = r PROVE FALSE
      <4>1. j < i
        BY <1>3, <3>3, <3>4 DEF InOrder
      <4> QED BY <1>2, <1>8, <4>1
    <3> QED BY <1>4, <1>5, <2>3, <2>5, <3>4 DEF Queued
  <2> QED BY <2>4, <2>5
<1>9. accepted' = accepted /\ IsInjective(accepted)
  BY <1>2 DEF InOrder
<1> QED BY <1>7, <1>8, <1>9 DEF InOrder, Queued

\* Every step of the manager keeps the order.
LEMMA InOrderStep == SchedIInv /\ InOrder /\ [Step]_vars => InOrder'
<1> SUFFICES ASSUME SchedIInv, InOrder, [Step]_vars PROVE InOrder'
  OBVIOUS
<1>1. UNCHANGED <<queues, accepted>> => InOrder'
  BY DEF InOrder, Queued
<1>2. \A r \in Requests : Process(r) => UNCHANGED <<queues, accepted>>
  BY DEF Process
<1>3. \A w \in Workers : Acquire(w) => UNCHANGED <<queues, accepted>>
  BY DEF Acquire
<1> QED BY <1>1, <1>2, <1>3, SchedStep, EnqueueOrder, DequeueOrder, IdleStep
        DEF SchedNext, Work

\* A request that starts was in a worker's hand, and in no queue.
LEMMA StartsFromHand ==
  ASSUME SchedIInv, [Step]_vars, NEW r \in Requests, Starts(r)
  PROVE  ~Queued(r)
<1>1. CASE \E w \in Workers : Acquire(w)
  <2>1. InHand(r)
    BY <1>1 DEF Acquire, Starts, InHand
  <2> QED BY <2>1, QueueOfType DEF SchedIInv, PlacesApart, InQueue, Queued
<1>2. CASE ~\E w \in Workers : Acquire(w)
  <2>1. running' \subseteq running
    <3>1. \A x \in Requests :
            Enqueue(x) \/ Process(x) => running' \subseteq running
      BY DEF Enqueue, Process
    <3>2. \A w \in Workers : Dequeue(w) => running' = running
      BY DEF Dequeue
    <3> QED BY <1>2, <3>1, <3>2, SchedStep, IdleStep DEF SchedNext, Work
  <2> QED BY <2>1 DEF Starts
<1> QED BY <1>1, <1>2

\* Within a priority, a request that starts leaves none behind in the queue
\* that was accepted before it: only a request that a worker has taken and that
\* waits for a slot can be overtaken (scheduler.go:82-125, 135-160).
THEOREM OlderFirst == ManagerSpec => OvertakenOnlyInHand
<1> DEFINE Older == \A i, j \in DOMAIN accepted :
       /\ i < j
       /\ QueueOf(accepted[i]) = QueueOf(accepted[j])
       /\ Starts(accepted[j])
       => ~Queued(accepted[i])
<1>1. Init => SchedIInv /\ InOrder
  BY InitScheduler DEF Init
<1>2. SchedIInv /\ InOrder /\ [Step]_vars => SchedIInv' /\ InOrder'
  BY SchedIInvStep, InOrderStep
<1>3. SchedIInv /\ InOrder /\ [Step]_vars => [Older]_schedVars
  <2> SUFFICES ASSUME SchedIInv, InOrder, [Step]_vars,
                      NEW i \in DOMAIN accepted, NEW j \in DOMAIN accepted,
                      i < j, Starts(accepted[j]),
                      QueueOf(accepted[i]) = QueueOf(accepted[j])
               PROVE  ~Queued(accepted[i])
    OBVIOUS
  <2>1. accepted[j] \in Requests
    BY DEF SchedIInv, SchedTypeOK
  <2> QED BY <2>1, StartsFromHand DEF InOrder
<1> QED BY <1>1, <1>2, <1>3, PTL DEF ManagerSpec, OvertakenOnlyInHand
=============================================================================
