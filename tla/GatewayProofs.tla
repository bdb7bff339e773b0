--------------------------- MODULE GatewayProofs ----------------------------
(***************************************************************************)
(* What a circuit breaker promises for every threshold, number of half-    *)
(* open successes, timeout and set of concurrent calls; and the account    *)
(* pool with its handlers for any number of accounts, of concurrent        *)
(* requests and of tokens, whatever accounts can be refreshed or reloaded. *)
(***************************************************************************)
EXTENDS PoolWatch, CircuitBreaker, TLAPS

\* The methods keep a breaker a breaker (limiter.go:18-29).
LEMMA MethodsTyped ==
  ASSUME NEW b \in Breaker
  PROVE  /\ AfterAllow(b) \in Breaker
         /\ AfterSuccess(b) \in Breaker
         /\ AfterFailure(b) \in Breaker
         /\ AfterTick(b) \in Breaker
<1> USE BreakerAssumption
<1>1. AfterAllow(b) \in Breaker
  BY DEF AfterAllow, CooledDown, Breaker, BreakerState
<1>2. AfterSuccess(b) \in Breaker
  <2>1. CASE b.state = "half-open"
    <3>1. b.successCount + 1 \in Nat
      BY DEF Breaker
    <3>2. CASE b.successCount + 1 >= HalfOpenMaxCalls
      BY <2>1, <3>1, <3>2 DEF AfterSuccess, Breaker, BreakerState
    <3>3. CASE ~(b.successCount + 1 >= HalfOpenMaxCalls)
      BY <2>1, <3>1, <3>3 DEF AfterSuccess, Breaker, BreakerState
    <3>4. QED
      BY <3>2, <3>3
  <2>2. CASE b.state # "half-open"
    BY <2>2 DEF AfterSuccess, Breaker, BreakerState
  <2>3. QED
    BY <2>1, <2>2
<1>3. AfterFailure(b) \in Breaker
  <2>1. 0 \in 0 .. Timeout + 1
    OBVIOUS
  <2>2. b.failureCount + 1 \in Nat
    BY DEF Breaker
  <2>3. QED
    BY <2>1, <2>2 DEF AfterFailure, Breaker, BreakerState
<1>4. AfterTick(b) \in Breaker
  BY DEF AfterTick, Breaker, BreakerState
<1>5. QED
  BY <1>1, <1>2, <1>3, <1>4

-----------------------------------------------------------------------------
(* One breaker and its calls (CircuitBreaker) *)

\* The initial state satisfies the inductive invariant.
LEMMA BreakerInitInv == BreakerInit => BreakerInv
BY BreakerAssumption
   DEF BreakerInit, BreakerInv, BreakerTypeOK, ClosedCountsRun, HalfOpenIsShort,
       NewCircuitBreaker, Breaker, BreakerState

\* Every step keeps the inductive invariant.
LEMMA BreakerNextInv == BreakerInv /\ [BreakerNext]_breakerVars => BreakerInv'
<1> SUFFICES ASSUME BreakerInv, [BreakerNext]_breakerVars
             PROVE  BreakerInv'
  OBVIOUS
<1> USE BreakerAssumption DEF BreakerInv, ClosedCountsRun, HalfOpenIsShort
<1>0. cb \in Breaker
  BY DEF BreakerTypeOK
<1>1. ASSUME NEW c \in Calls, AllowCall(c)
      PROVE  BreakerInv'
  <2>1. BreakerTypeOK'
    BY <1>1, MethodsTyped DEF AllowCall, BreakerTypeOK
  <2>2. QED
    BY <1>1, <2>1 DEF AllowCall, AfterAllow, CooledDown, BreakerTypeOK, Breaker,
                      BreakerState
<1>2. ASSUME NEW c \in Calls, RecordSuccess(c)
      PROVE  BreakerInv'
  <2>1. BreakerTypeOK'
    BY <1>2, MethodsTyped DEF RecordSuccess, BreakerTypeOK
  <2>2. QED
    BY <1>2, <2>1 DEF RecordSuccess, AfterSuccess, BreakerTypeOK, Breaker,
                      BreakerState
<1>3. ASSUME NEW c \in Calls, RecordFailure(c)
      PROVE  BreakerInv'
  <2>1. BreakerTypeOK'
    BY <1>3, MethodsTyped DEF RecordFailure, BreakerTypeOK
  <2>2. QED
    BY <1>3, <2>1 DEF RecordFailure, AfterFailure, BreakerTypeOK, Breaker,
                      BreakerState
<1>4. ASSUME NEW c \in Calls, Abandon(c)
      PROVE  BreakerInv'
  BY <1>4 DEF Abandon, BreakerTypeOK
<1>5. CASE Wait
  <2>1. BreakerTypeOK'
    BY <1>5, MethodsTyped DEF Wait, BreakerTypeOK
  <2>2. QED
    BY <1>5, <2>1 DEF Wait, AfterTick, BreakerTypeOK, Breaker, BreakerState
<1>6. CASE UNCHANGED breakerVars
  BY <1>6 DEF breakerVars, BreakerTypeOK
<1>7. QED
  BY <1>1, <1>2, <1>3, <1>4, <1>5, <1>6 DEF BreakerNext

\* The counters of the breaker agree with the calls' real history in every
\* reachable state.
THEOREM BreakerInvariant == BreakerSpec => []BreakerInv
BY BreakerInitInv, BreakerNextInv, PTL DEF BreakerSpec

\* No breaker locks out the calls that would close it: limiter.go:81 is
\* never reached.
THEOREM NeverStuck == BreakerSpec => []NeverStuckHalfOpen
<1>1. BreakerInv => NeverStuckHalfOpen
  BY DEF BreakerInv, BreakerTypeOK, HalfOpenIsShort, NeverStuckHalfOpen, Allow,
         Breaker, BreakerState
<1>2. QED
  BY <1>1, BreakerInvariant, PTL

\* A step that trips the breaker reports the last of Threshold failures.
LEMMA Trips == BreakerInv /\ BreakerNext => TripIsEarned
<1> SUFFICES ASSUME BreakerInv, BreakerNext,
                    cb.state = "closed", cb'.state = "open"
             PROVE  failRun' >= Threshold
  BY DEF TripIsEarned
<1> USE BreakerAssumption DEF BreakerInv, ClosedCountsRun, BreakerTypeOK, Breaker
<1>1. ASSUME NEW c \in Calls, RecordFailure(c)
      PROVE  failRun' >= Threshold
  BY <1>1 DEF RecordFailure, AfterFailure
<1>2. ASSUME NEW c \in Calls, RecordSuccess(c)
      PROVE  FALSE
  BY <1>2 DEF RecordSuccess, AfterSuccess
<1>3. ASSUME NEW c \in Calls, AllowCall(c) \/ Abandon(c)
      PROVE  FALSE
  BY <1>3 DEF AllowCall, AfterAllow, CooledDown, Abandon
<1>4. ASSUME Wait
      PROVE  FALSE
  BY <1>4 DEF Wait, AfterTick
<1>5. QED
  BY <1>1, <1>2, <1>3, <1>4 DEF BreakerNext

\* A step that closes the breaker reports the last of HalfOpenMaxCalls
\* successes.
LEMMA Closes == BreakerInv /\ BreakerNext => ClosingIsEarned
<1> SUFFICES ASSUME BreakerInv, BreakerNext,
                    cb.state # "closed", cb'.state = "closed"
             PROVE  okRun + 1 >= HalfOpenMaxCalls
  BY DEF ClosingIsEarned
<1> USE BreakerAssumption DEF BreakerInv, HalfOpenIsShort, BreakerTypeOK, Breaker
<1>1. ASSUME NEW c \in Calls, RecordSuccess(c)
      PROVE  okRun + 1 >= HalfOpenMaxCalls
  BY <1>1 DEF RecordSuccess, AfterSuccess
<1>2. ASSUME NEW c \in Calls, RecordFailure(c)
      PROVE  FALSE
  BY <1>2 DEF RecordFailure, AfterFailure
<1>3. ASSUME NEW c \in Calls, AllowCall(c) \/ Abandon(c)
      PROVE  FALSE
  BY <1>3 DEF AllowCall, AfterAllow, CooledDown, Abandon
<1>4. ASSUME Wait
      PROVE  FALSE
  BY <1>4 DEF Wait, AfterTick
<1>5. QED
  BY <1>1, <1>2, <1>3, <1>4 DEF BreakerNext

\* The breaker trips and closes only on reports in a row, for any threshold
\* and any number of concurrent calls.
THEOREM OnlyInARow == BreakerSpec => ReportsInARow
<1>1. BreakerInv /\ [BreakerNext]_breakerVars => [TripIsEarned /\ ClosingIsEarned]_breakerVars
  BY Trips, Closes
<1>2. QED
  BY <1>1, BreakerInvariant, PTL DEF BreakerSpec, ReportsInARow
-----------------------------------------------------------------------------
(* The pool and its handlers (Gateway) *)

\* The index stays within the accounts.
LEMMA IndexWraps == \A k \in Nat : k % N \in Account
BY PoolAssumption, SMT DEF Account

LEMMA InitInv == Init => GatewayInv
BY PoolAssumption, BreakerAssumption
   DEF Init, PoolInit, GatewayInv, TypeOK, PoolTypeOK, LocksMatch, TokensKnown,
       RejectedRetired, LoopBounded, NewCircuitBreaker, Breaker, BreakerState,
       Token, TokensOf, Life, Blank, Call, PC, Account, At

\* Where a caller has no token yet, where it is busy with one account, and
\* where it holds a lock.
Tokenless == {"idle", "get", "pick", "allow", "lock", "renew", "blame",
              "error", "done"}
Visiting == {"allow", "lock", "renew", "blame"}
Reporting == {"mark", "record"}
Locking == {"renew"} \union Reporting

-----------------------------------------------------------------------------
(* One caller moves to the locals c, the others stay where they are. *)

\* The locks still match the program counters if r's do.
LEMMA LocksKept ==
  ASSUME TypeOK, LocksMatch, NEW r \in Requests, NEW c \in Call,
         call' = [call EXCEPT ![r] = c],
         \A a \in Account : accLock'[a] = r <=> c.pc = "renew" /\ c.acc = a,
         \A a \in Account, q \in Requests \ {r} :
           accLock'[a] = q <=> accLock[a] = q,
         readers' = IF c.pc \in Reporting THEN readers \union {r}
                                          ELSE readers \ {r}
  PROVE  LocksMatch'
<1>1. call'[r] = c /\ \A q \in Requests \ {r} : call'[q] = call[q]
  BY DEF TypeOK, PoolTypeOK
<1>2. ASSUME NEW a \in Account, NEW q \in Requests
      PROVE  accLock'[a] = q <=> call'[q].pc = "renew" /\ call'[q].acc = a
  <2>1. CASE q = r
    BY <1>1, <2>1
  <2>2. CASE q # r
    BY <1>1, <2>2 DEF LocksMatch, At
  <2>3. QED
    BY <2>1, <2>2
<1>3. ASSUME NEW q \in Requests
      PROVE  q \in readers' <=> call'[q].pc = "mark" \/ call'[q].pc = "record"
  <2>1. CASE q = r
    BY <1>1, <2>1 DEF Reporting
  <2>2. CASE q # r
    BY <1>1, <2>2 DEF LocksMatch, At
  <2>3. QED
    BY <2>1, <2>2
<1>4. readers' \subseteq Requests
  BY DEF TypeOK, PoolTypeOK
<1>5. QED
  BY <1>2, <1>3, <1>4 DEF LocksMatch, At

\* Whether a caller has a token is a matter of its own locals.
LEMMA TokensKept ==
  ASSUME TypeOK, TokensKnown, NEW r \in Requests, NEW c \in Call,
         call' = [call EXCEPT ![r] = c],
         c.pc \in Tokenless <=> c.ver = 0
  PROVE  TokensKnown'
<1>1. call'[r] = c /\ \A q \in Requests \ {r} : call'[q] = call[q]
  BY DEF TypeOK, PoolTypeOK
<1>2. QED
  BY <1>1 DEF TokensKnown, Tokenless

\* The loop counter is a matter of r's locals alone.
LEMMA LoopKept ==
  ASSUME TypeOK, LoopBounded, NEW r \in Requests, NEW c \in Call,
         call' = [call EXCEPT ![r] = c],
         c.pc \in Visiting /\ c.via = "loop" => c.i < N
  PROVE  LoopBounded'
<1>1. call'[r] = c /\ \A q \in Requests \ {r} : call'[q] = call[q]
  BY DEF TypeOK, PoolTypeOK
<1>2. QED
  BY <1>1 DEF LoopBounded, Visiting

\* A step of r that neither takes nor leaves a lock, and touches no token.
LEMMA FreeStep ==
  ASSUME GatewayInv, NEW r \in Requests, NEW c \in Call,
         call' = [call EXCEPT ![r] = c],
         UNCHANGED <<token, stale, accLock, readers, active, rejected>>,
         breaker' \in [Account -> Breaker], index' \in Account,
         call[r].pc \notin Locking, c.pc \notin Locking,
         c.pc \in Tokenless <=> c.ver = 0,
         c.pc \in Visiting /\ c.via = "loop" => c.i < N
  PROVE  GatewayInv'
<1>1. TypeOK'
  BY DEF GatewayInv, TypeOK, PoolTypeOK
<1>2. \A a \in Account : accLock[a] # r
  BY DEF GatewayInv, LocksMatch, At, Locking
<1>3. r \notin readers
  BY DEF GatewayInv, LocksMatch, At, Locking, Reporting
<1>4. LocksMatch'
  BY <1>2, <1>3, LocksKept DEF GatewayInv, Locking
<1>6. TokensKnown'
  BY TokensKept DEF GatewayInv
<1>7. RejectedRetired'
  BY DEF GatewayInv, RejectedRetired
<1>8. LoopBounded'
  BY LoopKept DEF GatewayInv
<1>9. QED
  BY <1>1, <1>4, <1>6, <1>7, <1>8 DEF GatewayInv

\* Such a step that leaves the pool alone altogether.
LEMMA LocalStep ==
  ASSUME GatewayInv, NEW r \in Requests, NEW c \in Call,
         call' = [call EXCEPT ![r] = c], UNCHANGED <<poolVars, rejected>>,
         call[r].pc \notin Locking, c.pc \notin Locking,
         c.pc \in Tokenless <=> c.ver = 0,
         c.pc \in Visiting /\ c.via = "loop" => c.i < N
  PROVE  GatewayInv'
<1>1. breaker' \in [Account -> Breaker] /\ index' \in Account
  BY DEF GatewayInv, TypeOK, PoolTypeOK, poolVars
<1>2. UNCHANGED <<token, stale, accLock, readers, active, rejected>>
  BY DEF poolVars
<1>3. QED
  BY <1>1, <1>2, FreeStep

-----------------------------------------------------------------------------
(* The steps that change nothing but their caller's locals. *)

\* What the invariant says of one caller.
LEMMA CallFacts ==
  ASSUME GatewayInv, NEW r \in Requests
  PROVE  /\ call \in [Requests -> Call] /\ call[r] \in Call
         /\ call[r].pc \in PC /\ call[r].acc \in Account
         /\ call[r].ver \in Nat /\ call[r].i \in 0 .. N
         /\ token[call[r].acc] \in Token
         /\ call[r].pc \in Tokenless <=> call[r].ver = 0
         /\ call[r].pc \in Visiting /\ call[r].via = "loop" => call[r].i < N
BY PoolAssumption
   DEF GatewayInv, TypeOK, PoolTypeOK, Call, TokensKnown, Tokenless,
       LoopBounded, Visiting

\* Going on in the code, not into a part with a lock, not back to a part
\* without a token, and not to an account.
LEMMA GoToInv ==
  ASSUME GatewayInv, NEW r \in Requests, NEW p \in PC, GoTo(r, p),
         UNCHANGED <<poolVars, rejected>>,
         call[r].pc \notin Locking, p \notin Locking \union Visiting,
         p \in Tokenless <=> call[r].ver = 0
  PROVE  GatewayInv'
<1> DEFINE c == [call[r] EXCEPT !.pc = p]
<1>1. call \in [Requests -> Call] /\ call[r] \in Call
  BY CallFacts
<1>2. c \in Call /\ c.ver = call[r].ver /\ c.acc = call[r].acc /\ c.pc = p
  BY <1>1 DEF Call
<1>3. call' = [call EXCEPT ![r] = c]
  BY <1>1 DEF GoTo
<1> HIDE DEF c
<1>4. QED
  BY <1>2, <1>3, LocalStep

LEMMA BlankCall ==
  ASSUME NEW p \in PC, NEW n \in 1 .. 2
  PROVE  /\ Blank(p, n) \in Call
         /\ Blank(p, n).pc = p /\ Blank(p, n).ver = 0
<1>1. 0 \in Account /\ 0 \in 0 .. N /\ 0 \in 0 .. MaxTokens
  BY PoolAssumption DEF Account
<1>2. QED
  BY <1>1 DEF Blank, Call

LEMMA HandlerInv ==
  ASSUME GatewayInv, NEW r \in Requests, Handler(r)
  PROVE  GatewayInv'
<1>1. ASSUME NEW c \in Call, call' = [call EXCEPT ![r] = c],
             call[r].pc \notin Locking, c.pc \in Tokenless,
             c.pc \notin Locking \union Visiting, c.ver = 0,
             UNCHANGED <<poolVars, rejected>>
      PROVE  GatewayInv'
  BY <1>1, LocalStep
<1>2. ASSUME Return(r), call[r].pc \notin Locking,
             UNCHANGED <<poolVars, rejected>>
      PROVE  GatewayInv'
  <2>1. /\ Blank("done", 1) \in Call /\ Blank("done", 1).ver = 0
        /\ Blank("done", 1).pc \in Tokenless
        /\ Blank("done", 1).pc \notin Locking \union Visiting
    BY BlankCall DEF Locking, Reporting, Visiting, Tokenless, PC
  <2>2. QED
    BY <1>1, <1>2, <2>1 DEF Return
<1>3. CASE Begin(r)
  <2>1. call[r].ver = 0
    BY <1>3, CallFacts DEF Begin, At, Tokenless
  <2>2. QED
    BY <1>3, <2>1, GoToInv DEF Begin, At, PC, Locking, Reporting, Visiting,
       Tokenless
<1>4. CASE NoToken(r) \/ OtherError(r) \/ GiveUp(r)
  BY <1>2, <1>4
     DEF NoToken, OtherError, GiveUp, At, Locking, Reporting, Visiting
<1>5. CASE Answered(r)
  <2>1. call[r].ver # 0
    BY <1>5, CallFacts DEF Answered, At, Tokenless
  <2>2. CASE r \in Chats
    BY <1>5, <2>1, <2>2, GoToInv
       DEF Answered, At, PC, Locking, Reporting, Visiting, Tokenless
  <2>3. CASE r \notin Chats
    BY <1>2, <1>5, <2>3 DEF Answered, At, Locking, Reporting, Visiting
  <2>4. QED
    BY <2>2, <2>3
<1>6. CASE AuthRejected(r)
  <2>1. call[r].ver # 0
    BY <1>6, CallFacts DEF AuthRejected, At, Tokenless
  <2>2. QED
    BY <1>6, <2>1, GoToInv
       DEF AuthRejected, At, PC, Locking, Reporting, Visiting, Tokenless
<1>7. CASE Retry(r)
  <2>1. /\ Blank("get", 2) \in Call /\ Blank("get", 2).ver = 0
        /\ Blank("get", 2).pc \in Tokenless
        /\ Blank("get", 2).pc \notin Locking \union Visiting
    BY BlankCall DEF Locking, Reporting, Visiting, Tokenless, PC
  <2>2. call[r].pc \notin Locking
    BY <1>7 DEF Retry, At, Locking, Reporting
  <2>3. QED
    BY <1>1, <1>7, <2>1, <2>2 DEF Retry
<1>8. QED
  BY <1>3, <1>4, <1>5, <1>6, <1>7 DEF Handler

\* Leaving an account, the caller still has no token, and the loop counter goes
\* no further than N.
LEMMA MovesOn ==
  ASSUME GatewayInv, NEW r \in Requests, MoveOn(r), call[r].pc \in Visiting
  PROVE  \E c \in Call : /\ call' = [call EXCEPT ![r] = c]
                         /\ c.ver = 0 /\ c.pc = "pick"
<1> DEFINE i == IF call[r].via = "active" THEN 0 ELSE call[r].i + 1
<1> DEFINE c == [call[r] EXCEPT !.pc = "pick", !.via = "loop", !.acc = 0,
                                !.i = i]
<1>1. call \in [Requests -> Call] /\ call[r] \in Call /\ call[r].ver = 0
  BY CallFacts DEF Visiting, Tokenless
<1>2. i \in 0 .. N /\ 0 \in Account
  <2>1. call[r].via = "active" \/ call[r].i < N
    BY <1>1, CallFacts DEF Call
  <2>2. QED
    BY <1>1, <2>1, PoolAssumption DEF Call, Account
<1>3. call' = [call EXCEPT ![r] = c]
  BY <1>1 DEF MoveOn, Call
<1> HIDE DEF i
<1>4. c \in Call /\ c.ver = 0 /\ c.pc = "pick"
  BY <1>1, <1>2 DEF Call, PC
<1>5. QED
  BY <1>3, <1>4

LEMMA LookInv ==
  ASSUME GatewayInv, NEW r \in Requests, UNCHANGED rejected,
         Snapshot(r) \/ Pick(r) \/ Exhausted(r) \/ Refused(r)
  PROVE  GatewayInv'
<1>0. /\ call \in [Requests -> Call] /\ call[r] \in Call
      /\ call[r].ver = 0 /\ call[r].pc \notin Locking
  BY CallFacts
     DEF Snapshot, Pick, Exhausted, Refused, At, Locking, Reporting, Tokenless
<1>1. ASSUME NEW c \in Call, call' = [call EXCEPT ![r] = c],
             UNCHANGED poolVars, c.ver = 0, c.pc \in Tokenless \ Locking,
             c.pc \in Visiting /\ c.via = "loop" => c.i < N
      PROVE  GatewayInv'
  BY <1>0, <1>1, LocalStep
<1>2. CASE Snapshot(r)
  <2> DEFINE c == [call[r] EXCEPT
                     !.pc = IF active = None THEN "pick" ELSE "allow",
                     !.via = IF active = None THEN "loop" ELSE "active",
                     !.acc = IF active = None THEN 0 ELSE active]
  <2>1. 0 \in Account /\ active \in Account \union {None}
    BY PoolAssumption DEF Account, GatewayInv, TypeOK, PoolTypeOK
  <2>2. /\ c \in Call /\ c.ver = 0 /\ c.pc \in Tokenless \ Locking
        /\ c.pc \in Visiting => c.via = "active"
    BY <1>0, <2>1 DEF Call, PC, Locking, Reporting, Visiting, Tokenless
  <2>3. call' = [call EXCEPT ![r] = c]
    BY <1>0, <1>2 DEF Snapshot, Call
  <2> HIDE DEF c
  <2>4. QED
    BY <1>1, <1>2, <2>2, <2>3 DEF Snapshot
<1>3. CASE Pick(r)
  <2> DEFINE c == [call[r] EXCEPT !.pc = "allow",
                                  !.acc = (index + call[r].i) % N]
  <2>1. (index + call[r].i) % N \in Account
    <3>1. index + call[r].i \in Nat
      BY <1>0, PoolAssumption
         DEF Call, Account, GatewayInv, TypeOK, PoolTypeOK
    <3>2. QED
      BY <3>1, IndexWraps
  <2>2. c \in Call /\ c.ver = 0 /\ c.pc \in Tokenless \ Locking /\ c.i < N
    BY <1>0, <1>3, <2>1 DEF Pick, Call, PC, Locking, Reporting, Tokenless
  <2>3. call' = [call EXCEPT ![r] = c]
    BY <1>0, <1>3 DEF Pick, Call
  <2> HIDE DEF c
  <2>4. QED
    BY <1>1, <1>3, <2>2, <2>3 DEF Pick
<1>4. CASE Exhausted(r)
  BY <1>0, <1>4, GoToInv DEF Exhausted, PC, Locking, Reporting, Visiting,
       Tokenless
<1>5. CASE Refused(r)
  <2>1. PICK c \in Call : /\ call' = [call EXCEPT ![r] = c]
                          /\ c.ver = 0 /\ c.pc = "pick"
    BY <1>0, <1>5, MovesOn DEF Refused, At, Visiting
  <2>2. QED
    BY <1>1, <1>5, <2>1 DEF Refused, Locking, Reporting, Visiting, Tokenless
<1>6. QED
  BY <1>2, <1>3, <1>4, <1>5
-----------------------------------------------------------------------------
(* The steps that take or leave a lock, or touch an account. *)

\* What is left to show of such a step once its types, its locks and its
\* rejected tokens are right.
LEMMA StepInv ==
  ASSUME GatewayInv, NEW r \in Requests, NEW c \in Call,
         call' = [call EXCEPT ![r] = c],
         TypeOK', LocksMatch', RejectedRetired',
         c.pc \in Tokenless <=> c.ver = 0,
         c.pc \in Visiting /\ c.via = "loop" => c.i < N
  PROVE  GatewayInv'
<1>1. TokensKnown'
  BY TokensKept DEF GatewayInv
<1>2. LoopBounded'
  BY LoopKept DEF GatewayInv
<1>3. QED
  BY <1>1, <1>2 DEF GatewayInv

\* GetToken returns with a token of the account it was at.
LEMMA HandsOut ==
  ASSUME GatewayInv, NEW r \in Requests, NEW t \in Token, HandOut(r, t)
  PROVE  \E c \in Call : /\ call' = [call EXCEPT ![r] = c]
                         /\ c.ver = t.ver /\ c.ver # 0 /\ c.acc = call[r].acc
                         /\ c.pc \in {"advance", "got"}
<1> DEFINE c == [call[r] EXCEPT !.pc = IF call[r].via = "loop" THEN "advance"
                                                               ELSE "got",
                                !.via = "loop", !.i = 0, !.ver = t.ver]
<1>1. call \in [Requests -> Call] /\ call[r] \in Call
  BY CallFacts
<1>2. 0 \in 0 .. N /\ t.ver \in 0 .. MaxTokens /\ t.ver # 0
  BY PoolAssumption DEF Token
<1>3. call' = [call EXCEPT ![r] = c]
  BY <1>1 DEF HandOut
<1>4. /\ c \in Call /\ c.ver = t.ver /\ c.ver # 0 /\ c.acc = call[r].acc
      /\ c.pc \in {"advance", "got"}
  BY <1>1, <1>2 DEF Call, PC
<1> HIDE DEF c
<1>5. QED
  BY <1>3, <1>4

LEMMA UseCurrentInv ==
  ASSUME GatewayInv, NEW r \in Requests, UseCurrent(r), UNCHANGED rejected
  PROVE  GatewayInv'
<1> DEFINE t == token[call[r].acc]
<1>1. t \in Token
  BY CallFacts
<1>2. HandOut(r, t) /\ UNCHANGED poolVars /\ call[r].pc = "lock"
  BY DEF UseCurrent, At
<1>3. PICK c \in Call : /\ call' = [call EXCEPT ![r] = c]
                        /\ c.ver = t.ver /\ c.ver # 0 /\ c.acc = call[r].acc
                        /\ c.pc \in {"advance", "got"}
  <2> HIDE DEF t
  <2>1. QED
    BY <1>1, <1>2, HandsOut
<1>4. QED
  BY <1>1, <1>2, <1>3, LocalStep
     DEF Locking, Reporting, Visiting, Tokenless

LEMMA StartRenewalInv ==
  ASSUME GatewayInv, NEW r \in Requests, StartRenewal(r), UNCHANGED rejected
  PROVE  GatewayInv'
<1> DEFINE c == [call[r] EXCEPT !.pc = "renew"]
<1> DEFINE a == call[r].acc
<1>1. /\ call \in [Requests -> Call] /\ call[r] \in Call /\ a \in Account
      /\ call[r].pc = "lock" /\ call[r].ver = 0
      /\ call[r].via = "loop" => call[r].i < N
  BY CallFacts DEF StartRenewal, At, Tokenless, Visiting
<1>2. /\ c \in Call /\ c.ver = 0 /\ c.acc = a /\ c.pc = "renew"
      /\ c.via = call[r].via /\ c.i = call[r].i
  BY <1>1 DEF Call, PC
<1>3. call' = [call EXCEPT ![r] = c]
  BY <1>1 DEF StartRenewal, GoTo
<1> HIDE DEF c
<1>4. accLock' = [accLock EXCEPT ![a] = r] /\ accLock[a] = None
  BY DEF StartRenewal
<1>5. UNCHANGED <<breaker, token, stale, readers, index, active, rejected>>
  BY DEF StartRenewal
<1>6. TypeOK'
  BY <1>2, <1>3, <1>4, <1>5 DEF GatewayInv, TypeOK, PoolTypeOK
<1>7. LocksMatch'
  <2>1. r \notin readers /\ \A b \in Account : accLock[b] # r
    BY <1>1 DEF GatewayInv, LocksMatch, At
  <2>2. \A b \in Account : accLock'[b] = r <=> c.pc = "renew" /\ c.acc = b
    BY <1>1, <1>2, <1>4, <2>1 DEF GatewayInv, TypeOK, PoolTypeOK
  <2>3. \A b \in Account, q \in Requests \ {r} :
          accLock'[b] = q <=> accLock[b] = q
    BY <1>1, <1>4, PoolAssumption DEF GatewayInv, TypeOK, PoolTypeOK
  <2>4. readers' = readers \ {r} /\ c.pc \notin Reporting
    BY <1>2, <1>5, <2>1 DEF Reporting
  <2>5. QED
    BY <1>2, <1>3, <2>2, <2>3, <2>4, LocksKept DEF GatewayInv
<1>8. RejectedRetired'
  BY <1>5 DEF GatewayInv, RejectedRetired
<1>9. QED
  BY <1>1, <1>2, <1>3, <1>6, <1>7, <1>8, StepInv DEF Tokenless, Visiting

\* Going on in the code keeps the other locals.
LEMMA GoesTo ==
  ASSUME GatewayInv, NEW r \in Requests, NEW p \in PC, GoTo(r, p)
  PROVE  \E c \in Call :
           /\ call' = [call EXCEPT ![r] = c]
           /\ c.pc = p /\ c.via = call[r].via /\ c.i = call[r].i
           /\ c.acc = call[r].acc /\ c.ver = call[r].ver
<1> DEFINE c == [call[r] EXCEPT !.pc = p]
<1>1. call \in [Requests -> Call] /\ call[r] \in Call
  BY CallFacts
<1>2. /\ c \in Call
      /\ c.pc = p /\ c.via = call[r].via /\ c.i = call[r].i
      /\ c.acc = call[r].acc /\ c.ver = call[r].ver
  BY <1>1 DEF Call
<1>3. call' = [call EXCEPT ![r] = c]
  BY <1>1 DEF GoTo
<1> HIDE DEF c
<1>4. QED
  BY <1>2, <1>3

\* A caller that ends a renewal gives back the lock it held.
LEMMA UnlockKeeps ==
  ASSUME GatewayInv, NEW r \in Requests, NEW c \in Call,
         call' = [call EXCEPT ![r] = c], call[r].pc = "renew",
         c.pc \notin Locking, Unlock(call[r].acc), UNCHANGED readers
  PROVE  /\ LocksMatch'
         /\ accLock' \in [Account -> Requests \union {None}]
<1> DEFINE a == call[r].acc
<1>1. /\ accLock \in [Account -> Requests \union {None}]
      /\ a \in Account /\ accLock[a] = r /\ r \notin readers
      /\ \A b \in Account \ {a} : accLock[b] # r
  BY CallFacts DEF GatewayInv, TypeOK, PoolTypeOK, LocksMatch, At
<1>2. accLock' = [accLock EXCEPT ![a] = None]
  BY DEF Unlock
<1>3. accLock' \in [Account -> Requests \union {None}]
  BY <1>1, <1>2
<1>4. \A b \in Account : accLock'[b] # r
  BY <1>1, <1>2, PoolAssumption
<1>5. \A b \in Account, q \in Requests \ {r} :
        accLock'[b] = q <=> accLock[b] = q
  BY <1>1, <1>2, PoolAssumption
<1>6. readers' = readers \ {r} /\ c.pc \notin Reporting /\ c.pc # "renew"
  BY <1>1 DEF Locking
<1>7. QED
  BY <1>3, <1>4, <1>5, <1>6, LocksKept DEF GatewayInv

\* A renewal brings token t, which may be any: if it was rejected before, it
\* does not count as rejected any more.
LEMMA RenewedInv ==
  ASSUME GatewayInv, NEW r \in Requests, NEW t \in Token,
         call[r].pc = "renew", Renewed(r, t),
         rejected' = rejected \ {<<call[r].acc, t.ver>>}
  PROVE  GatewayInv'
<1> DEFINE a == call[r].acc
<1>1. /\ token' = [token EXCEPT ![a] = t]
      /\ stale' = [stale EXCEPT ![a] = FALSE]
      /\ Unlock(a) /\ HandOut(r, t)
      /\ UNCHANGED <<breaker, readers, index, active>>
  BY DEF Renewed
<1>2. PICK c \in Call : /\ call' = [call EXCEPT ![r] = c]
                        /\ c.ver = t.ver /\ c.ver # 0 /\ c.acc = a
                        /\ c.pc \in {"advance", "got"}
  BY <1>1, HandsOut
<1>3. /\ LocksMatch'
      /\ accLock' \in [Account -> Requests \union {None}]
  BY <1>1, <1>2, UnlockKeeps DEF Locking, Reporting
<1>4. /\ a \in Account /\ token \in [Account -> Token]
      /\ stale \in [Account -> BOOLEAN]
  BY CallFacts DEF GatewayInv, TypeOK, PoolTypeOK
<1>5. TypeOK'
  BY <1>1, <1>2, <1>3, <1>4 DEF GatewayInv, TypeOK, PoolTypeOK
<1>6. RejectedRetired'
  <2>1. ASSUME NEW b \in Account, <<b, token'[b].ver>> \in rejected'
        PROVE  stale'[b]
    <3>1. token'[a] = t
      BY <1>1, <1>4
    <3>2. b # a
      BY <2>1, <3>1
    <3>3. token'[b] = token[b] /\ (stale'[b] <=> stale[b])
      BY <1>1, <1>4, <3>2
    <3>4. <<b, token[b].ver>> \in rejected
      BY <2>1, <3>3
    <3>5. QED
      BY <3>3, <3>4 DEF GatewayInv, RejectedRetired
  <2>2. QED
    BY <2>1 DEF RejectedRetired
<1>7. QED
  BY <1>2, <1>3, <1>5, <1>6, StepInv DEF Tokenless, Visiting

\* The token a renewal brings is the account's when the renewal is over.
LEMMA Renews ==
  ASSUME GatewayInv, NEW r \in Requests, Renew(r)
  PROVE  \E t \in TokensOf(call[r].acc) :
           /\ Renewed(r, t) /\ token'[call[r].acc] = t
           /\ t.life = "expired" => call[r].acc \in Refreshable
<1>1. call[r].acc \in Account /\ token \in [Account -> Token]
  BY CallFacts DEF GatewayInv, TypeOK, PoolTypeOK
<1>2. PICK t \in TokensOf(call[r].acc) :
        Renewed(r, t) /\ (t.life = "expired" => call[r].acc \in Refreshable)
  BY DEF Renew, ApiRefresh, SourceReload
<1>3. token'[call[r].acc] = t
  BY <1>1, <1>2 DEF Renewed
<1>4. QED
  BY <1>2, <1>3

LEMMA RenewalInv ==
  ASSUME GatewayInv, NEW r \in Requests, Renewal(r)
  PROVE  GatewayInv'
<1>1. call[r].pc = "renew"
  BY DEF Renewal, Renew, ApiRefresh, SourceReload, At
<1>2. PICK t \in TokensOf(call[r].acc) :
        Renewed(r, t) /\ token'[call[r].acc] = t
  BY Renews DEF Renewal
<1>3. t \in Token /\ rejected' = rejected \ {<<call[r].acc, t.ver>>}
  BY <1>2 DEF TokensOf, Renewal
<1>4. QED
  BY <1>1, <1>2, <1>3, RenewedInv

\* A renewal that ends without a new token: the caller leaves with c.
LEMMA RenewalEnds ==
  ASSUME GatewayInv, NEW r \in Requests, NEW c \in Call,
         call' = [call EXCEPT ![r] = c], call[r].pc = "renew",
         Unlock(call[r].acc),
         UNCHANGED <<breaker, token, stale, readers, index, active, rejected>>,
         c.pc \notin Locking,
         c.pc \in Tokenless <=> c.ver = 0,
         c.pc \in Visiting /\ c.via = "loop" => c.i < N
  PROVE  GatewayInv'
<1>1. /\ LocksMatch'
      /\ accLock' \in [Account -> Requests \union {None}]
  BY UnlockKeeps
<1>2. TypeOK'
  BY <1>1 DEF GatewayInv, TypeOK, PoolTypeOK
<1>3. RejectedRetired'
  BY DEF GatewayInv, RejectedRetired
<1>4. QED
  BY <1>1, <1>2, <1>3, StepInv

LEMMA RenewalFallsBackInv ==
  ASSUME GatewayInv, NEW r \in Requests, KeepOld(r) \/ RenewalFails(r),
         UNCHANGED rejected
  PROVE  GatewayInv'
<1> DEFINE a == call[r].acc
<1>1. /\ call[r].pc = "renew" /\ Unlock(a) /\ token[a] \in Token
      /\ UNCHANGED <<breaker, token, stale, readers, index, active, rejected>>
  BY CallFacts DEF KeepOld, RenewalFails, At
<1>2. CASE KeepOld(r)
  <2>1. HandOut(r, token[a])
    BY <1>2 DEF KeepOld
  <2>2. PICK c \in Call : /\ call' = [call EXCEPT ![r] = c]
                          /\ c.ver = token[a].ver /\ c.ver # 0 /\ c.acc = a
                          /\ c.pc \in {"advance", "got"}
    BY <1>1, <2>1, HandsOut
  <2>3. QED
    BY <1>1, <2>2, RenewalEnds
       DEF Locking, Reporting, Tokenless, Visiting
<1>3. CASE RenewalFails(r)
  <2>1. PICK c \in Call :
          /\ call' = [call EXCEPT ![r] = c]
          /\ c.pc = "blame" /\ c.via = call[r].via /\ c.i = call[r].i
          /\ c.acc = a /\ c.ver = call[r].ver
    BY <1>3, GoesTo DEF RenewalFails, PC
  <2>2. /\ call[r].ver = 0
        /\ call[r].via = "loop" => call[r].i < N
    BY <1>1, <2>1, CallFacts DEF Tokenless, Visiting
  <2>3. QED
    BY <1>1, <2>1, <2>2, RenewalEnds DEF Locking, Reporting, Tokenless
<1>4. QED
  BY <1>2, <1>3

\* The steps that report to a breaker or move the index, and hold no lock.
LEMMA AdmittedInv ==
  ASSUME GatewayInv, NEW r \in Requests, Admitted(r), UNCHANGED rejected
  PROVE  GatewayInv'
<1>1. PICK c \in Call :
        /\ call' = [call EXCEPT ![r] = c]
        /\ c.pc = "lock" /\ c.via = call[r].via /\ c.i = call[r].i
        /\ c.acc = call[r].acc /\ c.ver = call[r].ver
  BY GoesTo DEF Admitted, PC
<1>2. /\ call[r].pc = "allow" /\ call[r].ver = 0
      /\ call[r].via = "loop" => call[r].i < N
  BY <1>1, CallFacts DEF Admitted, At, Tokenless, Visiting
<1>3. breaker' \in [Account -> Breaker] /\ index' \in Account
  <2>1. /\ breaker \in [Account -> Breaker] /\ index \in Account
        /\ breaker[call[r].acc] \in Breaker
    BY CallFacts DEF GatewayInv, TypeOK, PoolTypeOK
  <2>2. QED
    BY <2>1, MethodsTyped DEF Admitted
<1>4. UNCHANGED <<token, stale, accLock, readers, active, rejected>>
  BY DEF Admitted
<1>5. QED
  BY <1>1, <1>2, <1>3, <1>4, FreeStep DEF Locking, Reporting, Tokenless

LEMMA BlameInv ==
  ASSUME GatewayInv, NEW r \in Requests, Blame(r), UNCHANGED rejected
  PROVE  GatewayInv'
<1>1. call[r].pc = "blame" /\ MoveOn(r)
  BY DEF Blame, At
<1>2. PICK c \in Call : /\ call' = [call EXCEPT ![r] = c]
                        /\ c.ver = 0 /\ c.pc = "pick"
  BY <1>1, MovesOn DEF Visiting
<1>3. breaker' \in [Account -> Breaker] /\ index' \in Account
  <2>1. /\ breaker \in [Account -> Breaker] /\ index \in Account
        /\ breaker[call[r].acc] \in Breaker
    BY CallFacts DEF GatewayInv, TypeOK, PoolTypeOK
  <2>2. QED
    BY <2>1, MethodsTyped DEF Blame
<1>4. UNCHANGED <<token, stale, accLock, readers, active, rejected>>
  BY DEF Blame
<1>5. QED
  BY <1>1, <1>2, <1>3, <1>4, FreeStep
  DEF Locking, Reporting, Visiting, Tokenless

LEMMA AdvanceInv ==
  ASSUME GatewayInv, NEW r \in Requests, Advance(r), UNCHANGED rejected
  PROVE  GatewayInv'
<1>1. PICK c \in Call :
        /\ call' = [call EXCEPT ![r] = c]
        /\ c.pc = "got" /\ c.via = call[r].via /\ c.i = call[r].i
        /\ c.acc = call[r].acc /\ c.ver = call[r].ver
  BY GoesTo DEF Advance, PC
<1>2. call[r].pc = "advance" /\ c.ver # 0
  BY <1>1, CallFacts DEF Advance, At, Tokenless
<1>3. breaker' \in [Account -> Breaker] /\ index' \in Account
  <2>1. call[r].acc + 1 \in Nat
    BY CallFacts, PoolAssumption DEF Account
  <2>2. QED
    BY <2>1, IndexWraps DEF Advance, GatewayInv, TypeOK, PoolTypeOK
<1>4. UNCHANGED <<token, stale, accLock, readers, active, rejected>>
  BY DEF Advance
<1>5. QED
  BY <1>1, <1>2, <1>3, <1>4, FreeStep
  DEF Locking, Reporting, Tokenless, Visiting

LEMMA ReportSuccessInv ==
  ASSUME GatewayInv, NEW r \in Requests, ReportSuccess(r), UNCHANGED rejected
  PROVE  GatewayInv'
<1> DEFINE c == Blank("done", 1)
<1>1. c \in Call /\ c.pc = "done" /\ c.ver = 0
  BY BlankCall DEF PC
<1>2. call' = [call EXCEPT ![r] = c]
  BY DEF ReportSuccess, Return
<1> HIDE DEF c
<1>3. breaker' \in [Account -> Breaker] /\ index' \in Account
  <2>1. /\ breaker \in [Account -> Breaker] /\ index \in Account
        /\ breaker[call[r].acc] \in Breaker
    BY CallFacts DEF GatewayInv, TypeOK, PoolTypeOK
  <2>2. QED
    BY <2>1, MethodsTyped DEF ReportSuccess
<1>4. UNCHANGED <<token, stale, accLock, readers, active, rejected>>
  BY DEF ReportSuccess
<1>5. call[r].pc = "succeeded"
  BY DEF ReportSuccess, At
<1>6. QED
  BY <1>1, <1>2, <1>3, <1>4, <1>5, FreeStep
     DEF Locking, Reporting, Visiting, Tokenless

-----------------------------------------------------------------------------
(* ReportFailure, in its three steps *)

LEMMA EnterReportInv ==
  ASSUME GatewayInv, NEW r \in Requests, EnterReport(r), UNCHANGED rejected
  PROVE  GatewayInv'
<1>1. PICK c \in Call :
        /\ call' = [call EXCEPT ![r] = c]
        /\ c.pc = "mark" /\ c.via = call[r].via /\ c.i = call[r].i
        /\ c.acc = call[r].acc /\ c.ver = call[r].ver
  BY GoesTo DEF EnterReport, PC
<1>2. /\ call[r].pc = "report" /\ readers' = readers \union {r}
      /\ UNCHANGED <<breaker, token, stale, accLock, index, active, rejected>>
  BY DEF EnterReport, At
<1>3. c.ver # 0
  BY <1>1, <1>2, CallFacts DEF Tokenless
<1>4. TypeOK'
  BY <1>1, <1>2 DEF GatewayInv, TypeOK, PoolTypeOK
<1>5. LocksMatch'
  <2>1. \A b \in Account : accLock[b] # r
    BY <1>2 DEF GatewayInv, LocksMatch, At
  <2>2. QED
    BY <1>1, <1>2, <2>1, LocksKept DEF GatewayInv, Reporting
<1>6. RejectedRetired'
  BY <1>2 DEF GatewayInv, RejectedRetired
<1>7. QED
  BY <1>1, <1>3, <1>4, <1>5, <1>6, StepInv DEF Tokenless, Visiting

\* Whatever token of the account is reported, the account is stale from now on.
LEMMA MarkStaleInv ==
  ASSUME GatewayInv, NEW r \in Requests, MarkStale(r),
         rejected' = rejected \union {<<call[r].acc, call[r].ver>>}
  PROVE  GatewayInv'
<1> DEFINE a == call[r].acc
<1>1. PICK c \in Call :
        /\ call' = [call EXCEPT ![r] = c]
        /\ c.pc = "record" /\ c.via = call[r].via /\ c.i = call[r].i
        /\ c.acc = a /\ c.ver = call[r].ver
  BY GoesTo DEF MarkStale, PC
<1>2. /\ call[r].pc = "mark" /\ stale' = [stale EXCEPT ![a] = TRUE]
      /\ UNCHANGED <<breaker, token, accLock, readers, index, active>>
  BY DEF MarkStale, At
<1>3. /\ a \in Account /\ call[r].ver \in 1 .. MaxTokens
      /\ stale \in [Account -> BOOLEAN]
  <2>1. call[r] \in Call /\ call[r].ver # 0
    BY <1>2, CallFacts DEF Tokenless
  <2>2. call[r].ver \in 1 .. MaxTokens
    BY <2>1, PoolAssumption DEF Call
  <2>3. QED
    BY <2>2, CallFacts DEF GatewayInv, TypeOK, PoolTypeOK
<1>4. TypeOK'
  BY <1>1, <1>2, <1>3 DEF GatewayInv, TypeOK, PoolTypeOK
<1>5. LocksMatch'
  <2>1. r \in readers /\ \A b \in Account : accLock[b] # r
    BY <1>2 DEF GatewayInv, LocksMatch, At
  <2>2. readers' = readers \union {r} /\ c.pc \in Reporting /\ c.pc # "renew"
    BY <1>1, <1>2, <2>1 DEF Reporting
  <2>3. QED
    BY <1>1, <1>2, <2>1, <2>2, LocksKept DEF GatewayInv
<1>6. RejectedRetired'
  <2>1. ASSUME NEW b \in Account, <<b, token[b].ver>> \in rejected'
        PROVE  stale'[b]
    <3>1. CASE b = a
      BY <1>2, <1>3, <3>1
    <3>2. CASE b # a
      <4>1. <<b, token[b].ver>> \in rejected
        BY <2>1, <3>2
      <4>2. stale'[b] <=> stale[b]
        BY <1>2, <1>3, <3>2
      <4>3. QED
        BY <4>1, <4>2 DEF GatewayInv, RejectedRetired
    <3>3. QED
      BY <3>1, <3>2
  <2>2. QED
    BY <1>2, <2>1 DEF RejectedRetired
<1>7. c.ver # 0
  BY <1>1, <1>3, PoolAssumption
<1>8. QED
  BY <1>1, <1>4, <1>5, <1>6, <1>7, StepInv DEF Tokenless, Visiting

LEMMA LeaveReportInv ==
  ASSUME GatewayInv, NEW r \in Requests, LeaveReport(r), UNCHANGED rejected
  PROVE  GatewayInv'
<1>1. PICK c \in Call :
        /\ call' = [call EXCEPT ![r] = c]
        /\ c.pc = "reported" /\ c.via = call[r].via /\ c.i = call[r].i
        /\ c.acc = call[r].acc /\ c.ver = call[r].ver
  BY GoesTo DEF LeaveReport, PC
<1>2. /\ call[r].pc = "record" /\ readers' = readers \ {r}
      /\ UNCHANGED <<token, stale, accLock, index, active, rejected>>
  BY DEF LeaveReport, At
<1>3. c.ver # 0
  BY <1>1, <1>2, CallFacts DEF Tokenless
<1>4. TypeOK'
  <2>1. /\ breaker \in [Account -> Breaker]
        /\ breaker[call[r].acc] \in Breaker
    BY CallFacts DEF GatewayInv, TypeOK, PoolTypeOK
  <2>2. breaker' \in [Account -> Breaker]
    BY <2>1, MethodsTyped DEF LeaveReport
  <2>3. QED
    BY <1>1, <1>2, <2>2 DEF GatewayInv, TypeOK, PoolTypeOK
<1>5. LocksMatch'
  <2>1. \A b \in Account : accLock[b] # r
    BY <1>2 DEF GatewayInv, LocksMatch, At
  <2>2. QED
    BY <1>1, <1>2, <2>1, LocksKept DEF GatewayInv, Reporting
<1>6. RejectedRetired'
  BY <1>2 DEF GatewayInv, RejectedRetired
<1>7. QED
  BY <1>1, <1>3, <1>4, <1>5, <1>6, StepInv DEF Tokenless, Visiting

-----------------------------------------------------------------------------
(* Time *)

LEMMA TimeInv ==
  ASSUME GatewayInv, Time
  PROVE  GatewayInv'
<1>1. CASE Tick /\ UNCHANGED rejected
  <2>1. breaker' \in [Account -> Breaker]
    BY <1>1, MethodsTyped DEF Tick, GatewayInv, TypeOK, PoolTypeOK
  <2>2. UNCHANGED <<token, stale, accLock, readers, index, active, call,
                    rejected>>
    BY <1>1 DEF Tick
  <2>3. TypeOK'
    BY <2>1, <2>2 DEF GatewayInv, TypeOK, PoolTypeOK
  <2>4. QED
    BY <2>2, <2>3
       DEF GatewayInv, LocksMatch, TokensKnown, RejectedRetired, LoopBounded,
           At
<1>2. ASSUME NEW a \in Account, Wither(a), UNCHANGED rejected
      PROVE  GatewayInv'
  <2>1. /\ token \in [Account -> Token]
        /\ UNCHANGED <<breaker, stale, accLock, readers, index, active, call,
                       rejected>>
    BY <1>2 DEF Wither, GatewayInv, TypeOK, PoolTypeOK
  <2>2. token' \in [Account -> Token]
    BY <1>2, <2>1 DEF Wither, Token, Life
  <2>3. \A b \in Account : token'[b].ver = token[b].ver
    BY <1>2, <2>1 DEF Wither, Token
  <2>4. TypeOK'
    BY <2>1, <2>2 DEF GatewayInv, TypeOK, PoolTypeOK
  <2>5. TokensKnown'
    BY <2>1 DEF GatewayInv, TokensKnown
  <2>6. RejectedRetired'
    BY <2>1, <2>3 DEF GatewayInv, RejectedRetired
  <2>7. LocksMatch' /\ LoopBounded'
    BY <2>1 DEF GatewayInv, LocksMatch, LoopBounded, At
  <2>8. QED
    BY <2>4, <2>5, <2>6, <2>7 DEF GatewayInv
<1>3. QED
  BY <1>1, <1>2 DEF Time

-----------------------------------------------------------------------------
(* Every step together *)

LEMMA RequestInv ==
  ASSUME GatewayInv, NEW r \in Requests, Request(r)
  PROVE  GatewayInv'
<1>1. CASE Handler(r)
  BY <1>1, HandlerInv
<1>2. CASE Search(r) /\ UNCHANGED rejected
  BY <1>2, LookInv, AdmittedInv, UseCurrentInv, StartRenewalInv,
     RenewalFallsBackInv, BlameInv, AdvanceInv
     DEF Search
<1>3. CASE ReportSuccess(r) /\ UNCHANGED rejected
  BY <1>3, ReportSuccessInv
<1>4. CASE /\ ReportFailure(r)
           /\ rejected' = IF At(r, "mark")
                          THEN rejected \union {<<call[r].acc, call[r].ver>>}
                          ELSE rejected
  <2>1. CASE MarkStale(r)
    BY <1>4, <2>1, MarkStaleInv DEF MarkStale
  <2>2. CASE EnterReport(r)
    BY <1>4, <2>2, EnterReportInv DEF EnterReport, At
  <2>3. CASE LeaveReport(r)
    BY <1>4, <2>3, LeaveReportInv DEF LeaveReport, At
  <2>4. QED
    BY <1>4, <2>1, <2>2, <2>3 DEF ReportFailure
<1>5. CASE Renewal(r)
  BY <1>5, RenewalInv
<1>6. QED
  BY <1>1, <1>2, <1>3, <1>4, <1>5 DEF Request, Pool

LEMMA NextInv == GatewayInv /\ [Next]_vars => GatewayInv'
<1> SUFFICES ASSUME GatewayInv, [Next]_vars PROVE GatewayInv'
  OBVIOUS
<1>1. CASE \E r \in Requests : Request(r)
  BY <1>1, RequestInv
<1>2. CASE Time
  BY <1>2, TimeInv
<1>3. CASE UNCHANGED vars
  BY <1>3
     DEF vars, poolVars, GatewayInv, TypeOK, PoolTypeOK, LocksMatch,
         TokensKnown, RejectedRetired, LoopBounded, At
<1>4. QED
  BY <1>1, <1>2, <1>3 DEF Next, Quiescent

\* The locks, the tokens callers hold, the rejected tokens and the loop
\* counters of the account pool stay consistent in every state of the gateway
\* (GetToken, ensureFresh, ReportFailure and ReportSuccess in pool.go, and the
\* handlers of proxy.go that call them).
THEOREM Invariance == Spec => []GatewayInv
<1>1. Init => GatewayInv
  BY InitInv
<1>2. GatewayInv /\ [Next]_vars => GatewayInv'
  BY NextInv
<1>3. QED
  BY <1>1, <1>2, PTL DEF Spec

\* No path of GetToken or ReportFailure keeps a mutex: acc.mu is held exactly
\* during a renewal, p.mu is read-locked exactly inside ReportFailure.
THEOREM NoLockKept == Spec => []LocksMatch
<1>1. GatewayInv => LocksMatch
  BY DEF GatewayInv
<1>2. QED
  BY <1>1, Invariance, PTL

-----------------------------------------------------------------------------
(* What GetToken gives *)

\* A step of r leaves the other callers' locals as they are.
LEMMA OthersUntouched ==
  ASSUME GatewayInv, NEW r \in Requests, Request(r), NEW q \in Requests \ {r}
  PROVE  call'[q] = call[q]
<1>0. call \in [Requests -> Call]
  BY CallFacts
<1>1. CASE Handler(r)
  BY <1>0, <1>1
     DEF Handler, Begin, NoToken, Answered, OtherError, AuthRejected, Retry,
         GiveUp, GoTo, Return
<1>2. CASE Snapshot(r) \/ Pick(r) \/ Exhausted(r) \/ Refused(r) \/ Blame(r)
  BY <1>0, <1>2 DEF Snapshot, Pick, Exhausted, Refused, Blame, GoTo, MoveOn
<1>3. CASE Admitted(r) \/ StartRenewal(r) \/ RenewalFails(r) \/ Advance(r)
  BY <1>0, <1>3 DEF Admitted, StartRenewal, RenewalFails, Advance, GoTo
<1>4. CASE UseCurrent(r) \/ KeepOld(r) \/ Renewal(r)
  <2>1. \E t : HandOut(r, t)
    BY <1>4
       DEF UseCurrent, KeepOld, Renewal, Renew, ApiRefresh, SourceReload,
           Renewed
  <2>2. QED
    BY <1>0, <2>1 DEF HandOut
<1>5. CASE ReportFailure(r) \/ ReportSuccess(r)
  BY <1>0, <1>5
     DEF ReportFailure, EnterReport, MarkStale, LeaveReport, ReportSuccess,
         GoTo, Return
<1>6. QED
  BY <1>1, <1>2, <1>3, <1>4, <1>5 DEF Request, Pool, Search

\* GetToken gives a caller the token its account has, or a renewal's.
LEMMA WhereGiven ==
  ASSUME GatewayInv, [Next]_vars, NEW r \in Requests, GivenTo(r)
  PROVE  \/ (UseCurrent(r) \/ KeepOld(r)) /\ UNCHANGED rejected
         \/ Renewal(r)
<1>0. call \in [Requests -> Call] /\ call[r] \in Call
  BY CallFacts
<1>1. call'[r] # call[r] /\ call[r].ver = 0 /\ call'[r].ver # 0
  BY DEF GivenTo
<1>2. Request(r)
  <2>1. ~(UNCHANGED vars \/ Time)
    BY <1>1 DEF vars, Time, Wither, Tick
  <2>2. PICK q \in Requests : Request(q)
    BY <2>1 DEF Next, Quiescent
  <2>3. q = r
    BY <1>1, <2>2, OthersUntouched
  <2>4. QED
    BY <2>2, <2>3
<1>3. ASSUME NEW p \in PC, GoTo(r, p)
      PROVE  FALSE
  <2>1. call'[r].ver = call[r].ver
    BY <1>0, <1>3, GoesTo
  <2>2. QED
    BY <1>1, <2>1
<1>4. ~Return(r)
  BY <1>0, <1>1, BlankCall DEF Return, PC
<1>5. ~Handler(r)
  <2>1. ~Retry(r)
    BY <1>0, <1>1, BlankCall DEF Retry, PC
  <2>2. QED
    BY <1>3, <1>4, <2>1
       DEF Handler, Begin, NoToken, Answered, OtherError, AuthRejected, GiveUp,
           PC
<1>6. ~(ReportFailure(r) \/ ReportSuccess(r))
  BY <1>3, <1>4
     DEF ReportFailure, EnterReport, MarkStale, LeaveReport, ReportSuccess, PC
<1>7. ~MoveOn(r)
  BY <1>0, <1>1 DEF MoveOn, Call
<1>8. ~(Snapshot(r) \/ Pick(r))
  BY <1>0, <1>1 DEF Snapshot, Pick, Call
<1>9. ~(Exhausted(r) \/ Admitted(r) \/ StartRenewal(r) \/ RenewalFails(r)
          \/ Advance(r))
  BY <1>3 DEF Exhausted, Admitted, StartRenewal, RenewalFails, Advance, PC
<1>10. QED
  BY <1>2, <1>5, <1>6, <1>7, <1>8, <1>9
     DEF Request, Pool, Search, Refused, Blame

\* The token given is the account's token after the step.
LEMMA GivenIsCurrent ==
  ASSUME GatewayInv, NEW r \in Requests,
         UseCurrent(r) \/ KeepOld(r) \/ Renewal(r)
  PROVE  call'[r].ver = token'[call[r].acc].ver
<1> DEFINE a == call[r].acc
<1>1. call \in [Requests -> Call] /\ call[r] \in Call
  BY CallFacts
<1>2. ASSUME NEW t, HandOut(r, t)
      PROVE  call'[r].ver = t.ver
  BY <1>1, <1>2 DEF HandOut, Call
<1>3. CASE UseCurrent(r) \/ KeepOld(r)
  <2>1. HandOut(r, token[a]) /\ token' = token
    BY <1>3 DEF UseCurrent, KeepOld, poolVars
  <2>2. QED
    BY <1>2, <2>1
<1>4. CASE Renewal(r)
  <2>1. PICK t \in TokensOf(a) : Renewed(r, t) /\ token'[a] = t
    BY <1>4, Renews DEF Renewal
  <2>2. HandOut(r, t)
    BY <2>1 DEF Renewed
  <2>3. QED
    BY <1>2, <2>1, <2>2
<1>5. QED
  BY <1>3, <1>4

\* A rejected token that its account has is stale, and the two places that give
\* the account's token look at stale first.
LEMMA GivenNotRejected ==
  ASSUME GatewayInv, NEW r \in Requests,
         \/ (UseCurrent(r) \/ KeepOld(r)) /\ UNCHANGED rejected
         \/ Renewal(r)
  PROVE  <<call[r].acc, call'[r].ver>> \notin rejected'
<1> DEFINE a == call[r].acc
<1>1. a \in Account
  BY CallFacts
<1>2. call'[r].ver = token'[a].ver
  BY GivenIsCurrent
<1>3. CASE (UseCurrent(r) \/ KeepOld(r)) /\ UNCHANGED rejected
  <2>1. token' = token /\ ~stale[a]
    BY <1>3 DEF UseCurrent, Usable, KeepOld, poolVars
  <2>2. QED
    BY <1>1, <1>2, <1>3, <2>1 DEF GatewayInv, RejectedRetired
<1>4. CASE Renewal(r)
  BY <1>2, <1>4 DEF Renewal
<1>5. QED
  BY <1>3, <1>4

\* Every place but the API's answer looks at the expiry of the token it gives.
LEMMA GivenNotExpired ==
  ASSUME GatewayInv, NEW r \in Requests,
         UseCurrent(r) \/ KeepOld(r) \/ Renewal(r),
         token'[call[r].acc].life = "expired"
  PROVE  renewed' /\ call[r].acc \in Refreshable
<1>1. ~(UseCurrent(r) \/ KeepOld(r))
  BY DEF UseCurrent, Usable, KeepOld, poolVars
<1>2. Renewal(r)
  BY <1>1
<1>3. QED
  BY <1>2, Renews DEF Renewal

\* A token upstream has rejected, and a handler has reported, is not given out
\* again (GetToken, ensureFresh and ReportFailure in pool.go), unless a renewal
\* has brought it again since.
THEOREM RejectedStaysOut == Spec => NeverReusesRejected
<1>1. GatewayInv /\ [Next]_vars
        => [\A r \in Requests :
              GivenTo(r) => <<call[r].acc, call'[r].ver>> \notin rejected']_vars
  BY WhereGiven, GivenNotRejected
<1>2. QED
  BY <1>1, Invariance, PTL DEF Spec, NeverReusesRejected

\* A caller is given a token past its expiry only by its own refresh, when the
\* API's answer has expired already (ensureFresh in pool.go): never one that
\* expired in the pool, not even while its renewal was under way.
THEOREM ExpiredStaysOut == Spec => NeverExpired
<1>1. GatewayInv /\ [Next]_vars
        => [\A r \in Requests :
              GivenTo(r) /\ token'[call[r].acc].life = "expired" =>
                renewed' /\ call[r].acc \in Refreshable]_vars
  BY WhereGiven, GivenNotExpired
<1>2. QED
  BY <1>1, Invariance, PTL DEF Spec, NeverExpired
-----------------------------------------------------------------------------
(* A call that nothing disturbs finds a healthy account (PoolWatch) *)

\* The account the loop visits at iteration i, if p.index stays where it is.
Place(i) == (index + i) % N

\* No account is left to find after n iterations that all failed, or the last
\* one will visit an available account, the one p.index has just been moved past.
Seen(n) == \/ n < N /\ Place(N - 1) \in Available
           \/ \A j \in 0 .. n - 1 : Place(j) \notin Available

WalkRight(r) ==
  /\ At(r, "pick") => Seen(call[r].i)
  /\ call[r].pc \in Visiting /\ call[r].via = "loop" =>
       call[r].acc \in Available \/ Seen(call[r].i + 1)
  /\ At(r, "blame") => call[r].acc \notin Available
  /\ At(r, "error") => Available = {}

\* The inductive invariant of the observer.
WalkInv ==
  /\ \A r \in Requests : call[r].pc \in {"idle", "get"} => call[r].i = 0
  /\ healthy \in [Requests -> SUBSET Healthy]
  /\ disturbed \in [Requests -> BOOLEAN]
  /\ \A r \in Requests : ~disturbed[r] => WalkRight(r)

\* Numbers modulo N up to 2 N - 1.
LEMMA WrapsOnce ==
  /\ \A x \in Nat : x < N => x % N = x
  /\ \A x \in Nat : N <= x /\ x < N + N => x % N = x - N
BY PoolAssumption

\* The N places are all the accounts.
LEMMA PlacesAreAll ==
  ASSUME index \in Account, NEW a \in Account
  PROVE  /\ \E j \in 0 .. N - 1 : Place(j) = a
         /\ \A j \in 0 .. N - 1 : Place(j) \in Account
<1>1. N \in Nat \ {0} /\ index \in 0 .. N - 1 /\ a \in 0 .. N - 1
  BY PoolAssumption DEF Account
<1>2. ASSUME NEW j \in 0 .. N - 1 PROVE Place(j) \in Account
  BY <1>1, IndexWraps DEF Place
<1>3. CASE index <= a
  <2>1. a - index \in 0 .. N - 1 /\ index + (a - index) = a
    BY <1>1, <1>3
  <2>2. Place(a - index) = a
    BY <1>1, <2>1, WrapsOnce DEF Place
  <2> QED BY <1>2, <2>1, <2>2
<1>4. CASE a < index
  <2>1. (a + N) - index \in 0 .. N - 1 /\ index + ((a + N) - index) = a + N
    BY <1>1, <1>4
  <2>2. Place((a + N) - index) = (a + N) % N
    BY <2>1 DEF Place
  <2>3. (a + N) % N = a
    BY <1>1, WrapsOnce
  <2> QED BY <1>2, <2>1, <2>2, <2>3
<1> QED BY <1>1, <1>2, <1>3, <1>4

\* What p.index is moved past is what the last iteration visits.
LEMMA LastPlace ==
  ASSUME NEW a \in Account, index' = (a + 1) % N PROVE Place(N - 1)' = a
<1>1. N \in Nat \ {0} /\ a \in 0 .. N - 1
  BY PoolAssumption DEF Account
<1>2. CASE a + 1 < N
  <2>1. index' = a + 1
    BY <1>1, <1>2, WrapsOnce
  <2>2. (a + 1) + (N - 1) = a + N
    BY <1>1
  <2>3. (a + N) % N = a
    BY <1>1, WrapsOnce
  <2> QED BY <2>1, <2>2, <2>3 DEF Place
<1>3. CASE a + 1 = N
  <2>1. index' = 0
    <3>1. (a + 1) % N = (a + 1) - N
      BY <1>1, <1>3, WrapsOnce
    <3> QED BY <1>1, <1>3, <3>1
  <2>2. 0 + (N - 1) = a /\ a % N = a
    BY <1>1, <1>3, WrapsOnce
  <2> QED BY <2>1, <2>2 DEF Place
<1> QED BY <1>1, <1>2, <1>3

\* A call that has seen all there is to see still has when another moves p.index.
LEMMA SeenKept ==
  ASSUME index \in Account, Available' = Available, NEW n \in 0 .. N, Seen(n),
         index' = index \/ \E a \in Available : index' = (a + 1) % N
  PROVE  Seen(n)'
<1>1. Available \subseteq Account
  BY DEF Available
<1>2. CASE index' = index
  BY <1>2 DEF Seen, Place
<1>3. CASE \E a \in Available : index' = (a + 1) % N
  <2>1. PICK a \in Available : index' = (a + 1) % N
    BY <1>3
  <2>2. Place(N - 1)' = a
    BY <1>1, <2>1, LastPlace
  <2>3. n < N
    <3>1. PICK j \in 0 .. N - 1 : Place(j) = a
      BY <1>1, PlacesAreAll
    <3>2. N \in Nat
      BY PoolAssumption
    <3> QED BY <3>1, <3>2 DEF Seen
  <2> QED BY <2>2, <2>3 DEF Seen
<1> QED BY <1>2, <1>3

\* Only a call that has found a token moves p.index, and past an available
\* account, or every call under way is disturbed.
LEMMA IndexMoves ==
  ASSUME TypeOK, [Next]_vars, ~Disturbance
  PROVE  index' = index \/ \E a \in Available : index' = (a + 1) % N
<1>1. ASSUME NEW q \in Requests, Advance(q) PROVE \E a \in Available : index' = (a + 1) % N
  <2>1. At(q, "advance") /\ At(q, "got")'
    BY <1>1 DEF Advance, GoTo, At, TypeOK, PoolTypeOK, Call
  <2>2. call[q].acc \in Available
    BY <2>1 DEF Disturbance
  <2> QED BY <1>1, <2>2 DEF Advance
<1>2. CASE UNCHANGED vars
  BY <1>2 DEF vars, poolVars
<1>3. CASE Time
  BY <1>3 DEF Time, Wither, Tick
<1>4. ASSUME NEW q \in Requests, Request(q), ~Advance(q) PROVE index' = index
  <2>1. CASE Handler(q)
    BY <2>1 DEF Handler, Begin, NoToken, Answered, OtherError, AuthRejected, Retry, GiveUp,
                poolVars
  <2>2. CASE Search(q) \/ Renewal(q)
    BY <1>4, <2>2 DEF Search, Renewal, Renew, Snapshot, Pick, Exhausted, Admitted, Refused, UseCurrent,
                 StartRenewal, ApiRefresh, SourceReload, KeepOld, RenewalFails, Blame, Renewed,
                 poolVars
  <2>3. CASE ReportSuccess(q) \/ ReportFailure(q)
    BY <2>3 DEF ReportSuccess, ReportFailure, EnterReport, MarkStale, LeaveReport
  <2> QED BY <1>4, <2>1, <2>2, <2>3 DEF Request, Pool
<1> QED BY <1>1, <1>2, <1>3, <1>4 DEF Next, Quiescent

\* A step of one caller leaves the locals of the others alone.
LEMMA OthersStay ==
  ASSUME TypeOK, NEW q \in Requests, Request(q), NEW r \in Requests, r # q
  PROVE  call'[r] = call[r]
<1>1. call \in [Requests -> Call]
  BY DEF TypeOK, PoolTypeOK
<1>2. CASE Handler(q)
  BY <1>1, <1>2 DEF Handler, Begin, NoToken, Answered, OtherError, AuthRejected, Retry, GiveUp,
                    GoTo, Return
<1>3. CASE Search(q) \/ Renewal(q)
  BY <1>1, <1>3 DEF Search, Renewal, Renew, Snapshot, Pick, Exhausted, Admitted, Refused, UseCurrent,
               StartRenewal, ApiRefresh, SourceReload, KeepOld, RenewalFails, Blame, Advance,
               Renewed, HandOut, MoveOn, GoTo
<1>4. CASE ReportSuccess(q) \/ ReportFailure(q)
  BY <1>1, <1>4 DEF ReportSuccess, ReportFailure, EnterReport, MarkStale, LeaveReport, GoTo, Return
<1> QED BY <1>2, <1>3, <1>4 DEF Request, Pool

\* What is left of a visit that fails.
LEMMA WalkMovesOn ==
  ASSUME GatewayInv, NEW r \in Requests, MoveOn(r), call[r].pc \in Visiting,
         call[r].acc \notin Available, WalkRight(r), Available' = Available, index' = index
  PROVE  WalkRight(r)'
<1> DEFINE i == IF call[r].via = "active" THEN 0 ELSE call[r].i + 1
<1>1. call \in [Requests -> Call] /\ call[r] \in Call
  BY CallFacts
<1>2. call'[r].pc = "pick" /\ call'[r].i = i
  BY <1>1 DEF MoveOn, Call
<1>3. i \in 0 .. N /\ index \in Account
  <2>1. call[r].via = "active" \/ call[r].i < N
    BY <1>1, CallFacts DEF Call
  <2>2. call[r].i \in 0 .. N
    BY CallFacts
  <2> QED BY <2>1, <2>2, PoolAssumption DEF GatewayInv, TypeOK, PoolTypeOK
<1>4. Seen(i)
  <2>1. CASE call[r].via = "active"
    BY <2>1 DEF Seen
  <2>2. CASE call[r].via # "active"
    <3>1. call[r].via = "loop"
      BY <1>1, <2>2 DEF Call
    <3> QED BY <2>2, <3>1 DEF WalkRight
  <2> QED BY <2>1, <2>2
<1> HIDE DEF i
<1>5. PICK n \in 0 .. N : n = i
  BY <1>3
<1>6. Seen(n)
  BY <1>4, <1>5
<1>7. Seen(n)'
  BY <1>3, <1>6, SeenKept
<1>8. call'[r].i = n
  BY <1>2, <1>5
<1> QED BY <1>2, <1>7, <1>8 DEF WalkRight, At, Visiting

\* A step of r's own search, which nothing disturbs.
LEMMA OwnStep ==
  ASSUME GatewayInv, NEW r \in Requests, Request(r), call[r].pc # "get", InGetToken(r)',
         WalkRight(r), Available' = Available
  PROVE  WalkRight(r)'
<1>1. /\ call \in [Requests -> Call] /\ call[r] \in Call /\ call[r].i \in 0 .. N
      /\ index \in Account /\ N \in Nat \ {0}
  BY CallFacts, PoolAssumption DEF GatewayInv, TypeOK, PoolTypeOK
<1>2. CASE Pick(r)
  <2>1. /\ call'[r].pc = "allow" /\ call'[r].acc = Place(call[r].i)
        /\ call'[r].i = call[r].i /\ call[r].i < N /\ index' = index
    BY <1>1, <1>2 DEF Pick, Place, poolVars, Call
  <2>2. Place(call[r].i) \in Available \/ Seen(call[r].i + 1)
    <3>1. Seen(call[r].i)
      BY <1>2 DEF Pick, WalkRight
    <3>2. CASE call[r].i + 1 < N
      <4>1. \A j \in 0 .. (call[r].i + 1) - 1 : j = call[r].i \/ j \in 0 .. call[r].i - 1
        BY <1>1
      <4> QED BY <1>1, <3>1, <3>2, <4>1 DEF Seen
    <3>3. CASE ~(call[r].i + 1 < N)
      <4>1. call[r].i = N - 1
        BY <1>1, <2>1, <3>3
      <4>2. \A j \in 0 .. (call[r].i + 1) - 1 : j = call[r].i \/ j \in 0 .. call[r].i - 1
        BY <1>1
      <4> QED BY <1>1, <3>1, <4>1, <4>2 DEF Seen
    <3> QED BY <3>2, <3>3
  <2>3. call[r].i + 1 \in 0 .. N
    BY <1>1, <2>1
  <2>4. PICK n \in 0 .. N : n = call[r].i + 1
    BY <2>3
  <2>5. Seen(n) => Seen(n)'
    BY <1>1, <2>1, SeenKept
  <2>6. call'[r].acc \in Available' \/ Seen(n)'
    BY <2>1, <2>2, <2>4, <2>5
  <2>7. call'[r].i + 1 = n
    BY <2>1, <2>4
  <2> QED BY <2>1, <2>6, <2>7 DEF WalkRight, At, Visiting
<1>3. CASE Exhausted(r)
  <2>1. call'[r].pc = "error" /\ Seen(N)
    BY <1>1, <1>3 DEF Exhausted, GoTo, At, WalkRight, Call
  <2>2. Available = {}
    <3>1. SUFFICES ASSUME NEW a \in Available PROVE FALSE
      OBVIOUS
    <3>2. PICK j \in 0 .. N - 1 : Place(j) = a
      BY <1>1, PlacesAreAll DEF Available
    <3> QED BY <1>1, <2>1, <3>2 DEF Seen
  <2> QED BY <2>1, <2>2 DEF WalkRight, At, Visiting
<1>4. CASE Admitted(r) \/ StartRenewal(r)
  <2>1. /\ call'[r].pc \in {"lock", "renew"} /\ call[r].pc \in {"allow", "lock"}
        /\ call'[r].acc = call[r].acc /\ call'[r].i = call[r].i /\ call'[r].via = call[r].via
        /\ index' = index
    BY <1>1, <1>4 DEF Admitted, StartRenewal, GoTo, At, Call
  <2>2. call[r].via = "loop" => call[r].i + 1 \in 0 .. N
    BY <1>1, <2>1, CallFacts DEF Visiting
  <2>3. call[r].via = "loop" /\ Seen(call[r].i + 1) => Seen(call[r].i + 1)'
    BY <1>1, <2>1, <2>2, SeenKept
  <2> QED BY <2>1, <2>3 DEF WalkRight, At, Visiting
<1>5. CASE Refused(r)
  <2>1. call[r].acc \notin Available /\ MoveOn(r) /\ index' = index /\ call[r].pc \in Visiting
    BY <1>5 DEF Refused, Available, At, Visiting, poolVars
  <2> QED BY <2>1, WalkMovesOn
<1>6. CASE RenewalFails(r)
  <2>1. /\ call'[r].pc = "blame" /\ call[r].pc = "renew"
        /\ call'[r].acc = call[r].acc /\ call'[r].i = call[r].i /\ call'[r].via = call[r].via
        /\ index' = index
    BY <1>1, <1>6 DEF RenewalFails, GoTo, At, Call
  <2>2. call[r].acc \notin Available
    BY <1>6 DEF RenewalFails, Available, Serviceable
  <2>3. call[r].via = "loop" => call[r].i + 1 \in 0 .. N
    BY <1>1, <2>1, CallFacts DEF Visiting
  <2>4. call[r].via = "loop" /\ Seen(call[r].i + 1) => Seen(call[r].i + 1)'
    BY <1>1, <2>1, <2>3, SeenKept
  <2> QED BY <2>1, <2>2, <2>4 DEF WalkRight, At, Visiting
<1>7. CASE Blame(r)
  <2>1. call[r].acc \notin Available /\ MoveOn(r) /\ index' = index /\ call[r].pc \in Visiting
    BY <1>7 DEF Blame, At, Visiting, WalkRight
  <2> QED BY <2>1, WalkMovesOn
<1>8. CASE UseCurrent(r) \/ Renewal(r) \/ KeepOld(r) \/ Advance(r)
  <2>1. call'[r].pc \in {"advance", "got"}
    BY <1>1, <1>8 DEF UseCurrent, Renewal, Renew, ApiRefresh, SourceReload, KeepOld, Advance, Renewed, HandOut,
                      GoTo, Call
  <2> QED BY <2>1 DEF InGetToken
<1>9. CASE Handler(r) \/ ReportSuccess(r) \/ ReportFailure(r)
  <2>1. call'[r].pc \in {"get", "done", "succeeded", "report", "mark", "record", "reported"}
    BY <1>1, <1>9 DEF Handler, Begin, NoToken, Answered, OtherError, AuthRejected, Retry, GiveUp,
         ReportSuccess, ReportFailure, EnterReport, MarkStale, LeaveReport, GoTo, Return, Blank, Call
  <2> QED BY <2>1 DEF InGetToken
<1> QED BY <1>2, <1>3, <1>4, <1>5, <1>6, <1>7, <1>8, <1>9
        DEF Request, Pool, Search, Snapshot, At

\* A step of somebody else, or of time, which does not disturb r.
LEMMA OtherStep ==
  ASSUME GatewayInv, NEW r \in Requests, call'[r] = call[r], WalkRight(r),
         Available' = Available,
         index' = index \/ \E a \in Available : index' = (a + 1) % N
  PROVE  WalkRight(r)'
<1>1. call[r].i \in 0 .. N /\ index \in Account /\ N \in Nat
  BY CallFacts, PoolAssumption DEF GatewayInv, TypeOK, PoolTypeOK
<1>2. Seen(call[r].i) => Seen(call[r].i)'
  BY <1>1, SeenKept
<1>3. ASSUME call[r].pc \in Visiting, call[r].via = "loop", Seen(call[r].i + 1)
      PROVE  Seen(call[r].i + 1)'
  <2>1. call[r].i + 1 \in 0 .. N
    BY <1>1, <1>3, CallFacts
  <2> QED BY <1>1, <1>3, <2>1, SeenKept
<1> QED BY <1>2, <1>3 DEF WalkRight, At

\* GetToken starts its walk with nothing seen and nothing to see.
LEMMA WalkStarts ==
  ASSUME GatewayInv, NEW r \in Requests, Snapshot(r), call[r].i = 0 PROVE WalkRight(r)'
<1>1. call \in [Requests -> Call] /\ call[r] \in Call
  BY CallFacts
<1>2. /\ call'[r].i = 0
      /\ call'[r].pc = "pick" \/ (call'[r].pc = "allow" /\ call'[r].via = "active")
  BY <1>1 DEF Snapshot, Call
<1>3. Seen(0)'
  BY DEF Seen
<1> QED BY <1>2, <1>3 DEF WalkRight, At, Visiting

\* The loop counter is 0 whenever GetToken is called.
LEMMA StartsAtZero ==
  ASSUME GatewayInv, NEW r \in Requests, [Next]_vars,
         call[r].pc \in {"idle", "get"} => call[r].i = 0
  PROVE  call'[r].pc \in {"idle", "get"} => call'[r].i = 0
<1>1. call \in [Requests -> Call] /\ call[r] \in Call
  BY CallFacts
<1>2. CASE call'[r] = call[r]
  BY <1>2
<1>3. CASE Handler(r)
  BY <1>1, <1>3 DEF Handler, Begin, NoToken, Answered, OtherError, AuthRejected, Retry, GiveUp,
                    GoTo, Return, Blank, At, Call
<1>4. CASE Search(r) \/ Renewal(r)
  BY <1>1, <1>4 DEF Search, Renewal, Renew, Snapshot, Pick, Exhausted, Admitted, Refused, UseCurrent,
               StartRenewal, ApiRefresh, SourceReload, KeepOld, RenewalFails, Blame, Advance,
               Renewed, HandOut, MoveOn, GoTo, Call
<1>5. CASE ReportSuccess(r) \/ ReportFailure(r)
  BY <1>1, <1>5 DEF ReportSuccess, ReportFailure, EnterReport, MarkStale, LeaveReport, GoTo,
                    Return, Blank, Call
<1>6. CASE UNCHANGED call
  BY <1>6
<1> QED
  <2>1. ASSUME NEW q \in Requests, Request(q), q # r PROVE call'[r] = call[r]
    BY <2>1, OthersStay DEF GatewayInv
  <2> QED BY <1>2, <1>3, <1>4, <1>5, <1>6, <2>1
          DEF Next, Request, Pool, Quiescent, Time, Wither, Tick, vars

\* A step keeps what an undisturbed call has seen.
LEMMA WalkStep ==
  ASSUME GatewayInv, WalkInv, WatchNext, NEW r \in Requests, ~disturbed'[r]
  PROVE  WalkRight(r)'
<1>1. CASE ~InGetToken(r)'
  BY <1>1 DEF InGetToken, WalkRight, At, Visiting
<1>2. CASE InGetToken(r)' /\ call'[r] = call[r]
  <2>1. ~At(r, "get")
    BY <1>2 DEF InGetToken, At
  <2>2. ~disturbed[r] /\ ~Disturbance
    BY <1>2, <2>1 DEF WatchNext, Observe, WalkInv
  <2>3. TypeOK /\ [Next]_vars
    BY DEF GatewayInv, WatchNext
  <2>4. index' = index \/ \E a \in Available : index' = (a + 1) % N
    BY <2>2, <2>3, IndexMoves
  <2>5. Available' = Available /\ WalkRight(r)
    BY <2>2 DEF Disturbance, WalkInv
  <2> QED BY <1>2, <2>4, <2>5, OtherStep
<1>3. CASE InGetToken(r)' /\ Request(r) /\ At(r, "get")
  <2>1. Snapshot(r)
    <3>1. ~At(r, "idle")
      BY <1>3 DEF At
    <3>2. CASE Handler(r)
      BY <1>3, <3>2 DEF Handler, Begin, NoToken, Answered, OtherError, AuthRejected, Retry, GiveUp, At
    <3>3. CASE Pool(r) \/ Renewal(r)
      BY <1>3, <3>3 DEF Pool, Search, Renewal, Renew, Pick, Exhausted, Admitted, Refused, UseCurrent,
               StartRenewal, ApiRefresh, SourceReload, KeepOld, RenewalFails, Blame, Advance,
               ReportSuccess, ReportFailure, EnterReport, MarkStale, LeaveReport, At
    <3> QED BY <1>3, <3>2, <3>3 DEF Request
  <2>2. call[r].i = 0
    BY <1>3 DEF WalkInv, At
  <2> QED BY <2>1, <2>2, WalkStarts
<1>4. CASE InGetToken(r)' /\ Request(r) /\ ~At(r, "get")
  <2>1. ~disturbed[r] /\ ~Disturbance
    BY <1>4 DEF WatchNext, Observe, WalkInv
  <2>2. Available' = Available /\ WalkRight(r)
    BY <2>1 DEF Disturbance, WalkInv
  <2> QED BY <1>4, <2>2, OwnStep DEF At
<1>5. call'[r] = call[r] \/ Request(r)
  <2>1. ASSUME NEW q \in Requests, Request(q), q # r PROVE call'[r] = call[r]
    BY <2>1, OthersStay DEF GatewayInv
  <2> QED BY <2>1 DEF WatchNext, Next, Quiescent, Time, Wither, Tick, vars
<1> QED BY <1>1, <1>2, <1>3, <1>4, <1>5

LEMMA WalkInit == WatchInit => WalkInv
<1> SUFFICES ASSUME WatchInit PROVE WalkInv
  OBVIOUS
<1>1. \A r \in Requests : call[r].pc = "idle" /\ call[r].i = 0
  BY DEF WatchInit, Init, PoolInit, Blank
<1>2. healthy \in [Requests -> SUBSET Healthy] /\ disturbed \in [Requests -> BOOLEAN]
  BY DEF WatchInit
<1> QED BY <1>1, <1>2 DEF WalkInv, WalkRight, At, Visiting

LEMMA WalkNext == GatewayInv /\ WalkInv /\ [WatchNext]_watchVars => WalkInv'
<1> SUFFICES ASSUME GatewayInv, WalkInv, [WatchNext]_watchVars PROVE WalkInv'
  OBVIOUS
<1>1. CASE WatchNext
  <2>1. \A r \in Requests : call'[r].pc \in {"idle", "get"} => call'[r].i = 0
    BY <1>1, StartsAtZero DEF WatchNext, WalkInv
  <2>2. healthy' \in [Requests -> SUBSET Healthy']
    BY <1>1 DEF WatchNext, Observe
  <2>3. disturbed' \in [Requests -> BOOLEAN]
    BY <1>1 DEF WatchNext, Observe
  <2>4. \A r \in Requests : ~disturbed'[r] => WalkRight(r)'
    BY <1>1, WalkStep
  <2> QED BY <2>1, <2>2, <2>3, <2>4 DEF WalkInv
<1>2. CASE UNCHANGED watchVars
  BY <1>2 DEF watchVars, vars, poolVars, WalkInv, WalkRight, Seen, Place, Available, Healthy,
              Serviceable, At
<1> QED BY <1>1, <1>2

\* GetToken (pool.go:320-402) fails only when no account is healthy, provided
\* that during the call no account becomes available or unavailable and nobody
\* moves p.index past an account that is unavailable (it may have become so
\* before the call).  A healthy account is available, so a call that finds none
\* available finds none healthy.
THEOREM QuietCallsFind == WatchSpec => []QuietCallFindsAccount
<1>1. WatchInit => GatewayInv
  BY InitInv DEF WatchInit
<1>2. GatewayInv /\ [WatchNext]_watchVars => GatewayInv'
  BY NextInv DEF WatchNext, watchVars
<1>3. WalkInv => QuietCallFindsAccount
  <2> SUFFICES ASSUME WalkInv, NEW r \in Requests, At(r, "error"), ~disturbed[r]
               PROVE  healthy[r] = {}
    BY DEF QuietCallFindsAccount
  <2>1. Available = {}
    BY DEF WalkInv, WalkRight
  <2>2. Healthy \subseteq Available
    BY DEF Healthy, Available, Allow
  <2> QED BY <2>1, <2>2 DEF WalkInv
<1> QED BY <1>1, <1>2, <1>3, WalkInit, WalkNext, PTL DEF WatchSpec
=============================================================================
