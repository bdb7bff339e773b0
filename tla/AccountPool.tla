----------------------------- MODULE AccountPool ----------------------------
(***************************************************************************)
(* The credential pool (internal/auth/pool.go) as its concurrent callers   *)
(* see it.  Each caller r runs GetToken, ReportFailure or ReportSuccess;   *)
(* a step of r is what the code does between two points where another      *)
(* goroutine can get in: one hold of p.mu, one method of a breaker, one    *)
(* critical section of acc.mu.  The hold of acc.mu is two steps when the   *)
(* token has to be renewed, because a renewal is a network call of up to   *)
(* 30s made with the mutex held.                                           *)
(*                                                                         *)
(* Data: accounts are 0 .. N-1 in registration order, with distinct IDs.   *)
(* A token is its name among the account's tokens (ver) and its life:      *)
(* "fresh" (NeedsRefresh is false), "early" (within the refresh window) or *)
(* "expired".  A renewal may bring any of them: a new token, the one the   *)
(* account has, or one it had before.  Accounts are registered, and the    *)
(* active one chosen, before the gateway serves its first request          *)
(* (cmd/trae-proxy/main.go): they are in PoolInit.                         *)
(***************************************************************************)
EXTENDS BreakerOps, FiniteSets

CONSTANTS
  N,            (* number of accounts *)
  Refreshable,  (* accounts whose token may carry a refresh token *)
  Reloadable,   (* accounts whose source, a storage.json or an environment
                   variable, Load reads again *)
  Perishable,   (* accounts whose tokens may have an expiry time, as every
                   token from the refresh API has (refresher.go:102) *)
  Requests,     (* the goroutines that use the pool *)
  MaxTokens,    (* bound: different tokens of an account *)
  None

Account == 0 .. N - 1

ASSUME PoolAssumption ==
  /\ N \in Nat \ {0}
  /\ Refreshable \subseteq Perishable
  /\ Reloadable \subseteq Account
  /\ Perishable \subseteq Account
  /\ MaxTokens \in Nat \ {0}
  /\ None \notin Account /\ None \notin Requests

VARIABLES
  breaker,  (* breaker[a]: Account.breaker *)
  token,    (* token[a]: Account.token *)
  stale,    (* stale[a]: Account.stale *)
  accLock,  (* accLock[a]: the caller that holds acc.mu *)
  readers,  (* the callers inside ReportFailure, which hold p.mu.RLock *)
  index,    (* Pool.index *)
  active,   (* Pool.activeAccountID *)
  call      (* call[r]: program counter and local variables of r *)

poolVars == <<breaker, token, stale, accLock, readers, index, active>>

Life == {"fresh", "early", "expired"}
Token == [ver : 1 .. MaxTokens, life : Life]

TokensOf(a) == {t \in Token : a \in Perishable \/ t.life = "fresh"}

PC == {"idle", "get", "pick", "allow", "lock", "renew", "advance", "blame",
       "got", "error", "succeeded", "report", "mark", "record", "reported",
       "done"}

Call == [pc  : PC,
         via : {"active", "loop"},  (* which part of GetToken r is in *)
         i   : 0 .. N,              (* the loop counter *)
         acc : Account,             (* activeAcc or acc *)
         ver : 0 .. MaxTokens,      (* the token r was given, 0 if none *)
         attempt : 1 .. 2           (* used by the handlers in Gateway *)]

\* Locals are forgotten as soon as nothing reads them again.
Blank(p, attempt) ==
  [pc |-> p, via |-> "loop", i |-> 0, acc |-> 0, ver |-> 0,
   attempt |-> attempt]

PoolInit ==
  /\ breaker = [a \in Account |-> NewCircuitBreaker]
  /\ token \in [Account -> Token]
  /\ \A a \in Account : token[a] \in TokensOf(a) /\ token[a].ver = 1
  /\ stale = [a \in Account |-> FALSE]
  /\ accLock = [a \in Account |-> None]
  /\ readers = {}
  /\ index = 0
  /\ active \in Account \union {None}
  /\ call = [r \in Requests |-> Blank("idle", 1)]
-----------------------------------------------------------------------------
(* GetToken *)

At(r, p) == call[r].pc = p

GoTo(r, p) == call' = [call EXCEPT ![r].pc = p]

Return(r) == call' = [call EXCEPT ![r] = Blank("done", 1)]

\* p.mu.Lock waits for the readers.  Every write section is a single step, so
\* RLock waits for none; that Go also lets it wait behind a Lock that waits
\* only takes interleavings away.
WriteLockFree == readers = {}

\* Take n and activeAccountID, and find the active account.
Snapshot(r) ==
  /\ At(r, "get")
  /\ call' = [call EXCEPT
       ![r].pc = IF active = None THEN "pick" ELSE "allow",
       ![r].via = IF active = None THEN "loop" ELSE "active",
       ![r].acc = IF active = None THEN 0 ELSE active]
  /\ UNCHANGED poolVars

\* idx is computed from the p.index of this moment, at every iteration.
Pick(r) ==
  /\ At(r, "pick")
  /\ call[r].i < N
  /\ WriteLockFree
  /\ call' = [call EXCEPT ![r].pc = "allow",
                          ![r].acc = (index + call[r].i) % N]
  /\ UNCHANGED poolVars

Exhausted(r) ==
  /\ At(r, "pick")
  /\ call[r].i = N
  /\ GoTo(r, "error")
  /\ UNCHANGED poolVars

\* Leave the current account: the active account falls back to the loop, an
\* account of the loop to the next iteration.
MoveOn(r) ==
  call' = [call EXCEPT ![r].pc = "pick",
                       ![r].via = "loop",
                       ![r].acc = 0,
                       ![r].i = IF call[r].via = "active" THEN 0 ELSE @ + 1]

Admitted(r) ==
  LET a == call[r].acc
  IN /\ At(r, "allow")
     /\ Allow(breaker[a])
     /\ breaker' = [breaker EXCEPT ![a] = AfterAllow(@)]
     /\ GoTo(r, "lock")
     /\ UNCHANGED <<token, stale, accLock, readers, index, active>>

Refused(r) ==
  /\ At(r, "allow")
  /\ ~Allow(breaker[call[r].acc])
  /\ MoveOn(r)
  /\ UNCHANGED poolVars

Usable(a) == ~stale[a] /\ token[a].life = "fresh"

\* GetToken returns token t of r's account.  An account found by the loop
\* still has to move p.index past it.
HandOut(r, t) ==
  call' = [call EXCEPT ![r].pc = IF call[r].via = "loop" THEN "advance"
                                                         ELSE "got",
                       ![r].via = "loop",
                       ![r].i = 0,
                       ![r].ver = t.ver]

\* acc.mu.Lock and ensureFresh, when the token is good as it is.
UseCurrent(r) ==
  LET a == call[r].acc
  IN /\ At(r, "lock")
     /\ accLock[a] = None
     /\ Usable(a)
     /\ HandOut(r, token[a])
     /\ UNCHANGED poolVars

\* acc.mu.Lock and ensureFresh, up to the start of a renewal.
StartRenewal(r) ==
  LET a == call[r].acc
  IN /\ At(r, "lock")
     /\ accLock[a] = None
     /\ ~Usable(a)
     /\ accLock' = [accLock EXCEPT ![a] = r]
     /\ GoTo(r, "renew")
     /\ UNCHANGED <<breaker, token, stale, readers, index, active>>

Unlock(a) == accLock' = [accLock EXCEPT ![a] = None]

\* The renewal brings token t.
Renewed(r, t) ==
  LET a == call[r].acc
  IN /\ token' = [token EXCEPT ![a] = t]
     /\ stale' = [stale EXCEPT ![a] = FALSE]
     /\ Unlock(a)
     /\ HandOut(r, t)
     /\ UNCHANGED <<breaker, readers, index, active>>

\* (a) The refresh API answers: with whatever token, expired or not.
ApiRefresh(r) ==
  /\ At(r, "renew")
  /\ call[r].acc \in Refreshable
  /\ \E t \in TokensOf(call[r].acc) : Renewed(r, t)

\* (b) The source has a token that has not expired.
SourceReload(r) ==
  /\ At(r, "renew")
  /\ call[r].acc \in Reloadable
  /\ \E t \in TokensOf(call[r].acc) : t.life # "expired" /\ Renewed(r, t)

Renew(r) == ApiRefresh(r) \/ SourceReload(r)

\* Slip: the fallback forgets that the token was rejected.
KeepOldThoughStale(r) ==
  LET a == call[r].acc
  IN /\ At(r, "renew")
     /\ token[a].life # "expired"
     /\ Unlock(a)
     /\ HandOut(r, token[a])
     /\ UNCHANGED <<breaker, token, stale, readers, index, active>>

\* Slip: the fallback forgets that the token has expired.
KeepOldThoughExpired(r) ==
  LET a == call[r].acc
  IN /\ At(r, "renew")
     /\ ~stale[a]
     /\ Unlock(a)
     /\ HandOut(r, token[a])
     /\ UNCHANGED <<breaker, token, stale, readers, index, active>>

\* (c) Neither worked (a refresh and a file read may always fail), but the
\* old token has not expired: keep it.
KeepOld(r) ==
  LET a == call[r].acc
  IN /\ At(r, "renew")
     /\ ~stale[a]
     /\ token[a].life # "expired"
     /\ Unlock(a)
     /\ HandOut(r, token[a])
     /\ UNCHANGED <<breaker, token, stale, readers, index, active>>

\* Slip: the error path returns with acc.mu held.
RenewalFailsLocked(r) ==
  LET a == call[r].acc
  IN /\ At(r, "renew")
     /\ stale[a] \/ token[a].life = "expired"
     /\ GoTo(r, "blame")
     /\ UNCHANGED poolVars

\* ensureFresh returns an error.
RenewalFails(r) ==
  LET a == call[r].acc
  IN /\ At(r, "renew")
     /\ stale[a] \/ token[a].life = "expired"
     /\ Unlock(a)
     /\ GoTo(r, "blame")
     /\ UNCHANGED <<breaker, token, stale, readers, index, active>>

\* breaker.RecordFailure, after acc.mu has been released.
Blame(r) ==
  /\ At(r, "blame")
  /\ breaker' = [breaker EXCEPT ![call[r].acc] = AfterFailure(@)]
  /\ MoveOn(r)
  /\ UNCHANGED <<token, stale, accLock, readers, index, active>>

\* Slip: the index runs off the end of the accounts.
AdvanceUnwrapped(r) ==
  /\ At(r, "advance")
  /\ WriteLockFree
  /\ index' = call[r].acc + 1
  /\ GoTo(r, "got")
  /\ UNCHANGED <<breaker, token, stale, accLock, readers, active>>

\* Slip: the index stays on the account just used.
AdvanceNot(r) ==
  /\ At(r, "advance")
  /\ WriteLockFree
  /\ index' = call[r].acc
  /\ GoTo(r, "got")
  /\ UNCHANGED <<breaker, token, stale, accLock, readers, active>>

Advance(r) ==
  /\ At(r, "advance")
  /\ WriteLockFree
  /\ index' = (call[r].acc + 1) % N
  /\ GoTo(r, "got")
  /\ UNCHANGED <<breaker, token, stale, accLock, readers, active>>

\* GetToken: Renew, and the steps that bring no token into the pool.
Search(r) ==
  \/ Snapshot(r) \/ Pick(r) \/ Exhausted(r) \/ Admitted(r) \/ Refused(r)
  \/ UseCurrent(r) \/ StartRenewal(r) \/ KeepOld(r) \/ RenewalFails(r)
  \/ Blame(r) \/ Advance(r)
-----------------------------------------------------------------------------
(* ReportFailure and ReportSuccess *)

\* p.mu.RLock, held until ReportFailure returns.
EnterReport(r) ==
  /\ At(r, "report")
  /\ readers' = readers \union {r}
  /\ GoTo(r, "mark")
  /\ UNCHANGED <<breaker, token, stale, accLock, index, active>>

\* acc.mu.Lock, stale = true, acc.mu.Unlock.
MarkStale(r) ==
  LET a == call[r].acc
  IN /\ At(r, "mark")
     /\ accLock[a] = None
     /\ stale' = [stale EXCEPT ![a] = TRUE]
     /\ GoTo(r, "record")
     /\ UNCHANGED <<breaker, token, accLock, readers, index, active>>

\* breaker.RecordFailure and the deferred p.mu.RUnlock.
LeaveReport(r) ==
  /\ At(r, "record")
  /\ breaker' = [breaker EXCEPT ![call[r].acc] = AfterFailure(@)]
  /\ readers' = readers \ {r}
  /\ GoTo(r, "reported")
  /\ UNCHANGED <<token, stale, accLock, index, active>>

ReportFailure(r) == EnterReport(r) \/ MarkStale(r) \/ LeaveReport(r)

ReportSuccess(r) ==
  /\ At(r, "succeeded")
  /\ breaker' = [breaker EXCEPT ![call[r].acc] = AfterSuccess(@)]
  /\ Return(r)
  /\ UNCHANGED <<token, stale, accLock, readers, index, active>>
-----------------------------------------------------------------------------
(* Time *)

\* A token comes closer to its end.
Wither(a) ==
  /\ a \in Perishable
  /\ token[a].life # "expired"
  /\ token' = [token EXCEPT ![a].life = IF @ = "fresh" THEN "early"
                                                       ELSE "expired"]
  /\ UNCHANGED <<breaker, stale, accLock, readers, index, active, call>>

Tick ==
  /\ \E a \in Account : breaker[a].sinceFailure <= Timeout
  /\ breaker' = [a \in Account |-> AfterTick(breaker[a])]
  /\ UNCHANGED <<token, stale, accLock, readers, index, active, call>>
-----------------------------------------------------------------------------
PoolTypeOK ==
  /\ breaker \in [Account -> Breaker]
  /\ token \in [Account -> Token]
  /\ stale \in [Account -> BOOLEAN]
  /\ accLock \in [Account -> Requests \union {None}]
  /\ readers \subseteq Requests
  /\ index \in Account
  /\ active \in Account \union {None}
  /\ call \in [Requests -> Call]
=============================================================================
