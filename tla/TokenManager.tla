----------------------------- MODULE TokenManager ---------------------------
(***************************************************************************)
(* The token manager (internal/auth/manager.go) and the file storage it    *)
(* saves to (internal/auth/storage.go, FileTokenStorage).                  *)
(*                                                                         *)
(* tm.mu makes each of the manager's methods one step, with two            *)
(* exceptions: GetToken reads, decides and reads again under separate      *)
(* locks, and SaveToStorage holds the read lock over one Save per account. *)
(* AddToken saves from a goroutine of its own, so saves of one account can *)
(* land in any order (goroutines that save the same token are one here).   *)
(* RefreshToken holds tm.mu over the HTTP call; what others see of it is   *)
(* one step.                                                               *)
(*                                                                         *)
(* A token is one of the TokenInfo there are, whoever makes them: what     *)
(* AddToken is given and what a refresh brings are checked by nobody, and  *)
(* may be the token of before, an older one or an expired one.  Whether    *)
(* CheckTokenStatus calls a token valid depends on the clock and on what   *)
(* the token says; here it may at any time say either of any token.  That  *)
(* a token can not even be refreshed is one of the reasons for which a     *)
(* refresh fails.                                                          *)
(***************************************************************************)
EXTENDS Naturals, FiniteSets

CONSTANTS
  Accounts, Callers,
  TokensOf,  (* TokensOf[a]: the tokens account a may be given *)
  MaxStores, (* bound: tokens that AddToken and the refreshes store *)
  MaxFaults, (* bound: failing writes and crashes *)
  None

Tokens == UNION {TokensOf[a] : a \in Accounts}

ASSUME TokenAssumption ==
  /\ IsFiniteSet(Accounts) /\ IsFiniteSet(Callers)
  /\ MaxStores \in Nat /\ MaxFaults \in Nat
  /\ None \notin Tokens /\ \A s \in SUBSET Accounts : s # None

VARIABLES
  tokens,  (* tm.tokens *)
  stores,  (* tokens stored so far by AddToken and the refreshes *)
  uses,    (* history: uses[a][t], the refreshes that t has brought account a
              since a was last given t *)
  saves,   (* AddToken's goroutines: [account, token] still to be saved *)
  saver,   (* accounts SaveToStorage has yet to save; None outside of it *)
  clean,   (* history: no other Save has run during SaveToStorage *)
  cache, file,     (* fs.cache and the file; the cache may expire any time *)
  acked, attempted, (* history: last token saved without an error, and those
                       whose Save has failed since, per account *)
  faults,  (* failing writes and crashes so far *)
  call,    (* call[c]: the account of a GetToken that has found its token
              invalid, and that token *)
  running, stopped, (* tm.isRunning; tm.stopChan is closed *)
  loop, due         (* where autoRefreshLoop is, and the accounts it has still
                       to refresh *)

storage == <<cache, file, acked, attempted, faults>>
lifecycle == <<running, stopped, loop, due>>
vars == <<tokens, stores, uses, saves, saver, clean, storage, call, lifecycle>>

Idle == [account |-> None, token |-> None]

Nothing == [a \in Accounts |-> None]

Init ==
  /\ tokens = Nothing /\ cache = Nothing /\ file = Nothing /\ acked = Nothing
  /\ attempted = [a \in Accounts |-> {}]
  /\ faults = 0
  /\ stores = 0 /\ uses = [a \in Accounts |-> [t \in Tokens |-> 0]]
  /\ saves = {} /\ saver = None /\ clean = TRUE
  /\ call = [c \in Callers |-> Idle]
  /\ running = FALSE /\ stopped = FALSE /\ loop = "absent" /\ due = {}

\* checkAndRefreshAll refreshes the accounts whose token has expired or will
\* within refreshBefore, unless its second time has passed too.
NeedRefresh == SUBSET {a \in Accounts : tokens[a] # None}

\* tm.mu is free for a writer.
Writable == saver = None
-----------------------------------------------------------------------------
(* The file storage. *)

Put(f, a, t) == [f EXCEPT ![a] = t]

\* Slip: the file is written in place, and a failing write leaves it cut short.
PersistFailsInPlace(a, t) ==
  /\ faults < MaxFaults /\ faults' = faults + 1
  /\ file' = Nothing
  /\ attempted' = [attempted EXCEPT ![a] = @ \union {t}]
  /\ UNCHANGED acked

Persisted(a, t) ==
  /\ file' = cache'
  /\ acked' = Put(acked, a, t)
  /\ attempted' = [attempted EXCEPT ![a] = {}]
  /\ UNCHANGED faults

\* Writing the temporary file or renaming it fails: the old file stands.
PersistFails(a, t) ==
  /\ faults < MaxFaults /\ faults' = faults + 1
  /\ attempted' = [attempted EXCEPT ![a] = @ \union {t}]
  /\ UNCHANGED <<file, acked>>

\* The whole cache is persisted, and stays changed when that fails.
Save(a, t) ==
  /\ cache' = Put(cache, a, t)
  /\ Persisted(a, t) \/ PersistFails(a, t)

\* What LoadAll may read: the cache, or the file once cacheTTL has passed.  It
\* fails as long as nothing has been stored: there is no file.
LoadAll == {cache, file} \ {Nothing}

\* The process ends and a new one starts: NewTokenManager, and
\* NewFileTokenStorage, which reads the file.
Restart ==
  /\ faults < MaxFaults /\ faults' = faults + 1
  /\ tokens' = Nothing /\ saves' = {} /\ saver' = None /\ clean' = TRUE
  /\ cache' = file
  /\ call' = [c \in Callers |-> Idle]
  /\ running' = FALSE /\ stopped' = FALSE /\ loop' = "absent" /\ due' = {}
  /\ uses' = [a \in Accounts |-> [t \in Tokens |-> 0]]
  /\ UNCHANGED <<stores, file, acked, attempted>>
-----------------------------------------------------------------------------
(* The manager's tokens. *)

\* Account a is given token t, new to it or not.
Given(counts, a, t) == [counts EXCEPT ![a][t] = 0]

Store(a, t) ==
  /\ stores < MaxStores /\ stores' = stores + 1
  /\ tokens' = Put(tokens, a, t)

\* Slip: AddToken does not wait for SaveToStorage.
AddTokenUnlocked(a) ==
  /\ \E t \in TokensOf[a] :
       /\ Store(a, t) /\ uses' = Given(uses, a, t)
       /\ saves' = saves \union {[account |-> a, token |-> t]}
  /\ UNCHANGED <<saver, clean, storage, call, lifecycle>>

AddToken(a) ==
  /\ Writable
  /\ \E t \in TokensOf[a] :
       /\ Store(a, t) /\ uses' = Given(uses, a, t)
       /\ saves' = saves \union {[account |-> a, token |-> t]}
  /\ UNCHANGED <<saver, clean, storage, call, lifecycle>>

\* The goroutine AddToken has started.
AsyncSave(s) ==
  /\ s \in saves
  /\ saves' = saves \ {s}
  /\ Save(s.account, s.token)
  /\ clean' = (saver = None)
  /\ UNCHANGED <<tokens, stores, uses, saver, call, lifecycle>>

\* The storage is not told.
RemoveToken(a) ==
  /\ Writable
  /\ tokens[a] # None
  /\ tokens' = Put(tokens, a, None)
  /\ UNCHANGED <<stores, uses, saves, saver, clean, storage, call, lifecycle>>

LoadFromStorage ==
  /\ Writable
  /\ \E read \in LoadAll :
       /\ tokens' = read /\ cache' = read
       /\ uses' = [a \in Accounts |->
            [t \in Tokens |-> IF t = read[a] THEN 0 ELSE uses[a][t]]]
  /\ UNCHANGED <<stores, saves, saver, clean, file, acked, attempted,
                 faults, call, lifecycle>>

BeginSaveToStorage ==
  /\ saver = None
  /\ saver' = {a \in Accounts : tokens[a] # None}
  /\ clean' = TRUE
  /\ UNCHANGED <<tokens, stores, uses, saves, storage, call, lifecycle>>

\* The next account; the first error ends SaveToStorage.
SaveNext(a) ==
  /\ saver # None /\ a \in saver
  /\ Save(a, tokens[a])
  /\ saver' = IF acked'[a] = tokens[a] /\ attempted'[a] = {} THEN saver \ {a}
                                                            ELSE None
  /\ clean' = (clean \/ saver' = None)
  /\ UNCHANGED <<tokens, stores, uses, saves, call, lifecycle>>

EndSaveToStorage ==
  /\ saver = {}
  /\ saver' = None
  /\ clean' = TRUE
  /\ UNCHANGED <<tokens, stores, uses, saves, storage, call, lifecycle>>

Storage ==
  \/ \E s \in saves : AsyncSave(s)
  \/ BeginSaveToStorage \/ EndSaveToStorage
  \/ \E a \in Accounts : SaveNext(a)
  \/ LoadFromStorage

\* RefreshToken, when the refresh API takes the token presented: what it answers
\* becomes the account's token, and is not saved to the storage.
Refreshed(a, presented) ==
  /\ Writable /\ tokens[a] # None
  /\ \E t \in TokensOf[a] :
       /\ Store(a, t)
       /\ uses' = Given([uses EXCEPT ![a][presented] = @ + 1], a, t)
-----------------------------------------------------------------------------
(* GetToken. *)

\* The lookup and CheckTokenStatus.  A valid token is returned at once.
Check(c) ==
  /\ call[c] = Idle
  /\ \E a \in Accounts :
       /\ tokens[a] # None
       /\ call' = [call EXCEPT ![c] = [account |-> a, token |-> tokens[a]]]
  /\ UNCHANGED <<tokens, stores, uses, saves, saver, clean, storage, lifecycle>>

\* Slip: the token GetToken has found invalid is the one refreshed.
RefreshFound(c) ==
  /\ call[c] # Idle
  /\ \/ Refreshed(call[c].account, call[c].token)
     \/ Writable /\ UNCHANGED <<tokens, stores, uses>>
  /\ call' = [call EXCEPT ![c] = Idle]
  /\ UNCHANGED <<saves, saver, clean, storage, lifecycle>>

\* The account's token may meanwhile be another one; it is refreshed whatever
\* its state.  GetToken then returns the error, or what the account has when it
\* reads it again, nil without an error where it has been removed.
RefreshForCall(c) ==
  /\ call[c] # Idle
  /\ \/ Refreshed(call[c].account, tokens[call[c].account])
     \/ Writable /\ UNCHANGED <<tokens, stores, uses>>
  /\ call' = [call EXCEPT ![c] = Idle]
  /\ UNCHANGED <<saves, saver, clean, storage, lifecycle>>

GetToken(c) == Check(c) \/ RefreshForCall(c)
-----------------------------------------------------------------------------
(* The refresh loop. *)

\* Once stopped, stopChan stays closed and the loop of a later Start ends with
\* its first select.
Start ==
  /\ Writable /\ ~running
  /\ running' = TRUE
  /\ loop' = IF stopped THEN loop ELSE "select"
  /\ UNCHANGED <<tokens, stores, uses, saves, saver, clean, storage, call,
                 stopped, due>>

\* Slip: Stop only notes that the manager does not run.
StopUnclosed ==
  /\ Writable /\ running
  /\ running' = FALSE
  /\ UNCHANGED <<tokens, stores, uses, saves, saver, clean, storage, call,
                 stopped, loop, due>>

Stop ==
  /\ Writable /\ running /\ ~stopped
  /\ running' = FALSE /\ stopped' = TRUE
  /\ UNCHANGED <<tokens, stores, uses, saves, saver, clean, storage, call, loop, due>>

\* The second Stop closes stopChan again: a panic.
StopPanics == Writable /\ running /\ stopped /\ Restart

\* The ticker's case of the select, which may be taken though stopChan is
\* closed; checkAndRefreshAll reads tm.tokens once.
LoopTick ==
  /\ loop = "select"
  /\ due' \in NeedRefresh
  /\ loop' = IF due' = {} THEN "select" ELSE "refresh"
  /\ UNCHANGED <<tokens, stores, uses, saves, saver, clean, storage, call,
                 running, stopped>>

\* RefreshToken of the next account, with or without success.
LoopRefresh ==
  /\ \E a \in due :
       /\ \/ Refreshed(a, tokens[a])
          \/ Writable /\ UNCHANGED <<tokens, stores, uses>>
       /\ due' = due \ {a}
  /\ loop' = IF due' = {} THEN "select" ELSE "refresh"
  /\ UNCHANGED <<saves, saver, clean, storage, call, running, stopped>>

LoopEnds ==
  /\ loop = "select" /\ stopped
  /\ loop' = "absent"
  /\ UNCHANGED <<tokens, stores, uses, saves, saver, clean, storage, call,
                 running, stopped, due>>

-----------------------------------------------------------------------------
Next ==
  \/ \E a \in Accounts : AddToken(a) \/ RemoveToken(a)
  \/ Storage
  \/ \E c \in Callers : GetToken(c)
  \/ Start \/ Stop \/ StopPanics \/ LoopTick \/ LoopRefresh \/ LoopEnds
  \/ Restart

Spec == Init /\ [][Next]_vars

(***************************************************************************)
(* SaveToStorage goes on once begun, and a writer waiting for tm.mu gets   *)
(* it although readers come and go (sync.RWMutex).  The select of the loop *)
(* that finds both channels ready again and again takes stopChan at last.  *)
(***************************************************************************)
FairSpec ==
  /\ Spec
  /\ WF_vars(EndSaveToStorage \/ \E a \in Accounts : SaveNext(a))
  /\ SF_vars(LoopRefresh) /\ SF_vars(LoopEnds)
-----------------------------------------------------------------------------
(***************************************************************************)
(* Whatever fails and whenever the process stops, the file holds of each   *)
(* account the last token whose Save returned without an error, or one     *)
(* whose Save has failed since (the failed save stays in the cache and     *)
(* another account's save takes it along).                                 *)
(***************************************************************************)
FileKeepsSaved ==
  \A a \in Accounts : file[a] \in {acked[a]} \union attempted[a]

\* The cache is the file as long as no Save has failed.
CacheIsFile ==
  (\A a \in Accounts : attempted[a] = {}) => cache = file

\* A refresh loop refreshes one thing at a time and has something to do.
StorageInv ==
  /\ FileKeepsSaved
  /\ CacheIsFile
  /\ \A a \in Accounts : tokens[a] \in Tokens \union {None}
  /\ due # {} <=> loop = "refresh"

(***************************************************************************)
(* SaveToStorage that returns without an error has stored the tokens of    *)
(* one moment, unless a goroutine of AddToken has saved in between, whose  *)
(* token may be an older one.                                              *)
(***************************************************************************)
SaveIsSnapshot ==
  [][EndSaveToStorage /\ clean =>
       \A a \in Accounts : tokens[a] # None => file[a] = tokens[a]]_vars

(***************************************************************************)
(* No token is refreshed twice: one that has brought an account a refresh  *)
(* is not presented for it again, by whichever calls of GetToken have      *)
(* found it invalid and however they and the refresh loop interleave,      *)
(* until the account is given that very token again: by AddToken, by a     *)
(* refresh that answers with it, or by reloading the storage, which is not *)
(* told of refreshed tokens.                                               *)
(***************************************************************************)
RefreshedOnce == \A a \in Accounts, t \in Tokens : uses[a][t] <= 1

\* A manager that is stopped stops refreshing, unless it is started again first.
LoopHasEnd == loop # "absent" /\ ~running ~> running \/ loop = "absent"
=============================================================================
