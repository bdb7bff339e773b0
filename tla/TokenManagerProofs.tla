-------------------------- MODULE TokenManagerProofs ------------------------
(***************************************************************************)
(* What the token manager and its file promise for any number of accounts, *)
(* callers and tokens, any number of failing writes and crashes, and saves *)
(* that land in any order.                                                 *)
(***************************************************************************)
EXTENDS TokenManager, TLAPS

Known == Tokens \union {None}

Call == [account : Accounts \union {None}, token : Known]

Types ==
  /\ tokens \in [Accounts -> Known]
  /\ cache \in [Accounts -> Known]
  /\ file \in [Accounts -> Known]
  /\ saves \subseteq [account : Accounts, token : Known]
  /\ acked \in [Accounts -> Known]
  /\ attempted \in [Accounts -> SUBSET Known]
  /\ call \in [Callers -> Call]
  /\ \A c \in Callers : call[c] # Idle => call[c].account \in Accounts

\* The cache, too, holds of each account a token that has been saved or whose
\* Save has failed since: the next Save of another account writes it out.
FileInv ==
  /\ FileKeepsSaved
  /\ CacheIsFile
  /\ \A a \in Accounts : cache[a] \in {acked[a]} \union attempted[a]

\* Before the first Stop there is a loop only while the manager runs.
LoopInv ==
  /\ due \subseteq Accounts
  /\ due # {} <=> loop = "refresh"
  /\ ~running /\ ~stopped => loop = "absent"

\* What saver has passed is in the file and in the cache.
SnapInv ==
  clean /\ saver # None =>
    \A a \in Accounts \ saver :
      tokens[a] # None => file[a] = tokens[a] /\ cache[a] = tokens[a]

\* The token an account has, it has been given since that token was last used.
Unused(t, counts) == t # None => counts[t] = 0

UseInv ==
  /\ uses \in [Accounts -> [Tokens -> {0, 1}]]
  /\ \A a \in Accounts : Unused(tokens[a], uses[a])

Inv == Types /\ FileInv /\ LoopInv /\ SnapInv /\ UseInv

LEMMA InitInv == Init => Inv
<1> SUFFICES ASSUME Init PROVE Inv
  OBVIOUS
<1>1. Nothing \in [Accounts -> Known]
  BY DEF Nothing, Known
<1>2. Types
  BY <1>1, TokenAssumption DEF Init, Types, Idle, Call, Known
<1>3. FileInv /\ LoopInv /\ SnapInv
  BY DEF Init, FileInv, FileKeepsSaved, CacheIsFile, Nothing, LoopInv, SnapInv
<1>4. UseInv
  BY DEF Init, UseInv, Unused, Nothing
<1> QED BY <1>2, <1>3, <1>4 DEF Inv
-----------------------------------------------------------------------------
(* The file. *)

\* A Save, whether it fails or not.
LEMMA SaveKeeps ==
  ASSUME Types, FileInv, NEW a \in Accounts, NEW t \in Known, Save(a, t)
  PROVE  /\ cache' \in [Accounts -> Known] /\ file' \in [Accounts -> Known]
         /\ acked' \in [Accounts -> Known]
         /\ attempted' \in [Accounts -> SUBSET Known]
         /\ FileInv'
<1>1. cache' = [cache EXCEPT ![a] = t] /\ cache' \in [Accounts -> Known]
  BY DEF Save, Put, Types
<1>2. CASE Persisted(a, t)
  <2>1. /\ file' = cache' /\ acked' = [acked EXCEPT ![a] = t]
        /\ attempted' = [attempted EXCEPT ![a] = {}]
    BY <1>2 DEF Persisted, Put
  <2> QED BY <1>1, <2>1 DEF Types, FileInv, FileKeepsSaved, CacheIsFile
<1>3. CASE PersistFails(a, t)
  <2>1. /\ file' = file /\ acked' = acked
        /\ attempted' = [attempted EXCEPT ![a] = @ \union {t}]
    BY <1>3 DEF PersistFails
  <2>2. attempted' \in [Accounts -> SUBSET Known] /\ t \in attempted'[a]
    BY <2>1 DEF Types
  <2>3. \A b \in Accounts : attempted[b] \subseteq attempted'[b]
    BY <2>1 DEF Types
  <2> QED BY <1>1, <2>1, <2>2, <2>3 DEF Types, FileInv, FileKeepsSaved, CacheIsFile
<1> QED BY <1>2, <1>3 DEF Save

\* A step of the others: the storage stays as it is.
LEMMA FileStays ==
  ASSUME FileInv, UNCHANGED storage
  PROVE  FileInv'
BY DEF FileInv, FileKeepsSaved, CacheIsFile, storage
-----------------------------------------------------------------------------
(* The tokens and their uses. *)

\* An account's token is used and replaced by another one, or the same.
LEMMA GivenKeeps ==
  ASSUME UseInv, tokens \in [Accounts -> Known], NEW a \in Accounts, NEW t \in Tokens,
         tokens' = [tokens EXCEPT ![a] = t],
         uses' \in [Accounts -> [Tokens -> {0, 1}]], uses'[a][t] = 0,
         \A b \in Accounts \ {a} : uses'[b] = uses[b]
  PROVE  UseInv' /\ tokens' \in [Accounts -> Known]
<1>1. tokens' \in [Accounts -> Known]
  BY DEF Known
<1>2. ASSUME NEW b \in Accounts PROVE Unused(tokens'[b], uses'[b])
  <2>1. CASE b = a
    BY <2>1 DEF UseInv, Unused
  <2>2. CASE b # a
    BY <2>2 DEF UseInv, Unused
  <2> QED BY <2>1, <2>2
<1> QED BY <1>1, <1>2 DEF UseInv

\* A refresh presents a token that has not been used before.
LEMMA RefreshedKeeps ==
  ASSUME Types, UseInv, NEW a \in Accounts, Refreshed(a, tokens[a])
  PROVE  UseInv' /\ tokens' \in [Accounts -> Known]
<1> DEFINE used == [uses EXCEPT ![a][tokens[a]] = @ + 1]
<1>1. PICK t \in TokensOf[a] :
        /\ tokens' = [tokens EXCEPT ![a] = t]
        /\ uses' = [used EXCEPT ![a][t] = 0]
  BY DEF Refreshed, Store, Put, Given
<1>2. t \in Tokens
  BY DEF Tokens
<1>3. tokens[a] \in Tokens /\ uses[a][tokens[a]] = 0
  BY DEF Refreshed, Types, Known, UseInv, Unused
<1>4. /\ used \in [Accounts -> [Tokens -> {0, 1}]]
      /\ \A b \in Accounts \ {a} : used[b] = uses[b]
  BY <1>3 DEF UseInv
<1> HIDE DEF used
<1>5. /\ uses' \in [Accounts -> [Tokens -> {0, 1}]] /\ uses'[a][t] = 0
      /\ \A b \in Accounts \ {a} : uses'[b] = uses[b]
  BY <1>1, <1>2, <1>4
<1> QED BY <1>1, <1>2, <1>5, GivenKeeps DEF Types
-----------------------------------------------------------------------------
(* The actions. *)

\* An action that leaves the storage alone and changes tokens only as a writer.
LEMMA WriterKeeps ==
  ASSUME Inv, UNCHANGED storage, UseInv', LoopInv', tokens' \in [Accounts -> Known],
         call' \in [Callers -> Call],
         \A c \in Callers : call'[c] # Idle => call'[c].account \in Accounts,
         saves' \subseteq [account : Accounts, token : Known],
         \/ saver = None /\ saver' = None
         \/ UNCHANGED <<tokens, saver, clean>>
  PROVE  Inv'
<1>1. Types'
  BY DEF Inv, Types, storage
<1>2. FileInv'
  BY FileStays DEF Inv
<1>3. SnapInv'
  BY DEF Inv, SnapInv, storage
<1> QED BY <1>1, <1>2, <1>3 DEF Inv

LEMMA UseKept ==
  ASSUME UseInv, UNCHANGED <<tokens, uses>>
  PROVE  UseInv'
BY DEF UseInv

LEMMA LoopKept ==
  ASSUME LoopInv, UNCHANGED lifecycle
  PROVE  LoopInv'
BY DEF LoopInv, lifecycle

LEMMA AddTokenKeeps ==
  ASSUME Inv, NEW a \in Accounts, AddToken(a)
  PROVE  Inv'
<1>1. PICK t \in TokensOf[a] :
        /\ tokens' = [tokens EXCEPT ![a] = t] /\ uses' = Given(uses, a, t)
        /\ saves' = saves \union {[account |-> a, token |-> t]}
  BY DEF AddToken, Store, Put
<1>2. t \in Tokens
  BY DEF Tokens
<1>3. /\ uses' \in [Accounts -> [Tokens -> {0, 1}]] /\ uses'[a][t] = 0
      /\ \A b \in Accounts \ {a} : uses'[b] = uses[b]
  BY <1>1, <1>2 DEF Given, Inv, UseInv
<1>4. UseInv' /\ tokens' \in [Accounts -> Known]
  BY <1>1, <1>2, <1>3, GivenKeeps DEF Inv, Types
<1>5. saves' \subseteq [account : Accounts, token : Known]
  BY <1>1, <1>2 DEF Inv, Types, Known
<1>6. LoopInv'
  BY LoopKept DEF AddToken, Inv
<1> QED BY <1>4, <1>5, <1>6, WriterKeeps DEF AddToken, Writable, Inv, Types

LEMMA RemoveTokenKeeps ==
  ASSUME Inv, NEW a \in Accounts, RemoveToken(a)
  PROVE  Inv'
<1>1. tokens' = [tokens EXCEPT ![a] = None] /\ uses' = uses
  BY DEF RemoveToken, Put
<1>2. UseInv' /\ tokens' \in [Accounts -> Known]
  BY <1>1 DEF Inv, Types, UseInv, Unused, Known
<1>3. LoopInv'
  BY LoopKept DEF RemoveToken, Inv
<1> QED BY <1>2, <1>3, WriterKeeps DEF RemoveToken, Writable, Inv, Types

LEMMA CheckKeeps ==
  ASSUME Inv, NEW c \in Callers, Check(c)
  PROVE  Inv'
<1>1. PICK a \in Accounts :
        call' = [call EXCEPT ![c] = [account |-> a, token |-> tokens[a]]]
  BY DEF Check
<1>2. /\ call' \in [Callers -> Call]
      /\ \A b \in Callers : call'[b] # Idle => call'[b].account \in Accounts
  BY <1>1 DEF Inv, Types, Call
<1>3. UseInv' /\ LoopInv'
  BY UseKept, LoopKept DEF Check, Inv
<1> QED BY <1>2, <1>3, WriterKeeps DEF Check, Inv, Types

LEMMA RefreshForCallKeeps ==
  ASSUME Inv, NEW c \in Callers, RefreshForCall(c)
  PROVE  Inv'
<1>1. call[c].account \in Accounts /\ call' = [call EXCEPT ![c] = Idle]
  BY DEF RefreshForCall, Inv, Types
<1>2. /\ call' \in [Callers -> Call]
      /\ \A b \in Callers : call'[b] # Idle => call'[b].account \in Accounts
  BY <1>1 DEF Inv, Types, Call, Idle, Known
<1>3. UseInv' /\ tokens' \in [Accounts -> Known] /\ saver = None
  <2>1. CASE Refreshed(call[c].account, tokens[call[c].account])
    BY <1>1, <2>1, RefreshedKeeps DEF Inv, Refreshed, Writable
  <2>2. CASE Writable /\ UNCHANGED <<tokens, stores, uses>>
    BY <2>2, UseKept DEF Inv, Types, Writable
  <2> QED BY <2>1, <2>2 DEF RefreshForCall
<1>4. LoopInv'
  BY LoopKept DEF RefreshForCall, Inv
<1> QED BY <1>2, <1>3, <1>4, WriterKeeps DEF RefreshForCall, Inv, Types

LEMMA LoopRefreshKeeps ==
  ASSUME Inv, LoopRefresh
  PROVE  Inv'
<1>1. PICK a \in due :
        /\ \/ Refreshed(a, tokens[a])
           \/ Writable /\ UNCHANGED <<tokens, stores, uses>>
        /\ due' = due \ {a}
  BY DEF LoopRefresh
<1>2. a \in Accounts /\ saver = None
  BY <1>1 DEF Inv, LoopInv, Refreshed, Writable
<1>3. UseInv' /\ tokens' \in [Accounts -> Known]
  BY <1>1, <1>2, RefreshedKeeps, UseKept DEF Inv, Types
<1>4. LoopInv'
  BY <1>1 DEF LoopRefresh, Inv, LoopInv
<1> QED BY <1>2, <1>3, <1>4, WriterKeeps DEF LoopRefresh, Inv, Types

LEMMA LoopStepKeeps ==
  ASSUME Inv, LoopInv',
         UNCHANGED <<tokens, stores, uses, saves, saver, clean, storage, call>>
  PROVE  Inv'
<1>1. UseInv'
  BY UseKept DEF Inv
<1> QED BY <1>1, WriterKeeps DEF Inv, Types

LEMMA LifecycleKeeps ==
  ASSUME Inv, Start \/ Stop \/ LoopTick \/ LoopEnds
  PROVE  Inv'
<1>1. CASE Start \/ Stop
  <2>1. LoopInv'
    BY <1>1 DEF Start, Stop, Inv, LoopInv
  <2> QED BY <1>1, <2>1, LoopStepKeeps DEF Start, Stop
<1>2. CASE LoopTick
  <2>1. LoopInv'
    BY <1>2 DEF LoopTick, NeedRefresh, Inv, LoopInv
  <2> QED BY <1>2, <2>1, LoopStepKeeps DEF LoopTick
<1>3. CASE LoopEnds
  <2>1. LoopInv'
    BY <1>3 DEF LoopEnds, Inv, LoopInv
  <2> QED BY <1>3, <2>1, LoopStepKeeps DEF LoopEnds
<1> QED BY <1>1, <1>2, <1>3

LEMMA RestartKeeps ==
  ASSUME Inv, Restart
  PROVE  Inv'
<1>1. Nothing \in [Accounts -> Known]
  BY DEF Nothing, Known
<1>2. Types'
  BY <1>1 DEF Inv, Types, Restart, Known, Idle, Call
<1>3. FileInv' /\ LoopInv' /\ SnapInv'
  BY DEF Inv, FileInv, FileKeepsSaved, CacheIsFile, LoopInv, SnapInv, Restart
<1>4. UseInv'
  BY DEF UseInv, Unused, Restart, Nothing
<1> QED BY <1>2, <1>3, <1>4 DEF Inv

\* The goroutines of AddToken and SaveToStorage, which change no token.
LEMMA SavingKeeps ==
  ASSUME Inv, SnapInv', NEW a \in Accounts, NEW t \in Known, Save(a, t),
         saves' \subseteq saves,
         UNCHANGED <<tokens, uses, call, lifecycle>>
  PROVE  Inv'
<1>1. /\ cache' \in [Accounts -> Known] /\ file' \in [Accounts -> Known]
      /\ acked' \in [Accounts -> Known]
      /\ attempted' \in [Accounts -> SUBSET Known]
      /\ FileInv'
  BY SaveKeeps DEF Inv
<1>2. Types'
  BY <1>1 DEF Inv, Types, Known
<1>3. LoopInv' /\ UseInv'
  BY LoopKept, UseKept DEF Inv
<1> QED BY <1>1, <1>2, <1>3 DEF Inv

LEMMA AsyncSaveKeeps ==
  ASSUME Inv, NEW s \in saves, AsyncSave(s)
  PROVE  Inv'
<1>1. s.account \in Accounts /\ s.token \in Known
  BY DEF Inv, Types
<1>2. SnapInv'
  BY DEF AsyncSave, SnapInv
<1> QED BY <1>1, <1>2, SavingKeeps DEF AsyncSave

LEMMA SaveNextKeeps ==
  ASSUME Inv, NEW a \in Accounts, SaveNext(a)
  PROVE  Inv'
<1>1. tokens[a] \in Known
  BY DEF Inv, Types
<1>2. SnapInv'
  <2>1. CASE Persisted(a, tokens[a])
    <3> SUFFICES ASSUME clean', saver' # None, NEW b \in Accounts \ saver',
                        tokens[b] # None
                 PROVE  file'[b] = tokens[b] /\ cache'[b] = tokens[b]
      BY DEF SnapInv, SaveNext
    <3>1. cache' = [cache EXCEPT ![a] = tokens[a]] /\ file' = cache'
      BY <2>1 DEF SaveNext, Save, Put, Persisted
    <3>2. clean /\ saver # None /\ saver' = saver \ {a}
      BY DEF SaveNext
    <3>3. CASE b = a
      BY <3>1, <3>3 DEF Inv, Types
    <3>4. CASE b # a
      BY <3>1, <3>2, <3>4 DEF Inv, Types, SnapInv
    <3> QED BY <3>3, <3>4
  <2>2. CASE PersistFails(a, tokens[a])
    <3>1. attempted'[a] # {}
      BY <2>2 DEF PersistFails, Inv, Types
    <3> QED BY <3>1 DEF SaveNext, SnapInv
  <2> QED BY <2>1, <2>2 DEF SaveNext, Save
<1> QED BY <1>1, <1>2, SavingKeeps DEF SaveNext

LEMMA SaverKeeps ==
  ASSUME Inv, BeginSaveToStorage \/ EndSaveToStorage
  PROVE  Inv'
<1>1. Types' /\ FileInv' /\ LoopInv'
  BY FileStays, LoopKept DEF Inv, BeginSaveToStorage, EndSaveToStorage, Types,
                             storage, Known
<1>2. UseInv'
  BY UseKept DEF Inv, BeginSaveToStorage, EndSaveToStorage
<1>3. SnapInv'
  BY DEF SnapInv, BeginSaveToStorage, EndSaveToStorage
<1> QED BY <1>1, <1>2, <1>3 DEF Inv

LEMMA LoadKeeps ==
  ASSUME Inv, LoadFromStorage
  PROVE  Inv'
<1>1. PICK read \in {cache, file} :
        /\ tokens' = read /\ cache' = read
        /\ uses' = [a \in Accounts |->
             [t \in Tokens |-> IF t = read[a] THEN 0 ELSE uses[a][t]]]
  BY DEF LoadFromStorage, LoadAll
<1>2. read \in [Accounts -> Known]
  BY DEF Inv, Types
<1>3. Types'
  BY <1>1, <1>2 DEF LoadFromStorage, Inv, Types
<1>4. FileInv'
  BY <1>1 DEF LoadFromStorage, Inv, FileInv, FileKeepsSaved, CacheIsFile, Types
<1>5. UseInv'
  BY <1>1, <1>2 DEF Inv, UseInv, Unused, Known
<1>6. LoopInv' /\ SnapInv'
  BY LoopKept DEF Inv, LoadFromStorage, SnapInv, Writable
<1> QED BY <1>3, <1>4, <1>5, <1>6 DEF Inv

LEMMA StepKeeps ==
  ASSUME Inv, Next
  PROVE  Inv'
<1>1. ASSUME NEW a \in Accounts, AddToken(a) \/ RemoveToken(a)
      PROVE  Inv'
  BY <1>1, AddTokenKeeps, RemoveTokenKeeps
<1>2. CASE Storage
  BY <1>2, AsyncSaveKeeps, SaverKeeps, SaveNextKeeps, LoadKeeps DEF Storage
<1>3. ASSUME NEW c \in Callers, GetToken(c)
      PROVE  Inv'
  BY <1>3, CheckKeeps, RefreshForCallKeeps DEF GetToken
<1>4. CASE Start \/ Stop \/ LoopTick \/ LoopEnds
  BY <1>4, LifecycleKeeps
<1>5. CASE LoopRefresh
  BY <1>5, LoopRefreshKeeps
<1>6. CASE StopPanics \/ Restart
  BY <1>6, RestartKeeps DEF StopPanics
<1> QED BY <1>1, <1>2, <1>3, <1>4, <1>5, <1>6 DEF Next

LEMMA StutterKeeps ==
  ASSUME Inv, UNCHANGED vars
  PROVE  Inv'
BY DEF vars, storage, lifecycle, Inv, Types, Known, FileInv, FileKeepsSaved,
       CacheIsFile, LoopInv, SnapInv, UseInv, Unused

LEMMA InvHolds == Spec => []Inv
<1>1. Inv /\ [Next]_vars => Inv'
  BY StepKeeps, StutterKeeps
<1> QED BY <1>1, InitInv, PTL DEF Spec
-----------------------------------------------------------------------------
(***************************************************************************)
(* Whatever fails and whenever the process stops, the file holds of each   *)
(* account a token whose Save has returned without an error, the last one, *)
(* or one whose Save has failed since (storage.go:57-68, 163-181).                 *)
(***************************************************************************)
THEOREM StorageHolds == Spec => []StorageInv
<1>1. Inv => StorageInv
  BY DEF Inv, Types, FileInv, LoopInv, StorageInv, Known
<1> QED BY <1>1, InvHolds, PTL

(***************************************************************************)
(* A SaveToStorage that returns without an error, and met no other Save,   *)
(* has stored the manager's tokens of one moment (manager.go:124-141).     *)
(***************************************************************************)
THEOREM SnapshotHolds == Spec => SaveIsSnapshot
<1>1. Inv /\ [Next]_vars =>
        [EndSaveToStorage /\ clean =>
           \A a \in Accounts : tokens[a] # None => file[a] = tokens[a]]_vars
  <2> SUFFICES ASSUME Inv, EndSaveToStorage, clean,
                      NEW a \in Accounts, tokens[a] # None
               PROVE  file[a] = tokens[a]
    OBVIOUS
  <2>1. saver # None /\ a \notin saver
    BY TokenAssumption DEF EndSaveToStorage
  <2> QED BY <2>1 DEF Inv, SnapInv
<1> QED BY <1>1, InvHolds, PTL DEF Spec, SaveIsSnapshot

(***************************************************************************)
(* However calls of GetToken, the refresh loop, AddToken, RemoveToken and  *)
(* reloads interleave, and whatever tokens AddToken and the refresh API    *)
(* bring, no token that has brought an account a refresh is presented for  *)
(* a refresh of it again until the account is given that token again       *)
(* (manager.go:203-235).                                                   *)
(***************************************************************************)
THEOREM NoneRefreshedTwice == Spec => []RefreshedOnce
<1>1. Inv => RefreshedOnce
  <2> SUFFICES ASSUME Inv, NEW a \in Accounts, NEW t \in Tokens PROVE uses[a][t] <= 1
    BY DEF RefreshedOnce
  <2>1. uses[a][t] \in {0, 1}
    BY DEF Inv, UseInv
  <2> QED BY <2>1
<1> QED BY <1>1, InvHolds, PTL
=============================================================================
