------------------------------- MODULE Gateway ------------------------------
(***************************************************************************)
(* The two kinds of handler that take tokens from the account pool         *)
(* (internal/proxy/proxy.go): ChatCompletion, which forwards a chat        *)
(* request and tries a second time after a 401 or 403, and                 *)
(* postAuthenticated, which fetches a model list once.  Upstream may       *)
(* answer, reject the credential, or fail otherwise, each time; what it    *)
(* streams in between is the subject of other modules.                     *)
(*                                                                         *)
(* rejected and renewed are history: the tokens whose rejection has been   *)
(* reported and which no renewal has brought since, and whether the last   *)
(* step was a renewal that brought a token.                                *)
(***************************************************************************)
EXTENDS AccountPool

CONSTANT Chats  (* the requests that run ChatCompletion, the others fetch *)

ASSUME ChatsAssumption == Chats \subseteq Requests

VARIABLES rejected, renewed

vars == <<poolVars, call, rejected, renewed>>

Init ==
  /\ PoolInit
  /\ rejected = {}
  /\ renewed = FALSE

\* The handler is entered and calls GetToken.
Begin(r) ==
  /\ At(r, "idle")
  /\ GoTo(r, "get")
  /\ UNCHANGED <<poolVars, rejected>>

\* GetToken has returned an error: so does the handler.
NoToken(r) ==
  /\ At(r, "error")
  /\ Return(r)
  /\ UNCHANGED <<poolVars, rejected>>

\* The upstream request is carried out.  Only a chat reports its success.
Answered(r) ==
  /\ At(r, "got")
  /\ IF r \in Chats THEN GoTo(r, "succeeded") ELSE Return(r)
  /\ UNCHANGED <<poolVars, rejected>>

\* Any error but 401 and 403: the handler returns and reports nothing.
OtherError(r) ==
  /\ At(r, "got")
  /\ Return(r)
  /\ UNCHANGED <<poolVars, rejected>>

AuthRejected(r) ==
  /\ At(r, "got")
  /\ GoTo(r, "report")
  /\ UNCHANGED <<poolVars, rejected>>

\* After ReportFailure a chat goes round its loop once more.
Retry(r) ==
  /\ At(r, "reported")
  /\ r \in Chats
  /\ call[r].attempt = 1
  /\ call' = [call EXCEPT ![r] = Blank("get", 2)]
  /\ UNCHANGED <<poolVars, rejected>>

GiveUp(r) ==
  /\ At(r, "reported")
  /\ r \notin Chats \/ call[r].attempt = 2
  /\ Return(r)
  /\ UNCHANGED <<poolVars, rejected>>

Handler(r) ==
  \/ Begin(r) \/ NoToken(r) \/ Answered(r) \/ OtherError(r)
  \/ AuthRejected(r) \/ Retry(r) \/ GiveUp(r)

Pool(r) ==
  \/ Search(r) /\ UNCHANGED rejected
  \/ ReportSuccess(r) /\ UNCHANGED rejected
  \/ /\ ReportFailure(r)
     /\ rejected' = IF At(r, "mark")
                    THEN rejected \union {<<call[r].acc, call[r].ver>>}
                    ELSE rejected

Renewal(r) ==
  /\ Renew(r)
  /\ rejected' = rejected \ {<<call[r].acc, token'[call[r].acc].ver>>}
  /\ renewed' = TRUE

Request(r) == Renewal(r) \/ ((Handler(r) \/ Pool(r)) /\ renewed' = FALSE)

Time ==
  /\ (\E a \in Account : Wither(a)) \/ Tick
  /\ renewed' = FALSE
  /\ UNCHANGED rejected

\* All requests have been served.
Quiescent == (\A r \in Requests : At(r, "done")) /\ UNCHANGED vars

Next == (\E r \in Requests : Request(r)) \/ Time \/ Quiescent

Spec == Init /\ [][Next]_vars

\* Goroutines are scheduled, mutexes are handed on, and every network call
\* ends: a refresh has a 30s timeout, an upstream request the transport's.
FairSpec == Spec /\ \A r \in Requests : WF_vars(Request(r))
-----------------------------------------------------------------------------
TypeOK == PoolTypeOK /\ rejected \subseteq Account \X (1 .. MaxTokens)

GivenTo(r) == call[r].ver = 0 /\ call'[r].ver # 0

\* A token upstream has rejected, and a handler has reported, is not given out
\* again, however reports, renewals and other requests interleave - unless a
\* renewal has brought it again since: neither the refresh API's answer nor the
\* account's source (the IDE's storage file, say) is compared with it.
NeverReusesRejected ==
  [][\A r \in Requests :
       GivenTo(r) => <<call[r].acc, call'[r].ver>> \notin rejected']_vars

\* A caller is given a token past its expiry only by its own refresh, when the
\* API answers with one that has already expired (pool.go:288-296 does not
\* ask): no later caller gets that one, and none gets one that expired in the
\* pool, not even while its renewal was under way.
NeverExpired ==
  [][\A r \in Requests :
       GivenTo(r) /\ token'[call[r].acc].life = "expired" =>
         renewed' /\ call[r].acc \in Refreshable]_vars

\* acc.mu is held exactly by the callers whose renewal is under way, and p.mu
\* is read-locked exactly by those inside ReportFailure: no path of GetToken
\* or ReportFailure keeps a lock.
LocksMatch ==
  /\ \A a \in Account, r \in Requests :
       accLock[a] = r <=> At(r, "renew") /\ call[r].acc = a
  /\ readers = {r \in Requests : At(r, "mark") \/ At(r, "record")}

\* A caller has a token from when GetToken has chosen one until it lets go of
\* it.
TokensKnown == \A r \in Requests :
  call[r].ver = 0 <=>
    call[r].pc \in {"idle", "get", "pick", "allow", "lock", "renew", "blame",
                    "error", "done"}

\* A rejected token that its account has is marked stale.
RejectedRetired ==
  \A a \in Account : <<a, token[a].ver>> \in rejected => stale[a]

\* An account of the loop is one of its N iterations.
LoopBounded == \A r \in Requests :
  call[r].pc \in {"allow", "lock", "renew", "blame"} /\ call[r].via = "loop"
    => call[r].i < N

\* The inductive invariant behind the safety properties.
GatewayInv ==
  TypeOK /\ LocksMatch /\ TokensKnown /\ RejectedRetired /\ LoopBounded

\* Every request ends, whatever the others are doing with the accounts' and
\* the pool's mutexes.
EveryRequestEnds == \A r \in Requests : At(r, "get") ~> At(r, "done")
=============================================================================
