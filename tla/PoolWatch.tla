------------------------------ MODULE PoolWatch -----------------------------
(***************************************************************************)
(* Does GetToken find a good account?  It walks n accounts from p.index,   *)
(* but reads p.index again at every iteration (pool.go:364-368) while      *)
(* other callers move it, so a walk can pass an account twice and another  *)
(* not at all.  This module observes the gateway: for each call under way, *)
(* which accounts have been healthy since it began, and whether another    *)
(* account has disturbed it: by becoming available or unavailable, or by   *)
(* p.index being moved past it while it is unavailable.                    *)
(***************************************************************************)
EXTENDS Gateway

VARIABLES
  healthy,   (* healthy[r]: accounts healthy ever since r's GetToken began *)
  disturbed  (* disturbed[r]: there has been a Disturbance during r's call *)

watchVars == <<vars, healthy, disturbed>>

Serviceable(a) == ~stale[a] /\ token[a].life # "expired"

\* GetToken cannot fail on a: its breaker admits every call, and ensureFresh
\* at worst keeps the token it has.
Healthy == {a \in Account : Serviceable(a) /\ breaker[a].state = "closed"}

Available == {a \in Account : Serviceable(a) /\ Allow(breaker[a])}

InGetToken(r) ==
  call[r].pc \in {"pick", "allow", "lock", "renew", "blame", "error"}

WatchInit ==
  /\ Init
  /\ healthy = [r \in Requests |-> {}]
  /\ disturbed = [r \in Requests |-> FALSE]

\* An account's availability changes; or a caller that was given an account,
\* perhaps before r's call began, moves p.index past it only now, and the
\* account has become unavailable in between, perhaps before r's call as well.
Disturbance ==
  \/ Available' # Available
  \/ \E q \in Requests :
       At(q, "advance") /\ At(q, "got")' /\ call[q].acc \notin Available

Observe ==
  /\ healthy' = [r \in Requests |->
       IF ~InGetToken(r)' THEN {}
       ELSE IF At(r, "get") THEN Healthy'
       ELSE healthy[r] \intersect Healthy']
  /\ disturbed' = [r \in Requests |->
       /\ InGetToken(r)'
       /\ ~At(r, "get")
       /\ disturbed[r] \/ Disturbance]

WatchNext == Next /\ Observe

WatchSpec == WatchInit /\ [][WatchNext]_watchVars

\* As in Gateway: a request that can go on does; nobody has to send one.
FairWatchSpec ==
  WatchSpec /\ \A r \in Requests : WF_watchVars(Request(r) /\ Observe)
-----------------------------------------------------------------------------
\* As long as, during the call, no account becomes available or unavailable and
\* nobody moves p.index past an account that is unavailable, GetToken reports
\* "all accounts unavailable" or "circuit-broken" only when there is no healthy
\* account, however often other callers move p.index: the last iteration visits
\* the account that served the latest of them.  Neither exception can be left
\* out: with two accounts, a caller that was given an account which has been
\* rejected since, and moves p.index past it during this call, makes the call
\* visit that account twice and the healthy one never.
QuietCallFindsAccount ==
  \A r \in Requests :
    At(r, "error") /\ ~disturbed[r] => healthy[r] = {}

\* pool.go:318-319, 400, 402: GetToken "returns a usable token via
\* round-robin, [...] skipping circuit-broken / failing accounts", and
\* otherwise says "all accounts unavailable" or "all accounts are
\* circuit-broken".  So an account that is healthy from the beginning of the
\* call to its end is found.
HealthyAccountIsFound ==
  \A r \in Requests : At(r, "error") => healthy[r] = {}
=============================================================================
