--------------------------- MODULE UpstreamLimiter --------------------------
(***************************************************************************)
(* protect.Limiter (internal/protect/protect.go), which every upstream     *)
(* completion passes: a buffered channel bounds how many run together, and *)
(* a minimum interval separates their starts.  A request may be cancelled  *)
(* (the client goes away) wherever it is.                                  *)
(*                                                                         *)
(* Time is counted in ticks; sinceLast is the time since l.lastAt, no      *)
(* further than MinWait, and begins there because a zero lastAt is long    *)
(* ago.  MaxConcurrent = 0 is a Limiter without a channel.                 *)
(*                                                                         *)
(* gap is history: the time since a request was last let through, taken    *)
(* from the requests and not from l.lastAt.                                *)
(***************************************************************************)
EXTENDS Naturals, FiniteSets

CONSTANTS
  Requests,       (* the goroutines that call AcquireContext *)
  MaxConcurrent,  (* capacity of l.sem, 0 for none *)
  MinWait         (* l.minWait, in ticks *)

ASSUME LimiterAssumption ==
  /\ IsFiniteSet(Requests)
  /\ MaxConcurrent \in Nat
  /\ MinWait \in Nat

VARIABLES
  sem,        (* number of elements in the channel l.sem *)
  sinceLast,  (* time since l.lastAt *)
  pc,         (* pc[r]: where request r is *)
  timer,      (* timer[r]: what is left of r's time.After(wait) *)
  cancelled,  (* the requests whose context is done *)
  gap         (* time since the last start *)

vars == <<sem, sinceLast, pc, timer, cancelled, gap>>

PC == {"idle", "wantSlot", "pace", "sleep", "running"}

Init ==
  /\ sem = 0
  /\ sinceLast = MinWait
  /\ pc = [r \in Requests |-> "idle"]
  /\ timer = [r \in Requests |-> 0]
  /\ cancelled = {}
  /\ gap = MinWait

GoTo(r, p) == pc' = [pc EXCEPT ![r] = p]

Limited == MaxConcurrent > 0

TakeSlot == sem' = IF Limited THEN sem + 1 ELSE sem

FreeSlot == sem' = IF Limited THEN sem - 1 ELSE sem

\* AcquireContext is called with a context that is still alive.
Arrive(r) ==
  /\ pc[r] = "idle"
  /\ r \notin cancelled
  /\ GoTo(r, "wantSlot")
  /\ UNCHANGED <<sem, sinceLast, timer, cancelled, gap>>

\* l.sem <- struct{}{}; select may choose it although ctx is done.
GetSlot(r) ==
  /\ pc[r] = "wantSlot"
  /\ Limited => sem < MaxConcurrent
  /\ TakeSlot
  /\ GoTo(r, "pace")
  /\ UNCHANGED <<sinceLast, timer, cancelled, gap>>

\* Slip: a slot that was never taken is given back.
GiveUpSlotFrees(r) ==
  /\ pc[r] = "wantSlot"
  /\ Limited
  /\ r \in cancelled
  /\ FreeSlot
  /\ GoTo(r, "idle")
  /\ UNCHANGED <<sinceLast, timer, cancelled, gap>>

\* <-ctx.Done() instead of a slot.
GiveUpSlot(r) ==
  /\ pc[r] = "wantSlot"
  /\ Limited
  /\ r \in cancelled
  /\ GoTo(r, "idle")
  /\ UNCHANGED <<sem, sinceLast, timer, cancelled, gap>>

\* Under l.mu: the interval has passed, the request starts.
Start(r) ==
  /\ pc[r] = "pace"
  /\ sinceLast >= MinWait
  /\ sinceLast' = 0
  /\ gap' = 0
  /\ GoTo(r, "running")
  /\ UNCHANGED <<sem, timer, cancelled>>

\* Under l.mu: it has not; sleep for the rest of it, without l.mu.
Sleep(r) ==
  /\ pc[r] = "pace"
  /\ sinceLast < MinWait
  /\ timer' = [timer EXCEPT ![r] = MinWait - sinceLast]
  /\ GoTo(r, "sleep")
  /\ UNCHANGED <<sem, sinceLast, cancelled, gap>>

\* Slip: the sleeper starts without looking at l.lastAt again.
WakeStarts(r) ==
  /\ pc[r] = "sleep"
  /\ timer[r] = 0
  /\ sinceLast' = 0
  /\ gap' = 0
  /\ GoTo(r, "running")
  /\ UNCHANGED <<sem, timer, cancelled>>

\* Back to the top of the loop: another request may have started meanwhile.
Wake(r) ==
  /\ pc[r] = "sleep"
  /\ timer[r] = 0
  /\ GoTo(r, "pace")
  /\ UNCHANGED <<sem, sinceLast, timer, cancelled, gap>>

\* Slip: the cancelled sleeper keeps its slot.
CancelSleepLeaks(r) ==
  /\ pc[r] = "sleep"
  /\ r \in cancelled
  /\ timer' = [timer EXCEPT ![r] = 0]
  /\ GoTo(r, "idle")
  /\ UNCHANGED <<sem, sinceLast, cancelled, gap>>

\* Slip: time.Sleep, which no cancellation ends.
CancelSleepNever(r) == pc[r] = "sleep" /\ r \in cancelled /\ FALSE

\* <-ctx.Done() while asleep gives the slot back.
CancelSleep(r) ==
  /\ pc[r] = "sleep"
  /\ r \in cancelled
  /\ FreeSlot
  /\ timer' = [timer EXCEPT ![r] = 0]
  /\ GoTo(r, "idle")
  /\ UNCHANGED <<sinceLast, cancelled, gap>>

\* The deferred release of doChatCompletion and doAgentTaskCompletion.
Release(r) ==
  /\ pc[r] = "running"
  /\ FreeSlot
  /\ GoTo(r, "idle")
  /\ UNCHANGED <<sinceLast, timer, cancelled, gap>>

\* The client disconnects.
Cancel(r) ==
  /\ pc[r] # "idle"
  /\ r \notin cancelled
  /\ cancelled' = cancelled \union {r}
  /\ UNCHANGED <<sem, sinceLast, pc, timer, gap>>

\* The goroutine of a cancelled request goes on to another one.
Renew(r) ==
  /\ pc[r] = "idle"
  /\ r \in cancelled
  /\ cancelled' = cancelled \ {r}
  /\ UNCHANGED <<sem, sinceLast, pc, timer, gap>>

Tick ==
  /\ sinceLast < MinWait \/ gap < MinWait \/ \E r \in Requests : timer[r] > 0
  /\ sinceLast' = IF sinceLast < MinWait THEN sinceLast + 1 ELSE sinceLast
  /\ gap' = IF gap < MinWait THEN gap + 1 ELSE gap
  /\ timer' = [r \in Requests |-> IF timer[r] > 0 THEN timer[r] - 1 ELSE 0]
  /\ UNCHANGED <<sem, pc, cancelled>>

AcquireContext(r) ==
  \/ GetSlot(r) \/ GiveUpSlot(r) \/ Start(r) \/ Sleep(r) \/ Wake(r)
  \/ CancelSleep(r)

Next ==
  \/ \E r \in Requests :
       Arrive(r) \/ AcquireContext(r) \/ Release(r) \/ Cancel(r) \/ Renew(r)
  \/ Tick

Spec == Init /\ [][Next]_vars

\* Time passes, an upstream request ends, and a goroutine that can go on does.
\* select chooses at random among the cases that are ready, so a case that is
\* ready again and again is taken in the end, and a channel serves its
\* waiting senders in order.
FairSpec ==
  /\ Spec
  /\ WF_vars(Tick)
  /\ \A r \in Requests :
       /\ WF_vars(AcquireContext(r))
       /\ WF_vars(Release(r))
       /\ SF_vars(CancelSleep(r))
       /\ SF_vars(GiveUpSlot(r))
       /\ SF_vars(GetSlot(r))
-----------------------------------------------------------------------------
TypeOK ==
  /\ sem \in Nat
  /\ sinceLast \in 0 .. MinWait
  /\ pc \in [Requests -> PC]
  /\ timer \in [Requests -> 0 .. MinWait]
  /\ cancelled \subseteq Requests
  /\ gap \in 0 .. MinWait

Holders == {r \in Requests : pc[r] \in {"pace", "sleep", "running"}}

\* Each slot of the channel belongs to a request that waits for its start or
\* runs: none is lost when a request is cancelled half-way, and none is given
\* back twice.
SlotsMatch == sem = IF Limited THEN Cardinality(Holders) ELSE 0

\* The inductive invariant: the channel's count is exact and within its
\* capacity, and gap is what l.lastAt says.
LimiterInv ==
  /\ TypeOK
  /\ SlotsMatch
  /\ Limited => sem <= MaxConcurrent
  /\ sinceLast = gap

\* At most MaxConcurrent upstream requests run together.
ConcurrencyCapped ==
  Limited =>
    Cardinality({r \in Requests : pc[r] = "running"}) <= MaxConcurrent

\* Two starts are never closer than MinWait, also when several sleepers wake
\* at the same moment, or a new request arrives before they do.
StartsSpaced ==
  [][\A r \in Requests :
       pc[r] # "running" /\ pc'[r] = "running" => gap >= MinWait]_vars

Waiting(r) == pc[r] \in {"wantSlot", "pace", "sleep"}

\* A request whose client has gone leaves the limiter.
CancelledReturns ==
  \A r \in Requests :
    Waiting(r) /\ r \in cancelled ~> ~Waiting(r)

\* The limiter never stalls: while requests wait, requests start or leave.
\* (Which one starts is not determined: a sleeper can be overtaken by each
\* newcomer in turn, as l.mu is not held while it sleeps.)
KeepsServing ==
  (\E r \in Requests : Waiting(r))
    ~> (\E r \in Requests : pc[r] = "running") \/ ~\E r \in Requests : Waiting(r)
=============================================================================
