------------------------------ MODULE Scheduler -----------------------------
(***************************************************************************)
(* The request scheduler (internal/queue/scheduler.go): four queues, one   *)
(* per priority, and workers that take the next request, wait for a slot   *)
(* of the semaphore, and start a goroutine that processes it and gives the *)
(* slot back.                                                              *)
(*                                                                         *)
(* A worker looks at the context, dequeues, and sends on the semaphore in  *)
(* three steps: other workers, callers of Enqueue and Stop get in between. *)
(*                                                                         *)
(* accepted is history: the requests Enqueue took, in order.               *)
(***************************************************************************)
EXTENDS Naturals, FiniteSets, SequencesExt

CONSTANTS
  VIP, High, Normal, Low, (* the requests of each priority *)
  Unset,                  (* the requests whose Priority field is zero *)
  Workers,                (* s.workers goroutines *)
  MaxQueueLength,         (* s.maxLen *)
  MaxConcurrency,         (* capacity of s.semaphore *)
  None

Requests == UNION {VIP, High, Normal, Low, Unset}

ASSUME SchedulerAssumption ==
  /\ IsFiniteSet(Requests) /\ IsFiniteSet(Workers)
  /\ MaxQueueLength \in Nat
  /\ MaxConcurrency \in Nat \ {0}
  /\ None \notin Requests

VARIABLES
  queues,     (* s.queues *)
  worker,     (* worker[w]: "check", "take", "acquire" or "gone" *)
  hand,       (* hand[w]: the request w has dequeued and not yet started *)
  semaphore,  (* number of elements in s.semaphore *)
  running,    (* the requests being processed *)
  processed,  (* the requests whose processing has ended *)
  stop,       (* "no", "waiting" (ctx is cancelled) or "returned" *)
  accepted

schedVars == <<queues, worker, hand, semaphore, running, processed, stop,
               accepted>>

Priorities == <<"VIP", "High", "Normal", "Low">>
Priority == ToSet(Priorities)

\* A request with no known priority goes with the normal ones.
QueueOf(r) == CASE r \in VIP -> "VIP" [] r \in High -> "High"
                [] r \in Low -> "Low" [] OTHER -> "Normal"

SchedInit ==
  /\ queues = [p \in Priority |-> <<>>]
  /\ worker = [w \in Workers |-> "check"]
  /\ hand = [w \in Workers |-> None]
  /\ semaphore = 0
  /\ running = {} /\ processed = {}
  /\ stop = "no"
  /\ accepted = <<>>

TotalLength == FoldSet(LAMBDA p, n : n + Len(queues[p]), 0, Priority)

QueueFull == TotalLength >= MaxQueueLength

\* Slip: a new request is put in front.
EnqueueInFront(r) ==
  /\ ~QueueFull
  /\ queues' = [queues EXCEPT ![QueueOf(r)] = <<r>> \o @]
  /\ accepted' = Append(accepted, r)
  /\ UNCHANGED <<worker, hand, semaphore, running, processed, stop>>

\* Enqueue without an error; with ErrQueueFull it changes nothing.
Enqueue(r) ==
  /\ ~QueueFull
  /\ queues' = [queues EXCEPT ![QueueOf(r)] = Append(@, r)]
  /\ accepted' = Append(accepted, r)
  /\ UNCHANGED <<worker, hand, semaphore, running, processed, stop>>

At(w, pc) == worker[w] = pc

\* select on s.ctx.Done(), which wins once it is closed: the other case is
\* the default.
CheckContext(w) ==
  /\ At(w, "check")
  /\ worker' = [worker EXCEPT ![w] = IF stop = "no" THEN "take" ELSE "gone"]
  /\ UNCHANGED <<queues, hand, semaphore, running, processed, stop, accepted>>

\* The first request of the first queue that has one.
NextQueue(p) ==
  /\ queues[p] # <<>>
  /\ \A i, j \in DOMAIN Priorities :
       Priorities[i] = p /\ j < i => queues[Priorities[j]] = <<>>

\* Slip: the request is read but stays in its queue.
DequeueKeeps(w) ==
  /\ At(w, "take")
  /\ \E p \in Priority :
       /\ NextQueue(p)
       /\ hand' = [hand EXCEPT ![w] = Head(queues[p])]
  /\ worker' = [worker EXCEPT ![w] = "acquire"]
  /\ UNCHANGED <<queues, semaphore, running, processed, stop, accepted>>

Dequeue(w) ==
  /\ At(w, "take")
  /\ \E p \in Priority :
       /\ NextQueue(p)
       /\ hand' = [hand EXCEPT ![w] = Head(queues[p])]
       /\ queues' = [queues EXCEPT ![p] = Tail(@)]
  /\ worker' = [worker EXCEPT ![w] = "acquire"]
  /\ UNCHANGED <<semaphore, running, processed, stop, accepted>>

\* Nothing to do: sleep for 10ms.
Idle(w) ==
  /\ At(w, "take")
  /\ TotalLength = 0
  /\ worker' = [worker EXCEPT ![w] = "check"]
  /\ UNCHANGED <<queues, hand, semaphore, running, processed, stop, accepted>>

\* s.semaphore <- struct{}{}, for however long it takes and whatever happens
\* to s.ctx; then the processing goroutine is started.
Acquire(w) ==
  /\ At(w, "acquire")
  /\ semaphore < MaxConcurrency
  /\ semaphore' = semaphore + 1
  /\ running' = running \union {hand[w]}
  /\ hand' = [hand EXCEPT ![w] = None]
  /\ worker' = [worker EXCEPT ![w] = "check"]
  /\ UNCHANGED <<queues, processed, stop, accepted>>

\* Slip: the slot is not given back.
ProcessKeepsSlot(r) ==
  /\ r \in running
  /\ running' = running \ {r}
  /\ processed' = processed \union {r}
  /\ UNCHANGED <<queues, worker, hand, semaphore, stop, accepted>>

\* processor.Process(r) returns, and the deferred receive frees the slot.
Process(r) ==
  /\ r \in running
  /\ running' = running \ {r}
  /\ processed' = processed \union {r}
  /\ semaphore' = semaphore - 1
  /\ UNCHANGED <<queues, worker, hand, stop, accepted>>

\* s.cancel() ...
Stop ==
  /\ stop = "no"
  /\ stop' = "waiting"
  /\ UNCHANGED <<queues, worker, hand, semaphore, running, processed, accepted>>

\* Slip: Stop does not wait for the workers.
StopReturnsAtOnce ==
  /\ stop = "waiting"
  /\ stop' = "returned"
  /\ UNCHANGED <<queues, worker, hand, semaphore, running, processed, accepted>>

\* ... and s.wg.Wait(): for the workers, not for what they started.
StopReturns ==
  /\ stop = "waiting"
  /\ \A w \in Workers : At(w, "gone")
  /\ stop' = "returned"
  /\ UNCHANGED <<queues, worker, hand, semaphore, running, processed, accepted>>

Work(w) == CheckContext(w) \/ Dequeue(w) \/ Idle(w) \/ Acquire(w)

SchedNext ==
  \/ \E w \in Workers : Work(w)
  \/ \E r \in Requests : Process(r)
  \/ Stop \/ StopReturns

\* Goroutines are scheduled, a worker blocked on the semaphore is served in
\* its turn, and Process returns.  Nothing makes anybody call Stop.
SchedFairness ==
  /\ \A w \in Workers : WF_schedVars(Work(w)) /\ SF_schedVars(Acquire(w))
  /\ \A r \in Requests : WF_schedVars(Process(r))
  /\ WF_schedVars(StopReturns)
-----------------------------------------------------------------------------
SchedTypeOK ==
  /\ queues \in [Priority -> Seq(Requests)]
  /\ worker \in [Workers -> {"check", "take", "acquire", "gone"}]
  /\ hand \in [Workers -> Requests \union {None}]
  /\ semaphore \in 0 .. MaxConcurrency
  /\ TotalLength <= MaxQueueLength
  /\ running \subseteq Requests /\ processed \subseteq Requests
  /\ stop \in {"no", "waiting", "returned"}
  /\ accepted \in Seq(Requests)

Submitted(r) == r \in ToSet(accepted)

Queued(r) == r \in ToSet(queues[QueueOf(r)])

InHand(r) == \E w \in Workers : hand[w] = r

\* An accepted request is in exactly one place - its queue, one worker's
\* hand, a running goroutine, or done - and a request that was not accepted
\* is in none: none is dropped or processed twice, whichever workers race.
OnePlace ==
  /\ \A r \in Requests :
       Cardinality({p \in Priority : r \in ToSet(queues[p])})
         + Cardinality({w \in Workers : hand[w] = r})
         + Cardinality({s \in {running, processed} : r \in s})
         = IF Submitted(r) THEN 1 ELSE 0
  /\ TotalLength + Cardinality({w \in Workers : hand[w] # None})
       + Cardinality(running) + Cardinality(processed) = Len(accepted)

\* At most MaxConcurrency requests are processed together, and the slots in
\* use are theirs.
SlotsMatch ==
  Cardinality(running) <= MaxConcurrency /\ semaphore = Cardinality(running)

\* The scheduler's invariant: a request is never lost or doubled between
\* queues, hands and slots, and neither bound is exceeded.
SchedInv == SchedTypeOK /\ OnePlace /\ SlotsMatch

Starts(r) == r \notin running /\ r \in running'

\* Within a priority a request can be overtaken only after a worker has taken
\* it: when a request starts, none that was accepted before it still queues.
OvertakenOnlyInHand ==
  [][\A i, j \in DOMAIN accepted :
       /\ i < j
       /\ QueueOf(accepted[i]) = QueueOf(accepted[j])
       /\ Starts(accepted[j])
       => ~Queued(accepted[i])]_schedVars

\* Once Stop has returned, no request is started any more.  (Those started
\* before may still run: the wait group does not count them.)
StoppedStartsNothing ==
  [][stop = "returned" => \A r \in Requests : ~Starts(r)]_schedVars

\* Stop returns, though a worker may hold a request and wait for a slot.
StopEnds == stop = "waiting" ~> stop = "returned"

\* A request that was accepted is processed, whatever its priority, unless
\* the scheduler is stopped: time and again none is left to process.  (Here the
\* requests are finitely many: an endless stream of higher ones would starve a
\* low one.)
EveryRequestProcessed ==
  []<>(\/ \A r \in Requests : Submitted(r) => r \in processed
       \/ stop # "no")
=============================================================================
