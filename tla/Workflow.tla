------------------------------- MODULE Workflow -----------------------------
(***************************************************************************)
(* The workflow engine (internal/workflow/engine.go) with its task manager *)
(* (task_manager.go) and the goroutines the event bus (event_bus.go) runs  *)
(* the engine's handlers in.                                               *)
(*                                                                         *)
(* schedulePendingTasks puts an idle agent into agentQueue for each        *)
(* pending task, holding e.mu for reading; it never says which task, so    *)
(* all that a round has still to do is a number, and rounds under way      *)
(* together are one number: sends.  A worker takes an agent, asks for the  *)
(* next pending task, assigns it and runs the agent, in four steps, and    *)
(* other workers and the users of the task manager get in between.         *)
(*                                                                         *)
(* The engine asks of a task's status only whether it is pending, and of   *)
(* an agent's state only whether it is idle: the other statuses are one    *)
(* here ("other"), and the states completed and failed ("done").           *)
(***************************************************************************)
EXTENDS Agents, Sorting, FiniteSets

CONSTANTS
  Tasks, Priority, TypeOf, (* the tasks, with their priorities and types *)
  AgentKinds,              (* the kind of each registered agent *)
  Workers,                 (* MaxConcurrentAgents goroutines *)
  QueueCap,                (* capacity of agentQueue *)
  MaxStarts,  (* bound: calls of Start *)
  MaxWakeups, (* bound: handlers under way *)
  MaxSends,   (* bound: sends that rounds have still to do *)
  None

AgentIDs == DOMAIN AgentKinds

ASSUME WorkflowAssumption ==
  /\ IsFiniteSet(Tasks) /\ IsFiniteSet(Workers) /\ IsFiniteSet(AgentIDs)
  /\ Priority \in [Tasks -> Nat]
  /\ QueueCap \in Nat /\ MaxStarts \in Nat
  /\ MaxWakeups \in Nat /\ MaxSends \in Nat
  /\ None \notin Tasks \union AgentIDs

VARIABLES
  status,     (* task.Status: "pending" or "other"; "none" before CreateTask *)
  queue,      (* tm.queue *)
  agentState, (* GetStatus of each agent *)
  agentQueue,
  sends,      (* sends that rounds of schedulePendingTasks have still to do *)
  wakeups,    (* handler goroutines that have not begun their round *)
  worker,     (* worker[w]: [pc, agent, task] *)
  scheduler,  (* taskScheduler: "select", "gone", or "starting": not yet begun *)
  isRunning, cancelled, (* e.isRunning; e.ctx is cancelled *)
  stop,       (* the call of Stop: "no", "locking" or "waiting" *)
  starts,     (* calls of Start so far *)
  given       (* history: given[w][t], how often worker w has been given task
                 t since t was last set pending *)

engineVars == <<isRunning, cancelled, stop, starts, scheduler>>
taskVars == <<status, queue>>
vars == <<taskVars, agentState, agentQueue, sends, wakeups, worker, engineVars, given>>

Idle == [pc |-> "select", agent |-> None, task |-> None]
Gone == [Idle EXCEPT !.pc = "gone"]

Init ==
  /\ status = [t \in Tasks |-> "none"] /\ queue = <<>>
  /\ agentState = [a \in AgentIDs |-> "idle"] /\ agentQueue = <<>>
  /\ sends = 0 /\ wakeups = 0
  /\ worker = [w \in Workers |-> Gone] /\ scheduler = "gone"
  /\ isRunning = FALSE /\ cancelled = FALSE /\ stop = "no" /\ starts = 0
  /\ given = [w \in Workers |-> [t \in Tasks |-> 0]]

At(w, pc) == worker[w].pc = pc

\* e.mu is free for a writer: no round holds it for reading.
Writable == sends = 0

Pending == {t \in Tasks : status[t] = "pending"}
-----------------------------------------------------------------------------
(* The task manager. *)

CreateTask(t) ==
  /\ status[t] = "none"
  /\ status' = [status EXCEPT ![t] = "pending"]
  /\ queue' = Append(queue, t)
  /\ UNCHANGED <<agentState, agentQueue, sends, wakeups, worker, engineVars, given>>

\* Anybody sets any status, whatever it was before: CompleteTask, FailTask,
\* PauseTask, ResumeTask and CancelTask one of the others, UpdateTaskStatus
\* itself pending too, which makes the task one to be given out anew.
UpdateTaskStatus(t) ==
  /\ status[t] # "none"
  /\ \E new \in {"pending", "other"} :
       /\ status' = [status EXCEPT ![t] = new]
       /\ given' = IF new = "pending"
                   THEN [w \in Workers |-> [given[w] EXCEPT ![t] = 0]] ELSE given
  /\ UNCHANGED <<queue, agentState, agentQueue, sends, wakeups, worker, engineVars>>

SortByPriority(rank, q) ==
  LET before == {pair \in (DOMAIN rank) \X (DOMAIN rank) : rank[pair[1]] > rank[pair[2]]}
  IN  SortBy(before, q)

\* Slip: a task that is no longer pending is not skipped.
FirstInQueue(q) == IF q = <<>> THEN None ELSE Head(q)

NextPending(q) ==
  IF \E i \in DOMAIN q : status[q[i]] = "pending"
  THEN q[SelectInSeq(q, LAMBDA t : status[t] = "pending")] ELSE None
-----------------------------------------------------------------------------
(* Scheduling. *)

SuitableAgents == {a \in AgentIDs : agentState[a] = "idle"}

\* Slip: the last of the pending tasks is left out.
BeginRoundShort ==
  /\ sends' = IF isRunning /\ Pending # {} THEN sends + Cardinality(Pending) - 1 ELSE sends
  /\ sends' <= MaxSends

\* A round reads what is pending now.
BeginRound ==
  /\ sends' = IF isRunning THEN sends + Cardinality(Pending) ELSE sends
  /\ sends' <= MaxSends

\* The ticker's case of taskScheduler's select, which may be taken though
\* e.ctx is cancelled; the scheduler goes on when its round is over.
Tick ==
  /\ scheduler = "select" /\ sends = 0
  /\ BeginRound
  /\ UNCHANGED <<taskVars, agentState, agentQueue, wakeups, worker, engineVars, given>>

\* handleTaskCreated or handleTaskCompleted, run by the bus.
Wakeup ==
  /\ wakeups > 0 /\ wakeups' = wakeups - 1
  /\ BeginRound
  /\ UNCHANGED <<taskVars, agentState, agentQueue, worker, engineVars, given>>

\* A full queue or the want of an idle agent leaves the task waiting.
Send ==
  /\ sends > 0 /\ sends' = sends - 1
  /\ IF SuitableAgents # {} /\ Len(agentQueue) < QueueCap
     THEN \E a \in SuitableAgents : agentQueue' = Append(agentQueue, a)
     ELSE UNCHANGED agentQueue
  /\ UNCHANGED <<taskVars, agentState, wakeups, worker, engineVars, given>>

SchedulerEnds ==
  /\ scheduler = "select" /\ cancelled /\ sends = 0
  /\ scheduler' = "gone"
  /\ UNCHANGED <<taskVars, agentState, agentQueue, sends, wakeups, worker,
                 isRunning, cancelled, stop, starts, given>>
-----------------------------------------------------------------------------
(* The workers. *)

\* The case of the select that takes an agent ...
TakeAgent(w) ==
  /\ At(w, "select") /\ agentQueue # <<>>
  /\ worker' = [worker EXCEPT ![w] = [Idle EXCEPT !.pc = "next", !.agent = Head(agentQueue)]]
  /\ agentQueue' = Tail(agentQueue)
  /\ UNCHANGED <<taskVars, agentState, sends, wakeups, engineVars, given>>

\* ... and the one that ends the worker; with both ready either may be taken.
WorkerEnds(w) ==
  /\ At(w, "select") /\ cancelled
  /\ worker' = [worker EXCEPT ![w] = Gone]
  /\ UNCHANGED <<taskVars, agentState, agentQueue, sends, wakeups, engineVars, given>>

GetNextPendingTask(w) ==
  /\ At(w, "next")
  /\ queue' = SortByPriority(Priority, queue)
  /\ worker' = [worker EXCEPT ![w] =
       IF NextPending(queue') = None THEN Idle
       ELSE [@ EXCEPT !.pc = "assign", !.task = NextPending(queue')]]
  /\ given' = IF NextPending(queue') = None THEN given
              ELSE [given EXCEPT ![w][NextPending(queue')] = @ + 1]
  /\ UNCHANGED <<status, agentState, agentQueue, sends, wakeups, engineVars>>

\* Slip: the task is noted as the agent's, and stays pending.
AssignKeepsPending(w) ==
  /\ At(w, "assign")
  /\ worker' = [worker EXCEPT ![w].pc = "start"]
  /\ UNCHANGED <<taskVars, agentState, agentQueue, sends, wakeups, engineVars, given>>

\* AssignTask asks for no status before: another worker may have been given the
\* task too, and it may have been cancelled.
AssignTask(w) ==
  /\ At(w, "assign")
  /\ status' = [status EXCEPT ![worker[w].task] = "other"]
  /\ worker' = [worker EXCEPT ![w].pc = "start"]
  /\ UNCHANGED <<queue, agentState, agentQueue, sends, wakeups, engineVars, given>>

\* The agent's Run begins, whatever state the agent is in by now.
StartAgent(w) ==
  /\ At(w, "start")
  /\ agentState' = [agentState EXCEPT ![worker[w].agent] = "running"]
  /\ worker' = [worker EXCEPT ![w].pc = "run"]
  /\ UNCHANGED <<taskVars, agentQueue, sends, wakeups, engineVars, given>>

\* Run returns; no agent returns an error, so FailTask is never called.  The
\* task stays as it is, and an announced end wakes the engine.
AgentEnds(w) ==
  /\ At(w, "run")
  /\ \E ending \in Run(AgentKinds[worker[w].agent], TypeOf[worker[w].task]) :
       /\ agentState' = [agentState EXCEPT ![worker[w].agent] = "done"]
       /\ wakeups' = IF ending = "announced" /\ wakeups < MaxWakeups
                     THEN wakeups + 1 ELSE wakeups
  /\ worker' = [worker EXCEPT ![w] = Idle]
  /\ UNCHANGED <<taskVars, agentQueue, sends, engineVars, given>>
-----------------------------------------------------------------------------
(* Start and Stop. *)

\* Start notes under e.mu that the engine runs ...  (It is not called while an
\* earlier call of Start or Stop, or what it has started, is still at work.)
Start ==
  /\ Writable /\ ~isRunning /\ stop = "no" /\ starts < MaxStarts
  /\ scheduler = "gone" /\ \A w \in Workers : At(w, "gone")
  /\ isRunning' = TRUE /\ starts' = starts + 1 /\ scheduler' = "starting"
  /\ UNCHANGED <<taskVars, agentState, agentQueue, sends, wakeups, worker,
                 cancelled, stop, given>>

\* ... and starts the goroutines without it: a Stop in between finds nothing to
\* wait for.  After a Stop e.ctx stays cancelled, and they soon end.
StartWorkers ==
  /\ scheduler = "starting" /\ scheduler' = "select"
  /\ worker' = [w \in Workers |-> Idle]
  /\ UNCHANGED <<taskVars, agentState, agentQueue, sends, wakeups,
                 isRunning, cancelled, stop, starts, given>>

\* Slip: Stop does not cancel e.ctx.
StopWithoutCancel ==
  /\ Writable /\ isRunning /\ stop = "no"
  /\ isRunning' = FALSE /\ stop' = "waiting"
  /\ UNCHANGED <<taskVars, agentState, agentQueue, sends, wakeups, worker,
                 cancelled, starts, scheduler, given>>

Stop ==
  /\ Writable /\ isRunning /\ stop = "no"
  /\ isRunning' = FALSE /\ cancelled' = TRUE /\ stop' = "waiting"
  /\ UNCHANGED <<taskVars, agentState, agentQueue, sends, wakeups, worker,
                 starts, scheduler, given>>

\* e.wg.Wait()
StopReturns ==
  /\ stop = "waiting"
  /\ scheduler # "select" /\ \A w \in Workers : At(w, "gone")
  /\ stop' = "no"
  /\ UNCHANGED <<taskVars, agentState, agentQueue, sends, wakeups, worker,
                 isRunning, cancelled, starts, scheduler, given>>

Work(w) ==
  \/ TakeAgent(w) \/ GetNextPendingTask(w) \/ AssignTask(w) \/ StartAgent(w)
  \/ AgentEnds(w)

Next ==
  \/ \E t \in Tasks : CreateTask(t) \/ UpdateTaskStatus(t)
  \/ Tick \/ Wakeup \/ Send \/ SchedulerEnds
  \/ \E w \in Workers : Work(w) \/ WorkerEnds(w)
  \/ Start \/ StartWorkers \/ Stop \/ StopReturns

Spec == Init /\ [][Next]_vars

(***************************************************************************)
(* Goroutines are scheduled, the ticker ticks, a Run returns, and a select *)
(* that finds both its channels ready again and again takes each of them   *)
(* some time.  Nothing makes anybody create, start or stop anything.       *)
(***************************************************************************)
FairSpec ==
  /\ Spec
  /\ WF_vars(Send) /\ WF_vars(Tick) /\ WF_vars(Wakeup)
  /\ WF_vars(StartWorkers) /\ WF_vars(StopReturns)
  /\ SF_vars(SchedulerEnds)
  /\ \A w \in Workers : SF_vars(TakeAgent(w)) /\ WF_vars(Work(w)) /\ SF_vars(WorkerEnds(w))
-----------------------------------------------------------------------------
WorkerState ==
  [pc : {"select", "next", "assign", "start", "run", "gone"},
   agent : AgentIDs \union {None}, task : Tasks \union {None}]

WorkflowTypeOK ==
  /\ worker \in [Workers -> WorkerState]
  /\ agentState \in [AgentIDs -> {"idle", "running", "done"}]
  /\ agentQueue \in Seq(AgentIDs) /\ Len(agentQueue) <= QueueCap
  /\ ToSet(queue) = {t \in Tasks : status[t] # "none"} /\ IsInjective(queue)

(***************************************************************************)
(* Two workers may get the same task, for GetNextPendingTask and           *)
(* AssignTask are two steps; but no worker gets a task twice unless        *)
(* somebody has set it pending again in between, whatever other statuses   *)
(* it is given by anybody, and whenever.                                   *)
(***************************************************************************)
OncePerWorker == \A w \in Workers, t \in Tasks : given[w][t] <= 1

WorkflowInv == WorkflowTypeOK /\ OncePerWorker

\* A worker is given a pending task of the highest priority there is at the
\* moment, in whatever order the tasks were created and sorted before.
HighestPriorityFirst ==
  [][\A w \in Workers :
       At(w, "next") /\ worker'[w].pc = "assign" =>
         /\ worker'[w].task \in Pending
         /\ \A t \in Pending : Priority[t] <= Priority[worker'[w].task]]_vars

\* Stop returns, with rounds, runs and handlers still under way.
StopEnds == stop = "waiting" ~> stop = "no"

\* While the engine runs, a pending task is run or otherwise dealt with, or
\* all agents have been used up: an agent that has run is never idle again.
PendingIsTaken ==
  \A t \in Tasks :
    status[t] = "pending" /\ isRunning /\ ~cancelled ~>
      status[t] # "pending" \/ cancelled \/ SuitableAgents = {}
=============================================================================
