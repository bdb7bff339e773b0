-------------------------------- MODULE Agents ------------------------------
(***************************************************************************)
(* What the agents (internal/agent) do with a task: which job each type of *)
(* task means to them, and how a job can end.  The jobs only simulate      *)
(* their work; what the rest of the program sees of one is the agent's     *)
(* state, and whether it publishes an event when it is done.  Every Run    *)
(* sets the state to running, recovers from a panic, leaves the state      *)
(* completed or failed, and returns nil.                                   *)
(***************************************************************************)
EXTENDS Naturals

Ending == {"announced", "silent", "panicked"}

\* A task type that is none of an agent's own is done as its default job.
Job(types, default, type) == IF type \in types THEN type ELSE default

APIJob(type) == Job({"api_server", "api_middleware"}, "api_routes", type)

AuthJob(type) == Job({"token_refresh", "account_rotation"}, "token_generate", type)

ProtocolJob(type) == Job({"protocol_capture", "protocol_document"}, "protocol_analyze", type)

QueueJob(type) == Job({"queue_ratelimit", "queue_circuit"}, "queue_schedule", type)

TestJob(type) == Job({"test_integration", "test_performance", "test_qa"}, "test_unit", type)

\* Two jobs of the auth agent say nothing when they find nothing to do, and the
\* documentation job never says anything.
JobEndings(job) ==
  CASE job \in {"token_refresh", "account_rotation"} -> {"announced", "silent"}
    [] job = "protocol_document" -> {"silent"}
    [] OTHER -> {"announced"}

Run(kind, type) ==
  {"panicked"} \union JobEndings(
    CASE kind = "api" -> APIJob(type)
      [] kind = "auth" -> AuthJob(type)
      [] kind = "protocol" -> ProtocolJob(type)
      [] kind = "queue" -> QueueJob(type)
      [] kind = "test" -> TestJob(type))
=============================================================================
