------------------------------ MODULE MCWorkflow ----------------------------
(* Two tasks of different priorities, two workers, one agent. *)
EXTENDS Workflow

CONSTANTS t1, t2, a1

MCPriority == (t1 :> 1) @@ (t2 :> 2)
MCTypeOf == (t1 :> "account_rotation") @@ (t2 :> "protocol_document")
MCAgentKinds == (a1 :> "auth")

\* The task manager's sort of four tasks with priorities up to 3 gives all four,
\* none before one of a higher priority.
ASSUME SortAgrees ==
  \A rank \in [1 .. 4 -> 1 .. 3] :
    LET q == SortByPriority(rank, <<1, 2, 3, 4>>)
    IN  ToSet(q) = 1 .. 4 /\ \A i, j \in 1 .. 4 : i < j => rank[q[i]] >= rank[q[j]]
=============================================================================
