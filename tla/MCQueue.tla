------------------------------- MODULE MCQueue ------------------------------
(* The queue manager with three requests of one account. *)
EXTENDS QueueManager

CONSTANTS h, n1, n2, a1

MCAccountOf == (h :> a1) @@ (n1 :> a1) @@ (n2 :> a1)
=============================================================================
