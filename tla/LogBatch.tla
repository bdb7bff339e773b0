------------------------------- MODULE LogBatch ------------------------------
(* What an insert that may fail makes of a batch of records.               *)
EXTENDS Naturals, Sequences

\* The places of n of m records, in their order.
Places(n, m) ==
  {at \in [1 .. n -> 1 .. m] : \A i, j \in 1 .. n : i < j => at[i] < at[j]}

\* What can be left of a batch when any of its records may be thrown away.
Written(batch) ==
  UNION {{[i \in 1 .. n |-> batch[at[i]]] : at \in Places(n, Len(batch))} :
           n \in 0 .. Len(batch)}
=============================================================================
