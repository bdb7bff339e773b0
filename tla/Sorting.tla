------------------------------- MODULE Sorting -------------------------------
(***************************************************************************)
(* The sort that the workflow package writes out twice: each place in turn *)
(* is exchanged with every later one that belongs before it.               *)
(*                                                                         *)
(* before is the order: the pairs <<x, y>> where x belongs before y.       *)
(***************************************************************************)
EXTENDS Naturals, SequencesExt

Exchange(before, q, i, j) ==
  IF <<q[j], q[i]>> \in before THEN [q EXCEPT ![i] = q[j], ![j] = q[i]] ELSE q

FillPlace(before, q, i) ==
  FoldLeft(LAMBDA r, j : Exchange(before, r, i, j), q,
           [n \in 1 .. Len(q) - i |-> i + n])

SortBy(before, q) ==
  FoldLeft(LAMBDA r, i : FillPlace(before, r, i), q, [i \in 1 .. Len(q) |-> i])
=============================================================================
