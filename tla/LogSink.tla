------------------------------- MODULE LogSink ------------------------------
(***************************************************************************)
(* What the request log promises to the handlers that write to it          *)
(* (internal/db/sqlite.go), without its channel, its batches or its        *)
(* worker: an accepted record waits, and the records that wait are settled *)
(* in the order they came, each becoming a row or, when the database       *)
(* refuses it, nothing.  The table can be cleared at any time.             *)
(***************************************************************************)
EXTENDS LogBatch

CONSTANT Records

VARIABLES
  pending,  (* accepted records without a fate, in order of acceptance *)
  rows      (* the table request_logs, in order of id *)

vars == <<pending, rows>>

Init == pending = <<>> /\ rows = <<>>

Accept(rec) ==
  /\ pending' = Append(pending, rec)
  /\ UNCHANGED rows

\* The first n records are settled: what is left of them becomes rows.
Settle(n) ==
  /\ pending' = SubSeq(pending, n + 1, Len(pending))
  /\ \E written \in Written(SubSeq(pending, 1, n)) : rows' = rows \o written

Clear ==
  /\ rows' = <<>>
  /\ UNCHANGED pending

Next ==
  \/ \E rec \in Records : Accept(rec)
  \/ \E n \in 1 .. Len(pending) : Settle(n)
  \/ Clear

Spec == Init /\ [][Next]_vars
=============================================================================
