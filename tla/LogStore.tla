------------------------------ MODULE LogStore ------------------------------
(***************************************************************************)
(* The request log (internal/db/sqlite.go): handlers hand records to a     *)
(* buffered channel without ever waiting, one worker collects them into    *)
(* batches and writes a batch when it is full, at each tick of 200ms, and  *)
(* once more after Close has asked it to stop.  The process may also go    *)
(* away at any moment: main ends in os.Exit and handles no signal          *)
(* (cmd/trae-proxy/main.go:350-353).                                       *)
(*                                                                         *)
(* accepted, failed, cleared and due are history.                          *)
(***************************************************************************)
EXTENDS LogBatch, FiniteSets, SequencesExt

CONSTANTS
  Records,    (* the records the handlers write, each at most once *)
  BufSize,    (* capacity of logChan: 2000 in the code *)
  BatchSize,  (* the worker writes a batch of this size: 50 in the code *)
  MaxClears   (* bound: how often the log is cleared *)

ASSUME LogAssumption ==
  /\ IsFiniteSet(Records)
  /\ BufSize \in Nat \ {0}
  /\ BatchSize \in Nat \ {0}
  /\ MaxClears \in Nat

VARIABLES
  queue,     (* logChan *)
  batch,     (* the worker's batch *)
  worker,    (* "collect", "drain", or where flush was called; "gone" *)
  rows,      (* the table request_logs *)
  store,     (* "open", "closing" (closeChan is closed), "closed", "exited" *)
  clears,    (* number of ClearLogs so far *)
  offered,   (* the records RecordLog has been called with *)
  accepted,  (* the records that entered the channel, in order *)
  failed,    (* records a failed insert has thrown away *)
  cleared,   (* records deleted by ClearLogs *)
  due        (* records accepted before Close was called *)

vars == <<queue, batch, worker, rows, store, clears, offered, accepted,
          failed, cleared, due>>

Init ==
  /\ queue = <<>> /\ batch = <<>> /\ rows = <<>> /\ accepted = <<>>
  /\ worker = "collect"
  /\ store = "open"
  /\ clears = 0
  /\ offered = {} /\ failed = {} /\ cleared = {} /\ due = {}

Alive == store # "exited"

\* A handler, in the middle of serving a request; nothing stops it when the
\* store is closed.
RecordLog(rec) ==
  /\ Alive
  /\ rec \notin offered
  /\ offered' = offered \union {rec}
  /\ IF Len(queue) < BufSize
     THEN queue' = Append(queue, rec) /\ accepted' = Append(accepted, rec)
     ELSE UNCHANGED <<queue, accepted>>
  /\ UNCHANGED <<batch, worker, rows, store, clears, failed, cleared, due>>

\* Slip: the newest record goes first.
ReceiveInFront ==
  /\ Alive
  /\ worker \in {"collect", "drain"}
  /\ queue # <<>>
  /\ batch' = <<Head(queue)>> \o batch
  /\ queue' = Tail(queue)
  /\ worker' = IF worker = "collect" /\ Len(batch') >= BatchSize
               THEN "flush" ELSE worker
  /\ UNCHANGED <<rows, store, clears, offered, accepted, failed, cleared, due>>

\* The worker receives from logChan; select may do so after closeChan closes.
Receive ==
  /\ Alive
  /\ worker \in {"collect", "drain"}
  /\ queue # <<>>
  /\ batch' = Append(batch, Head(queue))
  /\ queue' = Tail(queue)
  /\ worker' = IF worker = "collect" /\ Len(batch') >= BatchSize
               THEN "flush" ELSE worker
  /\ UNCHANGED <<rows, store, clears, offered, accepted, failed, cleared, due>>

\* Slip: the ticker, too, waits for a full batch.
TickerFiresWhenFull ==
  /\ Alive
  /\ worker = "collect"
  /\ Len(batch) >= BatchSize
  /\ worker' = "flush"
  /\ UNCHANGED <<queue, batch, rows, store, clears, offered, accepted, failed,
                 cleared, due>>

TickerFires ==
  /\ Alive
  /\ worker = "collect"
  /\ batch # <<>>
  /\ worker' = "flush"
  /\ UNCHANGED <<queue, batch, rows, store, clears, offered, accepted, failed,
                 cleared, due>>

\* Slip: on closeChan the batch is written but the channel is not drained.
StartLastFlush ==
  /\ Alive
  /\ worker = "collect"
  /\ store = "closing"
  /\ worker' = "lastFlush"
  /\ UNCHANGED <<queue, batch, rows, store, clears, offered, accepted, failed,
                 cleared, due>>

\* <-s.closeChan
StartDrain ==
  /\ Alive
  /\ worker = "collect"
  /\ store = "closing"
  /\ worker' = "drain"
  /\ UNCHANGED <<queue, batch, rows, store, clears, offered, accepted, failed,
                 cleared, due>>

\* Slip: the worker leaves the drain only with something to write.
EndDrainIfAny ==
  /\ Alive
  /\ worker = "drain"
  /\ queue = <<>>
  /\ batch # <<>>
  /\ worker' = "lastFlush"
  /\ UNCHANGED <<queue, batch, rows, store, clears, offered, accepted, failed,
                 cleared, due>>

\* The channel is found empty: flush what was collected, then return.
EndDrain ==
  /\ Alive
  /\ worker = "drain"
  /\ queue = <<>>
  /\ worker' = "lastFlush"
  /\ UNCHANGED <<queue, batch, rows, store, clears, offered, accepted, failed,
                 cleared, due>>

\* insertBatch and batch = nil: one transaction, in which any insert may fail
\* by itself, and which may fail as a whole.  Errors are not reported.
Flush ==
  /\ Alive
  /\ worker \in {"flush", "lastFlush"}
  /\ \E written \in Written(batch) :
       /\ rows' = rows \o written
       /\ failed' = failed \union (ToSet(batch) \ ToSet(written))
  /\ batch' = <<>>
  /\ worker' = IF worker = "flush" THEN "collect" ELSE "gone"
  /\ UNCHANGED <<queue, store, clears, offered, accepted, cleared, due>>

\* Close: close(closeChan) ...
Close ==
  /\ store = "open"
  /\ store' = "closing"
  /\ due' = ToSet(accepted)
  /\ UNCHANGED <<queue, batch, worker, rows, clears, offered, accepted, failed,
                 cleared>>

\* ... wg.Wait, db.Close.
CloseReturns ==
  /\ store = "closing"
  /\ worker = "gone"
  /\ store' = "closed"
  /\ UNCHANGED <<queue, batch, worker, rows, clears, offered, accepted, failed,
                 cleared, due>>

\* The logs page asks for an empty table.
ClearLogs ==
  /\ store \in {"open", "closing"}
  /\ clears < MaxClears
  /\ clears' = clears + 1
  /\ rows' = <<>>
  /\ cleared' = cleared \union ToSet(rows)
  /\ UNCHANGED <<queue, batch, worker, store, offered, accepted, failed, due>>

\* os.Exit, or a signal.
Exit ==
  /\ Alive
  /\ store' = "exited"
  /\ UNCHANGED <<queue, batch, worker, rows, clears, offered, accepted, failed,
                 cleared, due>>

Worker == Receive \/ TickerFires \/ StartDrain \/ EndDrain \/ Flush

Next ==
  \/ \E rec \in Records : RecordLog(rec)
  \/ Worker \/ Close \/ CloseReturns \/ ClearLogs \/ Exit

Spec == Init /\ [][Next]_vars

\* The worker goroutine is scheduled and its ticker fires; Close returns when
\* it can.  Nothing makes a handler write, or anybody close the store.
FairSpec == Spec /\ WF_vars(Worker) /\ WF_vars(CloseReturns)
-----------------------------------------------------------------------------
TypeOK ==
  /\ queue \in Seq(Records) /\ Len(queue) <= BufSize
  /\ batch \in Seq(Records)
  /\ worker \in {"collect", "drain", "flush", "lastFlush", "gone"}
  /\ rows \in Seq(Records)
  /\ store \in {"open", "closing", "closed", "exited"}
  /\ clears \in 0 .. MaxClears
  /\ offered \subseteq Records
  /\ accepted \in Seq(Records)
  /\ failed \subseteq Records /\ cleared \subseteq Records
  /\ due \subseteq Records

\* No accepted record is written twice or forgotten: it is in the channel, in
\* the batch, a row, deleted with the table, or refused by the database, and
\* in one of these places only.
OneFate ==
  /\ ToSet(accepted) = UNION {ToSet(queue), ToSet(batch), ToSet(rows), failed,
                              cleared}
  /\ Len(accepted) = Len(queue) + Len(batch) + Len(rows) + Cardinality(failed)
                       + Cardinality(cleared)

\* When Close returns, every record accepted before Close was called has met
\* its fate: nothing is left behind in the channel or the batch.
CloseFlushes ==
  store = "closed" => due \subseteq UNION {ToSet(rows), failed, cleared}

\* The store's invariant: types, and no record lost or doubled on any way
\* through the channel, the batch, the shutdown and the database.
LogInv == TypeOK /\ OneFate /\ CloseFlushes

\* Rows come in the order in which the handlers' records were accepted, and
\* an accepted record that is not yet settled is written after those that are.
Sink == INSTANCE LogSink WITH pending <- batch \o queue

ImplementsSink == Sink!Spec

\* As long as the process lives and the store is open, every accepted record
\* is settled, full batch or not.
EventuallySettled ==
  \A rec \in Records :
    rec \in ToSet(queue \o batch) ~> \/ rec \notin ToSet(queue \o batch)
                                     \/ store \in {"closed", "exited"}

\* Close does not wait forever.
CloseEnds == store = "closing" ~> store \in {"closed", "exited"}

=============================================================================
