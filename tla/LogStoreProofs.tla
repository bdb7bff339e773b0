---------------------------- MODULE LogStoreProofs ---------------------------
(***************************************************************************)
(* No record of the request log is lost or doubled, and the log is written *)
(* in order, whatever the buffer, the batches and the records are.         *)
(***************************************************************************)
EXTENDS LogStore, SequenceTheorems, FiniteSetTheorems, TLAPS

\* The elements of a sequence one longer.
LEMMA AppendElements ==
  ASSUME NEW S, NEW s \in Seq(S), NEW e \in S
  PROVE  /\ ToSet(Append(s, e)) = ToSet(s) \union {e}
         /\ IsInjective(s) /\ e \notin ToSet(s) => IsInjective(Append(s, e))
<1> DEFINE t == Append(s, e)
<1>1. /\ Len(s) \in Nat /\ Len(t) = Len(s) + 1
      /\ DOMAIN s = 1 .. Len(s) /\ DOMAIN t = 1 .. Len(s) + 1
      /\ \A i \in 1 .. Len(s) : t[i] = s[i]
      /\ t[Len(s) + 1] = e
  BY AppendProperties
<1> HIDE DEF t
<1>2. ToSet(t) = ToSet(s) \union {e}
  BY <1>1 DEF ToSet
<1>3. IsInjective(s) /\ e \notin ToSet(s) => IsInjective(t)
  BY <1>1 DEF ToSet, IsInjective
<1> QED BY <1>2, <1>3 DEF t

\* The elements that follow the first of a sequence without repetitions.
LEMMA TailElements ==
  ASSUME NEW S, NEW s \in Seq(S), s # <<>>
  PROVE  /\ Head(s) \in ToSet(s) /\ ToSet(s) = {Head(s)} \union ToSet(Tail(s))
         /\ IsInjective(s) => /\ IsInjective(Tail(s)) 
                              /\ Head(s) \notin ToSet(Tail(s))
<1> DEFINE t == Tail(s)
<1>1. /\ Len(s) \in Nat \ {0} /\ Len(t) = Len(s) - 1
      /\ DOMAIN s = 1 .. Len(s) /\ DOMAIN t = 1 .. Len(s) - 1
      /\ \A i \in 1 .. Len(s) - 1 : t[i] = s[i + 1]
      /\ Head(s) = s[1]
  BY HeadTailProperties
<1> HIDE DEF t
<1>2. ToSet(s) = {Head(s)} \union ToSet(t)
  <2>1. \A i \in 2 .. Len(s) : i - 1 \in DOMAIN t /\ t[i - 1] = s[i]
    BY <1>1
  <2>2. ASSUME NEW i \in DOMAIN s PROVE s[i] \in {Head(s)} \union ToSet(t)
    <3>1. i = 1 \/ i \in 2 .. Len(s)
      BY <1>1
    <3> QED BY <1>1, <2>1, <3>1 DEF ToSet
  <2>3. ASSUME NEW i \in DOMAIN t PROVE t[i] \in ToSet(s)
    <3>1. i + 1 \in DOMAIN s /\ t[i] = s[i + 1]
      BY <1>1
    <3> QED BY <3>1 DEF ToSet
  <2>4. Head(s) \in ToSet(s)
    <3>1. 1 \in DOMAIN s
      BY <1>1
    <3> QED BY <1>1, <3>1 DEF ToSet
  <2> QED BY <2>2, <2>3, <2>4 DEF ToSet
<1>3. IsInjective(s) => IsInjective(t)
  BY <1>1 DEF IsInjective
<1>4. IsInjective(s) => Head(s) \notin ToSet(t)
  BY <1>1 DEF IsInjective, ToSet
<1> QED BY <1>2, <1>3, <1>4 DEF t

\* What a concatenation holds, and when it holds nothing twice.
LEMMA ConcatElements ==
  ASSUME NEW S, NEW s \in Seq(S), NEW t \in Seq(S)
  PROVE  /\ ToSet(s \o t) = ToSet(s) \union ToSet(t)
         /\ IsInjective(s) /\ IsInjective(t) /\ ToSet(s) \intersect ToSet(t) = {}
              => IsInjective(s \o t)
<1> DEFINE u == s \o t
<1>1. /\ Len(s) \in Nat /\ Len(t) \in Nat 
      /\ DOMAIN s = 1 .. Len(s) /\ DOMAIN t = 1 .. Len(t) /\ DOMAIN u = 1 .. Len(s) + Len(t)
      /\ \A i \in 1 .. Len(s) : u[i] = s[i]
      /\ \A i \in 1 .. Len(t) : u[Len(s) + i] = t[i]
  BY ConcatProperties
<1>2. \A i \in 1 .. Len(s) + Len(t) :
        i \in 1 .. Len(s) \/ (i - Len(s) \in 1 .. Len(t) /\ i = Len(s) + (i - Len(s)))
  BY <1>1
<1> HIDE DEF u
<1>3. ToSet(u) = ToSet(s) \union ToSet(t)
  <2>1. ASSUME NEW i \in 1 .. Len(t) PROVE t[i] \in ToSet(u)
    <3>1. Len(s) + i \in DOMAIN u
      BY <1>1
    <3> QED BY <1>1, <3>1 DEF ToSet
  <2>2. ASSUME NEW i \in 1 .. Len(s) PROVE s[i] \in ToSet(u)
    <3>1. i \in DOMAIN u
      BY <1>1
    <3> QED BY <1>1, <3>1 DEF ToSet
  <2>3. ASSUME NEW i \in DOMAIN u PROVE u[i] \in ToSet(s) \union ToSet(t)
    <3>1. CASE i \in 1 .. Len(s)
      BY <1>1, <3>1 DEF ToSet
    <3>2. CASE i - Len(s) \in 1 .. Len(t) /\ i = Len(s) + (i - Len(s))
      <4>1. u[i] = t[i - Len(s)] /\ i - Len(s) \in DOMAIN t
        BY <1>1, <3>2
      <4> QED BY <4>1 DEF ToSet
    <3> QED BY <1>1, <1>2, <3>1, <3>2
  <2> QED BY <1>1, <2>1, <2>2, <2>3 DEF ToSet
<1>4. ASSUME IsInjective(s), IsInjective(t), ToSet(s) \intersect ToSet(t) = {},
             NEW i \in DOMAIN u, NEW j \in DOMAIN u, u[i] = u[j]
      PROVE  i = j
  <2>1. CASE i \in 1 .. Len(s) /\ j \in 1 .. Len(s)
    BY <1>1, <1>4, <2>1 DEF IsInjective
  <2>2. CASE i - Len(s) \in 1 .. Len(t) /\ j - Len(s) \in 1 .. Len(t)
    <3>1. u[i] = t[i - Len(s)] /\ u[j] = t[j - Len(s)]
      BY <1>1, <1>2, <2>2
    <3>2. i - Len(s) = j - Len(s)
      BY <1>1, <1>4, <2>2, <3>1 DEF IsInjective
    <3> QED BY <1>1, <3>2
  <2>3. \A k \in DOMAIN u : /\ k \in 1 .. Len(s) => u[k] \in ToSet(s)
                            /\ k - Len(s) \in 1 .. Len(t) => u[k] \in ToSet(t)
    BY <1>1, <1>2 DEF ToSet
  <2> QED BY <1>1, <1>2, <1>4, <2>1, <2>2, <2>3
<1>5. IsInjective(s) /\ IsInjective(t) /\ ToSet(s) \intersect ToSet(t) = {} => IsInjective(u)
  BY <1>4 DEF IsInjective
<1> QED BY <1>3, <1>5 DEF u

\* A sequence without repetitions is as long as the set of its elements is large.
LEMMA InjectiveLength ==
  ASSUME NEW S, NEW s \in Seq(S)
  PROVE  /\ IsFiniteSet(ToSet(s)) /\ ToSet(s) \subseteq S
         /\ IsInjective(s) => Cardinality(ToSet(s)) = Len(s)
<1> DEFINE T == ToSet(s)  D == 1 .. Len(s)
<1>1. IsFiniteSet(D) /\ Cardinality(D) = Len(s)
  <2>1. Len(s) \in Nat
    OBVIOUS
  <2> HIDE DEF D
  <2>2. IsFiniteSet(1 .. Len(s)) /\ Cardinality(1 .. Len(s)) = IF 1 > Len(s) THEN 0 ELSE Len(s) - 1 + 1
    BY <2>1, FS_Interval
  <2> QED BY <2>1, <2>2 DEF D
<1>2. s \in [D -> T] /\ T \subseteq S /\ \A e \in T : \E i \in D : s[i] = e
  BY DEF ToSet
<1>3. s \in Surjection(D, T)
  BY <1>2 DEF Surjection
<1>4. /\ IsFiniteSet(T)
      /\ Cardinality(T) = Cardinality(D) <=> s \in Injection(D, T)
  <2> HIDE DEF T, D
  <2> QED BY <1>1, <1>3, FS_Surjection
<1>5. IsInjective(s) => s \in Injection(D, T)
  BY <1>2 DEF Injection
<1> QED BY <1>1, <1>2, <1>4, <1>5

\* What an insert that may fail leaves of a batch: some of its records, in their
\* order, and the others are the ones that failed (sqlite.go:199).
LEMMA WrittenElements ==
  ASSUME NEW S, NEW seq \in Seq(S), IsInjective(seq), NEW written \in Written(seq)
  PROVE  /\ written \in Seq(S) /\ IsInjective(written)
         /\ ToSet(written) \subseteq ToSet(seq)
         /\ Len(written) + Cardinality(ToSet(seq) \ ToSet(written)) = Len(seq)
<1>0. PICK n \in 0 .. Len(seq) : \E at \in Places(n, Len(seq)) :
            written = [i \in 1 .. n |-> seq[at[i]]]
  BY DEF Written
<1>1. PICK at \in Places(n, Len(seq)) : written = [i \in 1 .. n |-> seq[at[i]]]
  BY <1>0
<1>2. /\ at \in [1 .. n -> 1 .. Len(seq)]
      /\ \A i, j \in 1 .. n : i < j => at[i] < at[j]
  BY DEF Places
<1>3. DOMAIN written = 1 .. n /\ \A i \in 1 .. n : written[i] = seq[at[i]]
  BY <1>1
<1>4. written \in Seq(S)
  BY <1>1, <1>2
<1>5. ToSet(written) \subseteq ToSet(seq)
  BY <1>2, <1>3 DEF ToSet
<1>6. IsInjective(written)
  <2> SUFFICES ASSUME NEW i \in 1 .. n, NEW j \in 1 .. n, written[i] = written[j]
               PROVE  i = j
    BY <1>3 DEF IsInjective
  <2>1. at[i] = at[j]
    <3>1. at[i] \in DOMAIN seq /\ at[j] \in DOMAIN seq /\ seq[at[i]] = seq[at[j]]
      BY <1>2, <1>3
    <3> QED BY <3>1 DEF IsInjective
  <2>2. at[i] \in Nat /\ ~(i < j) /\ ~(j < i)
    BY <2>1, <1>2
  <2> QED BY <2>2
<1>7. /\ Cardinality(ToSet(written)) = Len(written) 
      /\ Cardinality(ToSet(seq)) = Len(seq)
      /\ IsFiniteSet(ToSet(seq))
  BY <1>4, <1>6, InjectiveLength
<1>8. Cardinality(ToSet(seq) \ ToSet(written))
        = Cardinality(ToSet(seq)) - Cardinality(ToSet(written))
  <2>1. ToSet(seq) \intersect ToSet(written) = ToSet(written)
    BY <1>5
  <2>2. Cardinality(ToSet(seq) \ ToSet(written))
          = Cardinality(ToSet(seq)) - Cardinality(ToSet(seq) \intersect ToSet(written))
    BY <1>7, FS_Difference
  <2> QED BY <2>1, <2>2
<1>9. Len(seq) \in Nat /\ Len(written) \in Nat
  BY <1>4
<1> QED BY <1>4, <1>5, <1>6, <1>7, <1>8, <1>9
-----------------------------------------------------------------------------
Apart(A, B) == A \intersect B = {}

\* Each record is in one place and there once, and none entered the channel
\* that no handler has offered.
NoneTwice ==
  /\ IsInjective(queue) /\ IsInjective(batch) /\ IsInjective(rows)
  /\ Apart(ToSet(queue), UNION {ToSet(batch), ToSet(rows), failed, cleared})
  /\ Apart(ToSet(batch), UNION {ToSet(rows), failed, cleared})
  /\ Apart(ToSet(rows), failed \union cleared)
  /\ Apart(failed, cleared)
  /\ ToSet(accepted) \subseteq offered

\* How the worker ends: it drains the channel only after Close, and what was
\* accepted before Close has left it by the time of the last flush.
Shutdown ==
  /\ due \subseteq ToSet(accepted)
  /\ store = "open" => worker \in {"collect", "flush"}
  /\ store = "closed" => worker = "gone"
  /\ worker \in {"lastFlush", "gone"} => Apart(due, ToSet(queue))
  /\ worker = "gone" => batch = <<>>

IInv == TypeOK /\ OneFate /\ NoneTwice /\ Shutdown

\* The inductive invariant implies the one that the run checks.
LEMMA IInvSuffices == IInv => LogInv
<1> SUFFICES ASSUME IInv PROVE CloseFlushes
  BY DEF IInv, LogInv
<1>1. ToSet(<<>>) = {}
  BY DEF ToSet
<1> QED BY <1>1 DEF IInv, OneFate, Shutdown, CloseFlushes, Apart

\* It holds of a store that has just been opened.
LEMMA InitIInv == Init => IInv
<1> SUFFICES ASSUME Init PROVE IInv
  OBVIOUS
<1>1. ToSet(<<>>) = {} /\ IsInjective(<<>>) /\ Len(<<>>) = 0
  BY DEF ToSet, IsInjective
<1>2. TypeOK
  BY LogAssumption DEF Init, TypeOK
<1>3. OneFate
  BY <1>1, FS_EmptySet DEF Init, OneFate
<1>4. NoneTwice
  BY <1>1 DEF Init, NoneTwice, Apart
<1>5. Shutdown
  BY <1>1 DEF Init, Shutdown, Apart
<1> QED BY <1>2, <1>3, <1>4, <1>5 DEF IInv

\* What typing says of the sets and counts the invariant speaks of.
LEMMA Counts ==
  ASSUME TypeOK
  PROVE  /\ Len(queue) \in Nat /\ Len(batch) \in Nat /\ Len(rows) \in Nat
         /\ IsFiniteSet(failed) /\ IsFiniteSet(cleared)
         /\ Cardinality(failed) \in Nat /\ Cardinality(cleared) \in Nat
<1>1. IsFiniteSet(failed) /\ IsFiniteSet(cleared)
  BY LogAssumption, FS_Subset DEF TypeOK
<1>2. Cardinality(failed) \in Nat /\ Cardinality(cleared) \in Nat
  BY <1>1, FS_CardinalityType
<1> QED BY <1>1, <1>2 DEF TypeOK

\* A record that is not dropped is new, and joins the channel.
LEMMA RecordLogStep ==
  ASSUME IInv, NEW rec \in Records, RecordLog(rec)
  PROVE  IInv'
<1> USE DEF IInv
<1>1. CASE Len(queue) < BufSize
  <2> DEFINE q == Append(queue, rec)  a == Append(accepted, rec)
  <2>1. /\ queue' = q /\ accepted' = a /\ offered' = offered \union {rec}
        /\ rec \notin offered
        /\ UNCHANGED <<batch, worker, rows, store, clears, failed, cleared, due>>
    BY <1>1 DEF RecordLog
  <2>2. /\ q \in Seq(Records) /\ a \in Seq(Records)
        /\ Len(q) = Len(queue) + 1 /\ Len(a) = Len(accepted) + 1
    BY DEF TypeOK
  <2>3. rec \notin ToSet(queue)
    BY <2>1 DEF NoneTwice, OneFate
  <2>4. /\ ToSet(q) = ToSet(queue) \union {rec}
        /\ ToSet(a) = ToSet(accepted) \union {rec}
        /\ IsInjective(q)
    BY <2>3, AppendElements DEF TypeOK, NoneTwice
  <2> HIDE DEF q, a
  <2>5. TypeOK'
    BY <1>1, <2>1, <2>2, LogAssumption DEF TypeOK
  <2>6. OneFate'
    BY <2>1, <2>2, <2>4, Counts DEF OneFate
  <2>7. rec \notin UNION {ToSet(batch), ToSet(rows), failed, cleared, due}
    BY <2>1 DEF NoneTwice, OneFate, Shutdown
  <2>8. NoneTwice'
    BY <2>1, <2>4, <2>7 DEF NoneTwice, Apart
  <2>9. Shutdown'
    BY <2>1, <2>4, <2>7 DEF Shutdown, Apart
  <2> QED BY <2>5, <2>6, <2>8, <2>9
<1>2. CASE ~(Len(queue) < BufSize)
  <2>1. /\ offered' = offered \union {rec}
        /\ UNCHANGED <<queue, accepted, batch, worker, rows, store, clears,
                       failed, cleared, due>>
    BY <1>2 DEF RecordLog
  <2> QED BY <2>1 DEF TypeOK, OneFate, NoneTwice, Shutdown
<1> QED BY <1>1, <1>2

\* The head of the channel moves to the end of the batch.
LEMMA ReceiveStep ==
  ASSUME IInv, Receive
  PROVE  IInv'
<1> USE DEF IInv
<1> DEFINE h == Head(queue)  q == Tail(queue)  b == Append(batch, h)
<1>1. /\ queue # <<>> /\ queue' = q /\ batch' = b
      /\ worker \in {"collect", "drain"}
      /\ worker' \in {"collect", "drain", "flush"}
      /\ worker' # worker => worker = "collect" /\ worker' = "flush"
      /\ UNCHANGED <<rows, store, clears, offered, accepted, failed, cleared, due>>
  BY DEF Receive
<1>2. /\ h \in Records /\ q \in Seq(Records) /\ b \in Seq(Records)
      /\ Len(q) = Len(queue) - 1 /\ Len(b) = Len(batch) + 1
  BY <1>1 DEF TypeOK
<1>3. /\ ToSet(queue) = {h} \union ToSet(q)
      /\ IsInjective(q) /\ h \notin ToSet(q)
  BY <1>1, TailElements DEF TypeOK, NoneTwice
<1>4. h \notin ToSet(batch)
  BY <1>3 DEF NoneTwice, Apart
<1>5. ToSet(b) = ToSet(batch) \union {h} /\ IsInjective(b)
  BY <1>2, <1>4, AppendElements DEF TypeOK, NoneTwice
<1> HIDE DEF h, q, b
<1>6. TypeOK'
  BY <1>1, <1>2, LogAssumption DEF TypeOK
<1>7. OneFate'
  BY <1>1, <1>2, <1>3, <1>5, Counts DEF OneFate
<1>8. NoneTwice'
  BY <1>1, <1>3, <1>5 DEF NoneTwice, Apart
<1>9. Shutdown'
  BY <1>1, <1>3 DEF Shutdown, Apart
<1> QED BY <1>6, <1>7, <1>8, <1>9

\* The batch becomes rows, but for what the database refuses.
LEMMA FlushStep ==
  ASSUME IInv, Flush
  PROVE  IInv'
<1> USE DEF IInv
<1>1. PICK written \in Written(batch) :
        /\ rows' = rows \o written
        /\ failed' = failed \union (ToSet(batch) \ ToSet(written))
  BY DEF Flush
<1> DEFINE refused == ToSet(batch) \ ToSet(written)
<1>2. /\ batch' = <<>> /\ worker \in {"flush", "lastFlush"}
      /\ worker' = IF worker = "flush" THEN "collect" ELSE "gone"
      /\ UNCHANGED <<queue, store, clears, offered, accepted, cleared, due>>
  BY DEF Flush
<1>3. /\ written \in Seq(Records) /\ IsInjective(written)
      /\ ToSet(written) \subseteq ToSet(batch)
      /\ Len(written) + Cardinality(refused) = Len(batch)
  BY WrittenElements DEF TypeOK, NoneTwice
<1>4. /\ rows' \in Seq(Records) /\ Len(rows') = Len(rows) + Len(written)
  BY <1>1, <1>3 DEF TypeOK
<1>5. /\ ToSet(rows') = ToSet(rows) \union ToSet(written)
      /\ IsInjective(rows')
  BY <1>1, <1>3, ConcatElements DEF TypeOK, NoneTwice, Apart
<1>6. /\ IsFiniteSet(refused) /\ refused \subseteq Records
      /\ Cardinality(failed') = Cardinality(failed) + Cardinality(refused)
  <2>1. IsFiniteSet(ToSet(batch)) /\ ToSet(batch) \subseteq Records
    BY InjectiveLength DEF TypeOK
  <2>2. IsFiniteSet(refused) /\ refused \subseteq Records
    BY <2>1, FS_Subset
  <2>3. failed \intersect refused = {}
    BY DEF NoneTwice, Apart
  <2>4. Cardinality(failed \union refused)
          = Cardinality(failed) + Cardinality(refused) - Cardinality({})
    BY <2>2, <2>3, Counts, FS_Union
  <2> HIDE DEF refused
  <2> QED BY <1>1, <2>2, <2>4, Counts, FS_EmptySet, FS_CardinalityType DEF refused
<1>7. ToSet(batch') = {} /\ Len(batch') = 0 /\ IsInjective(batch') 
  BY <1>2 DEF ToSet, IsInjective
<1>8. TypeOK'
  BY <1>1, <1>2, <1>4, <1>6 DEF TypeOK
<1>9. OneFate'
  <2>1. ToSet(rows') \union failed' = UNION {ToSet(batch), ToSet(rows), failed}
    BY <1>1, <1>3, <1>5
  <2>2. Len(written) \in Nat /\ Cardinality(refused) \in Nat
    BY <1>3, <1>6, FS_CardinalityType
  <2>3. Len(rows') + Cardinality(failed') = Len(batch) + Len(rows) + Cardinality(failed)
    <3>1. /\ Len(batch) \in Nat /\ Len(rows) \in Nat
          /\ Cardinality(failed) \in Nat
      BY Counts
    <3> HIDE DEF refused
    <3> QED BY <1>3, <1>4, <1>6, <2>2, <3>1
  <2>4. Len(rows') \in Nat /\ Cardinality(failed') \in Nat
    BY <1>4, <1>6, <2>2, Counts
  <2> QED BY <1>2, <1>7, <2>1, <2>3, <2>4, Counts DEF OneFate
<1>10. NoneTwice'
  BY <1>1, <1>2, <1>3, <1>5, <1>7 DEF NoneTwice, Apart
<1>11. Shutdown'
  BY <1>2 DEF Shutdown, Apart
<1> QED BY <1>8, <1>9, <1>10, <1>11

\* The table's records are deleted.
LEMMA ClearLogsStep ==
  ASSUME IInv, ClearLogs
  PROVE  IInv'
<1> USE DEF IInv
<1>1. /\ rows' = <<>> /\ cleared' = cleared \union ToSet(rows)
      /\ clears' = clears + 1 /\ clears < MaxClears
      /\ UNCHANGED <<queue, batch, worker, store, offered, accepted, failed, due>>
  BY DEF ClearLogs
<1>2. ToSet(rows') = {} /\ Len(rows') = 0 /\ IsInjective(rows') 
  BY <1>1 DEF ToSet, IsInjective
<1>3. /\ IsFiniteSet(ToSet(rows)) /\ ToSet(rows) \subseteq Records
      /\ Cardinality(ToSet(rows)) = Len(rows)
  BY InjectiveLength DEF TypeOK, NoneTwice
<1>4. Cardinality(cleared') = Cardinality(cleared) + Len(rows)
  <2>1. cleared \intersect ToSet(rows) = {}
    BY DEF NoneTwice, Apart
  <2>2. Cardinality(cleared \union ToSet(rows))
          = Cardinality(cleared) + Cardinality(ToSet(rows)) - Cardinality({})
    BY <1>3, <2>1, Counts, FS_Union
  <2> QED BY <1>1, <1>3, <2>2, Counts, FS_EmptySet
<1>5. TypeOK'
  BY <1>1, <1>3, LogAssumption DEF TypeOK
<1>6. OneFate'
  BY <1>1, <1>2, <1>4, Counts DEF OneFate
<1>7. NoneTwice'
  BY <1>1, <1>2 DEF NoneTwice, Apart
<1>8. Shutdown'
  BY <1>1 DEF Shutdown, Apart
<1> QED BY <1>5, <1>6, <1>7, <1>8

\* The other steps move nothing: they only bring the worker or the store on.
LEMMA ShutdownSteps ==
  ASSUME IInv,
         TickerFires \/ StartDrain \/ EndDrain \/ Close \/ CloseReturns \/ Exit
  PROVE  IInv'
<1> USE DEF IInv
<1>1. /\ UNCHANGED <<queue, batch, rows, clears, offered, accepted, failed, cleared>>
      /\ worker' \in {"collect", "drain", "flush", "lastFlush", "gone"}
      /\ store' \in {"open", "closing", "closed", "exited"}
      /\ due' \in {due, ToSet(accepted)}
  BY DEF TickerFires, StartDrain, EndDrain, Close, CloseReturns, Exit, TypeOK
<1>2. ToSet(accepted) \subseteq Records
  BY InjectiveLength DEF TypeOK
<1>3. TypeOK'
  BY <1>1, <1>2 DEF TypeOK
<1>4. OneFate' /\ NoneTwice'
  BY <1>1 DEF OneFate, NoneTwice
<1>5. ToSet(<<>>) = {}
  BY DEF ToSet
<1>6. Shutdown'
  BY <1>1, <1>5 DEF Shutdown, Apart, TickerFires, StartDrain, EndDrain, Close, CloseReturns, Exit
<1> QED BY <1>3, <1>4, <1>6

\* Every step keeps it: each action has its lemma above.
LEMMA IInvStep == IInv /\ [Next]_vars => IInv'
<1> SUFFICES ASSUME IInv, [Next]_vars PROVE IInv'
  OBVIOUS
<1>1. CASE UNCHANGED vars
  BY <1>1 DEF vars, IInv, TypeOK, OneFate, NoneTwice, Shutdown
<1> QED BY <1>1, RecordLogStep, ReceiveStep, FlushStep, ClearLogsStep, ShutdownSteps
        DEF Next, Worker

\* An accepted record is in exactly one place from the moment it enters the
\* channel, and when Close returns each one accepted before has met its fate:
\* batches, clearing, failing inserts and handlers that write after Close lose
\* and double nothing (sqlite.go:121-230).
THEOREM LogKeepsRecords == Spec => []LogInv
BY InitIInv, IInvStep, IInvSuffices, PTL DEF Spec
-----------------------------------------------------------------------------
(* The store implements LogSink. *)

\* What a handler writes is accepted, or dropped because the channel is full.
LEMMA RecordLogAccepts ==
  ASSUME IInv, NEW rec \in Records, RecordLog(rec)
  PROVE  [Sink!Next]_Sink!vars
<1>1. CASE Len(queue) < BufSize
  <2>1. batch \o Append(queue, rec) = Append(batch \o queue, rec)
    BY DEF IInv, TypeOK
  <2> QED BY <1>1, <2>1 DEF RecordLog, Sink!Accept, Sink!Next
<1>2. CASE ~(Len(queue) < BufSize)
  BY <1>2 DEF RecordLog, Sink!vars
<1> QED BY <1>1, <1>2

\* The worker's receiving changes neither the order nor what waits.
LEMMA ReceiveStutters ==
  ASSUME IInv, Receive
  PROVE  UNCHANGED Sink!vars
<1>1. queue \in Seq(Records) /\ queue # <<>> /\ batch \in Seq(Records)
  BY DEF Receive, IInv, TypeOK
<1>2. Append(batch, Head(queue)) \o Tail(queue) = batch \o queue
  BY <1>1
<1> QED BY <1>2 DEF Receive, Sink!vars

\* A flush settles the whole batch, and nothing when the batch is empty.
LEMMA FlushSettles ==
  ASSUME IInv, Flush
  PROVE  [Sink!Next]_Sink!vars
<1> DEFINE pending == batch \o queue  n == Len(batch)
<1>1. PICK written \in Written(batch) : rows' = rows \o written
  BY DEF Flush
<1>2. batch' = <<>> /\ queue' = queue
  BY DEF Flush
<1>3. batch \in Seq(Records) /\ queue \in Seq(Records) /\ rows \in Seq(Records)
  BY DEF IInv, TypeOK
<1>4. CASE batch = <<>>
  <2>1. /\ written \in Seq(Records) /\ IsInjective(written)
        /\ ToSet(written) \subseteq ToSet(batch)
    BY <1>3, WrittenElements DEF IInv, NoneTwice
  <2>2. ToSet(written) = {}
    BY <1>4, <2>1 DEF ToSet
  <2>3. Len(written) = 0
    BY <2>1, <2>2, InjectiveLength, FS_EmptySet
  <2> QED BY <1>1, <1>2, <1>3, <1>4, <2>1, <2>3 DEF Sink!vars
<1>5. CASE batch # <<>>
  <2>1. n \in 1 .. Len(pending)
    BY <1>3, <1>5
  <2>2. SubSeq(pending, 1, n) = batch
    BY <1>3
  <2>3. SubSeq(pending, n + 1, Len(pending)) = queue
    BY <1>3
  <2>4. <<>> \o queue = queue
    BY <1>3
  <2>5. Written(batch) = Sink!Written(batch)
    BY DEF Written, Sink!Written, Places, Sink!Places
  <2>6. Sink!Settle(n)
    BY <1>1, <1>2, <2>2, <2>3, <2>4, <2>5 DEF Sink!Settle
  <2> QED BY <2>1, <2>6 DEF Sink!Next
<1> QED BY <1>4, <1>5

\* Rows come in the order in which the handlers' records were accepted, however
\* the worker cuts them into batches and whenever the log is cleared or closed.
THEOREM StoreImplementsSink == Spec => ImplementsSink
<1>1. Init => Sink!Init
  BY DEF Init, Sink!Init
<1>2. IInv /\ [Next]_vars => [Sink!Next]_Sink!vars
  <2> SUFFICES ASSUME IInv, [Next]_vars PROVE [Sink!Next]_Sink!vars
    OBVIOUS
  <2>1. CASE ClearLogs
    BY <2>1 DEF ClearLogs, Sink!Clear, Sink!Next
  <2>2. CASE TickerFires \/ StartDrain \/ EndDrain \/ Close \/ CloseReturns
             \/ Exit \/ UNCHANGED vars
    BY <2>2 DEF TickerFires, StartDrain, EndDrain, Close, CloseReturns, Exit,
                vars, Sink!vars
  <2> QED BY <2>1, <2>2, RecordLogAccepts, ReceiveStutters, FlushSettles
          DEF Next, Worker
<1> QED BY <1>1, <1>2, InitIInv, IInvStep, PTL DEF Spec, ImplementsSink, Sink!Spec
=============================================================================
