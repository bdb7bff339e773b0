----------------------------- MODULE WorkflowProofs ---------------------------
(***************************************************************************)
(* The workflow package, whatever its tasks, agents, workers and items     *)
(* are.  The sort it writes out twice sorts; on that rest which task the   *)
(* engine hands out next, and what the context manager evicts.             *)
(***************************************************************************)
EXTENDS Workflow, ContextManager, SequenceTheorems, NaturalsInduction,
        FiniteSetTheorems, TLAPS

-----------------------------------------------------------------------------
(* The sort. *)

\* What holds of 0 and is handed on from each number to the next holds up to N.
LEMMA UpTo ==
  ASSUME NEW N \in Nat, NEW T, 0 \in T,
         \A n \in 0 .. N - 1 : n \in T => n + 1 \in T
  PROVE  0 .. N \subseteq T
<1> DEFINE Bad == {n \in Nat : n <= N /\ n \notin T}
           Less == {ss \in Nat \X Nat : ss[1] < ss[2]}
<1> SUFFICES ASSUME Bad # {} PROVE FALSE
  OBVIOUS
<1>1. IsWellFoundedOn(Less, Nat)
  BY NatLessThanWellFounded DEF OpToRel
<1> HIDE DEF Less
<1>2. PICK n \in Bad : \A m \in Bad : ~(<<m, n>> \in Less)
  <2> HIDE DEF Bad
  <2>1. Bad \subseteq Nat
    BY DEF Bad
  <2> QED BY <1>1, <2>1, WFMin
<1>3. n \in 1 .. N /\ n \notin T
  OBVIOUS
<1>4. <<n - 1, n>> \in Less
  BY <1>3 DEF Less
<1>5. n - 1 \in T
  BY <1>2, <1>3, <1>4
<1> QED BY <1>3, <1>5

\* A set of numbers up to n that is not empty has a greatest one.
LEMMA MaxUpTo ==
  ASSUME NEW n \in Nat, NEW s \in SUBSET (1 .. n), s # {}
  PROVE  Max(s) \in s /\ \A y \in s : y <= Max(s)
<1> DEFINE Greatest(t) == \E m \in t : \A y \in t : m >= y
           T == {k \in 0 .. n : \A t \in SUBSET (1 .. k) : t = {} \/ Greatest(t)}
<1>1. 0 \in T
  OBVIOUS
<1>2. ASSUME NEW k \in 0 .. n - 1, k \in T PROVE k + 1 \in T
  <2>1. ASSUME NEW t \in SUBSET (1 .. k + 1) PROVE t = {} \/ Greatest(t)
    <3>1. CASE k + 1 \in t
      BY <3>1
    <3>2. CASE k + 1 \notin t
      <4>1. t \in SUBSET (1 .. k)
        BY <3>2
      <4> QED BY <1>2, <4>1
    <3> QED BY <3>1, <3>2
  <2> QED BY <2>1
<1>3. 0 .. n \subseteq T
  <2> HIDE DEF T
  <2> QED BY <1>1, <1>2, UpTo
<1>4. Greatest(s)
  <2>1. n \in T
    <3> HIDE DEF T
    <3> QED BY <1>3
  <2> QED BY <2>1
<1>5. Max(s) \in s /\ \A y \in s : Max(s) >= y
  BY <1>4 DEF Max
<1> QED BY <1>5

\* The numbers up to n + 1, and the greatest of them.
LEMMA NextPlace ==
  ASSUME NEW N \in Nat, NEW n \in 0 .. N - 1
  PROVE  /\ n + 1 \in 1 .. N /\ (n + 1) - 1 = n
         /\ 1 .. n + 1 # {} /\ 1 .. n + 1 \in SUBSET (1 .. N)
         /\ Max(1 .. n + 1) = n + 1
         /\ (1 .. n + 1) \ {n + 1} = 1 .. n
<1>1. n \in Nat /\ n + 1 \in Nat /\ n + 1 <= N
  OBVIOUS
<1>2. n + 1 \in 1 .. n + 1
  BY <1>1
<1>3. Max(1 .. n + 1) \in 1 .. n + 1 /\ \A y \in 1 .. n + 1 : y <= Max(1 .. n + 1)
  BY <1>1, <1>2, MaxUpTo
<1>4. Max(1 .. n + 1) = n + 1
  BY <1>1, <1>2, <1>3
<1>5. (1 .. n + 1) \ {n + 1} = 1 .. n
  BY <1>1
<1>6. 1 .. n + 1 \in SUBSET (1 .. N)
  BY <1>1
<1> QED BY <1>1, <1>2, <1>4, <1>5, <1>6

\* f solves the recursion of a fold over N places.
Solves(f, N, base, step) ==
  \A s \in SUBSET (1 .. N) :
    f[s] = IF s = {} THEN base ELSE step[Max(s)][f[s \ {Max(s)}]]

\* There is a solution.
LEMMA FoldSolution ==
  ASSUME NEW N \in Nat, NEW V, NEW base \in V, NEW step \in [1 .. N -> [V -> V]]
  PROVE  \E f \in [SUBSET (1 .. N) -> V] : Solves(f, N, base, step)
<1> DEFINE T == {n \in 0 .. N :
                   \E f \in [SUBSET (1 .. n) -> V] : Solves(f, n, base, step)}
<1>1. 0 \in T
  <2>1. [s \in SUBSET (1 .. 0) |-> base] \in [SUBSET (1 .. 0) -> V]
    OBVIOUS
  <2>2. Solves([s \in SUBSET (1 .. 0) |-> base], 0, base, step)
    BY DEF Solves
  <2> QED BY <2>1, <2>2
<1>2. ASSUME NEW n \in 0 .. N - 1, n \in T PROVE n + 1 \in T
  <2>1. PICK f \in [SUBSET (1 .. n) -> V] : Solves(f, n, base, step)
    BY <1>2
  <2> DEFINE g == [s \in SUBSET (1 .. n + 1) |->
                     IF n + 1 \in s THEN step[n + 1][f[s \ {n + 1}]] ELSE f[s]]
  <2>2. \A s \in SUBSET (1 .. n + 1) :
          /\ s \ {n + 1} \in SUBSET (1 .. n)
          /\ n + 1 \notin s => s \in SUBSET (1 .. n)
    OBVIOUS
  <2>3. g \in [SUBSET (1 .. n + 1) -> V]
    <3>1. step[n + 1] \in [V -> V]
      OBVIOUS
    <3> QED BY <2>2, <3>1
  <2>4. ASSUME NEW s \in SUBSET (1 .. n + 1), s # {}
        PROVE  g[s] = step[Max(s)][g[s \ {Max(s)}]]
    <3>1. Max(s) \in s /\ \A y \in s : y <= Max(s)
      <4>1. n + 1 \in Nat
        OBVIOUS
      <4> HIDE DEF g
      <4> QED BY <2>4, <4>1, MaxUpTo
    <3>2. CASE n + 1 \in s
      <4>1. Max(s) = n + 1
        <5> HIDE DEF g, T
        <5>1. Max(s) \in 1 .. n + 1
          BY <3>1
        <5>2. n + 1 <= Max(s)
          BY <3>1, <3>2
        <5> QED BY <5>1, <5>2
      <4>2. g[s] = step[n + 1][f[s \ {n + 1}]]
        BY <3>2
      <4>3. g[s \ {n + 1}] = f[s \ {n + 1}]
        BY <2>2
      <4> QED BY <4>1, <4>2, <4>3
    <3>3. CASE n + 1 \notin s
      <4>1. s \in SUBSET (1 .. n) /\ s \ {Max(s)} \in SUBSET (1 .. n)
        <5>1. s \in SUBSET (1 .. n)
          BY <2>2, <3>3
        <5> QED BY <5>1
      <4>2. f[s] = step[Max(s)][f[s \ {Max(s)}]]
        BY <2>1, <2>4, <4>1 DEF Solves
      <4>3. g[s] = f[s] /\ g[s \ {Max(s)}] = f[s \ {Max(s)}]
        BY <3>3, <4>1
      <4> QED BY <4>2, <4>3
    <3> QED BY <3>2, <3>3
  <2>5. g[{}] = base
    BY <2>1 DEF Solves
  <2>6. Solves(g, n + 1, base, step)
    <3> HIDE DEF g
    <3> QED BY <2>4, <2>5 DEF Solves
  <2> HIDE DEF g
  <2> QED BY <2>3, <2>6
<1>3. 0 .. N \subseteq T
  <2> HIDE DEF T
  <2> QED BY <1>1, <1>2, UpTo
<1>4. N \in T
  <2> HIDE DEF T
  <2> QED BY <1>3
<1> QED BY <1>4

\* The sequences that hold each element of S once.
Orders(S) == {s \in Seq(S) : IsInjective(s) /\ ToSet(s) = S}

\* x belongs before y and y before x never both, and what belongs before what
\* belongs before z belongs before z.
StrictOrder(before, S) ==
  /\ \A x, y \in S : <<x, y>> \in before => <<y, x>> \notin before
  /\ \A x, y, z \in S :
       <<x, y>> \in before /\ <<y, z>> \in before => <<x, z>> \in before

\* The first i places are right: nothing later belongs before one of them.
Settled(before, q, i) ==
  \A a, b \in DOMAIN q : a <= i /\ a < b => <<q[b], q[a]>> \notin before

\* While place i is being filled: it has been compared with the n next ones.
Filling(before, q, i, n) ==
  /\ Settled(before, q, i - 1)
  /\ \A b \in DOMAIN q : i < b /\ b <= i + n => <<q[b], q[i]>> \notin before

\* An exchange keeps the elements, and settles the place for one more comparison.
LEMMA ExchangeOrder ==
  ASSUME NEW S, NEW q \in Orders(S), NEW before, StrictOrder(before, S),
         NEW i \in DOMAIN q, NEW n \in Nat \ {0}, i + n \in DOMAIN q
  PROVE  LET r == Exchange(before, q, i, i + n) IN
         /\ r \in Orders(S) /\ Len(r) = Len(q)
         /\ Filling(before, q, i, n - 1) => Filling(before, r, i, n)
<1> DEFINE j == i + n
<1>1. /\ q \in Seq(S) /\ Len(q) \in Nat /\ DOMAIN q = 1 .. Len(q)
      /\ i \in 1 .. Len(q) /\ j \in 1 .. Len(q) /\ i < j
      /\ \A k \in DOMAIN q : q[k] \in S
      /\ IsInjective(q) /\ ToSet(q) = S
  BY DEF Orders
<1>2. CASE <<q[j], q[i]>> \notin before
  <2>1. ASSUME Filling(before, q, i, n - 1),
               NEW b \in DOMAIN q, i < b, b <= i + n
        PROVE  <<q[b], q[i]>> \notin before
    <3>1. b = j \/ b <= i + (n - 1)
      BY <1>1, <2>1
    <3> QED BY <1>2, <2>1, <3>1 DEF Filling
  <2> QED BY <1>1, <1>2, <2>1 DEF Exchange, Filling
<1>3. CASE <<q[j], q[i]>> \in before
  <2> DEFINE r == [q EXCEPT ![i] = q[j], ![j] = q[i]]
  <2>1. Exchange(before, q, i, j) = r
    BY <1>3 DEF Exchange
  <2>2. /\ r \in Seq(S) /\ Len(r) = Len(q) /\ DOMAIN r = DOMAIN q
        /\ \A k \in DOMAIN q : r[k] = IF k = i THEN q[j] ELSE IF k = j THEN q[i] ELSE q[k]
    BY <1>1, ExceptSeq
  <2> HIDE DEF r
  <2>3. IsInjective(r) /\ ToSet(r) = S
    <3>1. IsInjective(r)
      BY <1>1, <2>2 DEF IsInjective
    <3>2. \A k \in DOMAIN q : \E l \in DOMAIN q : r[l] = q[k]
      BY <1>1, <2>2
    <3>3. \A k \in DOMAIN q : \E l \in DOMAIN q : q[l] = r[k]
      BY <1>1, <2>2
    <3>4. ToSet(r) = ToSet(q)
      <4>1. ASSUME NEW k \in DOMAIN q PROVE q[k] \in ToSet(r) /\ r[k] \in ToSet(q)
        BY <2>2, <3>2, <3>3 DEF ToSet
      <4> QED BY <2>2, <4>1 DEF ToSet
    <3> QED BY <1>1, <3>1, <3>4
  <2>4. Filling(before, q, i, n - 1) => Settled(before, r, i - 1)
    <3> SUFFICES ASSUME Filling(before, q, i, n - 1), NEW a \in DOMAIN r,
                        NEW b \in DOMAIN r, a <= i - 1, a < b
                 PROVE  <<r[b], r[a]>> \notin before
      BY DEF Settled
    <3>1. r[a] = q[a]
      BY <1>1, <2>2
    <3>2. PICK c \in DOMAIN q : a < c /\ r[b] = q[c]
      BY <1>1, <2>2
    <3> QED BY <1>1, <2>2, <3>1, <3>2 DEF Filling, Settled
  <2>5. ASSUME Filling(before, q, i, n - 1), NEW b \in DOMAIN r, i < b, b <= i + n
        PROVE  <<r[b], r[i]>> \notin before
    <3>1. r[i] = q[j]
      BY <1>1, <2>2
    <3>2. CASE b = j
      <4>1. r[b] = q[i]
        BY <1>1, <2>2, <3>2
      <4> QED BY <1>1, <1>3, <3>1, <4>1 DEF StrictOrder
    <3>3. CASE b # j
      <4>1. r[b] = q[b] /\ b <= i + (n - 1) /\ b \in DOMAIN q
        BY <1>1, <2>2, <2>5, <3>3
      <4>2. <<q[b], q[i]>> \notin before
        BY <2>5, <4>1 DEF Filling
      <4> QED BY <1>1, <1>3, <3>1, <4>1, <4>2 DEF StrictOrder
    <3> QED BY <3>2, <3>3
  <2> QED BY <2>1, <2>2, <2>3, <2>4, <2>5 DEF Orders, Filling
<1> QED BY <1>2, <1>3

\* To fill a place is to exchange it with each later one in turn; it is right
\* then, and so is each that was before.
LEMMA FillPlaceSettles ==
  ASSUME NEW S, NEW q \in Orders(S), NEW before, StrictOrder(before, S),
         NEW i \in DOMAIN q
  PROVE  LET r == FillPlace(before, q, i) IN
         /\ r \in Orders(S) /\ Len(r) = Len(q)
         /\ Settled(before, q, i - 1) => Settled(before, r, i)
<1> DEFINE N == Len(q) - i
           V == {r \in Orders(S) : Len(r) = Len(q)}
           seq == [n \in 1 .. N |-> i + n]
           Body(f) == [s \in SUBSET DOMAIN seq |->
                         IF s = {} THEN q
                         ELSE Exchange(before, f[s \ {Max(s)}], i, seq[Max(s)])]
           fold == CHOOSE f : f = Body(f)
<1>1. /\ N \in Nat /\ DOMAIN seq = 1 .. N /\ Len(q) \in Nat /\ i \in 1 .. Len(q)
      /\ \A r \in V : DOMAIN r = 1 .. Len(q)
      /\ q \in V
  BY DEF Orders
<1>2. FillPlace(before, q, i) = fold[1 .. N]
  BY <1>1 DEF FillPlace, FoldLeft, MapThenFoldSet
<1> DEFINE step == [n \in 1 .. N |-> [r \in V |-> Exchange(before, r, i, i + n)]]
<1>3. ASSUME NEW n \in 1 .. N, NEW r \in V
      PROVE  /\ Exchange(before, r, i, i + n) \in V
             /\ Filling(before, r, i, n - 1)
                  => Filling(before, Exchange(before, r, i, i + n), i, n)
  <2>1. i \in DOMAIN r /\ i + n \in DOMAIN r /\ n \in Nat \ {0}
    BY <1>1
  <2> QED BY <2>1, ExchangeOrder
<1>4. step \in [1 .. N -> [V -> V]]
  BY <1>3
<1>5. PICK f \in [SUBSET (1 .. N) -> V] : Solves(f, N, q, step)
  <2>1. N \in Nat /\ q \in V
    BY <1>1
  <2> HIDE DEF step, N, V, seq, Body, fold
  <2> QED BY <2>1, <1>4, FoldSolution
<1>6. f = Body(f)
  <2>1. ASSUME NEW s \in SUBSET (1 .. N), s # {}
        PROVE  f[s] = Exchange(before, f[s \ {Max(s)}], i, seq[Max(s)])
    <3>1. Max(s) \in 1 .. N
      <4> HIDE DEF N
      <4> QED BY <1>1, <2>1, MaxUpTo
    <3>2. f[s \ {Max(s)}] \in V
      OBVIOUS
    <3> QED BY <1>5, <2>1, <3>1, <3>2 DEF Solves
  <2>2. f[{}] = q
    BY <1>5 DEF Solves
  <2> HIDE DEF step, N, V, seq
  <2> QED BY <1>1, <2>1, <2>2
<1>7. fold = Body(fold)
  <2> HIDE DEF Body
  <2> QED BY <1>6
<1> HIDE DEF fold
<1> DEFINE T == {n \in 0 .. N :
                   /\ fold[1 .. n] \in V
                   /\ Settled(before, q, i - 1)
                        => Filling(before, fold[1 .. n], i, n)}
<1>8. 0 \in T
  <2>1. 1 .. 0 = {} /\ fold[{}] = q
    BY <1>1, <1>7
  <2>2. Settled(before, q, i - 1) => Filling(before, q, i, 0)
    BY <1>1 DEF Filling
  <2> QED BY <1>1, <2>1, <2>2
<1>9. ASSUME NEW n \in 0 .. N - 1, n \in T PROVE n + 1 \in T
  <2>1. /\ n + 1 \in 1 .. N /\ (n + 1) - 1 = n
        /\ 1 .. n + 1 # {} /\ 1 .. n + 1 \in SUBSET (1 .. N)
        /\ Max(1 .. n + 1) = n + 1
        /\ (1 .. n + 1) \ {n + 1} = 1 .. n
    <3>1. N \in Nat
      BY <1>1
    <3> HIDE DEF N, T
    <3> QED BY <3>1, NextPlace
  <2>3. fold[1 .. n + 1] = Exchange(before, fold[1 .. n], i, i + (n + 1))
    <3>1. fold[1 .. n + 1] = Body(fold)[1 .. n + 1]
      BY <1>7
    <3> HIDE DEF N
    <3> QED BY <1>1, <2>1, <3>1
  <2> HIDE DEF V, N
  <2> QED BY <1>3, <1>9, <2>1, <2>3
<1>10. N \in T
  <2>1. N \in Nat
    BY <1>1
  <2> HIDE DEF T, N, V, seq, Body
  <2>2. 0 .. N \subseteq T
    BY <2>1, <1>8, <1>9, UpTo
  <2> QED BY <2>1, <2>2
<1>11. ASSUME Settled(before, q, i - 1) PROVE Settled(before, fold[1 .. N], i)
  <2>1. Filling(before, fold[1 .. N], i, N) /\ fold[1 .. N] \in V
    BY <1>10, <1>11
  <2>2. DOMAIN fold[1 .. N] = 1 .. Len(q)
    BY <1>1, <2>1
  <2> SUFFICES ASSUME NEW a \in 1 .. Len(q), NEW b \in 1 .. Len(q), a <= i, a < b
               PROVE  <<fold[1 .. N][b], fold[1 .. N][a]>> \notin before
    BY <2>2 DEF Settled
  <2>3. a = i \/ a <= i - 1
    BY <1>1
  <2>4. b <= i + N
    BY <1>1
  <2> HIDE DEF N, V
  <2> QED BY <2>1, <2>2, <2>3, <2>4 DEF Filling, Settled
<1> QED BY <1>2, <1>10, <1>11

\* Filling each place in turn sorts.
LEMMA SortBySorts ==
  ASSUME NEW S, NEW q \in Orders(S), NEW before, StrictOrder(before, S)
  PROVE  LET r == SortBy(before, q) IN
         /\ r \in Orders(S) /\ Len(r) = Len(q)
         /\ \A a, b \in DOMAIN r : a < b => <<r[b], r[a]>> \notin before
<1> DEFINE N == Len(q)
           V == {r \in Orders(S) : Len(r) = Len(q)}
           seq == [i \in 1 .. N |-> i]
           Body(f) == [s \in SUBSET DOMAIN seq |->
                         IF s = {} THEN q
                         ELSE FillPlace(before, f[s \ {Max(s)}], seq[Max(s)])]
           fold == CHOOSE f : f = Body(f)
<1>1. /\ N \in Nat /\ DOMAIN seq = 1 .. N
      /\ \A r \in V : DOMAIN r = 1 .. N
      /\ q \in V
  BY DEF Orders
<1>2. SortBy(before, q) = fold[1 .. N]
  BY <1>1 DEF SortBy, FoldLeft, MapThenFoldSet
<1> DEFINE step == [n \in 1 .. N |-> [r \in V |-> FillPlace(before, r, n)]]
<1>3. ASSUME NEW n \in 1 .. N, NEW r \in V
      PROVE  /\ FillPlace(before, r, n) \in V
             /\ Settled(before, r, n - 1)
                  => Settled(before, FillPlace(before, r, n), n)
  <2>1. n \in DOMAIN r
    BY <1>1
  <2> QED BY <2>1, FillPlaceSettles
<1>4. step \in [1 .. N -> [V -> V]]
  BY <1>3
<1>5. PICK f \in [SUBSET (1 .. N) -> V] : Solves(f, N, q, step)
  <2>1. N \in Nat /\ q \in V
    BY <1>1
  <2> HIDE DEF step, N, V, seq, Body, fold
  <2> QED BY <2>1, <1>4, FoldSolution
<1>6. f = Body(f)
  <2>1. ASSUME NEW s \in SUBSET (1 .. N), s # {}
        PROVE  f[s] = FillPlace(before, f[s \ {Max(s)}], seq[Max(s)])
    <3>1. Max(s) \in 1 .. N
      <4> HIDE DEF N
      <4> QED BY <1>1, <2>1, MaxUpTo
    <3>2. f[s \ {Max(s)}] \in V
      OBVIOUS
    <3> QED BY <1>5, <2>1, <3>1, <3>2 DEF Solves
  <2>2. f[{}] = q
    BY <1>5 DEF Solves
  <2> HIDE DEF step, N, V, seq
  <2> QED BY <1>1, <2>1, <2>2
<1>7. fold = Body(fold)
  <2> HIDE DEF Body
  <2> QED BY <1>6
<1> HIDE DEF fold
<1> DEFINE T == {n \in 0 .. N :
                   fold[1 .. n] \in V /\ Settled(before, fold[1 .. n], n)}
<1>8. 0 \in T
  <2>1. 1 .. 0 = {} /\ fold[{}] = q
    BY <1>1, <1>7
  <2>2. Settled(before, q, 0)
    BY <1>1 DEF Settled
  <2> QED BY <1>1, <2>1, <2>2
<1>9. ASSUME NEW n \in 0 .. N - 1, n \in T PROVE n + 1 \in T
  <2>1. /\ n + 1 \in 1 .. N /\ (n + 1) - 1 = n
        /\ 1 .. n + 1 # {} /\ 1 .. n + 1 \in SUBSET (1 .. N)
        /\ Max(1 .. n + 1) = n + 1
        /\ (1 .. n + 1) \ {n + 1} = 1 .. n
    <3>1. N \in Nat
      BY <1>1
    <3> HIDE DEF N, T
    <3> QED BY <3>1, NextPlace
  <2>2. fold[1 .. n + 1] = FillPlace(before, fold[1 .. n], n + 1)
    <3>1. fold[1 .. n + 1] = Body(fold)[1 .. n + 1]
      BY <1>7
    <3> HIDE DEF N
    <3> QED BY <1>1, <2>1, <3>1
  <2> HIDE DEF V, N
  <2> QED BY <1>3, <1>9, <2>1, <2>2
<1>10. N \in T
  <2>1. N \in Nat
    BY <1>1
  <2> HIDE DEF T, N, V, seq, Body
  <2>2. 0 .. N \subseteq T
    BY <2>1, <1>8, <1>9, UpTo
  <2> QED BY <2>1, <2>2
<1>11. /\ fold[1 .. N] \in V /\ DOMAIN fold[1 .. N] = 1 .. N
       /\ Settled(before, fold[1 .. N], N)
  BY <1>1, <1>10
<1> QED BY <1>2, <1>11 DEF Settled

\* The elements of a sequence one longer.
LEMMA AppendElements ==
  ASSUME NEW S, NEW s \in Seq(S), NEW e \in S
  PROVE  /\ ToSet(Append(s, e)) = ToSet(s) \union {e}
         /\ IsInjective(s) /\ e \notin ToSet(s) => IsInjective(Append(s, e))
<1> DEFINE t == Append(s, e)
<1>1. /\ Len(s) \in Nat /\ Len(t) = Len(s) + 1
      /\ DOMAIN s = 1 .. Len(s) /\ DOMAIN t = 1 .. Len(s) + 1
      /\ \A i \in 1 .. Len(s) : t[i] = s[i]
      /\ t[Len(s) + 1] = e
  BY AppendProperties
<1> HIDE DEF t
<1>2. ToSet(t) = ToSet(s) \union {e}
  BY <1>1 DEF ToSet
<1>3. IsInjective(s) /\ e \notin ToSet(s) => IsInjective(t)
  BY <1>1 DEF ToSet, IsInjective
<1> QED BY <1>2, <1>3 DEF t

\* A set of positive numbers that is not empty has a least one.
LEMMA MinOfPlaces ==
  ASSUME NEW s \in SUBSET (Nat \ {0}), s # {}
  PROVE  Min(s) \in s /\ \A y \in s : Min(s) <= y
<1> DEFINE Less == {ss \in Nat \X Nat : ss[1] < ss[2]}
<1>1. IsWellFoundedOn(Less, Nat)
  BY NatLessThanWellFounded DEF OpToRel
<1>0. \A m, k \in Nat : m < k => <<m, k>> \in Less
  OBVIOUS
<1> HIDE DEF Less
<1>2. PICK n \in s : \A m \in s : ~(<<m, n>> \in Less)
  <2>1. s \subseteq Nat
    OBVIOUS
  <2> QED BY <1>1, <2>1, WFMin
<1>3. ASSUME NEW m \in s PROVE n <= m
  <2>1. n \in Nat /\ m \in Nat
    BY <1>2
  <2>2. ~(m < n)
    BY <1>0, <1>2, <2>1
  <2> QED BY <2>1, <2>2
<1> QED BY <1>3 DEF Min

-----------------------------------------------------------------------------
(* The workflow engine. *)

\* The tasks that have been created.
Created == {t \in Tasks : status[t] # "none"}

\* A worker that holds an agent and one that holds a task know which.
HoldsWhatItNeeds(w) ==
  /\ worker[w].pc \in {"next", "assign", "start", "run"} => worker[w].agent \in AgentIDs
  /\ worker[w].pc \in {"assign", "start", "run"} => worker[w].task \in Created

\* A task that a worker has been given, and nobody has set pending since, is
\* pending only until the worker has assigned it.
GivenOnce(w) ==
  \A t \in Tasks :
    /\ given[w][t] \in {0, 1}
    /\ given[w][t] = 1 =>
         \/ status[t] = "other"
         \/ status[t] = "pending" /\ worker[w].pc = "assign" /\ worker[w].task = t

\* The inductive invariant of the engine.
EngineIInv ==
  /\ status \in [Tasks -> {"none", "pending", "other"}]
  /\ queue \in Seq(Tasks) /\ IsInjective(queue) /\ ToSet(queue) = Created
  /\ worker \in [Workers -> WorkerState]
  /\ agentState \in [AgentIDs -> {"idle", "running", "done"}]
  /\ agentQueue \in Seq(AgentIDs) /\ Len(agentQueue) <= QueueCap
  /\ given \in [Workers -> [Tasks -> Nat]]
  /\ \A w \in Workers : HoldsWhatItNeeds(w) /\ GivenOnce(w)

\* Sorting the queue of tasks keeps them all, and puts none before one of a
\* higher priority.
LEMMA QueueSorts ==
  ASSUME WorkflowAssumption, NEW S \in SUBSET Tasks, NEW q \in Orders(S)
  PROVE  LET r == SortByPriority(Priority, q) IN
         /\ r \in Orders(S) /\ Len(r) = Len(q)
         /\ \A a, b \in DOMAIN r : a < b => Priority[r[b]] <= Priority[r[a]]
<1> DEFINE before == {pair \in (DOMAIN Priority) \X (DOMAIN Priority) :
                        Priority[pair[1]] > Priority[pair[2]]}
           r == SortBy(before, q)
<1>1. Priority \in [Tasks -> Nat] /\ S \subseteq Tasks
  BY DEF WorkflowAssumption
<1>2. \A x, y \in S : <<x, y>> \in before <=> Priority[x] > Priority[y]
  BY <1>1
<1>3. StrictOrder(before, S)
  <2> HIDE DEF before
  <2> QED BY <1>1, <1>2 DEF StrictOrder
<1>4. /\ r \in Orders(S) /\ Len(r) = Len(q)
      /\ \A a, b \in DOMAIN r : a < b => <<r[b], r[a]>> \notin before
  <2> HIDE DEF before
  <2> QED BY <1>3, SortBySorts
<1>5. ASSUME NEW a \in DOMAIN r, NEW b \in DOMAIN r, a < b
      PROVE  Priority[r[b]] <= Priority[r[a]]
  <2>1. r[a] \in S /\ r[b] \in S /\ <<r[b], r[a]>> \notin before
    <3> HIDE DEF before, r
    <3> QED BY <1>4, <1>5 DEF Orders, ToSet
  <2>2. ~(Priority[r[b]] > Priority[r[a]])
    <3> HIDE DEF before, r
    <3> QED BY <1>2, <2>1
  <2>3. Priority[r[a]] \in Nat /\ Priority[r[b]] \in Nat
    <3> HIDE DEF before, r
    <3> QED BY <1>1, <2>1
  <2> HIDE DEF before, r
  <2> QED BY <2>2, <2>3
<1> HIDE DEF before
<1>6. SortByPriority(Priority, q) = r
  BY DEF SortByPriority, before
<1> HIDE DEF r
<1> QED BY <1>4, <1>5, <1>6

\* What is handed out of a sorted queue: a pending task, and none that is
\* pending has a higher priority.
LEMMA NextPendingIsFirst ==
  ASSUME WorkflowAssumption, EngineIInv,
         NEW q \in Orders(Created),
         \A a, b \in DOMAIN q : a < b => Priority[q[b]] <= Priority[q[a]]
  PROVE  /\ NextPending(q) = None => Pending = {}
         /\ NextPending(q) # None =>
              /\ NextPending(q) \in Pending
              /\ \A t \in Pending : Priority[t] <= Priority[NextPending(q)]
<1> DEFINE I == {i \in 1 .. Len(q) : status[q[i]] = "pending"}
<1>1. /\ Len(q) \in Nat /\ DOMAIN q = 1 .. Len(q) /\ ToSet(q) = Created
      /\ \A i \in DOMAIN q : q[i] \in Created
      /\ Priority \in [Tasks -> Nat]
  BY DEF Orders, WorkflowAssumption, ToSet
<1>2. \A t \in Pending : \E i \in I : q[i] = t
  BY <1>1 DEF Pending, Created, ToSet
<1>3. CASE I = {}
  <2>1. NextPending(q) = None
    BY <1>1, <1>3 DEF NextPending
  <2> QED BY <1>2, <1>3, <2>1
<1>4. CASE I # {}
  <2>1. NextPending(q) = q[Min(I)]
    BY <1>1, <1>4 DEF NextPending, SelectInSeq
  <2>2. Min(I) \in I /\ \A i \in I : Min(I) <= i
    <3>1. I \in SUBSET (Nat \ {0})
      BY <1>1
    <3> HIDE DEF I
    <3> QED BY <1>4, <3>1, MinOfPlaces
  <2> DEFINE m == Min(I)
  <2>3. /\ m \in I /\ \A i \in I : m <= i
    BY <2>2
  <2> HIDE DEF m
  <2>4. q[m] \in Pending
    BY <1>1, <2>3 DEF Pending, Created
  <2>5. ASSUME NEW t \in Pending PROVE Priority[t] <= Priority[q[m]]
    <3>1. PICK i \in I : q[i] = t
      BY <1>2
    <3>2. Priority[t] \in Nat /\ Priority[q[m]] \in Nat
      BY <1>1, <2>4 DEF Pending
    <3>3. i = m \/ m < i
      BY <1>1, <2>3
    <3> QED BY <1>1, <2>3, <3>1, <3>2, <3>3
  <2>6. q[m] # None
    BY <2>4 DEF Pending, WorkflowAssumption
  <2> QED BY <2>1, <2>4, <2>5, <2>6 DEF m
<1> QED BY <1>3, <1>4

\* An order of some tasks is a sequence of tasks.
LEMMA OrdersAreSeqs ==
  ASSUME NEW T, NEW S \in SUBSET T, NEW q \in Orders(S)
  PROVE  q \in Seq(T) /\ IsInjective(q) /\ ToSet(q) = S
BY DEF Orders

\* GetNextPendingTask leaves the queue sorted, with all its tasks.
LEMMA SortedQueue ==
  ASSUME WorkflowAssumption, EngineIInv, NEW w \in Workers, GetNextPendingTask(w)
  PROVE  /\ queue' \in Orders(Created)
         /\ \A a, b \in DOMAIN queue' : a < b => Priority[queue'[b]] <= Priority[queue'[a]]
         /\ UNCHANGED <<status, agentState, agentQueue>>
<1>1. queue \in Orders(Created) /\ Created \in SUBSET Tasks
  BY DEF EngineIInv, Orders, ToSet, Created
<1>2. queue' = SortByPriority(Priority, queue)
  BY DEF GetNextPendingTask
<1> QED BY <1>1, <1>2, QueueSorts DEF GetNextPendingTask

\* The inductive invariant has the invariant in it ...
LEMMA EngineIInvSuffices == EngineIInv => WorkflowInv
<1> SUFFICES ASSUME EngineIInv PROVE WorkflowInv
  OBVIOUS
<1>1. WorkflowTypeOK
  BY DEF EngineIInv, WorkflowTypeOK, Created
<1>2. ASSUME NEW w \in Workers, NEW t \in Tasks PROVE given[w][t] <= 1
  <2>1. given[w][t] \in {0, 1}
    BY DEF EngineIInv, GivenOnce
  <2> QED BY <2>1
<1> QED BY <1>1, <1>2 DEF WorkflowInv, OncePerWorker

\* ... and holds at first.
LEMMA InitEngineIInv == WorkflowAssumption /\ Init => EngineIInv
<1> SUFFICES ASSUME WorkflowAssumption, Init PROVE EngineIInv
  OBVIOUS
<1>1. ToSet(<<>>) = {} /\ IsInjective(<<>>)
  BY DEF ToSet, IsInjective
<1> QED BY <1>1 DEF Init, EngineIInv, Created, HoldsWhatItNeeds, GivenOnce,
           Idle, Gone,
             WorkerState, WorkflowAssumption

\* What a worker's invariant needs of the state to go on holding.
LEMMA WorkerKept ==
  ASSUME NEW w \in Workers, HoldsWhatItNeeds(w), GivenOnce(w),
         worker'[w] = worker[w],
         \A t \in Tasks :
           /\ status[t] # "none" => status'[t] # "none"
           /\ \/ given'[w][t] = given[w][t] /\ status'[t] \in {status[t], "other"}
              \/ given'[w][t] = given[w][t] /\ status[t] = "none"
              \/ given'[w][t] = 0
  PROVE  HoldsWhatItNeeds(w)' /\ GivenOnce(w)'
<1>1. HoldsWhatItNeeds(w)'
  BY DEF HoldsWhatItNeeds, Created
<1>2. GivenOnce(w)'
  BY DEF GivenOnce
<1> QED BY <1>1, <1>2

\* While Start has not started them, there are no workers.
NoneYet == scheduler = "starting" => \A w \in Workers : worker[w].pc = "gone"

LEMMA NoneYetKept ==
  ASSUME WorkflowAssumption, NoneYet, worker \in [Workers -> WorkerState], [Next]_vars
  PROVE  NoneYet'
<1>1. ASSUME NEW w \in Workers, Work(w) \/ WorkerEnds(w) PROVE NoneYet'
  <2>1. worker[w].pc # "gone" /\ scheduler' = scheduler
    BY <1>1 DEF Work, TakeAgent, GetNextPendingTask, AssignTask, StartAgent, AgentEnds,
                WorkerEnds, At, engineVars
  <2> QED BY <2>1 DEF NoneYet
<1>2. CASE Start \/ StartWorkers \/ SchedulerEnds
  BY <1>2 DEF Start, StartWorkers, SchedulerEnds, NoneYet, At
<1>3. CASE UNCHANGED <<worker, scheduler>>
  BY <1>3 DEF NoneYet
<1> QED BY <1>1, <1>2, <1>3 DEF Next, CreateTask, UpdateTaskStatus, Tick, Wakeup, Send,
                                Stop, StopReturns, vars, engineVars

\* Every step of the engine keeps the invariant.
LEMMA EngineStep ==
  ASSUME WorkflowAssumption, EngineIInv, NoneYet, [Next]_vars
  PROVE  EngineIInv'
<1> USE DEF WorkerState
<1>1. ASSUME NEW t \in Tasks, CreateTask(t) PROVE EngineIInv'
  <2>1. /\ status' \in [Tasks -> {"none", "pending", "other"}]
        /\ Created' = Created \union {t} /\ t \notin Created
    BY <1>1 DEF CreateTask, Created, EngineIInv
  <2>2. /\ queue' \in Seq(Tasks) /\ IsInjective(queue') /\ ToSet(queue') = Created'
    <3>1. queue \in Seq(Tasks) /\ IsInjective(queue) /\ ToSet(queue) = Created
      BY DEF EngineIInv
    <3>2. queue' = Append(queue, t)
      BY <1>1 DEF CreateTask
    <3> QED BY <2>1, <3>1, <3>2, AppendElements, AppendProperties
  <2>3. ASSUME NEW w \in Workers PROVE HoldsWhatItNeeds(w)' /\ GivenOnce(w)'
    <3>1. \A u \in Tasks : /\ status[u] # "none" => status'[u] # "none"
                           /\ status[u] = "none" \/ status'[u] = status[u]
      BY <1>1 DEF CreateTask, EngineIInv
    <3>2. worker'[w] = worker[w] /\ given'[w] = given[w]
      BY <1>1 DEF CreateTask
    <3> QED BY <3>1, <3>2, WorkerKept DEF EngineIInv
  <2> QED BY <1>1, <2>1, <2>2, <2>3 DEF CreateTask, EngineIInv
<1>2. ASSUME NEW t \in Tasks, UpdateTaskStatus(t) PROVE EngineIInv'
  <2>1. /\ status' \in [Tasks -> {"none", "pending", "other"}]
        /\ Created' = Created
    BY <1>2 DEF UpdateTaskStatus, Created, EngineIInv
  <2>2. ASSUME NEW w \in Workers PROVE HoldsWhatItNeeds(w)' /\ GivenOnce(w)'
    <3>1. worker'[w] = worker[w] /\ given[w] \in [Tasks -> Nat]
      BY <1>2 DEF UpdateTaskStatus, EngineIInv
    <3>2. CASE status' = [status EXCEPT ![t] = "pending"]
               /\ given' = [v \in Workers |-> [given[v] EXCEPT ![t] = 0]]
      BY <1>2, <3>1, <3>2, WorkerKept DEF UpdateTaskStatus, EngineIInv
    <3>3. CASE status' = [status EXCEPT ![t] = "other"] /\ given' = given
      BY <1>2, <3>1, <3>3, WorkerKept DEF UpdateTaskStatus, EngineIInv
    <3> QED BY <1>2, <3>2, <3>3 DEF UpdateTaskStatus
  <2>3. given' \in [Workers -> [Tasks -> Nat]]
    <3>1. given' = given \/ given' = [v \in Workers |-> [given[v] EXCEPT ![t] = 0]]
      BY <1>2 DEF UpdateTaskStatus
    <3> QED BY <3>1 DEF EngineIInv
  <2> QED BY <1>2, <2>1, <2>2, <2>3 DEF UpdateTaskStatus, EngineIInv
<1>3. ASSUME Send PROVE EngineIInv'
  <2>1. UNCHANGED <<status, queue, agentState, worker, given>>
    BY <1>3 DEF Send, taskVars
  <2>2. agentQueue' \in Seq(AgentIDs) /\ Len(agentQueue') <= QueueCap
    <3>1. /\ agentQueue \in Seq(AgentIDs) /\ Len(agentQueue) \in Nat /\ QueueCap \in Nat
          /\ Len(agentQueue) <= QueueCap
      BY DEF EngineIInv, WorkflowAssumption
    <3>2. CASE UNCHANGED agentQueue
      BY <3>1, <3>2
    <3>3. ASSUME Len(agentQueue) < QueueCap, NEW a \in SuitableAgents,
                 agentQueue' = Append(agentQueue, a)
          PROVE  agentQueue' \in Seq(AgentIDs) /\ Len(agentQueue') <= QueueCap
      <4>1. a \in AgentIDs
        BY DEF SuitableAgents
      <4>2. agentQueue' \in Seq(AgentIDs) /\ Len(agentQueue') = Len(agentQueue) + 1
        BY <3>1, <3>3, <4>1, AppendProperties
      <4> QED BY <3>1, <3>3, <4>2
    <3> QED BY <1>3, <3>2, <3>3 DEF Send
  <2> QED BY <2>1, <2>2 DEF EngineIInv, Created, HoldsWhatItNeeds, GivenOnce
<1>4. ASSUME NEW w \in Workers, TakeAgent(w) PROVE EngineIInv'
  <2>1. /\ agentQueue \in Seq(AgentIDs) /\ agentQueue # <<>>
        /\ Len(agentQueue) \in Nat /\ QueueCap \in Nat /\ Len(agentQueue) <= QueueCap
        /\ agentQueue' = Tail(agentQueue)
        /\ UNCHANGED <<status, queue, agentState, given>>
    BY <1>4 DEF TakeAgent, EngineIInv, WorkflowAssumption, taskVars
  <2>2. /\ Head(agentQueue) \in AgentIDs
        /\ agentQueue' \in Seq(AgentIDs) /\ Len(agentQueue') = Len(agentQueue) - 1
    BY <2>1, HeadTailProperties
  <2>3. agentQueue' \in Seq(AgentIDs) /\ Len(agentQueue') <= QueueCap
    BY <2>1, <2>2
  <2> DEFINE next == [Idle EXCEPT !.pc = "next", !.agent = Head(agentQueue)]
  <2>4. /\ worker' = [worker EXCEPT ![w] = next]
        /\ next \in WorkerState /\ next.pc = "next" /\ next.agent = Head(agentQueue)
    <3>1. worker' = [worker EXCEPT ![w] = next]
      BY <1>4 DEF TakeAgent
    <3>2. next \in WorkerState /\ next.pc = "next" /\ next.agent = Head(agentQueue)
      BY <2>2 DEF Idle
    <3> QED BY <3>1, <3>2
  <2> HIDE DEF next
  <2>5. worker' \in [Workers -> WorkerState]
    BY <2>2, <2>4 DEF EngineIInv
  <2>6. ASSUME NEW v \in Workers PROVE HoldsWhatItNeeds(v)' /\ GivenOnce(v)'
    <3>1. CASE v = w
      <4>1. worker'[v] = next
        BY <2>4, <3>1 DEF EngineIInv
      <4>2. HoldsWhatItNeeds(v)'
        BY <2>2, <2>4, <4>1 DEF HoldsWhatItNeeds
      <4>3. worker[v].pc = "select" /\ GivenOnce(v)
        BY <1>4, <3>1 DEF TakeAgent, At, EngineIInv
      <4>4. GivenOnce(v)'
        BY <2>1, <4>3 DEF GivenOnce
      <4> QED BY <4>2, <4>4
    <3>2. CASE v # w
      <4>1. worker'[v] = worker[v]
        BY <2>4, <3>2 DEF EngineIInv
      <4> QED BY <2>1, <4>1, WorkerKept DEF EngineIInv
    <3> QED BY <3>1, <3>2
  <2> QED BY <2>1, <2>3, <2>5, <2>6 DEF EngineIInv, Created
<1>5. ASSUME NEW w \in Workers, GetNextPendingTask(w) PROVE EngineIInv'
  <2>1. /\ queue' \in Orders(Created)
        /\ \A a, b \in DOMAIN queue' : a < b => Priority[queue'[b]] <= Priority[queue'[a]]
        /\ UNCHANGED <<status, agentState, agentQueue>>
    BY <1>5, SortedQueue
  <2>2. queue' \in Seq(Tasks) /\ IsInjective(queue') /\ ToSet(queue') = Created
    BY <2>1, OrdersAreSeqs DEF Created
  <2>3. Created' = Created
    BY <2>1 DEF Created
  <2> DEFINE t == NextPending(queue')
             next == IF t = None THEN Idle
                     ELSE [worker[w] EXCEPT !.pc = "assign", !.task = t]
  <2>4. worker' = [worker EXCEPT ![w] = next]
    BY <1>5 DEF GetNextPendingTask
  <2>5. t # None => t \in Pending
    BY <2>1, NextPendingIsFirst
  <2>6. /\ worker[w] \in WorkerState /\ worker[w].pc = "next"
        /\ worker[w].agent \in AgentIDs
    BY <1>5 DEF EngineIInv, GetNextPendingTask, At, HoldsWhatItNeeds
  <2> HIDE DEF t
  <2>7. next \in WorkerState
    BY <2>5, <2>6 DEF Idle, Pending
  <2>8. /\ next.pc \in {"select", "assign"}
        /\ next.pc = "assign" => (next.task \in Pending /\ next.agent \in AgentIDs)
    BY <2>5, <2>6 DEF Idle
  <2> HIDE DEF next
  <2>9. worker' \in [Workers -> WorkerState]
    BY <2>4, <2>7 DEF EngineIInv
  <2>10. given' = IF t = None THEN given ELSE [given EXCEPT ![w][t] = given[w][t] + 1]
    BY <1>5 DEF GetNextPendingTask, t
  <2>11. given' \in [Workers -> [Tasks -> Nat]]
    BY <2>5, <2>10 DEF EngineIInv, Pending
  <2>12. ASSUME NEW v \in Workers PROVE HoldsWhatItNeeds(v)' /\ GivenOnce(v)'
    <3>1. HoldsWhatItNeeds(v) /\ GivenOnce(v)
      BY DEF EngineIInv
    <3>2. CASE v = w
      <4>1. worker'[v] = next
        BY <2>4, <3>2 DEF EngineIInv
      <4>2. HoldsWhatItNeeds(v)'
        BY <2>3, <2>8, <4>1 DEF HoldsWhatItNeeds, Pending, Created
      <4>3. GivenOnce(v)'
        <5>1. \A u \in Tasks : /\ given[w][u] \in {0, 1}
                               /\ given[w][u] = 1 => status[u] = "other"
          BY <2>6, <3>1, <3>2 DEF GivenOnce
        <5>2. CASE t = None
          <6>1. given' = given
            BY <2>10, <5>2
          <6> QED BY <2>1, <3>2, <5>1, <6>1 DEF GivenOnce
        <5>3. CASE t # None
          <6>1. t \in Tasks /\ status[t] = "pending" /\ given[w][t] = 0
            BY <2>5, <5>1, <5>3 DEF Pending
          <6>2. next.pc = "assign" /\ next.task = t
            BY <2>6, <5>3 DEF next
          <6>3. \A u \in Tasks : given'[w][u] = IF u = t THEN 1 ELSE given[w][u]
            BY <2>10, <5>3, <6>1 DEF EngineIInv
          <6> QED BY <2>1, <3>2, <4>1, <5>1, <6>1, <6>2, <6>3 DEF GivenOnce
        <5> QED BY <5>2, <5>3
      <4> QED BY <4>2, <4>3
    <3>3. CASE v # w
      <4>1. worker'[v] = worker[v] /\ given'[v] = given[v]
        BY <2>4, <2>10, <3>3 DEF EngineIInv
      <4> QED BY <2>1, <3>1, <4>1, WorkerKept
    <3> QED BY <3>2, <3>3
  <2> QED BY <2>1, <2>2, <2>3, <2>9, <2>11, <2>12 DEF EngineIInv
<1>6. ASSUME NEW w \in Workers, AssignTask(w) PROVE EngineIInv'
  <2> DEFINE t == worker[w].task
  <2>1. /\ t \in Tasks /\ status[t] # "none" /\ worker[w].agent \in AgentIDs
        /\ worker[w] \in WorkerState /\ worker[w].pc = "assign"
    BY <1>6 DEF EngineIInv, AssignTask, At, HoldsWhatItNeeds, GivenOnce,
       Created
  <2>2. /\ status' = [status EXCEPT ![t] = "other"]
        /\ worker' = [worker EXCEPT ![w].pc = "start"]
        /\ UNCHANGED <<queue, agentState, agentQueue, given>>
    BY <1>6 DEF AssignTask
  <2>3. /\ status' \in [Tasks -> {"none", "pending", "other"}] /\ Created' = Created
        /\ status'[t] = "other"
        /\ \A u \in Tasks : /\ status[u] # "none" => status'[u] # "none"
                            /\ status'[u] \in {status[u], "other"}
    BY <2>1, <2>2 DEF EngineIInv, Created
  <2>4. worker' \in [Workers -> WorkerState]
    BY <2>2 DEF EngineIInv
  <2>5. ASSUME NEW v \in Workers PROVE HoldsWhatItNeeds(v)' /\ GivenOnce(v)'
    <3>1. CASE v = w
      <4>1. /\ worker'[v].pc = "start" /\ worker'[v].task = t
            /\ worker'[v].agent = worker[w].agent
        BY <2>1, <2>2, <3>1 DEF EngineIInv
      <4>2. HoldsWhatItNeeds(v)'
        BY <2>1, <2>3, <4>1 DEF HoldsWhatItNeeds, Created
      <4>3. GivenOnce(v)'
        <5>1. GivenOnce(w) /\ given' = given
          BY <2>2 DEF EngineIInv
        <5>2. \A u \in Tasks : given[w][u] = 1 => u = t \/ status[u] = "other"
          BY <5>1 DEF GivenOnce
        <5>3. \A u \in Tasks : given[w][u] = 1 => status'[u] = "other"
          BY <2>3, <5>2
        <5> QED BY <3>1, <5>1, <5>3 DEF GivenOnce
      <4> QED BY <4>2, <4>3
    <3>2. CASE v # w
      <4>1. worker'[v] = worker[v]
        BY <2>2, <3>2 DEF EngineIInv
      <4> QED BY <2>2, <2>3, <4>1, WorkerKept DEF EngineIInv
    <3> QED BY <3>1, <3>2
  <2> QED BY <2>2, <2>3, <2>4, <2>5 DEF EngineIInv
<1>7. ASSUME NEW w \in Workers, StartAgent(w) PROVE EngineIInv'
  <2>1. /\ worker[w].task \in Created /\ worker[w].agent \in AgentIDs
        /\ worker[w] \in WorkerState /\ worker[w].pc = "start"
    BY <1>7 DEF EngineIInv, StartAgent, At, HoldsWhatItNeeds
  <2>2. /\ agentState' = [agentState EXCEPT ![worker[w].agent] = "running"]
        /\ worker' = [worker EXCEPT ![w].pc = "run"]
        /\ UNCHANGED <<status, queue, agentQueue, given>>
    BY <1>7 DEF StartAgent, taskVars
  <2>3. /\ agentState' \in [AgentIDs -> {"idle", "running", "done"}]
        /\ worker' \in [Workers -> WorkerState]
    BY <2>1, <2>2 DEF EngineIInv
  <2>4. ASSUME NEW v \in Workers PROVE HoldsWhatItNeeds(v)' /\ GivenOnce(v)'
    <3>1. CASE v = w
      <4>1. /\ worker'[v].pc = "run" /\ worker'[v].task = worker[w].task
            /\ worker'[v].agent = worker[w].agent
        BY <2>1, <2>2, <3>1 DEF EngineIInv
      <4>2. HoldsWhatItNeeds(v)'
        BY <2>1, <2>2, <4>1 DEF HoldsWhatItNeeds, Created
      <4>3. GivenOnce(v)'
        BY <2>1, <2>2, <3>1, <4>1 DEF EngineIInv, GivenOnce
      <4> QED BY <4>2, <4>3
    <3>2. CASE v # w
      <4>1. worker'[v] = worker[v]
        BY <2>2, <3>2 DEF EngineIInv
      <4> QED BY <2>2, <4>1, WorkerKept DEF EngineIInv
    <3> QED BY <3>1, <3>2
  <2> QED BY <2>2, <2>3, <2>4 DEF EngineIInv, Created
<1>8. ASSUME NEW w \in Workers, AgentEnds(w) \/ WorkerEnds(w) PROVE EngineIInv'
  <2>1. /\ UNCHANGED <<status, queue, agentQueue, given>>
        /\ worker' = [worker EXCEPT ![w] = Idle] \/ worker' = [worker EXCEPT ![w] = Gone]
        /\ \/ agentState' = [agentState EXCEPT ![worker[w].agent] = "done"]
           \/ UNCHANGED agentState
    BY <1>8 DEF AgentEnds, WorkerEnds, taskVars
  <2>2. /\ agentState' \in [AgentIDs -> {"idle", "running", "done"}]
        /\ worker' \in [Workers -> WorkerState]
    <3>1. Idle \in WorkerState /\ Gone \in WorkerState
      BY DEF Idle, Gone
    <3>2. worker' \in [Workers -> WorkerState]
      BY <2>1, <3>1 DEF EngineIInv
    <3>3. agentState' \in [AgentIDs -> {"idle", "running", "done"}]
      BY <2>1 DEF EngineIInv
    <3> QED BY <3>2, <3>3
  <2>3. ASSUME NEW v \in Workers PROVE HoldsWhatItNeeds(v)' /\ GivenOnce(v)'
    <3>1. CASE v = w
      <4>1. worker'[v].pc \in {"select", "gone"} /\ worker[v].pc \in {"run", "select"}
        BY <1>8, <2>1, <3>1 DEF EngineIInv, Idle, Gone, AgentEnds, WorkerEnds, At
      <4> QED BY <2>1, <4>1 DEF EngineIInv, HoldsWhatItNeeds, GivenOnce
    <3>2. CASE v # w
      <4>1. worker'[v] = worker[v]
        BY <2>1, <3>2 DEF EngineIInv
      <4> QED BY <2>1, <4>1, WorkerKept DEF EngineIInv
    <3> QED BY <3>1, <3>2
  <2> QED BY <2>1, <2>2, <2>3 DEF EngineIInv, Created
<1>9. ASSUME StartWorkers PROVE EngineIInv'
  <2>1. UNCHANGED <<status, queue, agentState, agentQueue, given>>
    BY <1>9 DEF StartWorkers, taskVars
  <2>2. worker' = [w \in Workers |-> Idle] /\ \A w \in Workers : worker[w].pc = "gone"
    BY <1>9 DEF StartWorkers, NoneYet
  <2> QED BY <2>1, <2>2 DEF EngineIInv, Created, HoldsWhatItNeeds,
             GivenOnce, Idle
<1>10. ASSUME UNCHANGED <<status, queue, agentState, agentQueue, worker, given>>
       PROVE  EngineIInv'
  BY <1>10 DEF EngineIInv, Created, HoldsWhatItNeeds, GivenOnce
<1>11. CASE Tick \/ Wakeup \/ SchedulerEnds \/ Start \/ Stop \/ StopReturns \/ UNCHANGED vars
  <2>1. UNCHANGED <<status, queue, agentState, agentQueue, worker, given>>
    BY <1>11 DEF Tick, Wakeup, SchedulerEnds, Start, Stop, StopReturns, vars, taskVars
  <2> QED BY <1>10, <2>1
<1> QED BY <1>1, <1>2, <1>3, <1>4, <1>5, <1>6, <1>7, <1>8, <1>9, <1>11
           DEF Next, Work

\* The engine keeps its inductive invariant.
LEMMA EngineInvariant == Spec => []EngineIInv
<1>1. Init => EngineIInv /\ NoneYet
  BY WorkflowAssumption, InitEngineIInv DEF Init, NoneYet
<1>2. EngineIInv /\ NoneYet /\ [Next]_vars => (EngineIInv /\ NoneYet)'
  BY WorkflowAssumption, EngineStep, NoneYetKept DEF EngineIInv
<1> QED BY <1>1, <1>2, PTL DEF Spec

\* No worker is given a task a second time unless somebody has set the task
\* pending again in between (task_manager.go:123), whatever other statuses it is
\* given; and the task queue keeps every created task once, sorted over and over.
THEOREM TasksRunOnce == Spec => []WorkflowInv
BY EngineInvariant, EngineIInvSuffices, PTL

\* A worker is given a pending task of the highest priority there is at the
\* moment: the queue it is taken from is sorted whole, and the first pending
\* task in it is the one.
THEOREM HighestPriorityGoesFirst == Spec => HighestPriorityFirst
<1>1. ASSUME EngineIInv, Next, NEW w \in Workers, At(w, "next"), worker'[w].pc = "assign"
      PROVE  /\ worker'[w].task \in Pending
             /\ \A t \in Pending : Priority[t] <= Priority[worker'[w].task]
  <2>1. worker \in [Workers -> WorkerState]
    BY <1>1 DEF EngineIInv
  <2>2. GetNextPendingTask(w)
    <3>1. worker'[w] # worker[w] /\ worker[w].pc = "next"
      BY <1>1 DEF At
    <3>2. \E v \in Workers : Work(v) \/ WorkerEnds(v)
      <4>1. ~StartWorkers
        BY <1>1 DEF StartWorkers, Idle
      <4>2. ASSUME UNCHANGED worker PROVE FALSE
        BY <3>1, <4>2
      <4> QED BY <1>1, <4>1, <4>2 DEF Next, CreateTask, UpdateTaskStatus, Tick,
                 Wakeup, Send, SchedulerEnds, Start, Stop, StopReturns
    <3>3. PICK v \in Workers : Work(v) \/ WorkerEnds(v)
      BY <3>2
    <3>4. v = w
      BY <2>1, <3>1, <3>3 DEF Work, WorkerEnds, TakeAgent, GetNextPendingTask,
         AssignTask,
            StartAgent, AgentEnds
    <3> QED BY <3>1, <3>3, <3>4, <1>1 DEF Work, WorkerEnds, TakeAgent,
               AssignTask,
            StartAgent, AgentEnds, At, Gone
  <2>3. /\ queue' \in Orders(Created)
        /\ \A a, b \in DOMAIN queue' : a < b => Priority[queue'[b]] <= Priority[queue'[a]]
    BY <1>1, <2>2, WorkflowAssumption, SortedQueue
  <2> DEFINE t == NextPending(queue')
  <2>4. /\ t # None => /\ t \in Pending
                       /\ \A u \in Pending : Priority[u] <= Priority[t]
    BY <1>1, <2>3, WorkflowAssumption, NextPendingIsFirst
  <2>5. worker' = [worker EXCEPT ![w] =
                     IF t = None THEN Idle
                     ELSE [worker[w] EXCEPT !.pc = "assign", !.task = t]]
    BY <2>2 DEF GetNextPendingTask
  <2> HIDE DEF t
  <2>6. worker[w] \in WorkerState
    BY <2>1
  <2>7. t # None /\ worker'[w].task = t
    BY <1>1, <2>1, <2>5, <2>6 DEF Idle, WorkerState
  <2> QED BY <2>4, <2>7
<1>2. EngineIInv /\ [Next]_vars =>
        [\A w \in Workers :
           At(w, "next") /\ worker'[w].pc = "assign" =>
             /\ worker'[w].task \in Pending
             /\ \A t \in Pending : Priority[t] <= Priority[worker'[w].task]]_vars
  BY <1>1
<1> QED BY <1>2, EngineInvariant, PTL DEF Spec, HighestPriorityFirst

\* The sequences a set can be read in hold each of its elements once.
LEMMA ReadingOrders ==
  ASSUME NEW S, IsFiniteSet(S), NEW q \in SetToSeqs(S)
  PROVE  q \in Orders(S)
<1> DEFINE D == 1 .. Cardinality(S)
<1>1. /\ IsFiniteSet(D) /\ Cardinality(D) = Cardinality(S) /\ Cardinality(S) \in Nat
  <2>1. Cardinality(S) \in Nat
    BY FS_CardinalityType
  <2> HIDE DEF D
  <2>2. /\ IsFiniteSet(1 .. Cardinality(S))
        /\ Cardinality(1 .. Cardinality(S))
             = IF 1 > Cardinality(S) THEN 0 ELSE Cardinality(S) - 1 + 1
    BY <2>1, FS_Interval
  <2> QED BY <2>1, <2>2 DEF D
<1>2. q \in [D -> S] /\ \A i, j \in D : i # j => q[i] # q[j]
  BY DEF SetToSeqs
<1>3. IsInjective(q) /\ q \in Injection(D, S)
  <2> HIDE DEF D
  <2> QED BY <1>2 DEF IsInjective, Injection
<1>4. q \in Surjection(D, S)
  <2> HIDE DEF D
  <2> QED BY <1>1, <1>3, FS_Injection
<1>5. q \in Seq(S)
  BY <1>1, <1>2
<1>6. ToSet(q) = S
  <2>1. DOMAIN q = D
    BY <1>2
  <2>2. \A e \in S : \E i \in D : q[i] = e
    <3> HIDE DEF D
    <3> QED BY <1>4 DEF Surjection
  <2> HIDE DEF D
  <2> QED BY <1>2, <2>1, <2>2 DEF ToSet
<1> QED BY <1>3, <1>5, <1>6 DEF Orders

\* The elements of the beginning of a sequence.
LEMMA Beginning ==
  ASSUME NEW S, NEW r \in Orders(S), NEW m \in 0 .. Len(r)
  PROVE  ToSet(SubSeq(r, 1, m)) = {r[i] : i \in 1 .. m}
<1>1. r \in Seq(S) /\ Len(r) \in Nat
  BY DEF Orders
<1>2. /\ DOMAIN SubSeq(r, 1, m) = 1 .. m
      /\ \A i \in 1 .. m : SubSeq(r, 1, m)[i] = r[i]
  BY <1>1
<1> QED BY <1>2 DEF ToSet
-----------------------------------------------------------------------------
(* The context manager. *)

\* Everything that is there has the right shape, and only what is never evicted
\* makes the manager too large.
ContextIInv ==
  /\ Keys \subseteq Key
  /\ \A k \in Keys : items[k] \in Item
  /\ reader \in [Readers -> [key : Key \union {Nobody}, live : BOOLEAN]]
  /\ \A r \in Readers : reader[r].live => reader[r].key \in Keys
  /\ OutgrownByCritical

\* The manager holds finitely many items, and what each is worth is a number.
LEMMA ItemsFinite ==
  ASSUME ContextAssumption, ContextIInv
  PROVE  /\ IsFiniteSet(Keys) /\ Cardinality(Keys) \in Nat
         /\ IsFiniteSet(Evictable) /\ Cardinality(Evictable) \in Nat
         /\ Evictable \subseteq Keys
         /\ \A k \in Keys : Score(k) \in Nat
<1>1. IsFiniteSet(Key) /\ Keys \in SUBSET Key
  BY DEF ContextAssumption, ContextIInv
<1>2. IsFiniteSet(Keys) /\ Cardinality(Keys) \in Nat
  BY <1>1, FS_Subset, FS_CardinalityType
<1>3. Evictable \in SUBSET Keys
  BY DEF Evictable
<1>4. IsFiniteSet(Evictable) /\ Cardinality(Evictable) \in Nat
  BY <1>2, <1>3, FS_Subset, FS_CardinalityType
<1>5. ASSUME NEW k \in Keys PROVE Score(k) \in Nat
  <2>1. items[k].priority \in Nat /\ items[k].accesses \in Nat
    BY DEF ContextIInv, Item, ContextAssumption
  <2>2. items[k].accesses + 1 \in Nat
    BY <2>1
  <2>3. \A a, b \in Nat : a * b \in Nat
    OBVIOUS
  <2> QED BY <2>1, <2>2, <2>3 DEF Score
<1> QED BY <1>2, <1>3, <1>4, <1>5

\* What an eviction removes: some of what may be removed, if there is any, all
\* if it is one item, and none that is worth more than one it leaves.
LEMMA EvictionsAreLeast ==
  ASSUME ContextAssumption, ContextIInv, NEW gone \in Evictions
  PROVE  /\ gone \subseteq Evictable
         /\ Evictable # {} => gone # {}
         /\ \A k \in gone, kept \in Evictable \ gone : Score(k) <= Score(kept)
<1>1. PICK q \in SetToSeqs(Evictable) :
        gone = ToSet(SubSeq(SortByScore(q), 1, Min({ToRemove, Len(q)})))
  BY DEF Evictions
<1> DEFINE r == SortByScore(q)
           m == Min({ToRemove, Len(q)})
<1>2. q \in Orders(Evictable)
  BY ReadingOrders, ItemsFinite
<1>3. /\ r \in Orders(Evictable) /\ Len(r) = Len(q)
      /\ \A a, b \in DOMAIN r : a < b => <<r[b], r[a]>> \notin WorthLess
  <2>1. \A x, y \in Evictable : <<x, y>> \in WorthLess <=> Score(x) < Score(y)
    BY DEF WorthLess
  <2>2. StrictOrder(WorthLess, Evictable)
    <3>1. \A x \in Evictable : Score(x) \in Nat
      BY ItemsFinite
    <3> QED BY <2>1, <3>1 DEF StrictOrder
  <2> QED BY <1>2, <2>2, SortBySorts DEF SortByScore
<1>4. /\ Len(r) \in Nat /\ DOMAIN r = 1 .. Len(r)
      /\ ToSet(r) = Evictable /\ \A i \in DOMAIN r : r[i] \in Evictable
  <2> HIDE DEF r
  <2> QED BY <1>3 DEF Orders, ToSet
<1> HIDE DEF r
<1>5. /\ m \in 0 .. Len(r) /\ (Len(r) > 0 => m > 0)
  <2>1. ToRemove \in Nat /\ ToRemove >= 1
    <3>1. MaxSize \in Nat
      BY DEF ContextAssumption
    <3>2. MaxSize \div 10 \in Nat
      BY <3>1
    <3> QED BY <3>2 DEF ToRemove
  <2>2. m = IF ToRemove <= Len(q) THEN ToRemove ELSE Len(q)
    <3>1. \A x, y \in Nat : Min({x, y}) = IF x <= y THEN x ELSE y
      <4> TAKE x, y \in Nat
      <4>1. CASE x <= y
        <5>1. \A z \in {x, y} : x <= z
          BY <4>1
        <5>2. Min({x, y}) \in {x, y} /\ \A z \in {x, y} : Min({x, y}) <= z
          BY <5>1 DEF Min
        <5> QED BY <4>1, <5>2
      <4>2. CASE y < x
        <5>1. \A z \in {x, y} : y <= z
          BY <4>2
        <5>2. Min({x, y}) \in {x, y} /\ \A z \in {x, y} : Min({x, y}) <= z
          BY <5>1 DEF Min
        <5> QED BY <4>2, <5>2
      <4> QED BY <4>1, <4>2
    <3> QED BY <1>3, <1>4, <2>1, <3>1
  <2> HIDE DEF m
  <2>3. Len(q) \in Nat /\ Len(r) = Len(q)
    BY <1>3, <1>4
  <2>4. CASE ToRemove <= Len(q)
    <3>1. m = ToRemove
      BY <2>2, <2>4
    <3> QED BY <2>1, <2>3, <2>4, <3>1
  <2>5. CASE ~(ToRemove <= Len(q))
    <3>1. m = Len(q)
      BY <2>2, <2>5
    <3> QED BY <2>3, <3>1
  <2> QED BY <2>4, <2>5
<1> HIDE DEF m
<1>6. gone = {r[i] : i \in 1 .. m}
  BY <1>1, <1>3, <1>5, Beginning DEF r, m
<1>7. gone \subseteq Evictable
  BY <1>4, <1>5, <1>6
<1>8. Evictable # {} => gone # {}
  <2>1. Evictable # {} => Len(r) > 0
    BY <1>4 DEF ToSet
  <2>2. Len(r) > 0 => 1 \in 1 .. m
    BY <1>5
  <2> QED BY <1>6, <2>1, <2>2
<1>9. ASSUME NEW k \in gone, NEW kept \in Evictable \ gone PROVE Score(k) <= Score(kept)
  <2>1. PICK i \in 1 .. m : r[i] = k
    BY <1>6
  <2>2. PICK j \in DOMAIN r : r[j] = kept
    BY <1>4 DEF ToSet
  <2>3. i \in DOMAIN r /\ i < j
    <3>1. ~(j \in 1 .. m)
      BY <1>6, <2>2
    <3> QED BY <1>4, <1>5, <2>2, <3>1
  <2>4. <<kept, k>> \notin WorthLess
    BY <1>3, <2>1, <2>2, <2>3
  <2>5. k \in Evictable /\ kept \in Evictable /\ Score(k) \in Nat /\ Score(kept) \in Nat
    BY <1>7, ItemsFinite
  <2>6. ~(Score(kept) < Score(k))
    BY <2>4, <2>5 DEF WorthLess
  <2> QED BY <2>5, <2>6
<1> QED BY <1>7, <1>8, <1>9

\* The room that is made before an item is added, be there enough already or not.
LEMMA RoomMade ==
  ASSUME ContextAssumption, ContextIInv, NEW gone \in MakesRoom
  PROVE  /\ gone \subseteq Evictable
         /\ Cardinality(Keys) >= MaxSize /\ Evictable # {} => gone # {}
         /\ \A k \in gone, kept \in Evictable \ gone : Score(k) <= Score(kept)
BY EvictionsAreLeast DEF MakesRoom

\* Removing items removes no critical one, and lets the manager outgrow its
\* size by no less critical ones.
LEMMA DropKeeps ==
  ASSUME ContextAssumption, ContextIInv, NEW gone \in SUBSET Keys, Drop(gone)
  PROVE  ContextIInv'
<1>1. /\ Keys' = Keys \ gone /\ \A k \in Keys \ gone : items'[k] = items[k]
  BY DEF Drop, Without, Restrict, Keys
<1>2. /\ Keys' \subseteq Key
      /\ \A k \in Keys' : items'[k] \in Item
  BY <1>1 DEF ContextIInv
<1>3. /\ reader' \in [Readers -> [key : Key \union {Nobody}, live : BOOLEAN]]
      /\ \A r \in Readers : reader'[r].live => reader'[r].key \in Keys'
  BY <1>1 DEF ContextIInv, Drop, Orphan
<1>4. OutgrownByCritical'
  <2>1. Evictable' \in SUBSET Evictable /\ Keys' \in SUBSET Keys
    BY <1>1 DEF Evictable
  <2>2. /\ Cardinality(Evictable') \in Nat /\ Cardinality(Evictable') <= Cardinality(Evictable)
        /\ Cardinality(Keys') \in Nat /\ Cardinality(Keys') <= Cardinality(Keys)
        /\ Cardinality(Keys) \in Nat /\ Cardinality(Evictable) \in Nat
    BY <2>1, ItemsFinite, FS_Subset, FS_CardinalityType
  <2>3. MaxSize \in Nat /\ OutgrownByCritical
    BY DEF ContextAssumption, ContextIInv
  <2> QED BY <2>2, <2>3 DEF OutgrownByCritical
<1> QED BY <1>2, <1>3, <1>4 DEF ContextIInv

\* A step that changes no item's priority and adds none.
LEMMA SamePriorities ==
  ASSUME ContextIInv, Keys' = Keys, \A k \in Keys : items'[k].priority = items[k].priority
  PROVE  OutgrownByCritical'
<1>1. Evictable' = Evictable
  BY DEF Evictable
<1>2. OutgrownByCritical
  BY DEF ContextIInv
<1> QED BY <1>1, <1>2 DEF OutgrownByCritical

\* An item that is added, in the room that was made for it, leaves the invariant.
LEMMA AddKeeps ==
  ASSUME ContextAssumption, ContextIInv, NEW gone \in MakesRoom, NEW k \in Key,
         NEW priority \in Priorities, NEW life \in {"endless", "timed"},
         Add(k, gone, priority, life)
  PROVE  ContextIInv'
<1>1. /\ Keys' = (Keys \ gone) \union {k}
      /\ items'[k] = [priority |-> priority, accesses |-> 0, life |-> life]
      /\ \A l \in Keys \ gone : l # k => items'[l] = items[l]
  BY DEF Add, Keys
<1>2. /\ Keys' \subseteq Key
      /\ \A l \in Keys' : items'[l] \in Item
  <2>1. items'[k] \in Item
    BY <1>1 DEF Item
  <2> QED BY <1>1, <2>1 DEF ContextIInv
<1>3. /\ reader' \in [Readers -> [key : Key \union {Nobody}, live : BOOLEAN]]
      /\ \A r \in Readers : reader'[r].live => reader'[r].key \in Keys'
  BY <1>1 DEF ContextIInv, Add, Orphan
<1>4. OutgrownByCritical'
  <2>1. /\ gone \subseteq Evictable /\ Evictable \subseteq Keys
        /\ Cardinality(Keys) >= MaxSize /\ Evictable # {} => gone # {}
        /\ IsFiniteSet(Keys) /\ Cardinality(Keys) \in Nat
        /\ IsFiniteSet(Evictable) /\ Cardinality(Evictable) \in Nat
        /\ MaxSize \in Nat
    BY RoomMade, ItemsFinite DEF ContextAssumption
  <2>2. /\ Keys' \in SUBSET (Keys \union {k})
        /\ Evictable' \subseteq (Evictable \ gone) \union {k}
    BY <1>1 DEF Evictable
  <2>3. CASE Evictable' \subseteq {k}
    <3>1. IsFiniteSet({k}) /\ Cardinality({k}) = 1
      BY FS_Singleton
    <3>2. Cardinality(Evictable') <= 1
      BY <2>3, <3>1, FS_Subset
    <3> QED BY <3>2 DEF OutgrownByCritical
  <2>4. CASE Cardinality(Keys) < MaxSize
    <3>1. /\ IsFiniteSet(Keys \union {k})
          /\ Cardinality(Keys \union {k}) <= Cardinality(Keys) + 1
      BY <2>1, FS_AddElement
    <3>2. Cardinality(Keys') <= Cardinality(Keys \union {k})
      BY <2>2, <3>1, FS_Subset
    <3>3. Cardinality(Keys \union {k}) \in Nat /\ Cardinality(Keys') \in Nat
      BY <2>2, <3>1, FS_Subset, FS_CardinalityType
    <3>4. ~(Cardinality(Keys') > MaxSize)
      BY <2>1, <2>4, <3>1, <3>2, <3>3
    <3> QED BY <3>4 DEF OutgrownByCritical
  <2>5. CASE Cardinality(Keys) >= MaxSize /\ ~(Evictable' \subseteq {k})
    <3>1. PICK out \in gone : TRUE
      BY <2>1, <2>2, <2>5
    <3>2. Cardinality(Keys) = MaxSize
      <4>1. SUFFICES ASSUME Cardinality(Keys) > MaxSize PROVE FALSE
        BY <2>1, <2>5
      <4>2. Cardinality(Evictable) <= 1
        BY <4>1 DEF ContextIInv, OutgrownByCritical
      <4>3. PICK kept \in Evictable \ gone : kept # k
        BY <2>2, <2>5
      <4>4. {out, kept} \in SUBSET Evictable /\ out # kept
        BY <2>1, <4>3
      <4>5. IsFiniteSet({out}) /\ Cardinality({out}) = 1
        BY FS_Singleton
      <4>6. Cardinality({out} \union {kept}) = Cardinality({out}) + 1
        <5>1. kept \notin {out}
          BY <4>4
        <5> QED BY <4>5, <5>1, FS_AddElement
      <4>7. Cardinality({out} \union {kept}) <= Cardinality(Evictable)
        BY <2>1, <4>4, FS_Subset
      <4> QED BY <2>1, <4>2, <4>5, <4>6, <4>7
    <3>3. /\ out \in Keys /\ IsFiniteSet(Keys \ {out})
          /\ Cardinality(Keys \ {out}) = Cardinality(Keys) - 1
      BY <2>1, <3>1, FS_RemoveElement
    <3>4. /\ IsFiniteSet((Keys \ {out}) \union {k})
          /\ Cardinality((Keys \ {out}) \union {k}) <= Cardinality(Keys)
      <4>1. Cardinality(Keys \ {out}) \in Nat
        BY <3>3, FS_CardinalityType
      <4>2. /\ IsFiniteSet((Keys \ {out}) \union {k})
            /\ \/ Cardinality((Keys \ {out}) \union {k}) = Cardinality(Keys \ {out})
               \/ Cardinality((Keys \ {out}) \union {k}) = Cardinality(Keys \ {out}) + 1
        BY <3>3, FS_AddElement
      <4> QED BY <2>1, <3>3, <4>1, <4>2
    <3>5. Keys' \in SUBSET ((Keys \ {out}) \union {k})
      BY <1>1, <3>1
    <3>6. /\ Cardinality(Keys') <= Cardinality((Keys \ {out}) \union {k})
          /\ Cardinality(Keys') \in Nat /\ Cardinality((Keys \ {out}) \union {k}) \in Nat
      BY <3>4, <3>5, FS_Subset, FS_CardinalityType
    <3>7. ~(Cardinality(Keys') > MaxSize)
      BY <2>1, <3>2, <3>4, <3>6
    <3> QED BY <3>7 DEF OutgrownByCritical
  <2> QED BY <2>1, <2>3, <2>4, <2>5
<1> QED BY <1>2, <1>3, <1>4 DEF ContextIInv

\* Every step of the context manager keeps the invariant.
LEMMA ContextStep ==
  ASSUME ContextAssumption, ContextIInv, [ContextNext]_contextVars
  PROVE  ContextIInv'
<1>1. ASSUME NEW gone \in MakesRoom, NEW k \in Key, Set(k, gone) PROVE ContextIInv'
  <2>1. PICK priority \in Priorities, life \in {"endless", "timed"} :
          Add(k, gone, priority, life)
    BY <1>1 DEF Set, Priorities
  <2> QED BY <2>1, AddKeeps
<1>2. ASSUME NEW gone \in SUBSET Keys, Drop(gone) PROVE ContextIInv'
  BY <1>2, DropKeeps
<1>3. ASSUME NEW k \in Key, RemoveKey(k) PROVE ContextIInv'
  BY <1>2, <1>3 DEF RemoveKey
<1>4. ASSUME NEW a \in AgentOwners, ClearAgent(a) PROVE ContextIInv'
  BY <1>2, <1>4 DEF ClearAgent
<1>5. ASSUME NEW t \in TaskOwners, ClearTask(t) PROVE ContextIInv'
  BY <1>2, <1>5 DEF ClearTask
<1>6. CASE Cleanup
  BY <1>2, <1>6 DEF Cleanup
<1>7. ASSUME NEW k \in Key, Expire(k) PROVE ContextIInv'
  <2>1. k \in Keys /\ items' = [items EXCEPT ![k].life = "expired"] /\ reader' = reader
    BY <1>7 DEF Expire
  <2>2. Keys' = Keys
    BY <2>1 DEF Keys
  <2>3. \A l \in Keys : items'[l] \in Item /\ items'[l].priority = items[l].priority
    BY <2>1 DEF ContextIInv, Item, Keys
  <2> QED BY <2>1, <2>2, <2>3, SamePriorities DEF ContextIInv
<1>8. ASSUME NEW k \in Key, NEW r \in Readers, Find(r, k) PROVE ContextIInv'
  <2>1. /\ k \in Keys /\ items' = items
        /\ reader' = [reader EXCEPT ![r] = [key |-> k, live |-> TRUE]]
    BY <1>8 DEF Find
  <2>2. Keys' = Keys
    BY <2>1 DEF Keys
  <2> QED BY <2>1, <2>2, SamePriorities DEF ContextIInv
<1>9. ASSUME NEW r \in Readers, Touch(r) PROVE ContextIInv'
  <2>1. /\ \/ items' = items
           \/ items' = [items EXCEPT ![reader[r].key].accesses = @ + 1]
        /\ reader' = [reader EXCEPT ![r] = [key |-> Nobody, live |-> FALSE]]
    BY <1>9 DEF Touch, NotReading
  <2>2. Keys' = Keys
    BY <2>1 DEF Keys
  <2>3. \A l \in Keys : items'[l] \in Item /\ items'[l].priority = items[l].priority
    BY <2>1 DEF ContextIInv, Item, Keys
  <2>4. /\ reader' \in [Readers -> [key : Key \union {Nobody}, live : BOOLEAN]]
        /\ \A s \in Readers : reader'[s].live => reader'[s].key \in Keys'
    BY <2>1, <2>2 DEF ContextIInv
  <2> QED BY <2>2, <2>3, <2>4, SamePriorities DEF ContextIInv
<1>10. CASE UNCHANGED contextVars
  BY <1>10 DEF contextVars, ContextIInv, Keys, OutgrownByCritical, Evictable
<1> QED BY <1>1, <1>3, <1>4, <1>5, <1>6, <1>7, <1>8, <1>9, <1>10 DEF ContextNext

\* The invariant holds of an empty manager.
LEMMA InitContextIInv == ContextAssumption /\ ContextInit => ContextIInv
<1> SUFFICES ASSUME ContextAssumption, ContextInit PROVE ContextIInv
  OBVIOUS
<1>1. Keys = {} /\ MaxSize \in Nat
  BY DEF ContextInit, Keys, ContextAssumption
<1>2. ~(Cardinality(Keys) > MaxSize)
  BY <1>1, FS_EmptySet
<1> QED BY <1>1, <1>2 DEF ContextInit, ContextIInv, NotReading,
           OutgrownByCritical

\* The context manager keeps its inductive invariant.
LEMMA ContextInvariant == ContextSpec => []ContextIInv
<1>1. ContextInit => ContextIInv
  BY ContextAssumption, InitContextIInv
<1>2. ContextIInv /\ [ContextNext]_contextVars => ContextIInv'
  BY ContextAssumption, ContextStep
<1> QED BY <1>1, <1>2, PTL DEF ContextSpec

\* The context manager outgrows maxSize only by items that must never be
\* evicted and one more, and no reader is left with an item that is gone.
THEOREM OnlyCriticalOutgrows == ContextSpec => []ContextInv
<1>1. ContextIInv => ContextInv
  BY DEF ContextIInv, ContextInv, ContextTypeOK
<1> QED BY <1>1, ContextInvariant, PTL

\* What is added pushes out nothing critical and nothing that is worth more than
\* what stays: the items are sorted by their score whatever order the map was
\* read in, and the first of them go.
THEOREM LeastAreEvicted == ContextSpec => EvictsLeast
<1>1. ASSUME ContextIInv, ContextNext, DOMAIN items' \ Keys # {},
             NEW out \in Keys \ DOMAIN items'
      PROVE  /\ items[out].priority # PriorityCritical
             /\ \A kept \in Evictable \intersect DOMAIN items' : Score(out) <= Score(kept)
  <2>1. \A drop \in SUBSET Keys : ~Drop(drop)
    BY <1>1 DEF Drop, Without, Restrict, Keys
  <2>2. PICK gone \in MakesRoom, k \in Key : Set(k, gone)
    <3>1. ~Cleanup /\ \A k \in Key : ~RemoveKey(k)
      BY <2>1 DEF Cleanup, RemoveKey
    <3>2. (\A a \in AgentOwners : ~ClearAgent(a)) /\ \A t \in TaskOwners : ~ClearTask(t)
      BY <2>1 DEF ClearAgent, ClearTask
    <3>3. DOMAIN items' # DOMAIN items
      BY <1>1 DEF Keys
    <3>4. \A k \in Key : ~Expire(k) /\ \A r \in Readers : ~Find(r, k)
      BY <3>3 DEF Expire, Find
    <3>5. \A r \in Readers : ~Touch(r)
      BY <3>3 DEF Touch
    <3> QED BY <1>1, <3>1, <3>2, <3>4, <3>5 DEF ContextNext
  <2>3. DOMAIN items' = (Keys \ gone) \union {k}
    BY <2>2 DEF Set, Add
  <2>4. /\ gone \subseteq Evictable
        /\ \A l \in gone, kept \in Evictable \ gone : Score(l) <= Score(kept)
    BY <1>1, ContextAssumption, RoomMade
  <2>5. out \in gone /\ k \notin Keys
    BY <1>1, <2>3
  <2>6. \A kept \in Evictable \intersect DOMAIN items' : kept \in Evictable \ gone
    BY <2>3, <2>5 DEF Evictable
  <2> QED BY <2>4, <2>5, <2>6 DEF Evictable
<1>2. ContextIInv /\ [ContextNext]_contextVars =>
        [DOMAIN items' \ Keys # {} =>
           \A gone \in Keys \ DOMAIN items' :
             /\ items[gone].priority # PriorityCritical
             /\ \A kept \in Evictable \intersect DOMAIN items' :
                  Score(gone) <= Score(kept)]_contextVars
  BY <1>1
<1> QED BY <1>2, ContextInvariant, PTL DEF ContextSpec, EvictsLeast
=============================================================================
