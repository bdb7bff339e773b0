--------------------------- MODULE ModelRoutingProofs -----------------------
(***************************************************************************)
(* Proofs about the model registry and the routing of requests by it, for  *)
(* any models, presets, upstream lists and number of clients: the registry *)
(* is consistent at every moment of a refresh, what is sent upstream fits  *)
(* the channel it was checked for, and no name that resolves is lost.      *)
(*                                                                         *)
(* What the registry holds at start-up is a fold over the two lists of     *)
(* models, so the facts about folds come first.                            *)
(***************************************************************************)
EXTENDS ModelRouting, SequenceTheorems, NaturalsInduction,
        FiniteSetTheorems, TLAPS

(* Folds. *)

\* What holds of 0 and is handed on from each number to the next holds up to N.
LEMMA UpTo ==
  ASSUME NEW N \in Nat, NEW T, 0 \in T,
         \A n \in 0 .. N - 1 : n \in T => n + 1 \in T
  PROVE  0 .. N \subseteq T
<1> DEFINE Bad == {n \in Nat : n <= N /\ n \notin T}
           Less == {ss \in Nat \X Nat : ss[1] < ss[2]}
<1> SUFFICES ASSUME Bad # {} PROVE FALSE
  OBVIOUS
<1>1. IsWellFoundedOn(Less, Nat)
  BY NatLessThanWellFounded DEF OpToRel
<1> HIDE DEF Less
<1>2. PICK n \in Bad : \A m \in Bad : ~(<<m, n>> \in Less)
  <2> HIDE DEF Bad
  <2>1. Bad \subseteq Nat
    BY DEF Bad
  <2> QED BY <1>1, <2>1, WFMin
<1>3. n \in 1 .. N /\ n \notin T
  OBVIOUS
<1>4. <<n - 1, n>> \in Less
  BY <1>3 DEF Less
<1>5. n - 1 \in T
  BY <1>2, <1>3, <1>4
<1> QED BY <1>3, <1>5

\* A set of numbers up to n that is not empty has a greatest one.
LEMMA MaxUpTo ==
  ASSUME NEW n \in Nat, NEW s \in SUBSET (1 .. n), s # {}
  PROVE  Max(s) \in s /\ \A y \in s : y <= Max(s)
<1> DEFINE Greatest(t) == \E m \in t : \A y \in t : m >= y
           T == {k \in 0 .. n : \A t \in SUBSET (1 .. k) : t = {} \/ Greatest(t)}
<1>1. 0 \in T
  OBVIOUS
<1>2. ASSUME NEW k \in 0 .. n - 1, k \in T PROVE k + 1 \in T
  <2>1. ASSUME NEW t \in SUBSET (1 .. k + 1) PROVE t = {} \/ Greatest(t)
    <3>1. CASE k + 1 \in t
      BY <3>1
    <3>2. CASE k + 1 \notin t
      <4>1. t \in SUBSET (1 .. k)
        BY <3>2
      <4> QED BY <1>2, <4>1
    <3> QED BY <3>1, <3>2
  <2> QED BY <2>1
<1>3. 0 .. n \subseteq T
  <2> HIDE DEF T
  <2> QED BY <1>1, <1>2, UpTo
<1>4. Greatest(s)
  <2>1. n \in T
    <3> HIDE DEF T
    <3> QED BY <1>3
  <2> QED BY <2>1
<1>5. Max(s) \in s /\ \A y \in s : Max(s) >= y
  BY <1>4 DEF Max
<1> QED BY <1>5

\* The numbers up to n + 1, and the greatest of them.
LEMMA NextPlace ==
  ASSUME NEW N \in Nat, NEW n \in 0 .. N - 1
  PROVE  /\ n + 1 \in 1 .. N /\ (n + 1) - 1 = n
         /\ 1 .. n + 1 # {} /\ 1 .. n + 1 \in SUBSET (1 .. N)
         /\ Max(1 .. n + 1) = n + 1
         /\ (1 .. n + 1) \ {n + 1} = 1 .. n
<1>1. n \in Nat /\ n + 1 \in Nat /\ n + 1 <= N
  OBVIOUS
<1>2. n + 1 \in 1 .. n + 1
  BY <1>1
<1>3. Max(1 .. n + 1) \in 1 .. n + 1 /\ \A y \in 1 .. n + 1 : y <= Max(1 .. n + 1)
  BY <1>1, <1>2, MaxUpTo
<1>4. Max(1 .. n + 1) = n + 1
  BY <1>1, <1>2, <1>3
<1>5. (1 .. n + 1) \ {n + 1} = 1 .. n
  BY <1>1
<1>6. 1 .. n + 1 \in SUBSET (1 .. N)
  BY <1>1
<1> QED BY <1>1, <1>2, <1>4, <1>5, <1>6

\* f solves the recursion of a fold over N places.
Solves(f, N, base, step) ==
  \A s \in SUBSET (1 .. N) :
    f[s] = IF s = {} THEN base ELSE step[Max(s)][f[s \ {Max(s)}]]

\* There is a solution.
LEMMA FoldSolution ==
  ASSUME NEW N \in Nat, NEW V, NEW base \in V, NEW step \in [1 .. N -> [V -> V]]
  PROVE  \E f \in [SUBSET (1 .. N) -> V] : Solves(f, N, base, step)
<1> DEFINE T == {n \in 0 .. N : \E f \in [SUBSET (1 .. n) -> V] : Solves(f, n, base, step)}
<1>1. 0 \in T
  <2>1. [s \in SUBSET (1 .. 0) |-> base] \in [SUBSET (1 .. 0) -> V]
    OBVIOUS
  <2>2. Solves([s \in SUBSET (1 .. 0) |-> base], 0, base, step)
    BY DEF Solves
  <2> QED BY <2>1, <2>2
<1>2. ASSUME NEW n \in 0 .. N - 1, n \in T PROVE n + 1 \in T
  <2>1. PICK f \in [SUBSET (1 .. n) -> V] : Solves(f, n, base, step)
    BY <1>2
  <2> DEFINE g == [s \in SUBSET (1 .. n + 1) |->
                     IF n + 1 \in s THEN step[n + 1][f[s \ {n + 1}]] ELSE f[s]]
  <2>2. \A s \in SUBSET (1 .. n + 1) :
          /\ s \ {n + 1} \in SUBSET (1 .. n)
          /\ n + 1 \notin s => s \in SUBSET (1 .. n)
    OBVIOUS
  <2>3. g \in [SUBSET (1 .. n + 1) -> V]
    <3>1. step[n + 1] \in [V -> V]
      OBVIOUS
    <3> QED BY <2>2, <3>1
  <2>4. ASSUME NEW s \in SUBSET (1 .. n + 1), s # {}
        PROVE  g[s] = step[Max(s)][g[s \ {Max(s)}]]
    <3>1. Max(s) \in s /\ \A y \in s : y <= Max(s)
      <4>1. n + 1 \in Nat
        OBVIOUS
      <4> HIDE DEF g
      <4> QED BY <2>4, <4>1, MaxUpTo
    <3>2. CASE n + 1 \in s
      <4>1. Max(s) = n + 1
        <5> HIDE DEF g, T
        <5>1. Max(s) \in 1 .. n + 1
          BY <3>1
        <5>2. n + 1 <= Max(s)
          BY <3>1, <3>2
        <5> QED BY <5>1, <5>2
      <4>2. g[s] = step[n + 1][f[s \ {n + 1}]]
        BY <3>2
      <4>3. g[s \ {n + 1}] = f[s \ {n + 1}]
        BY <2>2
      <4> QED BY <4>1, <4>2, <4>3
    <3>3. CASE n + 1 \notin s
      <4>1. s \in SUBSET (1 .. n) /\ s \ {Max(s)} \in SUBSET (1 .. n)
        <5>1. s \in SUBSET (1 .. n)
          BY <2>2, <3>3
        <5> QED BY <5>1
      <4>2. f[s] = step[Max(s)][f[s \ {Max(s)}]]
        BY <2>1, <2>4, <4>1 DEF Solves
      <4>3. g[s] = f[s] /\ g[s \ {Max(s)}] = f[s \ {Max(s)}]
        BY <3>3, <4>1
      <4> QED BY <4>2, <4>3
    <3> QED BY <3>2, <3>3
  <2>5. g[{}] = base
    BY <2>1 DEF Solves
  <2>6. Solves(g, n + 1, base, step)
    <3> HIDE DEF g
    <3> QED BY <2>4, <2>5 DEF Solves
  <2> HIDE DEF g
  <2> QED BY <2>3, <2>6
<1>3. 0 .. N \subseteq T
  <2> HIDE DEF T
  <2> QED BY <1>1, <1>2, UpTo
<1>4. N \in T
  <2> HIDE DEF T
  <2> QED BY <1>3
<1> QED BY <1>4

-----------------------------------------------------------------------------
(* The registry at start-up. *)

ModelIDs == Builtin \union Preset
Lists == ToSet(Builtins) \union ToSet(Presets)
Displays == {entry.display : entry \in Lists}
AliasKeys == UNION {entry.aliases : entry \in Lists}

\* The registries that preloading can make: models and aliases, for some of the
\* ids and keys.
Info == [display : Displays, source : {"builtin"}, upstream : ModelIDs \union {None},
         channel : {"legacy", "agent"}]
Registries ==
  (UNION {[ids -> Info] : ids \in SUBSET ModelIDs})
    \X (UNION {[keys -> ModelIDs] : keys \in SUBSET AliasKeys})

\* r is reg with one entry loaded into it.
Loaded(r, reg, entry, upstream, channel) ==
  /\ r \in Registries
  /\ DOMAIN r[1] = DOMAIN reg[1] \union {entry.id}
  /\ r[1][entry.id].upstream = upstream /\ r[1][entry.id].channel = channel
  /\ \A id \in DOMAIN reg[1] : id # entry.id => r[1][id] = reg[1][id]
  /\ DOMAIN r[2] = DOMAIN reg[2] \union entry.aliases
  /\ \A k \in DOMAIN r[2] :
       r[2][k] = entry.id \/ (k \in DOMAIN reg[2] /\ r[2][k] = reg[2][k])

\* One entry is loaded.
LEMMA Preloads ==
  ASSUME NEW reg \in Registries, NEW entry \in Lists, entry.id \in ModelIDs,
         NEW upstream \in ModelIDs \union {None}, NEW channel \in {"legacy", "agent"},
         NEW r, r = Preload(reg, entry, upstream, channel)
  PROVE  Loaded(r, reg, entry, upstream, channel)
<1> DEFINE m == FreshModel(entry.display, "builtin", upstream, channel)
           ms == UpsertModel(reg[1], entry.id, m)
           as == UpsertAliases(reg[2], entry.id, entry.aliases)
<1>1. Preload(reg, entry, upstream, channel) = <<ms, as>>
  BY DEF Preload
<1>2. /\ m \in Info /\ m.upstream = upstream /\ m.channel = channel
  BY DEF FreshModel, Info, Displays
<1> HIDE DEF m
<1>3. PICK ids \in SUBSET ModelIDs : reg[1] \in [ids -> Info]
  BY DEF Registries
<1>4. PICK keys \in SUBSET AliasKeys : reg[2] \in [keys -> ModelIDs]
  BY DEF Registries
<1>5. /\ ms \in [ids \union {entry.id} -> Info] /\ ms[entry.id] = m
      /\ \A id \in ids : id # entry.id => ms[id] = reg[1][id]
  BY <1>2, <1>3 DEF UpsertModel
<1>6. /\ as \in [keys \union entry.aliases -> ModelIDs]
      /\ \A k \in keys \union entry.aliases :
           as[k] = entry.id \/ (k \in keys /\ as[k] = reg[2][k])
  BY <1>4 DEF UpsertAliases
<1>7. ids \union {entry.id} \in SUBSET ModelIDs /\ keys \union entry.aliases \in SUBSET AliasKeys
  BY DEF AliasKeys
<1> HIDE DEF ms, as
<1>8. <<ms, as>> \in Registries
  <2>1. ms \in UNION {[d -> Info] : d \in SUBSET ModelIDs}
    BY <1>5, <1>7
  <2>2. as \in UNION {[d -> ModelIDs] : d \in SUBSET AliasKeys}
    BY <1>6, <1>7
  <2> QED BY <2>1, <2>2 DEF Registries
<1>9. r = <<ms, as>> /\ r[1] = ms /\ r[2] = as
  BY <1>1
<1>10. /\ r \in Registries
       /\ DOMAIN r[1] = DOMAIN reg[1] \union {entry.id}
       /\ r[1][entry.id].upstream = upstream /\ r[1][entry.id].channel = channel
       /\ \A id \in DOMAIN reg[1] : id # entry.id => r[1][id] = reg[1][id]
  BY <1>2, <1>3, <1>5, <1>8, <1>9
<1>11. /\ DOMAIN r[2] = DOMAIN reg[2] \union entry.aliases
       /\ \A k \in DOMAIN r[2] :
            r[2][k] = entry.id \/ (k \in DOMAIN reg[2] /\ r[2][k] = reg[2][k])
  BY <1>4, <1>6, <1>9
<1> QED BY <1>10, <1>11 DEF Loaded

\* f folds the loading of the list, of entries with their upstream names, over
\* the sets of its places.
FoldsLoading(f, list, upstream, channel, base) ==
  \A s \in SUBSET (1 .. Len(list)) :
    f[s] = IF s = {} THEN base
           ELSE Preload(f[s \ {Max(s)}], list[Max(s)], upstream[Max(s)], channel)

\* There is such a fold.
LEMMA LoadingFolds ==
  ASSUME NEW list \in Seq(Lists), \A i \in DOMAIN list : list[i].id \in ModelIDs,
         NEW upstream \in [DOMAIN list -> ModelIDs \union {None}],
         NEW channel \in {"legacy", "agent"}, NEW base \in Registries
  PROVE  \E f \in [SUBSET (1 .. Len(list)) -> Registries] :
           FoldsLoading(f, list, upstream, channel, base)
<1> DEFINE N == Len(list)
           step == [n \in 1 .. N |-> [r \in Registries |->
                      Preload(r, list[n], upstream[n], channel)]]
<1>1. N \in Nat /\ DOMAIN list = 1 .. N
  OBVIOUS
<1>2. step \in [1 .. N -> [Registries -> Registries]]
  <2>1. ASSUME NEW n \in 1 .. N, NEW r \in Registries
        PROVE  Preload(r, list[n], upstream[n], channel) \in Registries
    <3>1. /\ list[n] \in Lists /\ list[n].id \in ModelIDs
          /\ upstream[n] \in ModelIDs \union {None}
      BY <1>1
    <3> HIDE DEF N
    <3>2. Loaded(Preload(r, list[n], upstream[n], channel), r, list[n], upstream[n], channel)
      BY <3>1, Preloads
    <3> QED BY <3>2 DEF Loaded
  <2> QED BY <2>1
<1>3. PICK f \in [SUBSET (1 .. N) -> Registries] : Solves(f, N, base, step)
  <2> HIDE DEF step, N
  <2> QED BY <1>1, <1>2, FoldSolution
<1>4. ASSUME NEW s \in SUBSET (1 .. N), s # {}
      PROVE  f[s] = Preload(f[s \ {Max(s)}], list[Max(s)], upstream[Max(s)], channel)
  <2>1. Max(s) \in 1 .. N
    <3> HIDE DEF N
    <3> QED BY <1>1, <1>4, MaxUpTo
  <2>2. f[s \ {Max(s)}] \in Registries
    OBVIOUS
  <2>3. f[s] = step[Max(s)][f[s \ {Max(s)}]]
    <3> HIDE DEF step, N
    <3> QED BY <1>3, <1>4 DEF Solves
  <2> QED BY <2>1, <2>2, <2>3
<1>5. f[{}] = base
  <2> HIDE DEF step, N
  <2> QED BY <1>3 DEF Solves
<1>6. FoldsLoading(f, list, upstream, channel, base)
  BY <1>4, <1>5 DEF FoldsLoading
<1> QED BY <1>6

\* r is base with the list loaded into it.
ListIn(r, list, upstream, channel, base) ==
  LET ids == {list[i].id : i \in DOMAIN list} IN
  /\ r \in Registries /\ DOMAIN r[1] = DOMAIN base[1] \union ids
  /\ \A id \in ids : /\ r[1][id].channel = channel
                     /\ \E i \in DOMAIN list : /\ list[i].id = id
                                               /\ r[1][id].upstream = upstream[i]
  /\ \A id \in DOMAIN base[1] \ ids : r[1][id] = base[1][id]
  /\ (\A k \in DOMAIN base[2] : base[2][k] \in DOMAIN base[1])
       => \A k \in DOMAIN r[2] : r[2][k] \in DOMAIN r[1]

\* A list of entries is loaded, one after another, each with its upstream name,
\* on one channel.
LEMMA ListLoads ==
  ASSUME NEW list \in Seq(Lists), \A i \in DOMAIN list : list[i].id \in ModelIDs,
         NEW upstream \in [DOMAIN list -> ModelIDs \union {None}],
         NEW channel \in {"legacy", "agent"}, NEW base \in Registries,
         NEW f, FoldsLoading(f, list, upstream, channel, base)
  PROVE  ListIn(f[1 .. Len(list)], list, upstream, channel, base)
<1> DEFINE N == Len(list)
           loaded(n) == {list[i].id : i \in 1 .. n}
           Good(r, n) ==
             /\ r \in Registries /\ DOMAIN r[1] = DOMAIN base[1] \union loaded(n)
             /\ \A id \in loaded(n) : /\ r[1][id].channel = channel
                                      /\ \E i \in 1 .. n : /\ list[i].id = id
                                                           /\ r[1][id].upstream = upstream[i]
             /\ \A id \in DOMAIN base[1] \ loaded(n) : r[1][id] = base[1][id]
             /\ (\A k \in DOMAIN base[2] : base[2][k] \in DOMAIN base[1])
                  => \A k \in DOMAIN r[2] : r[2][k] \in DOMAIN r[1]
           T == {n \in 0 .. N : Good(f[1 .. n], n)}
<1>1. N \in Nat /\ DOMAIN list = 1 .. N /\ \A i \in 1 .. N : list[i] \in Lists
  OBVIOUS
<1>2. 0 \in T
  <2>1. 1 .. 0 = {} /\ f[{}] = base /\ loaded(0) = {}
    <3>1. f[{}] = base
      BY DEF FoldsLoading
    <3> QED BY <3>1
  <2>2. Good(base, 0)
    BY <2>1
  <2> HIDE DEF Good
  <2> QED BY <1>1, <2>1, <2>2
<1>3. ASSUME NEW n \in 0 .. N - 1, n \in T PROVE n + 1 \in T
  <2>1. /\ n + 1 \in 1 .. N /\ (n + 1) - 1 = n
        /\ 1 .. n + 1 # {} /\ 1 .. n + 1 \in SUBSET (1 .. N)
        /\ Max(1 .. n + 1) = n + 1
        /\ (1 .. n + 1) \ {n + 1} = 1 .. n
    <3>1. N \in Nat
      BY <1>1
    <3> HIDE DEF N, T
    <3> QED BY <3>1, NextPlace
  <2> DEFINE q == f[1 .. n]
             r == f[1 .. n + 1]
  <2>2. Good(q, n)
    BY <1>3
  <2>3. r = Preload(q, list[n + 1], upstream[n + 1], channel)
    <3> HIDE DEF Good
    <3> QED BY <2>1 DEF FoldsLoading
  <2>4. loaded(n + 1) = loaded(n) \union {list[n + 1].id} /\ 1 .. n \subseteq 1 .. n + 1
    <3>1. 1 .. n + 1 = (1 .. n) \union {n + 1}
      BY <2>1
    <3> QED BY <3>1
  <2> DEFINE entry == list[n + 1]
             u == upstream[n + 1]
  <2>5. /\ entry \in Lists /\ entry.id \in ModelIDs /\ n + 1 \in 1 .. n + 1
        /\ u \in ModelIDs \union {None}
    BY <1>1, <2>1
  <2> HIDE DEF q, r, entry, loaded, u
  <2>6. /\ r \in Registries
        /\ DOMAIN r[1] = DOMAIN q[1] \union {entry.id}
        /\ r[1][entry.id].upstream = u /\ r[1][entry.id].channel = channel
        /\ \A id \in DOMAIN q[1] : id # entry.id => r[1][id] = q[1][id]
        /\ \A k \in DOMAIN r[2] : r[2][k] = entry.id \/ (k \in DOMAIN q[2] /\ r[2][k] = q[2][k])
    <3>1. r = Preload(q, entry, u, channel) /\ q \in Registries
      BY <2>2, <2>3 DEF entry, u
    <3>2. Loaded(r, q, entry, u, channel)
      <4> HIDE DEF Good, T, N
      <4> QED BY <2>5, <3>1, Preloads
    <3> QED BY <3>2 DEF Loaded
  <2>7. entry.id = list[n + 1].id /\ u = upstream[n + 1]
    BY DEF entry, u
  <2>8. Good(r, n + 1)
    <3> HIDE DEF N
    <3>1. DOMAIN r[1] = DOMAIN base[1] \union loaded(n + 1)
      BY <2>2, <2>4, <2>6, <2>7
    <3>2. ASSUME NEW id \in loaded(n + 1)
          PROVE  /\ r[1][id].channel = channel
                 /\ \E i \in 1 .. n + 1 : /\ list[i].id = id
                                          /\ r[1][id].upstream = upstream[i]
      <4>1. CASE id = entry.id
        BY <2>5, <2>6, <2>7, <4>1
      <4>2. CASE id # entry.id
        <5>1. id \in loaded(n) /\ id \in DOMAIN q[1]
          BY <2>2, <2>4, <2>7, <4>2
        <5> QED BY <2>2, <2>4, <2>6, <4>2, <5>1
      <4> QED BY <4>1, <4>2
    <3>3. \A id \in DOMAIN base[1] \ loaded(n + 1) : r[1][id] = base[1][id]
      BY <2>2, <2>4, <2>6, <2>7
    <3>4. (\A k \in DOMAIN base[2] : base[2][k] \in DOMAIN base[1])
            => \A k \in DOMAIN r[2] : r[2][k] \in DOMAIN r[1]
      BY <2>2, <2>6
    <3> QED BY <2>6, <3>1, <3>2, <3>3, <3>4
  <2> HIDE DEF Good
  <2> QED BY <2>1, <2>8 DEF r
<1>4. N \in T
  <2>1. N \in Nat
    BY <1>1
  <2> HIDE DEF T, N
  <2>2. 0 .. N \subseteq T
    BY <2>1, <1>2, <1>3, UpTo
  <2> QED BY <2>1, <2>2
<1>5. Good(f[1 .. N], N) /\ loaded(N) = {list[i].id : i \in DOMAIN list}
  BY <1>1, <1>4
<1> QED BY <1>1, <1>5 DEF ListIn

\* NewRegistry holds the builtin models, on the agent channel and without an
\* upstream name (registry.go:102-111).
LEMMA BuiltinsLoad ==
  /\ NewRegistry \in Registries /\ DOMAIN NewRegistry[1] = Builtin
  /\ \A id \in Builtin : /\ NewRegistry[1][id].channel = "agent"
                         /\ NewRegistry[1][id].upstream = None
  /\ \A k \in DOMAIN NewRegistry[2] : NewRegistry[2][k] \in Builtin
<1> DEFINE N == Len(Builtins)
           base == <<<<>>, <<>>>>
           Body(f) == [s \in SUBSET DOMAIN Builtins |->
                         IF s = {} THEN base
                         ELSE Preload(f[s \ {Max(s)}], Builtins[Max(s)], None, "agent")]
           fold == CHOOSE f : f = Body(f)
           upstream == [i \in DOMAIN Builtins |-> None]
<1>1. /\ N \in Nat /\ DOMAIN Builtins = 1 .. N
      /\ Builtins \in Seq(Lists)
      /\ \A i \in DOMAIN Builtins : Builtins[i].id \in ModelIDs
      /\ upstream \in [DOMAIN Builtins -> ModelIDs \union {None}]
  <2>1. Builtins \in Seq(ToSet(Builtins)) /\ ToSet(Builtins) \subseteq Lists
    BY RoutingAssumption DEF Lists
  <2>2. \A i \in DOMAIN Builtins : Builtins[i].id \in ModelIDs
    BY DEF ModelIDs, Builtin
  <2> QED BY <2>1, <2>2
<1>2. base \in Registries /\ DOMAIN base[1] = {} /\ DOMAIN base[2] = {}
  <2> DEFINE none == <<>>
  <2>1. none \in [{} -> Info] /\ none \in [{} -> ModelIDs] /\ DOMAIN none = {}
    OBVIOUS
  <2> HIDE DEF none
  <2>2. none \in UNION {[ids -> Info] : ids \in SUBSET ModelIDs}
    BY <2>1
  <2>3. none \in UNION {[keys -> ModelIDs] : keys \in SUBSET AliasKeys}
    BY <2>1
  <2>4. base = <<none, none>>
    BY DEF none
  <2> HIDE DEF base
  <2> QED BY <2>1, <2>2, <2>3, <2>4 DEF Registries
<1>3. NewRegistry = fold[1 .. N]
  BY <1>1 DEF NewRegistry, FoldLeft, MapThenFoldSet
<1>4. ASSUME NEW s \in SUBSET (1 .. N), s # {} PROVE upstream[Max(s)] = None
  <2>1. Max(s) \in 1 .. N
    <3> HIDE DEF N
    <3> QED BY <1>1, <1>4, MaxUpTo
  <2> QED BY <1>1, <2>1
<1>5. PICK f \in [SUBSET (1 .. N) -> Registries] :
        FoldsLoading(f, Builtins, upstream, "agent", base)
  <2> HIDE DEF base, upstream
  <2> QED BY <1>1, <1>2, LoadingFolds
<1>6. f = Body(f)
  <2> HIDE DEF base, upstream
  <2> QED BY <1>1, <1>4, <1>5 DEF FoldsLoading
<1>7. fold = Body(fold)
  <2> HIDE DEF Body
  <2> QED BY <1>6
<1> HIDE DEF fold
<1>8. FoldsLoading(fold, Builtins, upstream, "agent", base)
  <2> HIDE DEF base, upstream
  <2> QED BY <1>1, <1>4, <1>7 DEF FoldsLoading
<1>9. ListIn(fold[1 .. N], Builtins, upstream, "agent", base)
  <2> HIDE DEF base, upstream
  <2> QED BY <1>1, <1>2, <1>8, ListLoads
<1> HIDE DEF N
<1>10. {Builtins[i].id : i \in DOMAIN Builtins} = Builtin
  BY DEF Builtin
<1> QED BY <1>1, <1>2, <1>3, <1>9, <1>10 DEF ListIn

\* NewDefaultRegistry adds the presets, on the legacy channel and under their own
\* names; a builtin model that is a preset too is overwritten (registry.go:249-255).
LEMMA DefaultsLoad ==
  /\ NewDefaultRegistry \in Registries
  /\ DOMAIN NewDefaultRegistry[1] = Builtin \union Preset
  /\ \A id \in Preset : /\ NewDefaultRegistry[1][id].channel = "legacy"
                        /\ NewDefaultRegistry[1][id].upstream = id
  /\ \A id \in Builtin \ Preset : /\ NewDefaultRegistry[1][id].channel = "agent"
                                  /\ NewDefaultRegistry[1][id].upstream = None
  /\ \A k \in DOMAIN NewDefaultRegistry[2] : NewDefaultRegistry[2][k] \in Builtin \union Preset
<1> DEFINE N == Len(Presets)
           base == NewRegistry
           Body(f) == [s \in SUBSET DOMAIN Presets |->
                         IF s = {} THEN base
                         ELSE Preload(f[s \ {Max(s)}], Presets[Max(s)],
                                      Presets[Max(s)].id, "legacy")]
           fold == CHOOSE f : f = Body(f)
           upstream == [i \in DOMAIN Presets |-> Presets[i].id]
<1>1. /\ N \in Nat /\ DOMAIN Presets = 1 .. N
      /\ Presets \in Seq(Lists)
      /\ \A i \in DOMAIN Presets : Presets[i].id \in ModelIDs
      /\ upstream \in [DOMAIN Presets -> ModelIDs \union {None}]
  <2>1. Presets \in Seq(ToSet(Presets)) /\ ToSet(Presets) \subseteq Lists
    BY RoutingAssumption DEF Lists
  <2>2. \A i \in DOMAIN Presets : Presets[i].id \in ModelIDs
    BY DEF ModelIDs, Preset
  <2> QED BY <2>1, <2>2
<1>2. base \in Registries
  BY BuiltinsLoad
<1>3. NewDefaultRegistry = fold[1 .. N]
  BY <1>1 DEF NewDefaultRegistry, FoldLeft, MapThenFoldSet
<1>4. ASSUME NEW s \in SUBSET (1 .. N), s # {}
      PROVE  upstream[Max(s)] = Presets[Max(s)].id
  <2>1. Max(s) \in 1 .. N
    <3> HIDE DEF N
    <3> QED BY <1>1, <1>4, MaxUpTo
  <2> QED BY <1>1, <2>1
<1>5. PICK f \in [SUBSET (1 .. N) -> Registries] :
        FoldsLoading(f, Presets, upstream, "legacy", base)
  <2> HIDE DEF base, upstream
  <2> QED BY <1>1, <1>2, LoadingFolds
<1>6. f = Body(f)
  <2> HIDE DEF base, upstream
  <2> QED BY <1>1, <1>4, <1>5 DEF FoldsLoading
<1>7. fold = Body(fold)
  <2> HIDE DEF Body
  <2> QED BY <1>6
<1> HIDE DEF fold
<1>8. FoldsLoading(fold, Presets, upstream, "legacy", base)
  <2> HIDE DEF base, upstream
  <2> QED BY <1>1, <1>4, <1>7 DEF FoldsLoading
<1>9. ListIn(fold[1 .. N], Presets, upstream, "legacy", base)
  <2> HIDE DEF base, upstream
  <2> QED BY <1>1, <1>2, <1>8, ListLoads
<1> HIDE DEF N
<1>10. {Presets[i].id : i \in DOMAIN Presets} = Preset
  BY DEF Preset
<1> QED BY <1>1, <1>2, <1>3, <1>9, <1>10, BuiltinsLoad DEF ListIn

-----------------------------------------------------------------------------
(* The inductive invariant. *)

\* What the models and the requests are made of.
EntryNames == {entry.name : entry \in Entries}
Registered == [display : Displays \union {entry.display : entry \in Entries},
               source : {"builtin", "remote"},
               upstream : Builtin \union Preset \union EntryNames \union {None},
               channel : {"legacy", "agent"}]
Names == Builtin \union Preset \union EntryNames
Request == [pc : {"idle", "guard", "dispatch", "send", "sent", "refused"},
            asked : Asked \union {None}, tools : BOOLEAN, model : Names \union {None},
            channel : {"legacy", "agent", None},
            upstream : Names \union {None}
                         \union {AgentConfig[k] : k \in DOMAIN AgentConfig},
            tries : Nat]

\* The registry at any moment of a refresh.  Only a builtin model that is no
\* preset is on the agent channel, so a model never leaves the legacy one.
RegistryIInv ==
  /\ Builtin \union Preset \subseteq DOMAIN models
  /\ DOMAIN models \subseteq Names
  /\ models \in [DOMAIN models -> Registered]
  /\ aliases \in [DOMAIN aliases -> DOMAIN models]
  /\ pending \in Seq(Entries)
  /\ listed \subseteq EntryNames
  /\ \A id \in DOMAIN models :
       /\ models[id].upstream \in Preset \union listed \union {None}
       /\ models[id].channel = "legacy" => models[id].upstream = id
       /\ models[id].channel = "agent" => id \in Builtin \ Preset
       /\ models[id].source = "remote" => id \in listed

\* A request under way names a registered model; once its channel is chosen,
\* it is one that the registry still gives that model.
Settled(c) ==
  \/ request[c].channel = "legacy" /\ models[request[c].model].channel = "legacy"
  \/ /\ request[c].channel = "agent" /\ ~request[c].tools
     /\ request[c].model \notin Preset
RequestIInv ==
  /\ request \in [Clients -> Request]
  /\ \A c \in Clients :
       /\ ~At(c, "idle") => request[c].model \in DOMAIN models
       /\ At(c, "send") \/ At(c, "sent") => Settled(c)
       /\ At(c, "sent") /\ request[c].channel = "legacy"
            => request[c].upstream = request[c].model

IInv == RegistryIInv /\ RequestIInv

\* What a registry keeps while it is refreshed.
Kept ==
  /\ DOMAIN models \subseteq DOMAIN models' /\ DOMAIN aliases \subseteq DOMAIN aliases'
  /\ \A id \in DOMAIN models : models[id].channel = "legacy" => models'[id].channel = "legacy"
  /\ listed \subseteq listed'

\* The registry at start-up.
LEMMA InitRegistry == Init => RegistryIInv
<1> SUFFICES ASSUME Init PROVE RegistryIInv
  OBVIOUS
<1>1. /\ models = NewDefaultRegistry[1] /\ aliases = NewDefaultRegistry[2]
      /\ pending = <<>> /\ listed = {}
  BY DEF Init
<1>2. PICK ids \in SUBSET ModelIDs : models \in [ids -> Info]
  <2> HIDE DEF NewDefaultRegistry
  <2> QED BY <1>1, DefaultsLoad DEF Registries
<1>3. PICK keys \in SUBSET AliasKeys : aliases \in [keys -> ModelIDs]
  BY <1>1, DefaultsLoad DEF Registries
<1>4. Info \subseteq Registered
  BY DEF Info, Registered, ModelIDs
<1>5. /\ DOMAIN models = Builtin \union Preset
      /\ models \in [DOMAIN models -> Registered]
      /\ \A id \in DOMAIN models : models[id].source = "builtin"
  <2>1. DOMAIN models = Builtin \union Preset
    BY <1>1, DefaultsLoad
  <2>2. \A id \in DOMAIN models : models[id] \in Info
    BY <1>2
  <2> QED BY <1>2, <1>4, <2>1, <2>2 DEF Info
<1>6. aliases \in [DOMAIN aliases -> DOMAIN models]
  BY <1>1, <1>3, <1>5, DefaultsLoad
<1>7. ASSUME NEW id \in DOMAIN models
      PROVE  /\ models[id].upstream \in Preset \union listed \union {None}
             /\ models[id].channel = "legacy" => models[id].upstream = id
             /\ models[id].channel = "agent" => id \in Builtin \ Preset
             /\ models[id].source = "remote" => id \in listed
  <2>1. CASE id \in Preset
    BY <1>1, <1>5, <2>1, DefaultsLoad
  <2>2. CASE id \in Builtin \ Preset
    BY <1>1, <1>5, <2>2, DefaultsLoad
  <2> QED BY <1>5, <2>1, <2>2
<1>8. DOMAIN models \subseteq Names /\ pending \in Seq(Entries)
  BY <1>1, <1>5 DEF Names
<1> QED BY <1>1, <1>5, <1>6, <1>7, <1>8 DEF RegistryIInv

\* One listed model is merged: whatever it was, it is on the legacy channel now,
\* and goes upstream under its own name (refresh.go:66-92).
LEMMA MergeKeeps ==
  ASSUME RegistryIInv, NEW entry \in Entries, MergeUsable(entry), pending' \in Seq(Entries)
  PROVE  RegistryIInv' /\ Kept
<1> DEFINE id == entry.name
           m == IF Known(entry) THEN Remerged(entry) ELSE NewRemote(entry)
<1>1. /\ models' = UpsertModel(models, id, m)
      /\ listed' = listed \union {id}
  BY DEF MergeUsable
<1>2. /\ m \in Registered /\ m.upstream = id /\ m.channel = "legacy"
  <2>1. id \in EntryNames /\ entry.display \in Displays \union {e.display : e \in Entries}
    BY DEF EntryNames
  <2>2. CASE Known(entry)
    BY <2>1, <2>2 DEF Known, Remerged, RegistryIInv, Registered
  <2>3. CASE ~Known(entry)
    BY <2>1, <2>3 DEF NewRemote, FreshModel, Registered
  <2> QED BY <2>2, <2>3
<1> HIDE DEF m
<1>3. /\ models' = [n \in DOMAIN models \union {id} |-> IF n = id THEN m ELSE models[n]]
      /\ DOMAIN models' = DOMAIN models \union {id}
  BY <1>1 DEF UpsertModel
<1>4. models' \in [DOMAIN models' -> Registered]
  BY <1>2, <1>3 DEF RegistryIInv
<1>5. DOMAIN models' \subseteq Names /\ listed' \subseteq EntryNames
  BY <1>1, <1>3 DEF RegistryIInv, Names, EntryNames
<1>6. /\ aliases' \in [DOMAIN aliases' -> DOMAIN models']
      /\ DOMAIN aliases \subseteq DOMAIN aliases'
  <2>1. CASE Known(entry)
    BY <1>3, <2>1 DEF MergeUsable, RegistryIInv
  <2>2. CASE ~Known(entry)
    <3>1. aliases' = [k \in DOMAIN aliases \union {entry.display} |->
                        IF k \in {entry.display} THEN id ELSE aliases[k]]
      BY <2>2 DEF MergeUsable, UpsertAliases
    <3> QED BY <1>3, <3>1 DEF RegistryIInv
  <2> QED BY <2>1, <2>2
<1>7. ASSUME NEW n \in DOMAIN models'
      PROVE  /\ models'[n].upstream \in Preset \union listed' \union {None}
             /\ models'[n].channel = "legacy" => models'[n].upstream = n
             /\ models'[n].channel = "agent" => n \in Builtin \ Preset
             /\ models'[n].source = "remote" => n \in listed'
  <2>1. CASE n = id
    BY <1>1, <1>2, <1>3, <2>1
  <2>2. CASE n # id
    <3>1. n \in DOMAIN models /\ models'[n] = models[n] /\ listed \subseteq listed'
      BY <1>1, <1>3, <2>2
    <3> QED BY <3>1 DEF RegistryIInv
  <2> QED BY <2>1, <2>2
<1>8. Kept
  BY <1>1, <1>2, <1>3, <1>6 DEF Kept
<1> QED BY <1>3, <1>4, <1>5, <1>6, <1>7, <1>8 DEF RegistryIInv

\* Linking gives an upstream name only to models that had none, so to none on the
\* legacy channel.
LEMMA LinkKeeps ==
  ASSUME RegistryIInv, linkUpstreamByDisplayName
  PROVE  RegistryIInv' /\ Kept
<1>1. PICK link \in [Linkable -> Remotes] :
        models' = [b \in DOMAIN models |->
            IF b \in Linkable
            THEN [models[b] EXCEPT !.upstream = models[link[b]].upstream]
            ELSE models[b]]
  BY DEF linkUpstreamByDisplayName
<1>2. UNCHANGED <<aliases, pending, listed>> /\ DOMAIN models' = DOMAIN models
  BY <1>1 DEF linkUpstreamByDisplayName
<1>3. ASSUME NEW b \in Linkable
      PROVE  /\ models[b].upstream = None /\ b \in DOMAIN models
             /\ link[b] \in DOMAIN models
             /\ models'[b] = [models[b] EXCEPT !.upstream = models[link[b]].upstream]
             /\ models[b] \in Registered /\ models[link[b]] \in Registered
  BY <1>1 DEF Linkable, Remotes, RegistryIInv
<1>4. ASSUME NEW b \in Linkable
      PROVE  /\ models'[b] \in Registered
             /\ models'[b].upstream = models[link[b]].upstream
             /\ models'[b].channel = models[b].channel
             /\ models'[b].source = models[b].source
             /\ models[b].channel # "legacy"
  <2>1. models[b].channel # "legacy"
    <3>1. None \notin Names
      BY RoutingAssumption DEF Names, EntryNames
    <3> QED BY <1>3, <3>1 DEF RegistryIInv
  <2>2. models'[b] \in Registered
    BY <1>3 DEF Registered
  <2>3. /\ models'[b].upstream = models[link[b]].upstream
        /\ models'[b].channel = models[b].channel
        /\ models'[b].source = models[b].source
    BY <1>3 DEF Registered
  <2> QED BY <2>1, <2>2, <2>3
<1>5. models' \in [DOMAIN models' -> Registered]
  BY <1>1, <1>2, <1>4 DEF RegistryIInv
<1>6. ASSUME NEW n \in DOMAIN models'
      PROVE  /\ models'[n].upstream \in Preset \union listed' \union {None}
             /\ models'[n].channel = "legacy" => models'[n].upstream = n
             /\ models'[n].channel = "agent" => n \in Builtin \ Preset
             /\ models'[n].source = "remote" => n \in listed'
             /\ models[n].channel = "legacy" => models'[n].channel = "legacy"
  <2>1. CASE n \in Linkable
    BY <1>2, <1>3, <1>4, <2>1 DEF RegistryIInv
  <2>2. CASE n \notin Linkable
    <3>1. n \in DOMAIN models /\ models'[n] = models[n]
      BY <1>1, <1>2, <2>2
    <3> QED BY <1>2, <3>1 DEF RegistryIInv
  <2> QED BY <2>1, <2>2
<1>7. Kept
  BY <1>2, <1>6 DEF Kept
<1>8. aliases' \in [DOMAIN aliases' -> DOMAIN models']
  BY <1>2 DEF RegistryIInv
<1> QED BY <1>2, <1>5, <1>6, <1>7, <1>8 DEF RegistryIInv

\* Every step of the refresh, and every other step, which leaves the registry alone.
LEMMA RefreshKeeps ==
  ASSUME RegistryIInv, RefreshModelRegistry \/ UNCHANGED vars \/ Unchanged
  PROVE  RegistryIInv' /\ Kept
<1>1. CASE FetchModels
  <2>1. UNCHANGED <<models, aliases, listed>>
    BY <1>1 DEF FetchModels, registry
  <2>2. pending' \in Seq(Entries)
    <3>1. CASE UNCHANGED pending
      BY <3>1 DEF RegistryIInv
    <3>2. CASE \E n \in 0 .. MaxListed : \E l \in [1 .. n -> Entries] : pending' = l
      <4>1. PICK n \in 0 .. MaxListed : pending' \in [1 .. n -> Entries]
        BY <3>2
      <4>2. n \in Nat
        BY RoutingAssumption
      <4> QED BY <4>1, <4>2
    <3> QED BY <1>1, <3>1, <3>2 DEF FetchModels
  <2> QED BY <2>1, <2>2 DEF RegistryIInv, Kept
<1>2. CASE MergeEntry
  <2>1. pending' \in Seq(Entries)
    <3>1. CASE pending = <<>>
      BY <1>2, <3>1 DEF MergeEntry, RegistryIInv
    <3>2. CASE pending # <<>>
      BY <1>2, <3>2 DEF MergeEntry, RegistryIInv
    <3> QED BY <3>1, <3>2
  <2>2. CASE pending # <<>> /\ Head(pending).usable
    <3>1. Head(pending) \in Entries /\ MergeUsable(Head(pending))
      BY <1>2, <2>2 DEF MergeEntry, RegistryIInv
    <3> QED BY <2>1, <3>1, MergeKeeps
  <2>3. CASE ~(pending # <<>> /\ Head(pending).usable)
    <3>1. UNCHANGED <<models, aliases, listed>>
      BY <1>2, <2>3 DEF MergeEntry, registry
    <3> QED BY <2>1, <3>1 DEF RegistryIInv, Kept
  <2> QED BY <2>2, <2>3
<1>3. CASE linkUpstreamByDisplayName
  BY <1>3, LinkKeeps
<1>4. CASE UNCHANGED vars \/ Unchanged
  <2>1. UNCHANGED <<models, aliases, pending, listed>>
    BY <1>4 DEF vars, Unchanged, registry
  <2> QED BY <2>1 DEF RegistryIInv, Kept
<1> QED BY <1>1, <1>2, <1>3, <1>4 DEF RefreshModelRegistry

-----------------------------------------------------------------------------
(* The requests. *)

\* None is no name.
LEMMA NoName == RegistryIInv => None \notin DOMAIN models
BY RoutingAssumption DEF RegistryIInv, Names, EntryNames

\* The id of a model resolves to that model.
LEMMA ResolvesSelf ==
  ASSUME NEW name \in DOMAIN models PROVE Resolve(name) = {name}
BY DEF Resolve, SameKey

\* Whatever a name resolves to is registered.
LEMMA ResolvesKnown ==
  ASSUME RegistryIInv, NEW name PROVE Resolve(name) \subseteq DOMAIN models \union {None}
<1>1. SameKey(name) \subseteq DOMAIN models /\ Prefixed(name) \subseteq DOMAIN models
  BY DEF SameKey, Prefixed
<1>2. Normalize(name) \in DOMAIN aliases => aliases[Normalize(name)] \in DOMAIN models
  BY DEF RegistryIInv
<1>3. CASE name \in DOMAIN models
  BY <1>3, ResolvesSelf
<1>4. CASE name \notin DOMAIN models
  BY <1>1, <1>2, <1>4 DEF Resolve
<1> QED BY <1>3, <1>4

\* The channel chosen for a model is the legacy one only if the registry has the
\* model on it, and the agent one only if the model is no preset.
LEMMA ChannelFits ==
  ASSUME RegistryIInv, NEW name \in DOMAIN models, NEW channel \in ResolveChannel(name)
  PROVE  \/ channel = "legacy" /\ models[name].channel = "legacy"
         \/ channel = "agent" /\ name \notin Preset
<1>1. models[name].channel \in {"legacy", "agent"}
  BY DEF RegistryIInv, Registered
<1>2. CASE Normalize(name) = <<>> \/ Normalize(name) \in LegacyKeys
  <2>1. channel = "legacy"
    BY <1>2, RoutingAssumption DEF ResolveChannel
  <2>2. name \notin Builtin \ Preset
    BY <1>2, RoutingAssumption DEF Normalize
  <2> QED BY <1>1, <2>1, <2>2 DEF RegistryIInv
<1>3. CASE ~(Normalize(name) = <<>> \/ Normalize(name) \in LegacyKeys)
  <2>1. name \notin Preset
    BY <1>3, RoutingAssumption DEF Normalize
  <2>2. CASE Normalize(name) \in AgentKeys
    BY <1>3, <2>1, <2>2 DEF ResolveChannel
  <2>3. CASE Normalize(name) \notin AgentKeys
    <3>1. channel \in {IF id = None THEN "agent" ELSE models[id].channel : id \in {name}}
      BY <1>3, <2>3, ResolvesSelf DEF ResolveChannel
    <3> QED BY <1>1, <2>1, <3>1
  <2> QED BY <2>2, <2>3
<1> QED BY <1>2, <1>3

\* A model on the legacy channel goes upstream under its own name, never under the
\* default model's.
LEMMA UpstreamFits ==
  ASSUME RegistryIInv, NEW name \in DOMAIN models, models[name].channel = "legacy",
         NEW up \in UpstreamFor(name)
  PROVE  up = name
<1>1. models[name].upstream = name /\ name # None
  BY NoName DEF RegistryIInv
<1>2. UpstreamFor(name) =
        {CASE id = None -> DefaultUpstreamModel
           [] id # None /\ models[id].upstream # None -> models[id].upstream
           [] OTHER -> IF models[id].source = "remote" THEN id
                                                       ELSE DefaultUpstreamModel
           : id \in {name}}
  BY ResolvesSelf DEF UpstreamFor
<1> QED BY <1>1, <1>2

\* The requests keep what they rest on while the registry is refreshed.
LEMMA RequestsKeep ==
  ASSUME RegistryIInv, RequestIInv, Kept, UNCHANGED request
  PROVE  RequestIInv'
<1>1. ASSUME NEW c \in Clients
      PROVE  /\ ~At(c, "idle")' => request'[c].model \in DOMAIN models'
             /\ At(c, "send")' \/ At(c, "sent")' => Settled(c)'
             /\ At(c, "sent")' /\ request'[c].channel = "legacy"
                  => request'[c].upstream = request'[c].model
  <2>1. At(c, "send")' \/ At(c, "sent")' => Settled(c)'
    <3>1. At(c, "send") \/ At(c, "sent") => request[c].model \in DOMAIN models /\ Settled(c)
      BY DEF RequestIInv, At
    <3> QED BY <3>1 DEF At, Settled, Kept
  <2>2. ~At(c, "idle")' => request'[c].model \in DOMAIN models'
    BY DEF RequestIInv, At, Kept
  <2> QED BY <2>1, <2>2 DEF RequestIInv, At
<1> QED BY <1>1 DEF RequestIInv

\* One request takes a step, and no other.
LEMMA RequestSteps ==
  ASSUME RegistryIInv, RequestIInv, NEW c \in Clients,
         toUpstream(c) \/ Guard(c) \/ Dispatch(c) \/ Send(c) \/ Retry(c)
  PROVE  RequestIInv'
<1> DEFINE r == request[c]
           Right(q) ==
             /\ q \in Request
             /\ q.pc # "idle" => q.model \in DOMAIN models
             /\ q.pc \in {"send", "sent"} =>
                  \/ q.channel = "legacy" /\ models[q.model].channel = "legacy"
                  \/ q.channel = "agent" /\ ~q.tools /\ q.model \notin Preset
             /\ q.pc = "sent" /\ q.channel = "legacy" => q.upstream = q.model
<1>1. r \in Request /\ Right(r)
  BY DEF RequestIInv, At, Settled
<1>2. ASSUME NEW q, request' = [request EXCEPT ![c] = q], Right(q), UNCHANGED models
      PROVE  RequestIInv'
  <2>1. request' \in [Clients -> Request] /\ request'[c] = q
    BY <1>2 DEF RequestIInv
  <2>2. ASSUME NEW d \in Clients
        PROVE  /\ ~At(d, "idle")' => request'[d].model \in DOMAIN models'
               /\ At(d, "send")' \/ At(d, "sent")' => Settled(d)'
               /\ At(d, "sent")' /\ request'[d].channel = "legacy"
                    => request'[d].upstream = request'[d].model
    <3>1. CASE d = c
      <4> HIDE DEF r
      <4> QED BY <1>2, <2>1, <3>1 DEF At, Settled
    <3>2. CASE d # c
      <4>1. request'[d] = request[d]
        BY <1>2, <3>2 DEF RequestIInv
      <4> QED BY <1>2, <4>1 DEF RequestIInv, At, Settled
    <3> QED BY <3>1, <3>2
  <2> QED BY <2>1, <2>2 DEF RequestIInv
<1>3. DOMAIN models \subseteq Names
  BY DEF RegistryIInv
<1>4. CASE toUpstream(c)
  <2> DEFINE q(name, tools, id) ==
               [r EXCEPT !.pc = "guard", !.asked = name, !.tools = tools,
                         !.model = IF id = None THEN DefaultModel ELSE id]
  <2>1. PICK name \in Asked, tools \in BOOLEAN :
          \E id \in Resolve(name) :
            request' = [request EXCEPT
              ![c].pc = "guard", ![c].asked = name, ![c].tools = tools,
              ![c].model = IF id = None THEN DefaultModel ELSE id]
    BY <1>4 DEF toUpstream
  <2>2. PICK id \in Resolve(name) : request' = [request EXCEPT ![c] = q(name, tools, id)]
    <3>1. PICK id \in Resolve(name) :
            request' = [request EXCEPT
              ![c].pc = "guard", ![c].asked = name, ![c].tools = tools,
              ![c].model = IF id = None THEN DefaultModel ELSE id]
      BY <2>1
    <3> DEFINE model == IF id = None THEN DefaultModel ELSE id
    <3>2. request' = [request EXCEPT ![c].pc = "guard", ![c].asked = name,
                                     ![c].tools = tools, ![c].model = model]
      BY <3>1
    <3>3. q(name, tools, id) = [r EXCEPT !.pc = "guard", !.asked = name, !.tools = tools,
                                         !.model = model]
      OBVIOUS
    <3> HIDE DEF q, model
    <3>4. request' = [request EXCEPT ![c] = q(name, tools, id)]
      BY <3>2, <3>3
    <3> QED BY <3>4
  <2>3. (IF id = None THEN DefaultModel ELSE id) \in DOMAIN models
    <3>1. DefaultModel \in DOMAIN models
      BY RoutingAssumption DEF RegistryIInv
    <3>2. id \in DOMAIN models \union {None}
      BY ResolvesKnown
    <3> QED BY <3>1, <3>2
  <2>4. Right(q(name, tools, id))
    BY <1>1, <1>3, <2>3 DEF Request
  <2>5. UNCHANGED models
    BY <1>4 DEF toUpstream, Unchanged, registry
  <2> HIDE DEF r, Right, q
  <2> QED BY <1>2, <2>2, <2>4, <2>5
<1>5. CASE Guard(c)
  <2>1. PICK pc \in {"refused", "dispatch"} :
          request' = [request EXCEPT ![c] = [r EXCEPT !.pc = pc]]
    BY <1>5 DEF Guard
  <2>2. Right([r EXCEPT !.pc = pc])
    BY <1>1, <1>5 DEF Guard, At, Request
  <2>3. UNCHANGED models
    BY <1>5 DEF Guard, Unchanged, registry
  <2> HIDE DEF r, Right
  <2> QED BY <1>2, <2>1, <2>2, <2>3
<1>6. CASE Dispatch(c)
  <2> DEFINE pc(ch) == IF Refused(c, ch) THEN "refused" ELSE "send"
             q(ch) == [r EXCEPT !.pc = pc(ch), !.channel = ch]
  <2>1. PICK ch \in ResolveChannel(r.model) : request' = [request EXCEPT ![c] = q(ch)]
    BY <1>6 DEF Dispatch
  <2>2. r.model \in DOMAIN models
    BY <1>1, <1>6 DEF Dispatch, At
  <2>3. \/ ch = "legacy" /\ models[r.model].channel = "legacy"
        \/ ch = "agent" /\ r.model \notin Preset
    <3> HIDE DEF r
    <3> QED BY <2>1, <2>2, ChannelFits
  <2>4. /\ q(ch) \in Request /\ q(ch).pc = pc(ch) /\ q(ch).channel = ch
        /\ q(ch).model = r.model /\ q(ch).tools = r.tools
    BY <1>1, <2>3 DEF Request
  <2>5. Right(q(ch))
    <3>1. pc(ch) = "send" /\ ch = "agent" => ~r.tools
      BY DEF Refused
    <3>2. pc(ch) \in {"refused", "send"}
      OBVIOUS
    <3> HIDE DEF q, r, pc
    <3> QED BY <2>2, <2>3, <2>4, <3>1, <3>2
  <2>6. UNCHANGED models
    BY <1>6 DEF Dispatch, Unchanged, registry
  <2> HIDE DEF r, Right, q
  <2> QED BY <1>2, <2>1, <2>5, <2>6
<1>7. CASE Send(c)
  <2> DEFINE q(up) == [r EXCEPT !.pc = "sent", !.upstream = up, !.tries = @ + 1]
  <2>1. PICK up \in IF r.channel = "legacy" THEN UpstreamFor(r.model)
                    ELSE {ResolveAgentTaskConfig(r.model)} :
          request' = [request EXCEPT ![c] = q(up)]
    BY <1>7 DEF Send
  <2>2. /\ r.model \in DOMAIN models
        /\ \/ r.channel = "legacy" /\ models[r.model].channel = "legacy"
           \/ r.channel = "agent" /\ ~r.tools /\ r.model \notin Preset
    BY <1>1, <1>7 DEF Send, At
  <2>3. r.channel = "legacy" => up = r.model
    <3> HIDE DEF r
    <3> QED BY <2>1, <2>2, UpstreamFits
  <2>4. up \in Names \union {None} \union {AgentConfig[k] : k \in DOMAIN AgentConfig}
    <3>1. CASE r.channel = "legacy"
      <4> HIDE DEF r
      <4> QED BY <1>3, <2>2, <2>3, <3>1
    <3>2. CASE r.channel # "legacy"
      <4> HIDE DEF r
      <4> QED BY <1>3, <2>1, <2>2, <3>2 DEF ResolveAgentTaskConfig
    <3> QED BY <3>1, <3>2
  <2>5. /\ q(up) \in Request /\ q(up).pc = "sent" /\ q(up).channel = r.channel
        /\ q(up).model = r.model /\ q(up).tools = r.tools /\ q(up).upstream = up
    <3>1. r.tries + 1 \in Nat
      BY <1>1 DEF Request
    <3> HIDE DEF r
    <3> QED BY <1>1, <2>4, <3>1 DEF Request
  <2>6. Right(q(up))
    <3> HIDE DEF q, r
    <3> QED BY <2>2, <2>3, <2>5
  <2>7. UNCHANGED models
    BY <1>7 DEF Send, Unchanged, registry
  <2> HIDE DEF r, Right, q
  <2> QED BY <1>2, <2>1, <2>6, <2>7
<1>8. CASE Retry(c)
  <2>1. request' = [request EXCEPT ![c] = [r EXCEPT !.pc = "send"]]
    BY <1>8 DEF Retry
  <2>2. Right([r EXCEPT !.pc = "send"])
    BY <1>1, <1>8 DEF Retry, At, Request
  <2>3. UNCHANGED models
    BY <1>8 DEF Retry, Unchanged, registry
  <2> HIDE DEF r, Right
  <2> QED BY <1>2, <2>1, <2>2, <2>3
<1> QED BY <1>4, <1>5, <1>6, <1>7, <1>8

\* The invariant is inductive, and holds of the specification.
LEMMA IInvHolds == Spec => []IInv
<1>1. Init => IInv
  <2>1. ASSUME Init PROVE RequestIInv
    BY <2>1 DEF Init, RequestIInv, Request, At
  <2> QED BY <2>1, InitRegistry DEF IInv
<1>2. IInv /\ [Next]_vars => IInv'
  <2> SUFFICES ASSUME IInv, [Next]_vars PROVE IInv'
    OBVIOUS
  <2>1. CASE RefreshModelRegistry
    <3>1. UNCHANGED request
      BY <2>1 DEF RefreshModelRegistry, FetchModels, MergeEntry, linkUpstreamByDisplayName
    <3> QED BY <2>1, <3>1, RefreshKeeps, RequestsKeep DEF IInv
  <2>2. CASE UNCHANGED vars
    <3>1. UNCHANGED request
      BY <2>2 DEF vars
    <3> QED BY <2>2, <3>1, RefreshKeeps, RequestsKeep DEF IInv
  <2>3. ASSUME NEW c \in Clients,
               toUpstream(c) \/ Guard(c) \/ Dispatch(c) \/ Send(c) \/ Retry(c)
        PROVE  IInv'
    <3>1. Unchanged
      BY <2>3 DEF toUpstream, Guard, Dispatch, Send, Retry
    <3>2. RequestIInv'
      BY <2>3, RequestSteps DEF IInv
    <3> QED BY <3>1, <3>2, RefreshKeeps DEF IInv
  <2> QED BY <2>1, <2>2, <2>3 DEF Next
<1> QED BY <1>1, <1>2, PTL DEF Spec

\* The registry is consistent at every moment of a refresh, whatever the upstream
\* lists: RegistryInv follows from the inductive invariant.
THEOREM RegistryHolds == Spec => []RegistryInv
<1>1. IInv => RegistryInv
  <2> SUFFICES ASSUME RegistryIInv PROVE RegistryInv
    BY DEF IInv
  <2>1. \A k \in DOMAIN aliases : aliases[k] \in DOMAIN models
    BY DEF RegistryIInv
  <2>2. \A id \in Preset : models[id].channel = "legacy"
    BY DEF RegistryIInv, Registered
  <2> QED BY <2>1, <2>2 DEF RegistryInv, RegistryIInv
<1> QED BY <1>1, IInvHolds, PTL

\* What is sent upstream fits the channel, for any number of clients and however
\* their three looks at the registry fall between the steps of the refresh: the
\* first look finds a registered model, and a model on the legacy channel stays
\* on it, under its own name.
THEOREM RightlyRouted == Spec => []RoutedRight
<1>1. IInv => RoutedRight
  <2> SUFFICES ASSUME IInv, NEW c \in Clients, At(c, "sent")
               PROVE  \/ /\ request[c].channel = "legacy"
                         /\ request[c].upstream = request[c].model
                         /\ request[c].upstream \in Preset \union listed
                      \/ /\ request[c].channel = "agent"
                         /\ ~request[c].tools
                         /\ request[c].model \notin Preset
    BY DEF RoutedRight
  <2>1. Settled(c) /\ request[c].model \in DOMAIN models
    BY DEF IInv, RequestIInv, At
  <2>2. CASE request[c].channel = "legacy"
    <3>1. /\ models[request[c].model].channel = "legacy"
          /\ request[c].upstream = request[c].model
      BY <2>1, <2>2 DEF Settled, IInv, RequestIInv
    <3>2. request[c].model \in Preset \union listed
      BY <2>1, <3>1, NoName DEF IInv, RegistryIInv
    <3> QED BY <2>2, <3>1, <3>2
  <2>3. CASE request[c].channel # "legacy"
    BY <2>1, <2>3 DEF Settled
  <2> QED BY <2>2, <2>3
<1> QED BY <1>1, IInvHolds, PTL

\* No step takes a model or an alias out of the registry.
LEMMA StepKeeps == IInv /\ [Next]_vars => Kept
<1> SUFFICES ASSUME IInv, [Next]_vars PROVE Kept
  OBVIOUS
<1>1. RefreshModelRegistry \/ UNCHANGED vars \/ Unchanged
  BY DEF Next, toUpstream, Guard, Dispatch, Send, Retry
<1> QED BY <1>1, RefreshKeeps DEF IInv

\* A refresh makes no name unknown, and an id goes on meaning its own model.
THEOREM NamesGoOn == Spec => NamesKeepResolving
<1>1. ASSUME IInv, IInv', [Next]_vars, NEW name \in Asked
      PROVE  /\ SameKey(name) # {} \/ Normalize(name) \in DOMAIN aliases
                  => None \notin Resolve(name)'
             /\ name \in DOMAIN models => Resolve(name)' = {name}
  <2>1. Kept
    BY <1>1, StepKeeps
  <2>2. None \notin DOMAIN models'
    BY <1>1, RoutingAssumption DEF IInv, RegistryIInv, Names, EntryNames
  <2>3. name \in DOMAIN models => Resolve(name)' = {name}
    BY <2>1 DEF Kept, Resolve, SameKey
  <2>4. ASSUME SameKey(name) # {} \/ Normalize(name) \in DOMAIN aliases
        PROVE  None \notin Resolve(name)'
    <3>1. SameKey(name)' # {} \/ Normalize(name) \in DOMAIN aliases'
      BY <2>1, <2>4 DEF Kept, SameKey
    <3>2. SameKey(name)' \subseteq DOMAIN models'
      BY DEF SameKey
    <3>3. \A k \in DOMAIN aliases' : aliases'[k] \in DOMAIN models'
      BY <1>1 DEF IInv, RegistryIInv
    <3>4. CASE name \in DOMAIN models'
      BY <2>2, <3>4 DEF Resolve, SameKey
    <3>5. CASE name \notin DOMAIN models'
      BY <2>2, <3>1, <3>2, <3>3, <3>5 DEF Resolve, Normalize
    <3> QED BY <3>4, <3>5
  <2> QED BY <2>3, <2>4
<1>2. IInv /\ IInv' /\ [Next]_vars =>
        \A name \in Asked :
          /\ SameKey(name) # {} \/ Normalize(name) \in DOMAIN aliases
               => None \notin Resolve(name)'
          /\ name \in DOMAIN models => Resolve(name)' = {name}
  BY <1>1
<1> QED BY <1>2, IInvHolds, PTL DEF Spec, NamesKeepResolving
=============================================================================
