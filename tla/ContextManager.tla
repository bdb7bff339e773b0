---------------------------- MODULE ContextManager --------------------------
(***************************************************************************)
(* The context manager (internal/workflow/context_manager.go): items under *)
(* cm.mu, with an eviction of the least valued ones when an item is added  *)
(* to a full manager.                                                      *)
(*                                                                         *)
(* The helpers build the keys: an agent's and a task's items have keys of  *)
(* their own, the global ones the caller's.  A key is represented by what  *)
(* it is made of, [scope, owner, name]; values are left out.               *)
(*                                                                         *)
(* Get lets go of the lock between finding an item and counting the        *)
(* access, in which it may have been removed or replaced.                  *)
(***************************************************************************)
EXTENDS Sorting, FiniteSetsExt

CONSTANTS
  AgentOwners, TaskOwners, Names,
  PriorityLow, PriorityNormal, PriorityCritical, (* some ContextPriority values *)
  MaxSize,    (* cm.maxSize *)
  Readers,    (* callers of Get *)
  MaxAccess,  (* bound: accesses of one item *)
  Nobody

Key == [scope : {"agent"}, owner : AgentOwners, name : Names]
         \union [scope : {"task"}, owner : TaskOwners, name : Names]
         \union [scope : {"global"}, owner : {Nobody}, name : Names]

Priorities == {PriorityLow, PriorityNormal, PriorityCritical}

ASSUME ContextAssumption ==
  /\ IsFiniteSet(Key) /\ IsFiniteSet(Readers)
  /\ Priorities \subseteq Nat /\ MaxSize \in Nat \ {0} /\ MaxAccess \in Nat

VARIABLES
  items,  (* cm.items: [priority, accesses, life], life "endless", "timed" or "expired" *)
  reader  (* reader[r]: the key whose item a Get has found; live: it is still there *)

contextVars == <<items, reader>>

Item == [priority : Priorities, accesses : Nat, life : {"endless", "timed", "expired"}]

NotReading == [key |-> Nobody, live |-> FALSE]

ContextInit ==
  /\ items = << >>
  /\ reader = [r \in Readers |-> NotReading]

Keys == DOMAIN items
Without(gone) == Restrict(items, Keys \ gone)

\* The pointers of readers to items that are gone or replaced lead nowhere.
Orphan(gone) ==
  reader' = [r \in Readers |-> IF reader[r].key \in gone THEN [reader[r] EXCEPT !.live = FALSE]
                                                        ELSE reader[r]]
-----------------------------------------------------------------------------
(* Eviction. *)

Evictable == {k \in Keys : items[k].priority # PriorityCritical}

Score(k) == items[k].priority * (items[k].accesses + 1)

\* The pairs of items of which the first is worth less.
WorthLess == {pair \in Evictable \X Evictable : Score(pair[1]) < Score(pair[2])}

\* Slip: neighbours are exchanged, once through the items.
SortOnce(q) ==
  FoldLeft(LAMBDA r, i : Exchange(WorthLess, r, i, i + 1), q, [i \in 1 .. Len(q) - 1 |-> i])

SortByScore(q) == SortBy(WorthLess, q)

\* Slip: a tenth of the size, be it none at all.
TenthOfSize == MaxSize \div 10

ToRemove == IF MaxSize \div 10 < 1 THEN 1 ELSE MaxSize \div 10

\* What cleanupLowPriority may remove: the map is read in any order.
Evictions ==
  {ToSet(SubSeq(SortByScore(q), 1, Min({ToRemove, Len(q)}))) : q \in SetToSeqs(Evictable)}
-----------------------------------------------------------------------------
\* A full manager evicts, even when the key to be added is there already.
MakesRoom == IF Cardinality(Keys) >= MaxSize THEN Evictions ELSE {{}}

Add(k, gone, priority, life) ==
  /\ items' = [l \in (Keys \ gone) \union {k} |->
                 IF l = k THEN [priority |-> priority, accesses |-> 0, life |-> life]
                          ELSE items[l]]
  /\ Orphan(gone \union {k})

\* The helpers' Set; the one of a task does not pass the priority on.
Set(k, gone) ==
  \E priority \in IF k.scope = "task" THEN {PriorityNormal} ELSE Priorities,
     life \in {"endless", "timed"} : Add(k, gone, priority, life)

\* Get finds the item ...
Find(r, k) ==
  /\ reader[r] = NotReading
  /\ k \in Keys /\ items[k].life # "expired"
  /\ reader' = [reader EXCEPT ![r] = [key |-> k, live |-> TRUE]]
  /\ UNCHANGED items

\* ... and, under the write lock, counts the access to it.
Touch(r) ==
  /\ reader[r] # NotReading
  /\ items' = IF reader[r].live /\ items[reader[r].key].accesses < MaxAccess
              THEN [items EXCEPT ![reader[r].key].accesses = @ + 1] ELSE items
  /\ reader' = [reader EXCEPT ![r] = NotReading]

Drop(gone) == items' = Without(gone) /\ Orphan(gone)

RemoveKey(k) == k.scope # "task" /\ k \in Keys /\ Drop({k})

ClearAgent(a) == Drop({k \in Keys : k.scope = "agent" /\ k.owner = a})

ClearTask(t) == Drop({k \in Keys : k.scope = "task" /\ k.owner = t})

\* Time passes for an item that was given an end ...
Expire(k) ==
  /\ k \in Keys /\ items[k].life = "timed"
  /\ items' = [items EXCEPT ![k].life = "expired"]
  /\ UNCHANGED reader

\* ... and the cleanup goroutine removes what has expired.
Cleanup == Drop({k \in Keys : items[k].life = "expired"})

ContextNext ==
  \/ \E gone \in MakesRoom, k \in Key : Set(k, gone)
  \/ \E k \in Key : RemoveKey(k) \/ Expire(k) \/ \E r \in Readers : Find(r, k)
  \/ \E r \in Readers : Touch(r)
  \/ \E a \in AgentOwners : ClearAgent(a)
  \/ \E t \in TaskOwners : ClearTask(t)
  \/ Cleanup

ContextSpec == ContextInit /\ [][ContextNext]_contextVars
-----------------------------------------------------------------------------
ContextTypeOK ==
  /\ Keys \subseteq Key /\ \A k \in Keys : items[k] \in Item
  /\ \A r \in Readers : reader[r].live => reader[r].key \in Keys

\* The manager outgrows maxSize only by items that must never be evicted, and
\* one more: the one that was added last or took a critical one's place.
OutgrownByCritical ==
  Cardinality(Keys) > MaxSize => Cardinality(Evictable) <= 1

ContextInv == ContextTypeOK /\ OutgrownByCritical

\* What an added item pushes out is neither critical nor worth more than what it
\* leaves in, by the accesses counted so far: a Get that has found an item and
\* not yet counted does not count.
EvictsLeast ==
  [][DOMAIN items' \ Keys # {} =>
       \A gone \in Keys \ DOMAIN items' :
         /\ items[gone].priority # PriorityCritical
         /\ \A kept \in Evictable \intersect DOMAIN items' : Score(gone) <= Score(kept)]_contextVars
=============================================================================
