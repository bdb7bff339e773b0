------------------------ MODULE UpstreamLimiterProofs -----------------------
(***************************************************************************)
(* The limiter's bounds hold for every capacity, every interval and every  *)
(* set of requests: the channel's count is the number of slot holders,     *)
(* which no cancellation disturbs.                                         *)
(***************************************************************************)
EXTENDS UpstreamLimiter, FiniteSetTheorems, TLAPS

\* Any set of requests is finite, and so has a size.
LEMMA RequestsFinite ==
  ASSUME NEW S, S \subseteq Requests
  PROVE  IsFiniteSet(S) /\ Cardinality(S) \in Nat
BY LimiterAssumption, FS_Subset, FS_CardinalityType

LEMMA InitInv == Init => LimiterInv
<1> SUFFICES ASSUME Init PROVE LimiterInv
  OBVIOUS
<1>1. Holders = {}
  BY DEF Init, Holders
<1>2. SlotsMatch
  BY <1>1, FS_EmptySet DEF Init, SlotsMatch
<1>3. TypeOK
  BY LimiterAssumption DEF Init, TypeOK, PC
<1>4. QED
  BY <1>2, <1>3, LimiterAssumption DEF Init, LimiterInv

\* A request that takes a slot becomes a holder (GetSlot).
LEMMA GetSlotInv ==
  ASSUME LimiterInv, NEW r \in Requests, GetSlot(r)
  PROVE  LimiterInv'
<1> USE LimiterAssumption
<1>0. TypeOK /\ SlotsMatch /\ sinceLast = gap
  BY DEF LimiterInv
<1>1. r \notin Holders
  BY DEF GetSlot, Holders
<1>2. Holders' = Holders \union {r}
  BY <1>0 DEF GetSlot, GoTo, Holders, TypeOK
<1>3. Cardinality(Holders') = Cardinality(Holders) + 1
  BY <1>1, <1>2, RequestsFinite, FS_AddElement DEF Holders
<1>4. SlotsMatch'
  BY <1>0, <1>3 DEF GetSlot, TakeSlot, SlotsMatch, Limited
<1>5. TypeOK'
  BY <1>0 DEF GetSlot, TakeSlot, GoTo, TypeOK, PC, Limited
<1>6. (Limited => sem <= MaxConcurrent)'
  BY <1>0 DEF GetSlot, TakeSlot, Limited, TypeOK
<1>7. QED
  BY <1>0, <1>4, <1>5, <1>6 DEF GetSlot, LimiterInv

\* A holder that leaves gives back one slot, its own (CancelSleep, Release).
LEMMA LeaveInv ==
  ASSUME LimiterInv, NEW r \in Requests, r \in Holders,
         FreeSlot, GoTo(r, "idle"), UNCHANGED <<sinceLast, cancelled, gap>>,
         timer' \in [Requests -> 0 .. MinWait]
  PROVE  LimiterInv'
<1> USE LimiterAssumption
<1>0. TypeOK /\ SlotsMatch /\ sinceLast = gap
  BY DEF LimiterInv
<1>1. Holders' = Holders \ {r}
  BY <1>0 DEF GoTo, Holders, TypeOK
<1>2. Cardinality(Holders') = Cardinality(Holders) - 1
  BY <1>1, RequestsFinite, FS_RemoveElement DEF Holders
<1>3. Cardinality(Holders) \in Nat /\ Cardinality(Holders') \in Nat
  BY RequestsFinite, <1>1 DEF Holders
<1>4. SlotsMatch'
  BY <1>0, <1>2, <1>3 DEF FreeSlot, SlotsMatch, Limited
<1>5. sem' \in Nat
  BY <1>3, <1>4 DEF SlotsMatch
<1>6. TypeOK'
  BY <1>0, <1>5 DEF GoTo, TypeOK, PC
<1>7. (Limited => sem <= MaxConcurrent)'
  BY <1>0, <1>5 DEF LimiterInv, FreeSlot, Limited, TypeOK
<1>8. QED
  BY <1>0, <1>4, <1>6, <1>7 DEF LimiterInv

\* A step that changes neither the channel nor who holds its slots.
LEMMA SameHoldersInv ==
  ASSUME LimiterInv, TypeOK', UNCHANGED sem, Holders' = Holders,
         (sinceLast = gap)'
  PROVE  LimiterInv'
BY DEF LimiterInv, SlotsMatch, Limited

LEMMA NextInv == LimiterInv /\ [Next]_vars => LimiterInv'
<1> SUFFICES ASSUME LimiterInv, [Next]_vars
             PROVE  LimiterInv'
  OBVIOUS
<1> USE LimiterAssumption
<1>0. TypeOK /\ sinceLast = gap
  BY DEF LimiterInv
<1>1. ASSUME NEW r \in Requests, Arrive(r) PROVE LimiterInv'
  BY <1>0, <1>1, SameHoldersInv
     DEF Arrive, GoTo, Holders, TypeOK, PC
<1>2. ASSUME NEW r \in Requests, GetSlot(r) PROVE LimiterInv'
  BY <1>2, GetSlotInv
<1>3. ASSUME NEW r \in Requests, GiveUpSlot(r) PROVE LimiterInv'
  BY <1>0, <1>3, SameHoldersInv DEF GiveUpSlot, GoTo, Holders, TypeOK, PC
<1>4. ASSUME NEW r \in Requests, Start(r) PROVE LimiterInv'
  BY <1>0, <1>4, SameHoldersInv DEF Start, GoTo, Holders, TypeOK, PC
<1>5. ASSUME NEW r \in Requests, Sleep(r) PROVE LimiterInv'
  BY <1>0, <1>5, SameHoldersInv DEF Sleep, GoTo, Holders, TypeOK, PC
<1>6. ASSUME NEW r \in Requests, Wake(r) PROVE LimiterInv'
  BY <1>0, <1>6, SameHoldersInv DEF Wake, GoTo, Holders, TypeOK, PC
<1>7. ASSUME NEW r \in Requests, CancelSleep(r) PROVE LimiterInv'
  BY <1>0, <1>7, LeaveInv DEF CancelSleep, Holders, TypeOK
<1>8. ASSUME NEW r \in Requests, Release(r) PROVE LimiterInv'
  BY <1>0, <1>8, LeaveInv DEF Release, Holders, TypeOK
<1>9. ASSUME NEW r \in Requests, Cancel(r) \/ Renew(r) PROVE LimiterInv'
  BY <1>0, <1>9, SameHoldersInv DEF Cancel, Renew, Holders, TypeOK
<1>10. CASE Tick
  BY <1>0, <1>10, SameHoldersInv DEF Tick, Holders, TypeOK
<1>11. CASE UNCHANGED vars
  BY <1>0, <1>11, SameHoldersInv DEF vars, Holders, TypeOK
<1>12. QED
  BY <1>1, <1>2, <1>3, <1>4, <1>5, <1>6, <1>7, <1>8, <1>9, <1>10, <1>11
     DEF Next, AcquireContext

\* The channel's count is exact in every reachable state: no slot is lost by
\* a cancellation, none is released twice.
THEOREM LimiterInvariant == Spec => []LimiterInv
BY InitInv, NextInv, PTL DEF Spec

\* Never more than MaxConcurrent upstream requests at once.
THEOREM Capped == Spec => []ConcurrencyCapped
<1>1. LimiterInv => ConcurrencyCapped
  <2> SUFFICES ASSUME LimiterInv, Limited
               PROVE  Cardinality({r \in Requests : pc[r] = "running"})
                        <= MaxConcurrent
    BY DEF ConcurrencyCapped
  <2> DEFINE Running == {r \in Requests : pc[r] = "running"}
  <2>1. Running \subseteq Holders
    BY DEF Holders
  <2>2. IsFiniteSet(Holders) /\ Cardinality(Holders) \in Nat
    BY RequestsFinite DEF Holders
  <2>3. Cardinality(Running) <= Cardinality(Holders)
    BY <2>1, <2>2, FS_Subset
  <2>4. Cardinality(Running) \in Nat
    BY RequestsFinite
  <2>5. QED
    BY <2>2, <2>3, <2>4, LimiterAssumption DEF LimiterInv, SlotsMatch
<1>2. QED
  BY <1>1, LimiterInvariant, PTL

\* Two starts are at least MinWait apart.
THEOREM Spaced == Spec => StartsSpaced
<1>1. LimiterInv /\ [Next]_vars
        => [\A r \in Requests : pc[r] # "running" /\ pc'[r] = "running"
                                  => gap >= MinWait]_vars
  <2> SUFFICES ASSUME LimiterInv, Next, NEW r \in Requests,
                      pc[r] # "running", pc'[r] = "running"
               PROVE  gap >= MinWait
    OBVIOUS
  <2>1. \E q \in Requests : Start(q)
    BY DEF Next, AcquireContext, Arrive, GetSlot, GiveUpSlot, Sleep, Wake,
           CancelSleep, Release, Cancel, Renew, Tick, GoTo, LimiterInv, TypeOK
  <2>2. QED
    BY <2>1 DEF Start, LimiterInv
<1>2. QED
  BY <1>1, LimiterInvariant, PTL DEF Spec, StartsSpaced
=============================================================================
