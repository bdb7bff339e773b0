------------------------ MODULE StreamAdaptersProofs ------------------------
(***************************************************************************)
(* Proofs about the protocol adapters, for any tools, finish reasons and   *)
(* length of the stream: whatever events the upstream sends, in whatever   *)
(* order, and however the stream ends, what each adapter writes is framed  *)
(* as its protocol demands, and the ending it reports is the right one.    *)
(*                                                                         *)
(* Each adapter has an invariant of its own, which says what its wire      *)
(* shows of its state as long as the stream goes on: ChatInv, RespInv and  *)
(* AnthInv.                                                                *)
(*                                                                         *)
(* That nothing is lost needs more: what a handler holds and what it has   *)
(* written are together what was delivered to it, and no step takes any of *)
(* that away.  RespTextInv and AnthTextInv say so; the chat handler writes *)
(* everything at once and has it in ChatInv.                               *)
(***************************************************************************)
EXTENDS StreamAdapters, SequenceTheorems, NaturalsInduction,
        FiniteSetTheorems, TLAPS

(* Folds. *)

\* What holds of 0 and is handed on from each number to the next holds up to N.
LEMMA UpTo ==
  ASSUME NEW N \in Nat, NEW T, 0 \in T,
         \A n \in 0 .. N - 1 : n \in T => n + 1 \in T
  PROVE  0 .. N \subseteq T
<1> DEFINE Bad == {n \in Nat : n <= N /\ n \notin T}
           Less == {ss \in Nat \X Nat : ss[1] < ss[2]}
<1> SUFFICES ASSUME Bad # {} PROVE FALSE
  OBVIOUS
<1>1. IsWellFoundedOn(Less, Nat)
  BY NatLessThanWellFounded DEF OpToRel
<1> HIDE DEF Less
<1>2. PICK n \in Bad : \A m \in Bad : ~(<<m, n>> \in Less)
  <2> HIDE DEF Bad
  <2>1. Bad \subseteq Nat
    BY DEF Bad
  <2> QED BY <1>1, <2>1, WFMin
<1>3. n \in 1 .. N /\ n \notin T
  OBVIOUS
<1>4. <<n - 1, n>> \in Less
  BY <1>3 DEF Less
<1>5. n - 1 \in T
  BY <1>2, <1>3, <1>4
<1> QED BY <1>3, <1>5

\* A set of numbers up to n that is not empty has a greatest one.
LEMMA MaxUpTo ==
  ASSUME NEW n \in Nat, NEW s \in SUBSET (1 .. n), s # {}
  PROVE  Max(s) \in s /\ \A y \in s : y <= Max(s)
<1> DEFINE Greatest(t) == \E m \in t : \A y \in t : m >= y
           T == {k \in 0 .. n : \A t \in SUBSET (1 .. k) : t = {} \/ Greatest(t)}
<1>1. 0 \in T
  OBVIOUS
<1>2. ASSUME NEW k \in 0 .. n - 1, k \in T PROVE k + 1 \in T
  <2>1. ASSUME NEW t \in SUBSET (1 .. k + 1) PROVE t = {} \/ Greatest(t)
    <3>1. CASE k + 1 \in t
      BY <3>1
    <3>2. CASE k + 1 \notin t
      <4>1. t \in SUBSET (1 .. k)
        BY <3>2
      <4> QED BY <1>2, <4>1
    <3> QED BY <3>1, <3>2
  <2> QED BY <2>1
<1>3. 0 .. n \subseteq T
  <2> HIDE DEF T
  <2> QED BY <1>1, <1>2, UpTo
<1>4. Greatest(s)
  <2>1. n \in T
    <3> HIDE DEF T
    <3> QED BY <1>3
  <2> QED BY <2>1
<1>5. Max(s) \in s /\ \A y \in s : Max(s) >= y
  BY <1>4 DEF Max
<1> QED BY <1>5

\* The numbers up to n + 1, and the greatest of them.
LEMMA NextPlace ==
  ASSUME NEW N \in Nat, NEW n \in 0 .. N - 1
  PROVE  /\ n + 1 \in 1 .. N /\ (n + 1) - 1 = n
         /\ 1 .. n + 1 # {} /\ 1 .. n + 1 \in SUBSET (1 .. N)
         /\ Max(1 .. n + 1) = n + 1
         /\ (1 .. n + 1) \ {n + 1} = 1 .. n
<1>1. n \in Nat /\ n + 1 \in Nat /\ n + 1 <= N
  OBVIOUS
<1>2. n + 1 \in 1 .. n + 1
  BY <1>1
<1>3. Max(1 .. n + 1) \in 1 .. n + 1 /\ \A y \in 1 .. n + 1 : y <= Max(1 .. n + 1)
  BY <1>1, <1>2, MaxUpTo
<1>4. Max(1 .. n + 1) = n + 1
  BY <1>1, <1>2, <1>3
<1>5. (1 .. n + 1) \ {n + 1} = 1 .. n
  BY <1>1
<1>6. 1 .. n + 1 \in SUBSET (1 .. N)
  BY <1>1
<1> QED BY <1>1, <1>2, <1>4, <1>5, <1>6

\* f solves the recursion of a fold over N places.
Solves(f, N, base, step) ==
  \A s \in SUBSET (1 .. N) :
    f[s] = IF s = {} THEN base ELSE step[Max(s)][f[s \ {Max(s)}]]

\* There is a solution.
LEMMA FoldSolution ==
  ASSUME NEW N \in Nat, NEW V, NEW base \in V, NEW step \in [1 .. N -> [V -> V]]
  PROVE  \E f \in [SUBSET (1 .. N) -> V] : Solves(f, N, base, step)
<1> DEFINE T == {n \in 0 .. N : \E f \in [SUBSET (1 .. n) -> V] : Solves(f, n, base, step)}
<1>1. 0 \in T
  <2>1. [s \in SUBSET (1 .. 0) |-> base] \in [SUBSET (1 .. 0) -> V]
    OBVIOUS
  <2>2. Solves([s \in SUBSET (1 .. 0) |-> base], 0, base, step)
    BY DEF Solves
  <2> QED BY <2>1, <2>2
<1>2. ASSUME NEW n \in 0 .. N - 1, n \in T PROVE n + 1 \in T
  <2>1. PICK f \in [SUBSET (1 .. n) -> V] : Solves(f, n, base, step)
    BY <1>2
  <2> DEFINE g == [s \in SUBSET (1 .. n + 1) |->
                     IF n + 1 \in s THEN step[n + 1][f[s \ {n + 1}]] ELSE f[s]]
  <2>2. \A s \in SUBSET (1 .. n + 1) :
          /\ s \ {n + 1} \in SUBSET (1 .. n)
          /\ n + 1 \notin s => s \in SUBSET (1 .. n)
    OBVIOUS
  <2>3. g \in [SUBSET (1 .. n + 1) -> V]
    <3>1. step[n + 1] \in [V -> V]
      OBVIOUS
    <3> QED BY <2>2, <3>1
  <2>4. ASSUME NEW s \in SUBSET (1 .. n + 1), s # {}
        PROVE  g[s] = step[Max(s)][g[s \ {Max(s)}]]
    <3>1. Max(s) \in s /\ \A y \in s : y <= Max(s)
      <4>1. n + 1 \in Nat
        OBVIOUS
      <4> HIDE DEF g
      <4> QED BY <2>4, <4>1, MaxUpTo
    <3>2. CASE n + 1 \in s
      <4>1. Max(s) = n + 1
        <5> HIDE DEF g, T
        <5>1. Max(s) \in 1 .. n + 1
          BY <3>1
        <5>2. n + 1 <= Max(s)
          BY <3>1, <3>2
        <5> QED BY <5>1, <5>2
      <4>2. g[s] = step[n + 1][f[s \ {n + 1}]]
        BY <3>2
      <4>3. g[s \ {n + 1}] = f[s \ {n + 1}]
        BY <2>2
      <4> QED BY <4>1, <4>2, <4>3
    <3>3. CASE n + 1 \notin s
      <4>1. s \in SUBSET (1 .. n) /\ s \ {Max(s)} \in SUBSET (1 .. n)
        <5>1. s \in SUBSET (1 .. n)
          BY <2>2, <3>3
        <5> QED BY <5>1
      <4>2. f[s] = step[Max(s)][f[s \ {Max(s)}]]
        BY <2>1, <2>4, <4>1 DEF Solves
      <4>3. g[s] = f[s] /\ g[s \ {Max(s)}] = f[s \ {Max(s)}]
        BY <3>3, <4>1
      <4> QED BY <4>2, <4>3
    <3> QED BY <3>2, <3>3
  <2>5. g[{}] = base
    BY <2>1 DEF Solves
  <2>6. Solves(g, n + 1, base, step)
    <3> HIDE DEF g
    <3> QED BY <2>4, <2>5 DEF Solves
  <2> HIDE DEF g
  <2> QED BY <2>3, <2>6
<1>3. 0 .. N \subseteq T
  <2> HIDE DEF T
  <2> QED BY <1>1, <1>2, UpTo
<1>4. N \in T
  <2> HIDE DEF T
  <2> QED BY <1>3
<1> QED BY <1>4

\* What appending an event to a sequence does.
LEMMA Appending ==
  ASSUME NEW S, NEW w \in Seq(S), NEW e \in S
  PROVE  /\ Append(w, e) \in Seq(S)
         /\ Len(Append(w, e)) = Len(w) + 1 /\ Len(w) \in Nat
         /\ DOMAIN Append(w, e) = DOMAIN w \union {Len(w) + 1}
         /\ DOMAIN w = 1 .. Len(w)
         /\ Append(w, e)[Len(w) + 1] = e
         /\ \A i \in DOMAIN w : Append(w, e)[i] = w[i]
OBVIOUS

\* Min and ...
LEMMA Least ==
  ASSUME NEW S \in SUBSET Nat, NEW m \in S, \A y \in S : m <= y
  PROVE  Min(S) = m
<1>1. Min(S) \in S /\ \A y \in S : Min(S) <= y
  BY DEF Min
<1>2. Min(S) \in Nat /\ m \in Nat /\ m <= Min(S) /\ Min(S) <= m
  BY <1>1
<1> QED BY <1>2

\* ... Max are what they are called.
LEMMA Greatest ==
  ASSUME NEW S \in SUBSET Nat, NEW m \in S, \A y \in S : y <= m
  PROVE  Max(S) = m
<1>1. \E x \in S : \A y \in S : x >= y
  OBVIOUS
<1>2. Max(S) \in S /\ \A y \in S : Max(S) >= y
  BY <1>1 DEF Max
<1>3. Max(S) \in Nat /\ m \in Nat /\ m <= Max(S) /\ Max(S) <= m
  BY <1>2
<1> QED BY <1>3

\* What a delivered event adds to the stream.
LEMMA Delivery ==
  ASSUME StreamTypeOK, NEW evt \in StreamEvent, Deliver(evt)
  PROVE  /\ StreamTypeOK' /\ phase = "streaming" /\ phase' = "streaming"
         /\ Len(sent) \in Nat /\ Len(sent') = Len(sent) + 1
         /\ sent'[Len(sent')] = evt
         /\ \A i \in 1 .. Len(sent) : sent'[i] = sent[i]
         /\ \A t : Positions(t) \subseteq 1 .. Len(sent)
         /\ \A t : Positions(t)' = Positions(t) \union
                     (IF evt.type = t THEN {Len(sent')} ELSE {})
<1>1. /\ sent \in Seq(StreamEvent) /\ sent' = Append(sent, evt) /\ Len(sent) < MaxEvents
      /\ phase = "streaming" /\ phase' = phase /\ channel' = channel
  BY DEF StreamTypeOK, Deliver, DeliverRaw, DeliverAgent, Delivered
<1>2. /\ sent' \in Seq(StreamEvent) /\ Len(sent') = Len(sent) + 1 /\ Len(sent) \in Nat
      /\ DOMAIN sent' = DOMAIN sent \union {Len(sent) + 1} /\ DOMAIN sent = 1 .. Len(sent)
      /\ sent'[Len(sent) + 1] = evt /\ \A i \in DOMAIN sent : sent'[i] = sent[i]
  BY <1>1, Appending
<1>3. ASSUME NEW t
      PROVE  /\ Positions(t) \subseteq 1 .. Len(sent)
             /\ Positions(t)' = Positions(t) \union (IF evt.type = t THEN {Len(sent')} ELSE {})
  BY <1>2 DEF Positions
<1>4. StreamTypeOK'
  BY <1>1, <1>2, StreamAssumption DEF StreamTypeOK
<1> QED BY <1>1, <1>2, <1>3, <1>4

-----------------------------------------------------------------------------
(* The chat handler. *)

ChatWire == [event : {"chunk"}, at : Nat, finish : Reasons \union {"stop", NoReason}, usage : Nat]
              \union [event : {"error", "[DONE]"}]

ChatTyped ==
  /\ StreamTypeOK
  /\ wire \in Seq(ChatWire)
  /\ finishWhy \in Reasons \union {"stop"}
  /\ finishSent \in BOOLEAN /\ (finishSent <=> Chat!Finishing # {})
  /\ usage \in 0 .. Len(sent)
  /\ usage \in Positions("usage") \union {0} /\ \A i \in Positions("usage") : i <= usage

\* As long as the stream goes on: the finish reason is announced with the first
\* finish event, and the last chunk after it has the last usage.
ChatStreaming ==
  /\ \A i \in DOMAIN wire : wire[i].event = "chunk"
  /\ logged = <<>>
  /\ finishSent <=> finished
  /\ finishSent => wire # <<>> /\ wire[Len(wire)].usage = usage
  /\ ~finished => finishWhy = "stop"

ChatInv ==
  /\ ChatTyped
  /\ phase = "streaming" => ChatStreaming
  /\ finished => /\ Min(Positions("finish")) \in Positions("finish")
                 /\ \A i \in Positions("finish") : Min(Positions("finish")) <= i
  /\ Chat!Framed /\ Chat!NothingLost /\ Chat!OneFinishReason /\ Chat!UsageReported

\* The chat handler's copy of the stream's operators is the stream's own.
LEMMA SameStream ==
  /\ \A t : Chat!Positions(t) = Positions(t) /\ Chat!Positions(t)' = Positions(t)'
  /\ (Chat!finished <=> finished) /\ (Chat!finished' <=> finished')
  /\ \A S : Chat!Min(S) = Min(S)
  /\ \A S : Chat!Max(S) = Max(S)
BY DEF Chat!Positions, Positions, Chat!finished, finished, Chat!Min, Min, Chat!Max, Max

\* Chunks that are added to the wire leave those on it alone.
LEMMA ChatGrows ==
  ASSUME wire \in Seq(ChatWire), wire' \in Seq(ChatWire), Len(wire) <= Len(wire'),
         \A i \in DOMAIN wire : wire'[i] = wire[i]
  PROVE  /\ DOMAIN wire = 1 .. Len(wire) /\ DOMAIN wire' = 1 .. Len(wire') /\ Len(wire) \in Nat
         /\ Chat!Finishing' = Chat!Finishing \union
              {i \in Len(wire) + 1 .. Len(wire') :
                 wire'[i].event = "chunk" /\ wire'[i].finish # NoReason}
         /\ Chat!Carrying' = Chat!Carrying \union
              {i \in Len(wire) + 1 .. Len(wire') : wire'[i].event = "chunk" /\ wire'[i].at # 0}
         /\ Chat!Finishing \subseteq 1 .. Len(wire) /\ Chat!Carrying \subseteq 1 .. Len(wire)
<1>1. /\ DOMAIN wire = 1 .. Len(wire) /\ DOMAIN wire' = 1 .. Len(wire')
      /\ Len(wire) \in Nat /\ Len(wire') \in Nat
  OBVIOUS
<1>2. \A i \in DOMAIN wire' : i \in DOMAIN wire \/ i \in Len(wire) + 1 .. Len(wire')
  BY <1>1
<1>3. \A i : i \in Chat!Finishing' <=>
         i \in DOMAIN wire' /\ wire'[i].event = "chunk" /\ wire'[i].finish # NoReason
  BY DEF Chat!Finishing, Chat!NoReason, NoReason
<1>4. \A i : i \in Chat!Finishing <=>
         i \in DOMAIN wire /\ wire[i].event = "chunk" /\ wire[i].finish # NoReason
  BY DEF Chat!Finishing, Chat!NoReason, NoReason
<1>5. \A i : i \in Chat!Carrying' <=>
         i \in DOMAIN wire' /\ wire'[i].event = "chunk" /\ wire'[i].at # 0
  BY DEF Chat!Carrying
<1>6. \A i : i \in Chat!Carrying <=>
         i \in DOMAIN wire /\ wire[i].event = "chunk" /\ wire[i].at # 0
  BY DEF Chat!Carrying
<1> QED BY <1>1, <1>2, <1>3, <1>4, <1>5, <1>6

\* The chat handler starts right.
LEMMA ChatInit == Init => ChatInv
<1> SUFFICES ASSUME Init PROVE ChatInv
  OBVIOUS
<1>1. /\ channel \in {"raw", "agent"} /\ sent = <<>> /\ phase = "streaming"
      /\ wire = <<>> /\ logged = <<>> /\ finishSent = FALSE /\ finishWhy = "stop" /\ usage = 0
  BY DEF Init, StreamInit, Chat!Init
<1>2. /\ \A t : Positions(t) = {} /\ ~finished
      /\ Chat!Finishing = {} /\ Chat!Carrying = {}
  BY <1>1 DEF Positions, finished, Chat!Finishing, Chat!Carrying
<1>3. StreamTypeOK
  BY <1>1, StreamAssumption DEF StreamTypeOK
<1>4. ChatTyped
  <2>1. wire \in Seq(ChatWire)
    BY <1>1
  <2>2. usage \in 0 .. Len(sent) /\ usage \in Positions("usage") \union {0}
        /\ \A i \in Positions("usage") : i <= usage
    BY <1>1, <1>2
  <2>3. finishSent \in BOOLEAN /\ (finishSent <=> Chat!Finishing # {})
    BY <1>1, <1>2
  <2>4. finishWhy \in Reasons \union {"stop"}
    BY <1>1
  <2> QED BY <1>3, <2>1, <2>2, <2>3, <2>4 DEF ChatTyped
<1>5. ChatStreaming
  BY <1>1, <1>2 DEF ChatStreaming
<1>6. Chat!Framed /\ Chat!NothingLost /\ Chat!OneFinishReason /\ Chat!UsageReported
  BY <1>1, <1>2, SameStream
     DEF Chat!Framed, Chat!NothingLost, Chat!OneFinishReason, Chat!UsageReported
<1> QED BY <1>1, <1>2, <1>4, <1>5, <1>6 DEF ChatInv

\* What the callback does to the wire: a chunk e is sent, or nothing.
Sends(evt, e) ==
  LET content == evt.type \in {"text", "reasoning", "tool"} IN
  /\ e \in ChatWire /\ e.event = "chunk" /\ wire' = Append(wire, e)
  /\ e.at = (IF content THEN Len(sent') ELSE 0)
  /\ e.finish = (IF evt.type = "finish" THEN evt.reason ELSE NoReason)
  /\ e.usage = usage'
  /\ evt.type = "finish" => ~finishSent
  /\ evt.type = "usage" => finishSent

SendsNothing(evt) ==
  /\ wire' = wire
  /\ (evt.type = "finish" /\ finishSent) \/ (evt.type = "usage" /\ ~finishSent)

\* The callback sends one chunk or nothing, and keeps the last finish reason and usage
\* (chat.go: the callback's switch).
LEMMA ChatWrites ==
  ASSUME ChatTyped, NEW evt \in StreamEvent, Deliver(evt), Chat!Callback(evt, Len(sent'))
  PROVE  /\ SendsNothing(evt) \/ \E e : Sends(evt, e)
         /\ logged' = logged
         /\ finishSent' \in BOOLEAN /\ (finishSent' <=> finishSent \/ evt.type = "finish")
         /\ finishWhy' = IF evt.type = "finish" THEN evt.reason ELSE finishWhy
         /\ usage' = IF evt.type = "usage" THEN Len(sent') ELSE usage
         /\ evt.type = "finish" => evt.reason \in Reasons
<1> DEFINE n == Len(sent')
<1>1. /\ finishSent \in BOOLEAN /\ finishWhy \in Reasons \union {"stop"} /\ usage \in Nat
      /\ n \in Nat /\ StreamTypeOK
  <2>1. Len(sent') \in Nat
    BY Delivery DEF ChatTyped
  <2> QED BY <2>1, Delivery DEF ChatTyped
<1>2. evt.type = "finish" => evt.reason \in Reasons /\ evt.reason # NoReason
  BY StreamAssumption DEF StreamEvent
<1> HIDE DEF n
<1>3. logged' = logged
  BY DEF Chat!Callback
<1>4. CASE Chat!Content(evt, n)
  <2> DEFINE e == [event |-> "chunk", at |-> n, finish |-> NoReason, usage |-> usage]
  <2>1. /\ evt.type \in {"text", "reasoning", "tool"} /\ wire' = Append(wire, e)
        /\ finishWhy' = finishWhy /\ usage' = usage /\ finishSent' = (finishSent \/ NoReason # NoReason)
    BY <1>4 DEF Chat!Content, Chat!sendChunk, Chat!chunk, Chat!NoReason, NoReason
  <2>2. e \in ChatWire
    BY <1>1 DEF ChatWire
  <2>3. Sends(evt, e)
    BY <2>1, <2>2 DEF Sends, n
  <2>4. finishSent' \in BOOLEAN /\ (finishSent' <=> finishSent)
    BY <1>1, <2>1
  <2> QED BY <1>3, <2>1, <2>3, <2>4
<1>5. CASE Chat!FinishEvent(evt)
  <2> DEFINE e == [event |-> "chunk", at |-> 0, finish |-> evt.reason, usage |-> usage]
  <2>1. evt.type = "finish" /\ finishWhy' = evt.reason /\ usage' = usage
    BY <1>5 DEF Chat!FinishEvent
  <2>2. CASE finishSent
    <3>1. wire' = wire /\ finishSent' = finishSent
      BY <1>5, <2>2 DEF Chat!FinishEvent, Chat!sendNothing
    <3> QED BY <1>1, <1>2, <1>3, <2>1, <2>2, <3>1 DEF SendsNothing
  <2>3. CASE ~finishSent
    <3>1. wire' = Append(wire, e) /\ finishSent' = (finishSent \/ evt.reason # NoReason)
      BY <1>5, <2>3 DEF Chat!FinishEvent, Chat!sendChunk, Chat!chunk, Chat!NoReason, NoReason
    <3>2. e \in ChatWire
      BY <1>1, <1>2, <2>1 DEF ChatWire
    <3>3. Sends(evt, e)
      BY <2>1, <2>3, <3>1, <3>2 DEF Sends
    <3>4. finishSent' \in BOOLEAN /\ finishSent'
      BY <1>2, <2>1, <3>1
    <3> QED BY <1>2, <1>3, <2>1, <3>3, <3>4
  <2> QED BY <2>2, <2>3
<1>6. CASE Chat!UsageEvent(evt, n)
  <2> DEFINE e == [event |-> "chunk", at |-> 0, finish |-> NoReason, usage |-> n]
  <2>1. evt.type = "usage" /\ finishWhy' = finishWhy /\ usage' = n
    BY <1>6 DEF Chat!UsageEvent
  <2>2. CASE ~finishSent
    <3>1. wire' = wire /\ finishSent' = finishSent
      BY <1>6, <2>2 DEF Chat!UsageEvent, Chat!sendNothing
    <3> QED BY <1>1, <1>3, <2>1, <2>2, <3>1 DEF SendsNothing, n
  <2>3. CASE finishSent
    <3>1. wire' = Append(wire, e) /\ finishSent' = (finishSent \/ NoReason # NoReason)
      BY <1>6, <2>3 DEF Chat!UsageEvent, Chat!sendChunk, Chat!chunk, Chat!NoReason, NoReason
    <3>2. e \in ChatWire
      BY <1>1 DEF ChatWire
    <3>3. Sends(evt, e)
      BY <2>1, <2>3, <3>1, <3>2 DEF Sends
    <3>4. finishSent' \in BOOLEAN /\ finishSent'
      BY <2>3, <3>1
    <3> QED BY <1>3, <2>1, <2>3, <3>3, <3>4 DEF n
  <2> QED BY <2>2, <2>3
<1> QED BY <1>4, <1>5, <1>6 DEF Chat!Callback, n

\* An event keeps the invariant.
LEMMA ChatCallback ==
  ASSUME ChatInv, NEW evt \in StreamEvent, Deliver(evt), Chat!Callback(evt, Len(sent'))
  PROVE  ChatInv'
<1> DEFINE n == Len(sent')
           k == Len(wire) + 1
           content == evt.type \in {"text", "reasoning", "tool"}
<1>1. /\ StreamTypeOK' /\ phase = "streaming" /\ phase' = "streaming"
      /\ Len(sent) \in Nat /\ n = Len(sent) + 1 /\ sent'[n] = evt
      /\ \A i \in 1 .. Len(sent) : sent'[i] = sent[i]
      /\ \A t : Positions(t) \subseteq 1 .. Len(sent)
      /\ \A t : Positions(t)' = Positions(t) \union (IF evt.type = t THEN {n} ELSE {})
  BY Delivery DEF ChatInv, ChatTyped
<1>2. /\ SendsNothing(evt) \/ \E e : Sends(evt, e)
      /\ logged' = logged
      /\ finishSent' \in BOOLEAN /\ (finishSent' <=> finishSent \/ evt.type = "finish")
      /\ finishWhy' = IF evt.type = "finish" THEN evt.reason ELSE finishWhy
      /\ usage' = IF evt.type = "usage" THEN n ELSE usage
      /\ evt.type = "finish" => evt.reason \in Reasons
  BY ChatWrites DEF ChatInv
<1>3. ChatTyped /\ ChatStreaming /\ Chat!NothingLost /\ Chat!OneFinishReason
  BY <1>1 DEF ChatInv
<1> HIDE DEF n
<1>4. /\ DOMAIN wire = 1 .. Len(wire) /\ DOMAIN wire' = 1 .. Len(wire') /\ Len(wire) \in Nat
      /\ wire' \in Seq(ChatWire)
      /\ \A i \in DOMAIN wire : wire'[i] = wire[i]
      /\ \A i \in DOMAIN wire' : wire'[i].event = "chunk"
      /\ Chat!Finishing \subseteq 1 .. Len(wire) /\ Chat!Carrying \subseteq 1 .. Len(wire)
      /\ Chat!Finishing' = Chat!Finishing \union
           (IF evt.type = "finish" /\ ~finishSent THEN {k} ELSE {})
      /\ Chat!Carrying' = Chat!Carrying \union (IF content THEN {k} ELSE {})
      /\ evt.type = "finish" /\ ~finishSent => wire'[k].finish = evt.reason
      /\ content => wire'[k].at = n
      /\ finishSent' => wire' # <<>> /\ wire'[Len(wire')].usage = usage'
  <2>1. CASE SendsNothing(evt)
    <3>1. wire' = wire /\ wire \in Seq(ChatWire)
      BY <1>3, <2>1 DEF SendsNothing, ChatTyped
    <3>2. /\ DOMAIN wire = 1 .. Len(wire) /\ DOMAIN wire' = 1 .. Len(wire') /\ Len(wire) \in Nat
          /\ Chat!Finishing' = Chat!Finishing /\ Chat!Carrying' = Chat!Carrying
          /\ Chat!Finishing \subseteq 1 .. Len(wire) /\ Chat!Carrying \subseteq 1 .. Len(wire)
      BY <3>1 DEF Chat!Finishing, Chat!Carrying
    <3>3. evt.type \in {"finish", "usage"} /\ ~content /\ ~(evt.type = "finish" /\ ~finishSent)
      BY <2>1 DEF SendsNothing
    <3>4. finishSent' => wire' # <<>> /\ wire'[Len(wire')].usage = usage'
      BY <1>2, <1>3, <2>1, <3>1 DEF SendsNothing, ChatStreaming
    <3>5. \A i \in DOMAIN wire' : wire'[i].event = "chunk"
      BY <1>3, <3>1 DEF ChatStreaming
    <3> HIDE DEF content
    <3> QED BY <3>1, <3>2, <3>3, <3>4, <3>5
  <2>2. CASE \E e : Sends(evt, e)
    <3>1. PICK e : Sends(evt, e)
      BY <2>2
    <3>2. wire \in Seq(ChatWire) /\ e \in ChatWire /\ wire' = Append(wire, e) /\ e.event = "chunk"
      BY <1>3, <3>1 DEF Sends, ChatTyped
    <3>3. /\ wire' \in Seq(ChatWire) /\ Len(wire') = k /\ Len(wire) \in Nat
          /\ wire'[k] = e /\ \A i \in DOMAIN wire : wire'[i] = wire[i]
      BY <3>2, Appending
    <3>4. /\ DOMAIN wire = 1 .. Len(wire) /\ DOMAIN wire' = 1 .. Len(wire')
          /\ Chat!Finishing' = Chat!Finishing \union
               {i \in k .. Len(wire') : wire'[i].event = "chunk" /\ wire'[i].finish # NoReason}
          /\ Chat!Carrying' = Chat!Carrying \union
               {i \in k .. Len(wire') : wire'[i].event = "chunk" /\ wire'[i].at # 0}
          /\ Chat!Finishing \subseteq 1 .. Len(wire) /\ Chat!Carrying \subseteq 1 .. Len(wire)
      BY <3>2, <3>3, ChatGrows
    <3>5. k .. Len(wire') = {k}
      BY <3>3
    <3>6. /\ e.at = (IF content THEN n ELSE 0) /\ e.usage = usage'
          /\ e.finish = (IF evt.type = "finish" THEN evt.reason ELSE NoReason)
          /\ evt.type = "finish" => ~finishSent
      BY <3>1 DEF Sends, n
    <3>7. n # 0
      BY <1>1
    <3>8. e.finish # NoReason <=> evt.type = "finish" /\ ~finishSent
      BY <1>2, <3>6, StreamAssumption
    <3>9. e.at # 0 <=> content
      BY <3>6, <3>7
    <3>10. \A i \in DOMAIN wire' : wire'[i].event = "chunk"
      BY <1>3, <3>2, <3>3, <3>4 DEF ChatStreaming
    <3>11. /\ Chat!Finishing' = Chat!Finishing \union
                (IF evt.type = "finish" /\ ~finishSent THEN {k} ELSE {})
           /\ Chat!Carrying' = Chat!Carrying \union (IF content THEN {k} ELSE {})
      <4> HIDE DEF content, k
      <4> QED BY <3>2, <3>3, <3>4, <3>5, <3>8, <3>9
    <3>12. wire' # <<>> /\ wire'[Len(wire')].usage = usage'
      BY <3>3, <3>6
    <3> HIDE DEF content
    <3> QED BY <3>3, <3>4, <3>6, <3>10, <3>11, <3>12
  <2> QED BY <1>2, <2>1, <2>2
<1>5. /\ finished' <=> finished \/ evt.type = "finish"
      /\ Positions("finish")' = Positions("finish") \union (IF evt.type = "finish" THEN {n} ELSE {})
      /\ Positions("finish") \subseteq 1 .. Len(sent)
  BY <1>1 DEF finished
<1> HIDE DEF k
<1>6. ChatTyped'
  <2>1. finishSent' <=> Chat!Finishing' # {}
    BY <1>2, <1>3, <1>4 DEF ChatTyped
  <2>2. /\ usage' \in 0 .. n /\ usage' \in Positions("usage")' \union {0}
        /\ \A i \in Positions("usage")' : i <= usage'
    BY <1>1, <1>2, <1>3 DEF ChatTyped
  <2>3. finishWhy' \in Reasons \union {"stop"}
    BY <1>2, <1>3 DEF ChatTyped
  <2> QED BY <1>1, <1>2, <1>4, <2>1, <2>2, <2>3 DEF ChatTyped, n
<1>7. ChatStreaming'
  BY <1>2, <1>3, <1>4, <1>5 DEF ChatStreaming
<1>8. finished' => /\ Min(Positions("finish")') \in Positions("finish")'
                   /\ \A i \in Positions("finish")' : Min(Positions("finish")') <= i
                   /\ sent'[Min(Positions("finish")')].reason =
                        IF finished THEN sent[Min(Positions("finish"))].reason ELSE evt.reason
  <2>1. CASE finished
    <3> DEFINE m == Min(Positions("finish"))
    <3>1. m \in Positions("finish") /\ \A i \in Positions("finish") : m <= i
      BY <2>1 DEF ChatInv
    <3> HIDE DEF m
    <3>2. m \in Positions("finish")' /\ \A i \in Positions("finish")' : m <= i
      BY <1>1, <1>5, <3>1
    <3>3. Positions("finish")' \in SUBSET Nat /\ m \in 1 .. Len(sent)
      BY <1>1, <1>5, <3>1
    <3>4. Min(Positions("finish")') = m
      BY <3>2, <3>3, Least
    <3>5. sent'[m] = sent[m]
      BY <1>1, <3>3
    <3> QED BY <2>1, <3>2, <3>4, <3>5 DEF m
  <2>2. CASE ~finished /\ evt.type = "finish"
    <3>1. Positions("finish")' = {n}
      BY <1>5, <2>2 DEF finished
    <3>2. n \in Nat /\ n <= n
      BY <1>1
    <3>3. Min(Positions("finish")') = n
      BY <3>1, <3>2, Least
    <3> QED BY <1>1, <2>2, <3>1, <3>2, <3>3
  <2> QED BY <1>5, <2>1, <2>2
<1>9. Chat!OneFinishReason'
  <2>1. \A i, j \in Chat!Finishing' : i = j
    BY <1>3, <1>4 DEF Chat!OneFinishReason, ChatTyped
  <2>2. ASSUME NEW i \in Chat!Finishing' 
        PROVE  /\ finished'
               /\ wire'[i].finish = sent'[Min(Positions("finish")')].reason
    <3>1. CASE i \in Chat!Finishing
      <4>1. finishSent /\ finished /\ wire[i].finish = sent[Min(Positions("finish"))].reason
        BY <1>3, <3>1, SameStream DEF Chat!OneFinishReason, ChatTyped, ChatStreaming
      <4> QED BY <1>4, <1>5, <1>8, <3>1, <4>1
    <3>2. CASE i \notin Chat!Finishing
      <4>1. evt.type = "finish" /\ ~finished /\ wire'[i].finish = evt.reason
        BY <1>3, <1>4, <3>2 DEF ChatStreaming
      <4> QED BY <1>5, <1>8, <4>1
    <3> QED BY <3>1, <3>2
  <2> QED BY <1>1, <2>1, <2>2, SameStream DEF Chat!OneFinishReason
<1>10. Chat!NothingLost'
  <2> DEFINE P == UNION {Positions(type) : type \in {"text", "reasoning", "tool"}}
  <2>1. P' = P \union (IF content THEN {n} ELSE {})
    <3>1. P = Positions("text") \union Positions("reasoning") \union Positions("tool")
      OBVIOUS
    <3>2. P' = Positions("text")' \union Positions("reasoning")' \union Positions("tool")'
      OBVIOUS
    <3> QED BY <1>1, <3>1, <3>2
  <2>2. P \subseteq 1 .. Len(sent)
    BY <1>1
  <2>3. {wire[i].at : i \in Chat!Carrying} = P
        /\ \A i, j \in Chat!Carrying : i < j => wire[i].at < wire[j].at
    BY <1>3, SameStream DEF Chat!NothingLost
  <2> HIDE DEF P, content
  <2>4. \A i \in Chat!Carrying : wire'[i].at = wire[i].at /\ wire[i].at \in P
    BY <1>4, <2>3
  <2>5. {wire'[i].at : i \in Chat!Carrying'} = P'
    <3>1. {wire'[i].at : i \in Chat!Carrying} = P
      BY <2>3, <2>4
    <3>2. CASE content
      <4>1. Chat!Carrying' = Chat!Carrying \union {k} /\ wire'[k].at = n /\ P' = P \union {n}
        BY <1>4, <2>1, <3>2
      <4> QED BY <3>1, <4>1
    <3>3. CASE ~content
      <4>1. Chat!Carrying' = Chat!Carrying /\ P' = P
        BY <1>4, <2>1, <3>3
      <4> QED BY <3>1, <4>1
    <3> QED BY <3>2, <3>3
  <2>6. ASSUME NEW i \in Chat!Carrying', NEW j \in Chat!Carrying', i < j
        PROVE  wire'[i].at < wire'[j].at
    <3>1. i \in 1 .. Len(wire) \union {k} /\ j \in 1 .. Len(wire) \union {k}
      BY <1>4
    <3>2. i \in Chat!Carrying
      BY <1>4, <2>6, <3>1 DEF k
    <3>3. CASE j \in Chat!Carrying
      BY <2>3, <2>4, <2>6, <3>2, <3>3
    <3>4. CASE j \notin Chat!Carrying
      <4>1. content /\ j = k /\ wire'[j].at = n
        BY <1>4, <3>4
      <4>2. wire'[i].at \in P
        BY <2>4, <3>2
      <4>3. wire'[i].at \in 1 .. Len(sent)
        BY <2>2, <4>2
      <4> QED BY <1>1, <4>1, <4>3
    <3> QED BY <3>3, <3>4
  <2> QED BY <2>5, <2>6, SameStream DEF Chat!NothingLost, P
<1>11. Chat!Framed'
  BY <1>1, <1>4 DEF Chat!Framed, Chat!Done
<1>12. Chat!UsageReported'
  BY <1>1 DEF Chat!UsageReported
<1> QED BY <1>1, <1>6, <1>7, <1>8, <1>9, <1>10, <1>11, <1>12 DEF ChatInv

\* What concatenating does.
LEMMA Concatenating ==
  ASSUME NEW S, NEW w \in Seq(S), NEW a \in S, NEW b \in S
  PROVE  /\ w \o <<a>> = Append(w, a)
         /\ w \o <<a, b>> = Append(Append(w, a), b)
         /\ w \o <<a>> \o <<b>> = Append(Append(w, a), b)
         /\ w \o <<>> \o <<a>> = Append(w, a)
OBVIOUS

\* What does not change when no event comes.
LEMMA NoDelivery ==
  ASSUME sent' = sent
  PROVE  /\ \A t : Positions(t)' = Positions(t)
         /\ finished' <=> finished
         /\ \A t : \A S : S = Positions(t) => Min(S)' = Min(S)
BY DEF Positions, finished

\* The reply is closed: w is all that has been written but the [DONE].
Adds(w, e) == w = Append(wire, e)
Announces(w, e) == Adds(w, e) /\ e.event = "chunk" /\ e.finish # NoReason

Closes(w, e) ==
  /\ UNCHANGED <<sent, channel, finishWhy, usage>>
  /\ phase = "streaming" /\ phase' \in {"ended", "failed"}
  /\ w \in Seq(ChatWire) /\ wire' = Append(w, Chat!Done)
  /\ w = wire \/ Adds(w, e)
  /\ e \in ChatWire /\ e.event # "[DONE]" /\ (e.event = "chunk" => e.at = 0)
  /\ finishSent' \in BOOLEAN /\ (finishSent' <=> finishSent \/ Announces(w, e))
  /\ Announces(w, e) => phase' = "ended" /\ e.finish = "stop" /\ ~finished
  /\ phase' = "ended" =>
       /\ finishSent' /\ w # <<>> /\ w[Len(w)].event = "chunk" /\ w[Len(w)].usage = usage
       /\ logged' = << <<200, usage>> >>

\* The chunks that close the reply leave it right.
LEMMA ChatCloses ==
  ASSUME ChatInv, NEW w \in Seq(ChatWire), NEW e \in ChatWire, Closes(w, e) PROVE ChatInv'
<1>1. /\ wire \in Seq(ChatWire) /\ ChatTyped /\ ChatStreaming
      /\ Chat!NothingLost /\ Chat!OneFinishReason
  BY DEF ChatInv, ChatTyped, Closes
<1>0. /\ Chat!Done.event = "[DONE]" /\ Chat!Done \in ChatWire
      /\ w \in Seq(ChatWire) /\ wire' = Append(w, Chat!Done) /\ e \in ChatWire
      /\ w = wire \/ Adds(w, e)
      /\ e.event # "[DONE]"
  BY DEF Closes, Chat!Done, ChatWire
<1> DEFINE l == Len(wire)
           m == Len(w)
<1>2. /\ wire' \in Seq(ChatWire) /\ m \in Nat /\ l \in Nat
      /\ DOMAIN w = 1 .. m /\ DOMAIN wire' = 1 .. m + 1 /\ DOMAIN wire = 1 .. l
      /\ wire'[m + 1] = Chat!Done /\ Len(wire') = m + 1
      /\ \A i \in 1 .. m : wire'[i] = w[i]
  BY <1>0, <1>1, Appending
<1>17. Adds(w, e) => m = l + 1 /\ w[l + 1] = e /\ \A i \in 1 .. l : w[i] = wire[i]
  BY <1>0, <1>1, Appending DEF Adds
<1>18. ~Adds(w, e) => m = l /\ w = wire
  BY <1>0
<1>19. w # <<>> => m # 0
  BY <1>0
<1> HIDE DEF l, m
<1>3. /\ l <= m
      /\ \A i \in 1 .. l : w[i] = wire[i]
      /\ \A i \in l + 1 .. m : w[i] = e /\ Adds(w, e)
      /\ Adds(w, e) => m = l + 1 /\ w[m] = e
  BY <1>2, <1>17, <1>18
<1>15. \A i \in DOMAIN wire : i \in DOMAIN w /\ wire'[i] = wire[i]
  BY <1>2, <1>3
<1>4. \A i \in DOMAIN w : w[i].event # "[DONE]"
  <2> SUFFICES ASSUME NEW i \in DOMAIN w PROVE w[i].event # "[DONE]"
    OBVIOUS
  <2>1. CASE i \in 1 .. l
    <3>1. wire[i].event = "chunk" /\ w[i] = wire[i]
      BY <1>1, <1>2, <1>3, <2>1 DEF ChatStreaming
    <3> QED BY <3>1
  <2>2. CASE i \in l + 1 .. m
    BY <1>0, <1>3, <2>2
  <2> QED BY <1>2, <2>1, <2>2
<1>5. /\ Chat!Finishing' = Chat!Finishing \union
           {i \in l + 1 .. m + 1 : wire'[i].event = "chunk" /\ wire'[i].finish # NoReason}
      /\ Chat!Carrying' = Chat!Carrying \union
           {i \in l + 1 .. m + 1 : wire'[i].event = "chunk" /\ wire'[i].at # 0}
      /\ Chat!Finishing \subseteq 1 .. l /\ Chat!Carrying \subseteq 1 .. l
  <2>1. l <= m + 1 /\ \A i \in DOMAIN wire : wire'[i] = wire[i]
    BY <1>2, <1>3, <1>15
  <2> QED BY <1>1, <1>2, <2>1, ChatGrows DEF l
<1>6. \A i \in l + 1 .. m + 1 :
         \/ wire'[i] = Chat!Done
         \/ i = l + 1 /\ wire'[i] = e /\ Adds(w, e)
  <2> SUFFICES ASSUME NEW i \in l + 1 .. m + 1, i # m + 1
               PROVE  i = l + 1 /\ wire'[i] = e /\ Adds(w, e)
    BY <1>2
  <2>1. i \in l + 1 .. m /\ i \in DOMAIN w
    BY <1>2, <1>3
  <2> QED BY <1>2, <1>3, <2>1
<1>7. Chat!Carrying' = Chat!Carrying
  BY <1>0, <1>5, <1>6 DEF Closes
<1>8. Chat!Finishing' = Chat!Finishing \union
        (IF Announces(w, e) THEN {l + 1} ELSE {})
  <2>1. Adds(w, e) => l + 1 \in l + 1 .. m + 1 /\ wire'[l + 1] = e
    BY <1>2, <1>3
  <2> QED BY <1>0, <1>5, <1>6, <2>1 DEF Announces
<1>9. /\ \A t : Positions(t)' = Positions(t)
      /\ finished' <=> finished
  BY NoDelivery DEF Closes
<1>10. ChatTyped'
  <2>1. StreamTypeOK'
    BY <1>1 DEF ChatTyped, StreamTypeOK, Closes
  <2> QED BY <1>1, <1>2, <1>8, <1>9, <2>1 DEF ChatTyped, Closes
<1>11. Chat!OneFinishReason'
  <2>1. \A i \in Chat!Finishing : /\ i \in DOMAIN wire /\ wire'[i] = wire[i] /\ finished /\ finishSent
    BY <1>1, <1>2, <1>15, <1>5 DEF ChatTyped, ChatStreaming
  <2>2. ~finished => Chat!Finishing = {}
    BY <2>1
  <2>3. \A i, j \in Chat!Finishing' : i = j
    BY <1>1, <1>8, <2>2 DEF Chat!OneFinishReason, Closes
  <2>4. phase' = "ended" => Chat!Finishing' # {}
    BY <1>10 DEF ChatTyped, Closes
  <2>5. phase' = "failed" /\ ~finished => Chat!Finishing' = {}
    BY <1>8, <2>2 DEF Closes
  <2>6. ASSUME NEW i \in Chat!Finishing'
        PROVE  wire'[i].finish = IF finished THEN sent[Min(Positions("finish"))].reason ELSE "stop"
    <3>1. CASE i \in Chat!Finishing
      BY <1>1, <2>1, <3>1, SameStream DEF Chat!OneFinishReason
    <3>2. CASE i \notin Chat!Finishing
      <4>1. Announces(w, e) /\ i = l + 1
        BY <1>8, <3>2
      <4>2. wire'[i] = e
        BY <1>2, <1>3, <4>1 DEF Announces
      <4> QED BY <4>1, <4>2 DEF Closes
    <3> QED BY <3>1, <3>2
  <2>7. sent' = sent
    BY DEF Closes
  <2> QED BY <1>9, <2>3, <2>4, <2>5, <2>6, <2>7, SameStream DEF Chat!OneFinishReason
<1>12. Chat!NothingLost'
  <2>1. \A i \in Chat!Carrying : wire'[i] = wire[i]
    BY <1>2, <1>5, <1>15
  <2> QED BY <1>1, <1>7, <1>9, <2>1, SameStream DEF Chat!NothingLost
<1>13. Chat!Framed'
  <2>1. ASSUME NEW i \in DOMAIN wire' PROVE wire'[i] = Chat!Done <=> i = m + 1
    <3>1. CASE i \in DOMAIN w
      BY <1>0, <1>2, <1>4, <3>1
    <3>2. CASE i \notin DOMAIN w
      BY <1>2, <3>2
    <3> QED BY <3>1, <3>2
  <2> QED BY <2>1 DEF Chat!Framed, Closes
<1>14. Chat!UsageReported'
  <2>1. SUFFICES ASSUME phase' = "ended"
                 PROVE  /\ wire'[(m + 1) - 1].event = "chunk" /\ wire'[(m + 1) - 1].usage = usage
                        /\ logged' = << <<200, Max(Positions("usage") \union {0})>> >>
    <3>1. usage' = usage
      BY DEF Closes
    <3> QED BY <1>2, <1>9, <3>1, SameStream DEF Chat!UsageReported
  <2>2. (m + 1) - 1 = m /\ m \in DOMAIN w
    <3> QED BY <1>2, <1>19, <2>1 DEF Closes
  <2>3. Max(Positions("usage") \union {0}) = usage
    <3>1. Positions("usage") \union {0} \in SUBSET Nat
      BY <1>1 DEF ChatTyped, StreamTypeOK, Positions
    <3>2. usage \in Positions("usage") \union {0} /\ \A i \in Positions("usage") \union {0} : i <= usage
      BY <1>1 DEF ChatTyped
    <3> QED BY <3>1, <3>2, Greatest
  <2> QED BY <1>2, <2>1, <2>2, <2>3 DEF Closes, m
<1>16. finished' => /\ Min(Positions("finish"))' \in Positions("finish")'
                    /\ \A i \in Positions("finish")' : Min(Positions("finish"))' <= i
  BY <1>9 DEF ChatInv
<1> QED BY <1>10, <1>11, <1>12, <1>13, <1>14, <1>16 DEF ChatInv, Closes

\* The stream fails, and the client is told.
LEMMA ChatFailed ==
  ASSUME ChatInv, Fail, Chat!Failed PROVE ChatInv'
<1> DEFINE e == [event |-> "error"]
           w == Append(wire, e)
<1>1. wire \in Seq(ChatWire) /\ e \in ChatWire /\ Chat!Done \in ChatWire /\ finishSent \in BOOLEAN
  BY DEF ChatInv, ChatTyped, ChatWire, Chat!Done
<1>2. w \in Seq(ChatWire)
  BY <1>1
<1>3. wire' = Append(w, Chat!Done)
  <2>1. wire' = wire \o <<e, Chat!Done>>
    BY DEF Chat!Failed
  <2> HIDE DEF e
  <2> QED BY <1>1, <2>1, Concatenating
<1>4. ~Announces(w, e)
  BY DEF Announces
<1>5. Closes(w, e)
  BY <1>1, <1>2, <1>3, <1>4 DEF Closes, Adds, Fail, Chat!Failed
<1> QED BY <1>1, <1>2, <1>5, ChatCloses

\* The stream ends, and the finish reason is announced unless it has been.
LEMMA ChatEnded ==
  ASSUME ChatInv, End, Chat!Ended PROVE ChatInv'
<1> DEFINE e == [event |-> "chunk", at |-> 0, finish |-> finishWhy, usage |-> usage]
           w == IF finishSent THEN wire ELSE Append(wire, e)
<1>1. /\ phase = "streaming" /\ ChatTyped /\ ChatStreaming /\ wire \in Seq(ChatWire)
      /\ finishSent \in BOOLEAN /\ finishWhy \in Reasons \union {"stop"}
      /\ usage \in Nat /\ Chat!Done \in ChatWire
  BY DEF ChatInv, ChatTyped, ChatWire, Chat!Done, StreamTypeOK, End
<1>2. e \in ChatWire /\ e.finish # NoReason
  BY <1>1, StreamAssumption DEF ChatWire, NoReason
<1>3. /\ logged' = << <<200, usage>> >> /\ finishSent' = TRUE
      /\ UNCHANGED <<sent, channel, finishWhy, usage>> /\ phase' = "ended"
  <2>1. logged' = Append(logged, <<200, usage>>) /\ logged = <<>>
    BY <1>1 DEF Chat!Ended, Chat!recordCompletion, ChatStreaming
  <2> QED BY <2>1 DEF Chat!Ended, End
<1>4. CASE finishSent
  <2>1. wire' = wire \o <<>> \o <<Chat!Done>>
    BY <1>4 DEF Chat!Ended
  <2>2. wire' = Append(wire, Chat!Done)
    BY <1>1, <2>1, Concatenating
  <2>3. wire # <<>> /\ wire[Len(wire)].usage = usage
    BY <1>1, <1>4 DEF ChatStreaming
  <2>4. Len(wire) \in DOMAIN wire
    BY <1>1, <2>3
  <2>5. wire[Len(wire)].event = "chunk"
    BY <1>1, <2>4 DEF ChatStreaming
  <2>6. wire # Append(wire, e)
    BY <1>1, <1>2
  <2>8. e.event = "chunk" /\ e.at = 0
    OBVIOUS
  <2> HIDE DEF e
  <2>9. ~Announces(wire, e)
    BY <2>6 DEF Announces, Adds
  <2>7. Closes(wire, e)
    BY <1>1, <1>2, <1>3, <1>4, <2>2, <2>3, <2>5, <2>8, <2>9 DEF Closes
  <2> QED BY <1>1, <1>2, <2>7, ChatCloses
<1>5. CASE ~finishSent
  <2> DEFINE v == Append(wire, e)
  <2>1. wire' = wire \o <<e>> \o <<Chat!Done>>
    BY <1>5 DEF Chat!Ended, Chat!chunk
  <2>2. e.event = "chunk" /\ e.at = 0 /\ e.usage = usage /\ e.finish = finishWhy
    OBVIOUS
  <2> HIDE DEF e
  <2>3. wire' = Append(v, Chat!Done) /\ v \in Seq(ChatWire)
    BY <1>1, <1>2, <2>1, Concatenating
  <2>4. v # <<>> /\ v[Len(v)] = e
    BY <1>1, <1>2
  <2>5. ~finished /\ finishWhy = "stop"
    BY <1>1, <1>5 DEF ChatStreaming
  <2>6. Announces(v, e)
    BY <1>2, <2>2 DEF Announces, Adds
  <2> HIDE DEF v
  <2>7. Closes(v, e)
    BY <1>1, <1>2, <1>3, <1>5, <2>2, <2>3, <2>4, <2>5, <2>6 DEF Closes, Announces
  <2> QED BY <1>2, <2>3, <2>7, ChatCloses
<1> QED BY <1>1, <1>4, <1>5

\* A stutter, ...
LEMMA ChatUnchanged == ChatInv /\ UNCHANGED vars => ChatInv'
<1> SUFFICES ASSUME ChatInv, UNCHANGED vars PROVE ChatInv'
  OBVIOUS
<1>1. UNCHANGED <<channel, sent, phase, finishWhy, usage, finishSent, wire, logged>>
  BY DEF vars, streamVars, Chat!stateVars
<1>2. ChatTyped' /\ (phase = "streaming" => ChatStreaming')
  BY <1>1 DEF ChatInv, ChatTyped, ChatStreaming, StreamTypeOK, Positions, finished, Chat!Finishing
<1>3. Chat!Framed' /\ Chat!NothingLost' /\ Chat!OneFinishReason' /\ Chat!UsageReported'
  <2>1. Chat!Finishing' = Chat!Finishing /\ Chat!Carrying' = Chat!Carrying
    BY <1>1 DEF Chat!Finishing, Chat!Carrying
  <2>2. /\ \A t : Chat!Positions(t)' = Chat!Positions(t)
        /\ (Chat!finished' <=> Chat!finished)
    BY <1>1 DEF Chat!Positions, Chat!finished
  <2>3. Chat!Framed' /\ Chat!NothingLost'
    BY <1>1, <2>1, <2>2 DEF ChatInv, Chat!Framed, Chat!NothingLost
  <2>4. Chat!OneFinishReason'
    BY <1>1, <2>1, <2>2 DEF ChatInv, Chat!OneFinishReason
  <2>5. Chat!UsageReported'
    BY <1>1, <2>2 DEF ChatInv, Chat!UsageReported
  <2> QED BY <2>3, <2>4, <2>5
<1> QED BY <1>1, <1>2, <1>3 DEF ChatInv, finished, Positions

\* ... and so every step, keeps the chat handler right.
LEMMA ChatNext == ChatInv /\ [Next]_vars => ChatInv'
<1>1. ASSUME ChatInv, Callback PROVE ChatInv'
  BY <1>1, ChatCallback DEF Callback
<1>2. ASSUME ChatInv, Failed PROVE ChatInv'
  BY <1>2, ChatFailed DEF Failed
<1>3. ASSUME ChatInv, Ended PROVE ChatInv'
  BY <1>3, ChatEnded DEF Ended
<1> QED BY <1>1, <1>2, <1>3, ChatUnchanged DEF Next

(* The Responses handler. *)

ItemTypes == {"", "message", "reasoning", "function_call"}

RespEvent ==
  [event : {"added"}, id : Nat, type : ItemTypes]
    \union [event : {"delta"}, id : Nat, text : Seq(Nat)]
    \union [event : {"done"}, id : Nat, type : ItemTypes, text : Seq(Nat),
                status : {"completed", "incomplete"}]

\* The handlers' copies of Before are one operator.
LEMMA SameCounts ==
  \A kind, w, i : /\ Responses!Before(kind, w, i) = Before(kind, w, i)
                  /\ Anthropic!Before(kind, w, i) = Before(kind, w, i)
BY DEF Responses!Before, Anthropic!Before, Before, Responses!Cardinality, Anthropic!Cardinality, Cardinality

\* An event added to a wire changes no count before it, and is counted.
LEMMA CountedBefore ==
  ASSUME NEW S, NEW w \in Seq(S), NEW e \in S, NEW kind, NEW i \in 1 .. Len(w) + 1
  PROVE  Before(kind, Append(w, e), i) = Before(kind, w, i)
<1> DEFINE v == Append(w, e)
<1>1. Len(w) \in Nat /\ \A j \in 1 .. Len(w) : v[j] = w[j]
  BY Appending
<1> HIDE DEF v
<1>2. {j \in 1 .. i - 1 : v[j].event = kind} = {j \in 1 .. i - 1 : w[j].event = kind}
  BY <1>1
<1> QED BY <1>2 DEF Before, v

\* ... and is counted after it.
LEMMA CountedNext ==
  ASSUME NEW S, NEW w \in Seq(S), NEW e \in S, NEW kind
  PROVE  /\ Before(kind, w, Len(w) + 1) \in Nat
         /\ Before(kind, Append(w, e), Len(w) + 2)
              = Before(kind, w, Len(w) + 1) + (IF e.event = kind THEN 1 ELSE 0)
<1> DEFINE v == Append(w, e)
           At(x, i) == {j \in 1 .. i - 1 : x[j].event = kind}
           l == Len(w)
<1>1. l \in Nat /\ v[l + 1] = e /\ \A i \in 1 .. l : v[i] = w[i]
  BY Appending
<1> HIDE DEF v, l
<1>3. At(v, l + 2) = At(w, l + 1) \union (IF e.event = kind THEN {l + 1} ELSE {})
  BY <1>1
<1>4. IsFiniteSet(At(w, l + 1))
  <2>1. IsFiniteSet(1 .. (l + 1) - 1)
    BY <1>1, FS_Interval
  <2> QED BY <2>1, FS_Subset
<1>5. Cardinality(At(w, l + 1)) \in Nat
  BY <1>4, FS_CardinalityType
<1>6. l + 1 \notin At(w, l + 1)
  BY <1>1
<1>7. Cardinality(At(v, l + 2)) = Cardinality(At(w, l + 1)) + (IF e.event = kind THEN 1 ELSE 0)
  <2>1. CASE e.event = kind
    <3>1. Cardinality(At(w, l + 1) \union {l + 1}) = Cardinality(At(w, l + 1)) + 1
      BY <1>4, <1>6, FS_AddElement
    <3> QED BY <1>3, <2>1, <3>1
  <2>2. CASE e.event # kind
    <3>1. At(v, l + 2) = At(w, l + 1)
      BY <1>3, <2>2
    <3> HIDE DEF At
    <3> QED BY <1>5, <2>2, <3>1
  <2> QED BY <2>1, <2>2
<1> QED BY <1>5, <1>7 DEF Before, v, l

OpenNow(w, id) == Responses!Open(w, Len(w) + 1, id)

\* What the wire w shows as long as nothing has closed the reply: n is the last
\* index given, item the open text or reasoning item, ids those of the tool
\* calls.
WireRight(w, n, item, ids) ==
  /\ w \in Seq(RespEvent) /\ n \in Int /\ n + 1 \in Nat
  /\ Responses!ItemByItem(w)
  /\ \A i \in DOMAIN w : w[i].id \in 0 .. n
  /\ Before("added", w, Len(w) + 1) = n + 1
  /\ item = -1 \/ OpenNow(w, item)
  /\ \A i \in DOMAIN ids : OpenNow(w, ids[i]) /\ ids[i] # item
  /\ \A i, j \in DOMAIN ids : ids[i] = ids[j] => i = j
  /\ \A j \in DOMAIN w : w[j].event = "added" /\ OpenNow(w, w[j].id)
       => w[j].type = "function_call" \/ w[j].id = item

\* An event e may come next on w.
Continues(w, e) ==
  CASE e.event = "added" ->
         /\ e.id = Before("added", w, Len(w) + 1)
         /\ \A j \in DOMAIN w : w[j].event = "added" /\ OpenNow(w, w[j].id)
              => w[j].type = "function_call"
    [] e.event \in {"delta", "done"} -> OpenNow(w, e.id)
    [] OTHER -> TRUE

\* An item is open on a longer wire if it was, or has just been added, and is not done.
LEMMA Opening ==
  ASSUME NEW S, NEW w \in Seq(S), NEW e \in S, NEW id
  PROVE  /\ \A i \in 1 .. Len(w) + 1 : Responses!Open(Append(w, e), i, id) <=> Responses!Open(w, i, id)
         /\ OpenNow(Append(w, e), id) <=>
              /\ OpenNow(w, id) \/ (e.event = "added" /\ e.id = id)
              /\ \A j \in DOMAIN w : ~Responses!Is(w, j, "done", id)
              /\ ~(e.event = "done" /\ e.id = id)
<1> DEFINE v == Append(w, e)
           l == Len(w)
<1>1. /\ l \in Nat /\ v[l + 1] = e /\ Len(v) = l + 1
      /\ \A i \in 1 .. l : v[i] = w[i]
      /\ DOMAIN w = 1 .. l
  BY Appending
<1> HIDE DEF v, l
<1>2. ASSUME NEW i \in 1 .. l + 1 PROVE Responses!Open(v, i, id) <=> Responses!Open(w, i, id)
  <2>1. \A j \in 1 .. i - 1 : v[j] = w[j]
    BY <1>1
  <2> QED BY <2>1 DEF Responses!Open, Responses!Is
<1>3. 1 .. (l + 1) - 1 = 1 .. l /\ 1 .. (l + 1 + 1) - 1 = 1 .. l \union {l + 1}
  BY <1>1
<1>4. OpenNow(w, id) <=>
        /\ \E j \in 1 .. l : w[j].event = "added" /\ w[j].id = id
        /\ \A j \in 1 .. l : ~(w[j].event = "done" /\ w[j].id = id)
  BY <1>3 DEF OpenNow, Responses!Open, Responses!Is, l
<1>5. OpenNow(v, id) <=>
        /\ \E j \in 1 .. l \union {l + 1} : v[j].event = "added" /\ v[j].id = id
        /\ \A j \in 1 .. l \union {l + 1} : ~(v[j].event = "done" /\ v[j].id = id)
  BY <1>1, <1>3 DEF OpenNow, Responses!Open, Responses!Is
<1>6. OpenNow(v, id) <=>
        /\ (\E j \in 1 .. l : w[j].event = "added" /\ w[j].id = id)
           \/ (e.event = "added" /\ e.id = id)
        /\ \A j \in 1 .. l : ~(w[j].event = "done" /\ w[j].id = id)
        /\ ~(e.event = "done" /\ e.id = id)
  BY <1>1, <1>5
<1> QED BY <1>1, <1>2, <1>4, <1>6 DEF v, l, Responses!Is

\* A wire with an event that may come next still has its items one by one.
LEMMA NextItem ==
  ASSUME NEW S, NEW w \in Seq(S), NEW e \in S, Responses!ItemByItem(w),
         \A i \in DOMAIN w : w[i].event \in {"added", "delta", "done"},
         Continues(w, e)
  PROVE  Responses!ItemByItem(Append(w, e))
<1> DEFINE v == Append(w, e)
           l == Len(w)
           Fits(i) == CASE v[i].event = "added" ->
                             /\ v[i].id = Responses!Before("added", v, i)
                             /\ \A j \in 1 .. i - 1 :
                                  v[j].event = "added" /\ Responses!Open(v, i, v[j].id)
                                    => v[j].type = "function_call"
                        [] v[i].event \in {"delta", "done"} -> Responses!Open(v, i, v[i].id)
                        [] OTHER -> i = Len(v)
<1>1. /\ l \in Nat /\ v[l + 1] = e /\ Len(v) = l + 1
      /\ \A i \in 1 .. l : v[i] = w[i]
      /\ DOMAIN w = 1 .. l /\ DOMAIN v = 1 .. l + 1
  BY Appending
<1>2. \A i \in 1 .. l + 1 : /\ Before("added", v, i) = Before("added", w, i)
                            /\ \A id : Responses!Open(v, i, id) <=> Responses!Open(w, i, id)
  <2>1. \A i \in 1 .. l + 1 : Before("added", v, i) = Before("added", w, i)
    BY CountedBefore
  <2>2. ASSUME NEW id PROVE \A i \in 1 .. l + 1 : Responses!Open(v, i, id) <=> Responses!Open(w, i, id)
    BY Opening
  <2> QED BY <2>1, <2>2
<1>3. OpenNow(w, e.id) <=> Responses!Open(w, l + 1, e.id)
  BY DEF OpenNow
<1>7. \A j \in DOMAIN w : OpenNow(w, w[j].id) <=> Responses!Open(w, l + 1, w[j].id)
  BY DEF OpenNow
<1>8. Before("added", w, Len(w) + 1) = Before("added", w, l + 1)
  OBVIOUS
<1> HIDE DEF v, l
<1>9. Responses!ItemByItem(v) <=> \A i \in DOMAIN v : Fits(i)
  BY DEF Responses!ItemByItem
<1>4. ASSUME NEW i \in 1 .. l
      PROVE  Fits(i)
  <2>1. \A j \in 1 .. i - 1 : v[j] = w[j]
    BY <1>1
  <2>2. v[i] = w[i] /\ i \in 1 .. l + 1 /\ w[i].event \in {"added", "delta", "done"}
    BY <1>1
  <2>3. CASE w[i].event = "added"
    <3>1. /\ w[i].id = Before("added", w, i)
          /\ \A j \in 1 .. i - 1 : w[j].event = "added" /\ Responses!Open(w, i, w[j].id)
               => w[j].type = "function_call"
      BY <1>1, <2>3, SameCounts DEF Responses!ItemByItem
    <3> QED BY <1>2, <2>1, <2>2, <2>3, <3>1, SameCounts
  <2>4. CASE w[i].event \in {"delta", "done"}
    <3>1. Responses!Open(w, i, w[i].id)
      BY <1>1, <2>4 DEF Responses!ItemByItem
    <3> QED BY <1>2, <2>2, <2>4, <3>1
  <2> QED BY <2>2, <2>3, <2>4
<1>5. Fits(l + 1)
  <2>1. \A j \in 1 .. (l + 1) - 1 : v[j] = w[j] /\ j \in DOMAIN w
    BY <1>1
  <2>2. l + 1 \in 1 .. l + 1
    BY <1>1
  <2>3. CASE e.event = "added"
    <3>1. /\ e.id = Before("added", w, l + 1)
          /\ \A j \in DOMAIN w : w[j].event = "added" /\ OpenNow(w, w[j].id)
               => w[j].type = "function_call"
      BY <1>8, <2>3 DEF Continues
    <3>2. v[l + 1].id = Responses!Before("added", v, l + 1)
      BY <1>1, <1>2, <2>2, <3>1, SameCounts
    <3> QED BY <1>1, <1>2, <1>7, <2>1, <2>2, <2>3, <3>1, <3>2
  <2>4. CASE e.event \in {"delta", "done"}
    BY <1>1, <1>2, <1>3, <2>2, <2>4 DEF Continues
  <2>5. CASE e.event \notin {"added", "delta", "done"}
    BY <1>1, <2>5
  <2> QED BY <2>3, <2>4, <2>5
<1>6. \A i \in DOMAIN v : i \in 1 .. l \/ i = l + 1
  BY <1>1
<1> HIDE DEF Fits
<1> QED BY <1>4, <1>5, <1>6, <1>9 DEF v

\* What e, which may come next, leaves as it is.
LEMMA WireGrows ==
  ASSUME NEW w, NEW n, NEW item, NEW ids, WireRight(w, n, item, ids), NEW e \in RespEvent,
         Continues(w, e)
  PROVE  /\ Append(w, e) \in Seq(RespEvent) /\ Responses!ItemByItem(Append(w, e))
         /\ DOMAIN Append(w, e) = DOMAIN w \union {Len(w) + 1}
         /\ Append(w, e)[Len(w) + 1] = e
         /\ \A i \in DOMAIN w : Append(w, e)[i] = w[i]
         /\ Before("added", Append(w, e), Len(Append(w, e)) + 1)
              = n + 1 + (IF e.event = "added" THEN 1 ELSE 0)
         /\ e.event # "added" => \E j \in DOMAIN w : w[j].id = e.id
         /\ e.event = "added" => e.id = n + 1
<1>1. /\ w \in Seq(RespEvent) /\ Responses!ItemByItem(w)
      /\ Before("added", w, Len(w) + 1) = n + 1
  BY DEF WireRight
<1>2. \A i \in DOMAIN w : w[i].event \in {"added", "delta", "done"}
  BY <1>1 DEF RespEvent
<1>3. /\ Append(w, e) \in Seq(RespEvent) /\ Len(Append(w, e)) = Len(w) + 1 /\ Len(w) \in Nat
      /\ DOMAIN Append(w, e) = DOMAIN w \union {Len(w) + 1}
      /\ Append(w, e)[Len(w) + 1] = e
      /\ \A i \in DOMAIN w : Append(w, e)[i] = w[i]
  BY <1>1, Appending
<1>4. Responses!ItemByItem(Append(w, e))
  BY <1>1, <1>2, NextItem
<1>5. Before("added", Append(w, e), Len(w) + 2)
        = Before("added", w, Len(w) + 1) + (IF e.event = "added" THEN 1 ELSE 0)
  BY <1>1, CountedNext
<1>6. Len(Append(w, e)) + 1 = Len(w) + 2
  BY <1>3
<1>7. e.event \in {"added", "delta", "done"}
  BY DEF RespEvent
<1>8. e.event # "added" => \E j \in DOMAIN w : w[j].id = e.id
  <2>1. 1 .. (Len(w) + 1) - 1 = DOMAIN w
    BY <1>1
  <2> QED BY <1>7, <2>1 DEF Continues, OpenNow, Responses!Open, Responses!Is
<1>9. e.event = "added" => e.id = n + 1
  BY <1>1 DEF Continues
<1> QED BY <1>1, <1>3, <1>4, <1>5, <1>6, <1>8, <1>9

\* The open item is done, ...
LEMMA WireDone ==
  ASSUME NEW w, NEW n, NEW item, NEW ids, WireRight(w, n, item, ids), item # -1,
         NEW e \in RespEvent, e.event = "done", e.id = item
  PROVE  WireRight(Append(w, e), n, -1, ids)
<1> DEFINE v == Append(w, e)
<1>1. OpenNow(w, item) /\ w \in Seq(RespEvent)
  BY DEF WireRight
<1>2. Continues(w, e)
  BY <1>1 DEF Continues
<1>3. /\ v \in Seq(RespEvent) /\ Responses!ItemByItem(v)
      /\ DOMAIN v = DOMAIN w \union {Len(w) + 1}
      /\ v[Len(w) + 1] = e
      /\ \A i \in DOMAIN w : v[i] = w[i]
      /\ Before("added", v, Len(v) + 1) = n + 1
      /\ \E j \in DOMAIN w : w[j].id = e.id
  <2>1. n + 1 + 0 = n + 1
    BY DEF WireRight
  <2> QED BY <1>2, <2>1, WireGrows
<1>4. ASSUME NEW id PROVE OpenNow(v, id) <=> OpenNow(w, id) /\ id # item
  <2>1. OpenNow(w, id) => \A j \in DOMAIN w : ~Responses!Is(w, j, "done", id)
    <3>1. 1 .. (Len(w) + 1) - 1 = DOMAIN w
      BY <1>1
    <3> QED BY <3>1 DEF OpenNow, Responses!Open
  <2> QED BY <1>1, <2>1, Opening
<1> HIDE DEF v
<1>5. \A i \in DOMAIN v : v[i].id \in 0 .. n
  BY <1>3 DEF WireRight
<1>6. \A i \in DOMAIN ids : OpenNow(v, ids[i]) /\ ids[i] # -1
  <2>1. \A i \in DOMAIN ids : OpenNow(v, ids[i]) /\ OpenNow(w, ids[i])
    BY <1>4 DEF WireRight
  <2>2. \A id : OpenNow(w, id) => \E j \in DOMAIN w : w[j].id = id
    <3>1. 1 .. (Len(w) + 1) - 1 = DOMAIN w
      BY <1>1
    <3> QED BY <3>1 DEF OpenNow, Responses!Open, Responses!Is
  <2>3. \A j \in DOMAIN w : w[j].id # -1
    BY DEF WireRight
  <2> QED BY <2>1, <2>2, <2>3
<1>7. \A j \in DOMAIN v : v[j].event = "added" /\ OpenNow(v, v[j].id)
        => v[j].type = "function_call" \/ v[j].id = -1
  BY <1>3, <1>4 DEF WireRight
<1> QED BY <1>3, <1>5, <1>6, <1>7 DEF WireRight, v

\* ... or gets an increment, as a tool call may, ...
LEMMA WireDelta ==
  ASSUME NEW w, NEW n, NEW item, NEW ids, WireRight(w, n, item, ids),
         NEW e \in RespEvent, e.event = "delta",
         (item # -1 /\ e.id = item) \/ \E i \in DOMAIN ids : e.id = ids[i]
  PROVE  WireRight(Append(w, e), n, item, ids)
<1> DEFINE v == Append(w, e)
<1>1. OpenNow(w, e.id) /\ w \in Seq(RespEvent)
  BY DEF WireRight
<1>2. Continues(w, e)
  BY <1>1 DEF Continues
<1>3. /\ v \in Seq(RespEvent) /\ Responses!ItemByItem(v)
      /\ DOMAIN v = DOMAIN w \union {Len(w) + 1}
      /\ v[Len(w) + 1] = e
      /\ \A i \in DOMAIN w : v[i] = w[i]
      /\ Before("added", v, Len(v) + 1) = n + 1
      /\ \E j \in DOMAIN w : w[j].id = e.id
  <2>1. n + 1 + 0 = n + 1
    BY DEF WireRight
  <2> QED BY <1>2, <2>1, WireGrows
<1>4. ASSUME NEW id PROVE OpenNow(v, id) <=> OpenNow(w, id)
  <2>1. OpenNow(w, id) => \A j \in DOMAIN w : ~Responses!Is(w, j, "done", id)
    <3>1. 1 .. (Len(w) + 1) - 1 = DOMAIN w
      BY <1>1
    <3> QED BY <3>1 DEF OpenNow, Responses!Open
  <2> QED BY <1>1, <2>1, Opening
<1> HIDE DEF v
<1>5. \A i \in DOMAIN v : v[i].id \in 0 .. n
  BY <1>3 DEF WireRight
<1>7. \A j \in DOMAIN v : v[j].event = "added" /\ OpenNow(v, v[j].id)
        => v[j].type = "function_call" \/ v[j].id = item
  BY <1>3, <1>4 DEF WireRight
<1> QED BY <1>3, <1>4, <1>5, <1>7 DEF WireRight, v

\* A new text or reasoning item, ...
LEMMA WireItem ==
  ASSUME NEW w, NEW n, NEW ids, WireRight(w, n, -1, ids),
         NEW e \in RespEvent, e.event = "added", e.id = n + 1
  PROVE  WireRight(Append(w, e), n + 1, n + 1, ids)
<1> DEFINE v == Append(w, e)
<1>1. /\ w \in Seq(RespEvent) /\ n \in Int /\ n + 1 \in Nat
      /\ Before("added", w, Len(w) + 1) = n + 1
      /\ \A i \in DOMAIN w : w[i].id \in 0 .. n
  BY DEF WireRight
<1>2. Continues(w, e)
  <2>1. \A j \in DOMAIN w : w[j].event = "added" /\ OpenNow(w, w[j].id)
          => w[j].type = "function_call"
    BY DEF WireRight
  <2> QED BY <1>1, <2>1 DEF Continues
<1>3. /\ v \in Seq(RespEvent) /\ Responses!ItemByItem(v)
      /\ DOMAIN v = DOMAIN w \union {Len(w) + 1}
      /\ v[Len(w) + 1] = e
      /\ \A i \in DOMAIN w : v[i] = w[i]
      /\ Before("added", v, Len(v) + 1) = n + 1 + 1
  BY <1>2, WireGrows
<1>4. ASSUME NEW id PROVE OpenNow(v, id) <=> OpenNow(w, id) \/ id = n + 1
  <2>1. 1 .. (Len(w) + 1) - 1 = DOMAIN w
    BY <1>1
  <2>2. OpenNow(w, id) => \A j \in DOMAIN w : ~Responses!Is(w, j, "done", id)
    BY <2>1 DEF OpenNow, Responses!Open
  <2>3. \A j \in DOMAIN w : ~Responses!Is(w, j, "done", n + 1)
    BY <1>1 DEF Responses!Is
  <2> QED BY <1>1, <2>2, <2>3, Opening
<1>8. \A id : OpenNow(w, id) => id # n + 1
  <2>1. 1 .. (Len(w) + 1) - 1 = DOMAIN w
    BY <1>1
  <2> QED BY <1>1, <2>1 DEF OpenNow, Responses!Open, Responses!Is
<1> HIDE DEF v
<1>5. \A i \in DOMAIN v : v[i].id \in 0 .. n + 1
  BY <1>1, <1>3
<1>6. \A i \in DOMAIN ids : OpenNow(v, ids[i]) /\ ids[i] # n + 1
  BY <1>4, <1>8 DEF WireRight
<1>7. \A j \in DOMAIN v : v[j].event = "added" /\ OpenNow(v, v[j].id)
        => v[j].type = "function_call" \/ v[j].id = n + 1
  BY <1>3, <1>4 DEF WireRight
<1>9. OpenNow(v, n + 1) /\ n + 1 \in Int /\ n + 1 + 1 \in Nat
  BY <1>1, <1>4
<1> QED BY <1>3, <1>5, <1>6, <1>7, <1>9 DEF WireRight, v

\* ... or a new tool call.
LEMMA WireTool ==
  ASSUME NEW w, NEW n, NEW ids, WireRight(w, n, -1, ids),
         NEW e \in RespEvent, e.event = "added", e.id = n + 1, e.type = "function_call",
         NEW call, call \notin DOMAIN ids, NEW more, DOMAIN more = DOMAIN ids \union {call},
         more[call] = n + 1, \A i \in DOMAIN ids : more[i] = ids[i]
  PROVE  WireRight(Append(w, e), n + 1, -1, more)
<1> DEFINE v == Append(w, e)
<1>1. WireRight(v, n + 1, n + 1, ids)
  BY WireItem
<1>2. OpenNow(v, n + 1) /\ n \in Int /\ n + 1 \in Nat
  BY <1>1 DEF WireRight
<1>3. /\ DOMAIN v = DOMAIN w \union {Len(w) + 1} /\ v[Len(w) + 1] = e
      /\ \A i \in DOMAIN w : v[i] = w[i] /\ w[i].id \in 0 .. n
  BY Appending DEF WireRight
<1> HIDE DEF v
<1>4. \A j \in DOMAIN v : v[j].event = "added" /\ OpenNow(v, v[j].id) => v[j].type = "function_call"
  <2> SUFFICES ASSUME NEW j \in DOMAIN v, v[j].event = "added", OpenNow(v, v[j].id)
               PROVE  v[j].type = "function_call"
    OBVIOUS
  <2>1. v[j].type = "function_call" \/ v[j].id = n + 1
    BY <1>1 DEF WireRight
  <2>2. v[j].id = n + 1 => j = Len(w) + 1
    BY <1>2, <1>3
  <2> QED BY <1>3, <2>1, <2>2
<1>5. \A i \in DOMAIN more : OpenNow(v, more[i]) /\ more[i] # -1
  <2>1. \A i \in DOMAIN ids : OpenNow(v, ids[i]) /\ ids[i] # -1
    BY <1>1 DEF WireRight
  <2>2. n + 1 # -1
    BY <1>2
  <2> QED BY <1>2, <2>1, <2>2
<1>6. \A i, j \in DOMAIN more : more[i] = more[j] => i = j
  BY <1>1 DEF WireRight
<1> QED BY <1>1, <1>4, <1>5, <1>6 DEF WireRight, v

RespCall == [id : Nat, text : Seq(Nat)]
RespCalls == UNION {[D -> RespCall] : D \in SUBSET Tools}

KnownReasons == Reasons \union {""}

\* The fields of the handler's state, ...
RespShaped(t) ==
  t = [itemIndex |-> t.itemIndex, item |-> t.item, text |-> t.text, type |-> t.type,
       toolStream |-> t.toolStream, toolOrder |-> t.toolOrder, stableIDs |-> t.stableIDs,
       collected |-> t.collected, finishReason |-> t.finishReason, wire |-> t.wire]

\* ... and their types.
RespTyped(t) ==
  /\ t.itemIndex \in Int /\ t.item \in Int /\ t.text \in Seq(Nat) /\ t.type \in ItemTypes
  /\ t.toolStream \in RespCalls /\ t.toolOrder \in Seq(Tools)
  /\ t.stableIDs \in [message : Int, reasoning : Int]
  /\ t.collected \in [message : Seq(Nat), reasoning : Seq(Nat)]
  /\ t.finishReason \in KnownReasons /\ t.wire \in Seq(RespEvent)

RespTypes == {"message", "reasoning"}

Ids(calls) == [i \in DOMAIN calls |-> calls[i].id]

\* What a handler t is like as long as the stream goes on.
RespRight(t) ==
  /\ RespShaped(t) /\ RespTyped(t)
  /\ WireRight(t.wire, t.itemIndex, t.item, Ids(t.toolStream))
  /\ \A type \in RespTypes : t.stableIDs[type] \in -1 .. t.itemIndex
  /\ DOMAIN t.toolStream = {t.toolOrder[k] : k \in DOMAIN t.toolOrder}
  /\ \A j, k \in DOMAIN t.toolOrder : t.toolOrder[j] = t.toolOrder[k] => j = k

\* The parts of the handler that a step leaves alone.
KeepsCalls(t, u) ==
  u.toolStream = t.toolStream /\ u.toolOrder = t.toolOrder /\ u.finishReason = t.finishReason

\* closeItem closes the open item and leaves the tool calls alone.
LEMMA RespCloses ==
  ASSUME NEW t, RespRight(t)
  PROVE  /\ RespRight(Responses!closeItem(t)) /\ Responses!closeItem(t).item = -1
         /\ Responses!closeItem(t).itemIndex = t.itemIndex
         /\ KeepsCalls(t, Responses!closeItem(t))
<1>1. CASE t.item = -1
  <2>1. Responses!closeItem(t) = t
    BY <1>1 DEF Responses!closeItem, Responses!None
  <2> QED BY <1>1, <2>1 DEF KeepsCalls
<1>2. CASE t.item # -1
  <2> DEFINE e == [event |-> "done", id |-> t.item, type |-> t.type,
                   text |-> t.text, status |-> Responses!Status(t.finishReason)]
             u == Responses!closeItem(t)
  <2>1. RespShaped(t) /\ RespTyped(t) /\ WireRight(t.wire, t.itemIndex, t.item, Ids(t.toolStream))
    BY DEF RespRight
  <2>2. u = [[t EXCEPT !.item = -1] EXCEPT !.wire = Append(@, e)]
    BY <1>2 DEF Responses!closeItem, Responses!None, Responses!Write
  <2>3. e \in RespEvent
    <3>1. t.item \in Nat
      <4>1. OpenNow(t.wire, t.item) /\ t.wire \in Seq(RespEvent)
        BY <1>2, <2>1 DEF WireRight
      <4>2. 1 .. (Len(t.wire) + 1) - 1 = DOMAIN t.wire
        BY <4>1
      <4>3. \E j \in DOMAIN t.wire : t.wire[j].id = t.item
        BY <4>1, <4>2 DEF OpenNow, Responses!Open, Responses!Is
      <4>4. \A j \in DOMAIN t.wire : t.wire[j].id \in 0 .. t.itemIndex
        BY <2>1 DEF WireRight
      <4> QED BY <4>3, <4>4
    <3>2. t.type \in ItemTypes /\ t.text \in Seq(Nat)
      BY <2>1 DEF RespTyped
    <3>3. Responses!Status(t.finishReason) \in {"completed", "incomplete"}
      BY DEF Responses!Status
    <3> QED BY <3>1, <3>2, <3>3 DEF RespEvent
  <2>4. e.event = "done" /\ e.id = t.item
    OBVIOUS
  <2> HIDE DEF e, u
  <2>5. /\ u.item = -1 /\ u.itemIndex = t.itemIndex /\ u.wire = Append(t.wire, e)
        /\ u.toolStream = t.toolStream /\ u.toolOrder = t.toolOrder
        /\ u.finishReason = t.finishReason /\ u.stableIDs = t.stableIDs
    BY <2>1, <2>2 DEF RespShaped
  <2>6. WireRight(u.wire, u.itemIndex, -1, Ids(u.toolStream))
    BY <1>2, <2>1, <2>3, <2>4, <2>5, WireDone
  <2>7. RespShaped(u) /\ RespTyped(u)
    <3>1. u.wire \in Seq(RespEvent) /\ -1 \in Int
      BY <2>6 DEF WireRight
    <3>2. RespShaped(u) /\ u.text = t.text /\ u.type = t.type /\ u.collected = t.collected
      BY <2>1, <2>2 DEF RespShaped
    <3> QED BY <2>1, <2>5, <3>1, <3>2 DEF RespTyped
  <2>8. RespRight(u)
    BY <2>5, <2>6, <2>7 DEF RespRight
  <2> QED BY <2>5, <2>8 DEF u, KeepsCalls
<1> QED BY <1>1, <1>2

\* openItem opens an item under the next index.
LEMMA RespOpens ==
  ASSUME NEW t, RespRight(t), t.item = -1, NEW type \in RespTypes
  PROVE  /\ RespRight(Responses!openItem(t, type))
         /\ Responses!openItem(t, type).item = t.itemIndex + 1
         /\ Responses!openItem(t, type).itemIndex = t.itemIndex + 1
         /\ KeepsCalls(t, Responses!openItem(t, type))
<1> DEFINE e == [event |-> "added", id |-> t.itemIndex + 1, type |-> type]
           u == Responses!openItem(t, type)
           m == t.itemIndex + 1
<1>1. /\ RespShaped(t) /\ RespTyped(t)
      /\ WireRight(t.wire, t.itemIndex, -1, Ids(t.toolStream))
      /\ t.itemIndex \in Int /\ m \in Nat
  BY DEF RespRight, WireRight
<1>2. u = [[t EXCEPT !.itemIndex = @ + 1, !.item = t.itemIndex + 1,
                     !.type = type, !.text = <<>>,
                     !.stableIDs[type] = t.itemIndex + 1] EXCEPT !.wire = Append(@, e)]
  BY DEF Responses!openItem, Responses!Write
<1>3. e \in RespEvent /\ e.event = "added" /\ e.id = m /\ type \in ItemTypes
  BY <1>1 DEF RespEvent, RespTypes, ItemTypes
<1> HIDE DEF e, u
<1>5. /\ u.item = m /\ u.itemIndex = m /\ u.wire = Append(t.wire, e)
      /\ u.toolStream = t.toolStream /\ u.toolOrder = t.toolOrder
      /\ u.finishReason = t.finishReason /\ u.type = type /\ u.text = <<>>
      /\ u.stableIDs = [t.stableIDs EXCEPT ![type] = m] /\ u.collected = t.collected
  BY <1>1, <1>2 DEF RespShaped
<1> HIDE DEF m
<1>6. WireRight(u.wire, m, m, Ids(u.toolStream))
  BY <1>1, <1>3, <1>5, WireItem DEF m
<1>9. /\ u.stableIDs \in [message : Int, reasoning : Int]
      /\ \A ty \in RespTypes : u.stableIDs[ty] = IF ty = type THEN m ELSE t.stableIDs[ty]
  <2>1. t.stableIDs \in [message : Int, reasoning : Int]
    BY <1>1 DEF RespTyped
  <2> QED BY <1>1, <1>5, <2>1 DEF RespTypes
<1>7. RespShaped(u) /\ RespTyped(u)
  <2>1. u.wire \in Seq(RespEvent) /\ m \in Int /\ <<>> \in Seq(Nat)
    BY <1>1, <1>6 DEF WireRight
  <2>2. RespShaped(u)
    BY <1>1, <1>2, <1>5 DEF RespShaped
  <2> QED BY <1>1, <1>3, <1>5, <1>9, <2>1, <2>2 DEF RespTyped
<1>8. RespRight(u)
  <2>1. \A ty \in RespTypes : u.stableIDs[ty] \in -1 .. m
    BY <1>1, <1>9 DEF RespRight, m
  <2> QED BY <1>5, <1>6, <1>7, <2>1 DEF RespRight
<1> QED BY <1>5, <1>8 DEF u, m, KeepsCalls

\* One field of a record of two is replaced.
LEMMA Replacing ==
  ASSUME NEW x, NEW y, NEW z, NEW c
  PROVE  /\ c = [message |-> x, reasoning |-> y]
            => /\ [c EXCEPT !["message"] = z] = [message |-> z, reasoning |-> y]
               /\ [c EXCEPT !["reasoning"] = z] = [message |-> x, reasoning |-> z]
         /\ c = [id |-> x, text |-> y] => [c EXCEPT !.text = z] = [id |-> x, text |-> z]
<1>1. ASSUME c = [message |-> x, reasoning |-> y]
      PROVE  [c EXCEPT !["message"] = z] = [message |-> z, reasoning |-> y]
  BY <1>1
<1>2. ASSUME c = [message |-> x, reasoning |-> y]
      PROVE  [c EXCEPT !["reasoning"] = z] = [message |-> x, reasoning |-> z]
  BY <1>2
<1>3. ASSUME c = [id |-> x, text |-> y]
      PROVE  [c EXCEPT !.text = z] = [id |-> x, text |-> z]
  BY <1>3
<1> QED BY <1>1, <1>2, <1>3, Zenon

\* What is collected of one type grows.
LEMMA Collecting ==
  ASSUME NEW c \in [message : Seq(Nat), reasoning : Seq(Nat)], NEW type \in RespTypes, NEW at \in Nat
  PROVE  /\ [c EXCEPT ![type] = Append(@, at)] \in [message : Seq(Nat), reasoning : Seq(Nat)]
         /\ \A x \in RespTypes : [c EXCEPT ![type] = Append(@, at)][x]
              = IF x = type THEN Append(c[x], at) ELSE c[x]
<1> DEFINE d == [c EXCEPT ![type] = Append(@, at)]
           a == Append(c.message, at)
           b == Append(c.reasoning, at)
<1>1. c.message \in Seq(Nat) /\ c.reasoning \in Seq(Nat)
      /\ c = [message |-> c.message, reasoning |-> c.reasoning]
  OBVIOUS
<1>2. a \in Seq(Nat) /\ b \in Seq(Nat)
  BY <1>1
<1>3. CASE type = "message"
  <2>1. d = [c EXCEPT !["message"] = a]
    BY <1>3
  <2> HIDE DEF a, b, d
  <2>2. d = [message |-> a, reasoning |-> c.reasoning]
    BY <1>1, <2>1, Replacing
  <2> QED BY <1>1, <1>2, <1>3, <2>2 DEF RespTypes, d, a, b
<1>4. CASE type = "reasoning"
  <2>1. d = [c EXCEPT !["reasoning"] = b]
    BY <1>4
  <2> HIDE DEF a, b, d
  <2>2. d = [message |-> c.message, reasoning |-> b]
    BY <1>1, <2>1, Replacing
  <2> QED BY <1>1, <1>2, <1>4, <2>2 DEF RespTypes, d, a, b
<1> QED BY <1>3, <1>4 DEF RespTypes

\* The arguments of one tool call grow.
LEMMA CallGrows ==
  ASSUME NEW c \in RespCall, NEW at \in Nat
  PROVE  /\ [c EXCEPT !.text = Append(@, at)] \in RespCall
         /\ [c EXCEPT !.text = Append(@, at)].id = c.id
         /\ [c EXCEPT !.text = Append(@, at)].text = Append(c.text, at)
<1> DEFINE b == Append(c.text, at)
<1>1. c.id \in Nat /\ c.text \in Seq(Nat) /\ c = [id |-> c.id, text |-> c.text]
  BY DEF RespCall
<1>3. b \in Seq(Nat)
  BY <1>1
<1> HIDE DEF b
<1>2. [c EXCEPT !.text = b] = [id |-> c.id, text |-> b]
  BY <1>1, Replacing
<1>4. [c EXCEPT !.text = b] \in RespCall
  BY <1>1, <1>2, <1>3 DEF RespCall
<1> QED BY <1>2, <1>4 DEF b

\* An increment is written to the open item, ...
TextWritten(t, type, at) ==
  Responses!Write([t EXCEPT !.text = Append(@, at), !.collected[type] = Append(@, at)],
                  [event |-> "delta", id |-> t.item, text |-> <<at>>])

\* An increment of the open item keeps the handler right, ...
LEMMA RespWritesText ==
  ASSUME NEW t, RespRight(t), t.item # -1, NEW type \in RespTypes, NEW at \in Nat
  PROVE  /\ RespRight(TextWritten(t, type, at))
         /\ TextWritten(t, type, at).itemIndex = t.itemIndex
         /\ KeepsCalls(t, TextWritten(t, type, at))
<1> DEFINE u == TextWritten(t, type, at)
           e == [event |-> "delta", id |-> t.item, text |-> <<at>>]
<1>1. /\ RespShaped(t) /\ RespTyped(t)
      /\ WireRight(t.wire, t.itemIndex, t.item, Ids(t.toolStream))
      /\ t.item \in Nat
  <2>1. /\ RespShaped(t) /\ RespTyped(t)
      /\ WireRight(t.wire, t.itemIndex, t.item, Ids(t.toolStream))
    BY DEF RespRight
  <2>2. OpenNow(t.wire, t.item) /\ t.wire \in Seq(RespEvent)
    BY <2>1 DEF WireRight
  <2>3. 1 .. (Len(t.wire) + 1) - 1 = DOMAIN t.wire
    BY <2>2
  <2>4. \E j \in DOMAIN t.wire : t.wire[j].id = t.item
    BY <2>2, <2>3 DEF OpenNow, Responses!Open, Responses!Is
  <2>5. \A j \in DOMAIN t.wire : t.wire[j].id \in 0 .. t.itemIndex
    BY <2>1 DEF WireRight
  <2> QED BY <2>1, <2>4, <2>5
<1>2. u = [[t EXCEPT !.text = Append(@, at), !.collected[type] = Append(@, at)]
             EXCEPT !.wire = Append(@, e)]
  BY DEF Responses!Write, TextWritten
<1>3. e \in RespEvent /\ e.event = "delta" /\ e.id = t.item
  <2>1. <<at>> \in Seq(Nat)
    OBVIOUS
  <2> QED BY <1>1, <2>1 DEF RespEvent
<1> HIDE DEF e, u
<1>4. /\ u.item = t.item /\ u.itemIndex = t.itemIndex /\ u.wire = Append(t.wire, e)
      /\ u.toolStream = t.toolStream /\ u.toolOrder = t.toolOrder
      /\ u.finishReason = t.finishReason /\ u.type = t.type /\ u.text = Append(t.text, at)
      /\ u.stableIDs = t.stableIDs
      /\ u.collected = [t.collected EXCEPT ![type] = Append(@, at)]
  BY <1>1, <1>2 DEF RespShaped
<1>5. WireRight(u.wire, t.itemIndex, t.item, Ids(u.toolStream))
  BY <1>1, <1>3, <1>4, WireDelta
<1>6. RespShaped(u) /\ RespTyped(u)
  <2>1. u.wire \in Seq(RespEvent)
    BY <1>5 DEF WireRight
  <2>2. u.text \in Seq(Nat)
    <3>1. t.text \in Seq(Nat)
      BY <1>1 DEF RespTyped
    <3> QED BY <1>4, <3>1
  <2>3. u.collected \in [message : Seq(Nat), reasoning : Seq(Nat)]
    <3>1. t.collected \in [message : Seq(Nat), reasoning : Seq(Nat)]
      BY <1>1 DEF RespTyped
    <3>2. [t.collected EXCEPT ![type] = Append(@, at)] \in [message : Seq(Nat), reasoning : Seq(Nat)]
      BY <3>1, Collecting
    <3> QED BY <1>4, <3>2
  <2>4. RespShaped(u)
    BY <1>1, <1>2, <1>4 DEF RespShaped
  <2> QED BY <1>1, <1>4, <2>1, <2>2, <2>3, <2>4 DEF RespTyped
<1>7. WireRight(u.wire, u.itemIndex, u.item, Ids(u.toolStream))
  BY <1>4, <1>5
<1> QED BY <1>4, <1>6, <1>7 DEF RespRight, KeepsCalls, u

\* ... so does a new tool call, ...
LEMMA RespAddsTool ==
  ASSUME NEW t, RespRight(t), t.item = -1, NEW i \in Tools, i \notin DOMAIN t.toolStream
  PROVE  LET u == Responses!AddTool(t, i) IN
         /\ RespRight(u) /\ u.itemIndex = t.itemIndex + 1
         /\ u.toolOrder = Append(t.toolOrder, i) /\ u.finishReason = t.finishReason
         /\ DOMAIN u.toolStream = DOMAIN t.toolStream \union {i}
<1> DEFINE u == Responses!AddTool(t, i)
           m == t.itemIndex + 1
           e == [event |-> "added", id |-> m, type |-> "function_call"]
           more == [j \in DOMAIN t.toolStream \union {i} |->
                      IF j # i THEN t.toolStream[j] ELSE [id |-> m, text |-> <<>>]]
<1>1. /\ RespShaped(t) /\ RespTyped(t)
      /\ WireRight(t.wire, t.itemIndex, -1, Ids(t.toolStream))
      /\ t.itemIndex \in Int /\ m \in Nat
  BY DEF RespRight, WireRight
<1>2. u = [[t EXCEPT !.itemIndex = @ + 1, !.toolStream = more, !.toolOrder = Append(@, i)]
             EXCEPT !.wire = Append(@, e)]
  BY DEF Responses!AddTool, Responses!Write
<1>3. e \in RespEvent /\ e.event = "added" /\ e.id = m /\ e.type = "function_call"
  BY <1>1 DEF RespEvent, ItemTypes
<1>4. /\ DOMAIN more = DOMAIN t.toolStream \union {i}
      /\ more[i].id = m
      /\ \A j \in DOMAIN t.toolStream : more[j] = t.toolStream[j]
  OBVIOUS
<1>5. more \in RespCalls
  <2>1. PICK D \in SUBSET Tools : t.toolStream \in [D -> RespCall]
    <3>1. t.toolStream \in RespCalls
      BY <1>1 DEF RespTyped
    <3> QED BY <3>1 DEF RespCalls
  <2>2. [id |-> m, text |-> <<>>] \in RespCall
    BY <1>1 DEF RespCall
  <2>3. more \in [D \union {i} -> RespCall]
    BY <2>1, <2>2
  <2> HIDE DEF more
  <2> QED BY <2>3 DEF RespCalls
<1> HIDE DEF e, more, u
<1>6. /\ u.item = t.item /\ u.itemIndex = m /\ u.wire = Append(t.wire, e)
      /\ u.toolStream = more /\ u.toolOrder = Append(t.toolOrder, i)
      /\ u.finishReason = t.finishReason /\ u.stableIDs = t.stableIDs
      /\ RespShaped(u) /\ u.text = t.text /\ u.type = t.type /\ u.collected = t.collected
  BY <1>1, <1>2 DEF RespShaped
<1> HIDE DEF m
<1>7. WireRight(u.wire, m, -1, Ids(u.toolStream))
  <2>1. /\ DOMAIN Ids(more) = DOMAIN Ids(t.toolStream) \union {i}
        /\ i \notin DOMAIN Ids(t.toolStream)
        /\ Ids(more)[i] = m
        /\ \A j \in DOMAIN Ids(t.toolStream) : Ids(more)[j] = Ids(t.toolStream)[j]
    BY <1>4 DEF Ids
  <2>2. WireRight(Append(t.wire, e), t.itemIndex + 1, -1, Ids(more))
    BY <1>1, <1>3, <2>1, WireTool DEF m
  <2> QED BY <1>6, <2>2 DEF m
<1>8. t.toolOrder \in Seq(Tools) /\ u.toolOrder \in Seq(Tools)
  <2>1. t.toolOrder \in Seq(Tools)
    BY <1>1 DEF RespTyped
  <2> QED BY <1>6, <2>1
<1>9. RespShaped(u) /\ RespTyped(u)
  <2>1. u.wire \in Seq(RespEvent) /\ m \in Int
    BY <1>1, <1>7 DEF WireRight
  <2> QED BY <1>1, <1>5, <1>6, <1>8, <2>1 DEF RespTyped
<1>10. /\ DOMAIN u.toolStream = {u.toolOrder[k] : k \in DOMAIN u.toolOrder}
       /\ \A j, k \in DOMAIN u.toolOrder : u.toolOrder[j] = u.toolOrder[k] => j = k
  <2>1. /\ DOMAIN t.toolStream = {t.toolOrder[k] : k \in DOMAIN t.toolOrder}
        /\ \A j, k \in DOMAIN t.toolOrder : t.toolOrder[j] = t.toolOrder[k] => j = k
    BY DEF RespRight
  <2>2. /\ DOMAIN u.toolOrder = DOMAIN t.toolOrder \union {Len(t.toolOrder) + 1}
        /\ u.toolOrder[Len(t.toolOrder) + 1] = i
        /\ \A k \in DOMAIN t.toolOrder : u.toolOrder[k] = t.toolOrder[k]
    BY <1>6, <1>8, Appending
  <2>3. DOMAIN u.toolStream = DOMAIN t.toolStream \union {i}
    BY <1>4, <1>6
  <2> QED BY <2>1, <2>2, <2>3
<1>11. RespRight(u)
  <2>1. \A ty \in RespTypes : u.stableIDs[ty] \in -1 .. m
    BY <1>1, <1>6 DEF RespRight, m
  <2> QED BY <1>6, <1>7, <1>9, <1>10, <2>1 DEF RespRight
<1> QED BY <1>4, <1>6, <1>11 DEF m, u

\* ... or to a tool call.
ArgumentsWritten(t, i, at) ==
  Responses!Write([t EXCEPT !.toolStream[i].text = Append(@, at)],
                  [event |-> "delta", id |-> t.toolStream[i].id, text |-> <<at>>])

\* ... and an increment of the arguments of a known one.
LEMMA RespWritesArguments ==
  ASSUME NEW t, RespRight(t), NEW i \in DOMAIN t.toolStream, NEW at \in Nat
  PROVE  LET u == ArgumentsWritten(t, i, at) IN
         /\ RespRight(u) /\ u.itemIndex = t.itemIndex
         /\ u.toolOrder = t.toolOrder /\ u.finishReason = t.finishReason
<1> DEFINE u == ArgumentsWritten(t, i, at)
           id == t.toolStream[i].id
           e == [event |-> "delta", id |-> id, text |-> <<at>>]
           more == [t.toolStream EXCEPT ![i].text = Append(@, at)]
<1>1. /\ RespShaped(t) /\ RespTyped(t)
      /\ WireRight(t.wire, t.itemIndex, t.item, Ids(t.toolStream))
  BY DEF RespRight
<1>2. u = [[t EXCEPT !.toolStream = more] EXCEPT !.wire = Append(@, e)]
  BY DEF Responses!Write, ArgumentsWritten
<1>3. PICK D \in SUBSET Tools : t.toolStream \in [D -> RespCall]
  <2>1. t.toolStream \in RespCalls
    BY <1>1 DEF RespTyped
  <2> QED BY <2>1 DEF RespCalls
<1>4. t.toolStream[i] \in RespCall /\ t.toolStream[i].text \in Seq(Nat) /\ id \in Nat
  BY <1>3 DEF RespCall
<1>5. e \in RespEvent /\ e.event = "delta" /\ e.id = Ids(t.toolStream)[i] /\ i \in DOMAIN Ids(t.toolStream)
  <2>1. <<at>> \in Seq(Nat)
    OBVIOUS
  <2> QED BY <1>4, <2>1 DEF RespEvent, Ids
<1>6. more \in RespCalls /\ Ids(more) = Ids(t.toolStream) /\ DOMAIN more = DOMAIN t.toolStream
  <2>1. [t.toolStream[i] EXCEPT !.text = Append(@, at)] \in RespCall
        /\ [t.toolStream[i] EXCEPT !.text = Append(@, at)].id = t.toolStream[i].id
    BY <1>4, CallGrows
  <2>2. more \in [D -> RespCall]
    BY <1>3, <2>1
  <2>3. \A j \in DOMAIN t.toolStream : more[j].id = t.toolStream[j].id
    BY <1>3, <2>1
  <2>4. DOMAIN more = DOMAIN t.toolStream
    OBVIOUS
  <2> HIDE DEF more
  <2> QED BY <2>2, <2>3, <2>4 DEF RespCalls, Ids
<1> HIDE DEF e, more, u
<1>7. /\ u.item = t.item /\ u.itemIndex = t.itemIndex /\ u.wire = Append(t.wire, e)
      /\ u.toolStream = more /\ u.toolOrder = t.toolOrder
      /\ u.finishReason = t.finishReason /\ u.stableIDs = t.stableIDs
      /\ RespShaped(u) /\ u.text = t.text /\ u.type = t.type /\ u.collected = t.collected
  BY <1>1, <1>2 DEF RespShaped
<1>8. WireRight(u.wire, t.itemIndex, t.item, Ids(u.toolStream))
  BY <1>1, <1>5, <1>6, <1>7, WireDelta
<1>9. RespShaped(u) /\ RespTyped(u)
  <2>1. u.wire \in Seq(RespEvent)
    BY <1>8 DEF WireRight
  <2> QED BY <1>1, <1>6, <1>7, <2>1 DEF RespTyped
<1>10. WireRight(u.wire, u.itemIndex, u.item, Ids(u.toolStream))
  BY <1>7, <1>8
<1>11. RespRight(u)
  <2>1. \A type \in RespTypes : u.stableIDs[type] \in -1 .. u.itemIndex
    BY <1>7 DEF RespRight
  <2>2. /\ DOMAIN u.toolStream = {u.toolOrder[k] : k \in DOMAIN u.toolOrder}
        /\ \A j, k \in DOMAIN u.toolOrder : u.toolOrder[j] = u.toolOrder[k] => j = k
    BY <1>6, <1>7 DEF RespRight
  <2> QED BY <1>7, <1>9, <1>10, <2>1, <2>2 DEF RespRight
<1> QED BY <1>7, <1>11 DEF u

\* What stands before a place of the wire is all that is counted there.
LEMMA SamePrefix ==
  ASSUME NEW S, NEW w \in Seq(S), NEW v \in Seq(S), Len(w) <= Len(v),
         \A j \in DOMAIN w : v[j] = w[j], NEW i \in 1 .. Len(w) + 1
  PROVE  /\ \A kind : Responses!Before(kind, v, i) = Responses!Before(kind, w, i)
         /\ \A id : Responses!Open(v, i, id) <=> Responses!Open(w, i, id)
<1>1. \A j \in 1 .. i - 1 : v[j] = w[j]
  OBVIOUS
<1>2. ASSUME NEW kind PROVE Responses!Before(kind, v, i) = Responses!Before(kind, w, i)
  <2>1. {j \in 1 .. i - 1 : v[j].event = kind} = {j \in 1 .. i - 1 : w[j].event = kind}
    BY <1>1
  <2> QED BY <2>1 DEF Responses!Before
<1>3. ASSUME NEW id PROVE Responses!Open(v, i, id) <=> Responses!Open(w, i, id)
  BY <1>1 DEF Responses!Open, Responses!Is
<1> QED BY <1>2, <1>3

\* The tool calls, which are all open and have ids of their own, are closed.
LEMMA RespClosesTools ==
  ASSUME NEW t, RespRight(t)
  PROVE  LET u == Responses!closeTools(t) IN
         /\ u.wire \in Seq(RespEvent) /\ Responses!ItemByItem(u.wire)
         /\ u.itemIndex = t.itemIndex /\ u.item = t.item /\ u.stableIDs = t.stableIDs
         /\ KeepsCalls(t, u) /\ RespShaped(u)
<1> DEFINE u == Responses!closeTools(t)
           status == IF t.finishReason \in {"length", "max_tokens", "incomplete"}
                     THEN "incomplete" ELSE "completed"
           order == t.toolOrder
           calls == t.toolStream
           w == t.wire
           l == Len(w)
           done(k) == [event |-> "done", id |-> calls[order[k]].id, type |-> "function_call",
                       text |-> calls[order[k]].text, status |-> status]
           f == [k \in DOMAIN order |-> done(k)]
           v == w \o f
<1>1. /\ RespShaped(t) /\ RespTyped(t) /\ WireRight(w, t.itemIndex, t.item, Ids(calls))
      /\ order \in Seq(Tools) /\ calls \in RespCalls
  BY DEF RespRight, RespTyped
<1>2. u = [t EXCEPT !.wire = v]
  BY DEF Responses!closeTools
<1>3. \A k \in DOMAIN order : order[k] \in DOMAIN calls
  BY DEF RespRight
<1>4. \A k \in DOMAIN order : done(k) \in RespEvent
  <2> SUFFICES ASSUME NEW k \in DOMAIN order PROVE done(k) \in RespEvent
    OBVIOUS
  <2>1. PICK D \in SUBSET Tools : calls \in [D -> RespCall]
    BY <1>1 DEF RespCalls
  <2>2. calls[order[k]] \in RespCall
    BY <1>3, <2>1
  <2>3. calls[order[k]].id \in Nat /\ calls[order[k]].text \in Seq(Nat)
    BY <2>2 DEF RespCall
  <2>4. status \in {"completed", "incomplete"}
    OBVIOUS
  <2> HIDE DEF status
  <2> QED BY <2>3, <2>4 DEF RespEvent, ItemTypes
<1>5. /\ l \in Nat /\ DOMAIN w = 1 .. l /\ w \in Seq(RespEvent)
      /\ Len(order) \in Nat /\ DOMAIN order = 1 .. Len(order)
  BY <1>1 DEF WireRight
<1>6. \A k \in DOMAIN order : done(k).event = "done" /\ done(k).id = Ids(calls)[order[k]]
  BY <1>3 DEF Ids
<1> HIDE DEF done, w, l, order, calls, status
<1>7. /\ f \in Seq(RespEvent) /\ Len(f) = Len(order)
      /\ \A k \in DOMAIN order : f[k] = done(k)
  BY <1>4, <1>5
<1> HIDE DEF f
<1>8. /\ v \in Seq(RespEvent) /\ Len(v) = l + Len(order) /\ DOMAIN v = 1 .. l + Len(order)
      /\ \A i \in 1 .. l : v[i] = w[i]
      /\ \A i \in l + 1 .. l + Len(order) : v[i] = f[i - l]
  BY <1>5, <1>7 DEF l
<1> HIDE DEF v, u
<1>9. \A i \in l + 1 .. l + Len(order) :
        /\ i - l \in DOMAIN order
        /\ v[i].event = "done" /\ v[i].id = Ids(calls)[order[i - l]]
  <2> SUFFICES ASSUME NEW i \in l + 1 .. l + Len(order)
               PROVE  /\ i - l \in DOMAIN order
                      /\ v[i].event = "done" /\ v[i].id = Ids(calls)[order[i - l]]
    OBVIOUS
  <2>1. i - l \in DOMAIN order
    BY <1>5
  <2> QED BY <1>6, <1>7, <1>8, <2>1
<1>10. \A i \in 1 .. l + 1 :
         /\ Responses!Before("added", v, i) = Responses!Before("added", w, i)
         /\ \A id : Responses!Open(v, i, id) <=> Responses!Open(w, i, id)
  <2>1. l <= Len(v) /\ \A j \in DOMAIN w : v[j] = w[j]
    BY <1>5, <1>8
  <2> QED BY <1>5, <1>8, <2>1, SamePrefix DEF l
<1> DEFINE Fits(i) == CASE v[i].event = "added" ->
                             /\ v[i].id = Responses!Before("added", v, i)
                             /\ \A j \in 1 .. i - 1 :
                                  v[j].event = "added" /\ Responses!Open(v, i, v[j].id)
                                    => v[j].type = "function_call"
                        [] v[i].event \in {"delta", "done"} -> Responses!Open(v, i, v[i].id)
                        [] OTHER -> i = Len(v)
<1>11. ASSUME NEW i \in 1 .. l PROVE Fits(i)
  <2>1. Responses!ItemByItem(w) /\ w[i].event \in {"added", "delta", "done"}
    <3>1. w[i] \in RespEvent
      BY <1>5
    <3> QED BY <1>1, <3>1 DEF WireRight, RespEvent
  <2>2. /\ v[i] = w[i] /\ i \in 1 .. l + 1 /\ i \in DOMAIN w
        /\ \A j \in 1 .. i - 1 : v[j] = w[j]
    BY <1>5, <1>8
  <2>3. CASE w[i].event = "added"
    <3>1. /\ w[i].id = Responses!Before("added", w, i)
          /\ \A j \in 1 .. i - 1 : w[j].event = "added" /\ Responses!Open(w, i, w[j].id)
               => w[j].type = "function_call"
      BY <2>1, <2>2, <2>3 DEF Responses!ItemByItem
    <3> QED BY <1>10, <2>2, <2>3, <3>1
  <2>4. CASE w[i].event \in {"delta", "done"}
    <3>1. Responses!Open(w, i, w[i].id)
      BY <2>1, <2>2, <2>4 DEF Responses!ItemByItem
    <3> QED BY <1>10, <2>2, <2>4, <3>1
  <2> QED BY <2>1, <2>3, <2>4
<1>12. ASSUME NEW i \in l + 1 .. l + Len(order) PROVE Fits(i)
  <2> DEFINE id == v[i].id
  <2>1. /\ i - l \in DOMAIN order /\ id = Ids(calls)[order[i - l]]
        /\ order[i - l] \in DOMAIN Ids(calls)
    BY <1>3, <1>9 DEF Ids
  <2>2. OpenNow(w, id)
    BY <1>1, <2>1 DEF WireRight
  <2>3. /\ \E j \in 1 .. l : Responses!Is(w, j, "added", id)
        /\ \A j \in 1 .. l : ~Responses!Is(w, j, "done", id)
    <3>1. 1 .. (Len(w) + 1) - 1 = 1 .. l
      BY <1>5 DEF l
    <3> QED BY <2>2, <3>1 DEF OpenNow, Responses!Open
  <2> HIDE DEF id
  <2>4. \E j \in 1 .. i - 1 : Responses!Is(v, j, "added", id)
    <3>1. \A j \in 1 .. l : j \in 1 .. i - 1 /\ v[j] = w[j]
      <4>1. l \in Nat /\ Len(order) \in Nat /\ \A j \in 1 .. l : v[j] = w[j]
        BY <1>5, <1>8
      <4>2. \A j \in 1 .. l : j \in 1 .. i - 1
        BY <4>1
      <4> QED BY <4>1, <4>2
    <3> QED BY <2>3, <3>1 DEF Responses!Is
  <2>5. ASSUME NEW j \in 1 .. i - 1 PROVE ~Responses!Is(v, j, "done", id)
    <3>1. CASE j \in 1 .. l
      BY <1>8, <2>3, <3>1 DEF Responses!Is
    <3>2. CASE j \notin 1 .. l
      <4>1. j \in l + 1 .. l + Len(order) /\ j - l # i - l
        BY <1>5, <3>2
      <4>2. /\ j - l \in DOMAIN order /\ v[j].id = Ids(calls)[order[j - l]]
            /\ order[j - l] \in DOMAIN Ids(calls)
        BY <1>3, <1>9, <4>1 DEF Ids
      <4>3. order[j - l] # order[i - l]
        BY <2>1, <4>1, <4>2 DEF RespRight, order
      <4>4. v[j].id # id
        BY <1>1, <2>1, <4>2, <4>3 DEF WireRight
      <4> QED BY <4>4 DEF Responses!Is
    <3> QED BY <3>1, <3>2
  <2>6. Responses!Open(v, i, v[i].id)
    BY <2>4, <2>5 DEF Responses!Open, id
  <2> QED BY <1>9, <2>6
<1>13. Responses!ItemByItem(v)
  <2>1. \A i \in DOMAIN v : i \in 1 .. l \/ i \in l + 1 .. l + Len(order)
    BY <1>5, <1>8
  <2>2. Responses!ItemByItem(v) <=> \A i \in DOMAIN v : Fits(i)
    BY DEF Responses!ItemByItem
  <2> HIDE DEF Fits
  <2> QED BY <1>11, <1>12, <2>1, <2>2
<1>14. /\ u.wire = v /\ u.itemIndex = t.itemIndex /\ u.item = t.item /\ u.stableIDs = t.stableIDs
       /\ u.toolStream = t.toolStream /\ u.toolOrder = t.toolOrder /\ u.finishReason = t.finishReason
       /\ RespShaped(u)
  BY <1>1, <1>2 DEF RespShaped
<1> QED BY <1>8, <1>13, <1>14 DEF KeepsCalls, u

\* The two handlers' copies of the stream's operators are the stream's own.
LEMMA SameTools ==
  /\ \A i : /\ Responses!ToolPositions(i) = ToolPositions(i)
            /\ Responses!ToolPositions(i)' = ToolPositions(i)'
            /\ Anthropic!ToolPositions(i) = ToolPositions(i)
            /\ Anthropic!ToolPositions(i)' = ToolPositions(i)'
  /\ \A order : /\ Responses!InOrderOfArrival(order) <=> InOrderOfArrival(order)
                /\ Anthropic!InOrderOfArrival(order) <=> InOrderOfArrival(order)
                /\ Responses!InOrderOfArrival(order)' <=> InOrderOfArrival(order)'
                /\ Anthropic!InOrderOfArrival(order)' <=> InOrderOfArrival(order)'
  /\ (Responses!cut <=> cut) /\ (Responses!cut' <=> cut')
  /\ (Responses!StreamTypeOK <=> StreamTypeOK) /\ (Responses!StreamTypeOK' <=> StreamTypeOK')
  /\ (Anthropic!StreamTypeOK <=> StreamTypeOK) /\ (Anthropic!StreamTypeOK' <=> StreamTypeOK')
  /\ \A t : /\ Anthropic!Positions(t) = Positions(t)
            /\ Anthropic!Positions(t)' = Positions(t)'
            /\ Responses!Positions(t) = Positions(t)
            /\ Responses!Positions(t)' = Positions(t)'
<1> USE DEF Responses!Positions, Positions, Anthropic!Positions
<1>1. \A i : /\ Responses!ToolPositions(i) = ToolPositions(i)
             /\ Responses!ToolPositions(i)' = ToolPositions(i)'
             /\ Anthropic!ToolPositions(i) = ToolPositions(i)
             /\ Anthropic!ToolPositions(i)' = ToolPositions(i)'
  BY DEF Responses!ToolPositions, Anthropic!ToolPositions, ToolPositions
<1>2. \A order : /\ Responses!InOrderOfArrival(order) <=> InOrderOfArrival(order)
                 /\ Anthropic!InOrderOfArrival(order) <=> InOrderOfArrival(order)
                 /\ Responses!InOrderOfArrival(order)' <=> InOrderOfArrival(order)'
                 /\ Anthropic!InOrderOfArrival(order)' <=> InOrderOfArrival(order)'
  BY DEF Responses!InOrderOfArrival, Anthropic!InOrderOfArrival, InOrderOfArrival,
         Responses!ToolPositions, Anthropic!ToolPositions, ToolPositions, ToSet,
         Responses!ToSet, Anthropic!ToSet
<1>3. (Responses!cut <=> cut) /\ (Responses!cut' <=> cut')
  BY DEF Responses!cut, cut
<1>4. /\ (Responses!StreamTypeOK <=> StreamTypeOK) /\ (Responses!StreamTypeOK' <=> StreamTypeOK')
      /\ (Anthropic!StreamTypeOK <=> StreamTypeOK) /\ (Anthropic!StreamTypeOK' <=> StreamTypeOK')
  BY DEF Responses!StreamTypeOK, StreamTypeOK, Anthropic!StreamTypeOK,
         Responses!StreamEvent, Anthropic!StreamEvent, StreamEvent
<1> QED BY <1>1, <1>2, <1>3, <1>4

\* A tool call keeps its place in the order of arrival, and a new one is the last.
LEMMA Arriving ==
  ASSUME StreamTypeOK, NEW evt \in StreamEvent, Deliver(evt), NEW order \in Seq(Tools),
         InOrderOfArrival(order)
  PROVE  /\ evt.type # "tool" => InOrderOfArrival(order)'
         /\ evt.type = "tool" =>
              /\ evt.index \in Tools
              /\ evt.index \in {order[k] : k \in DOMAIN order} => InOrderOfArrival(order)'
              /\ evt.index \notin {order[k] : k \in DOMAIN order}
                   => InOrderOfArrival(Append(order, evt.index))'
<1> DEFINE n == Len(sent')
<1>1. /\ n \in Nat /\ n = Len(sent) + 1 /\ Len(sent) \in Nat /\ sent'[n] = evt
      /\ \A i \in 1 .. Len(sent) : sent'[i] = sent[i]
      /\ Positions("tool") \subseteq 1 .. Len(sent)
      /\ Positions("tool")' = Positions("tool") \union (IF evt.type = "tool" THEN {n} ELSE {})
  BY Delivery
<1> HIDE DEF n
<1>2. \A i : /\ ToolPositions(i)' = ToolPositions(i) \union
                  (IF evt.type = "tool" /\ evt.index = i THEN {n} ELSE {})
             /\ ToolPositions(i) \subseteq 1 .. Len(sent)
  BY <1>1 DEF ToolPositions
<1>3. evt.type = "tool" => evt.index \in Tools
  BY DEF StreamEvent
<1>4. /\ {order[k] : k \in DOMAIN order} = {i \in Tools : ToolPositions(i) # {}}
      /\ \A j, k \in DOMAIN order : j < k =>
           \E p \in ToolPositions(order[j]) : \A m \in ToolPositions(order[k]) : p < m
  BY DEF InOrderOfArrival, ToSet
<1>5. \A i, j \in Tools :
        (\E p \in ToolPositions(i) : \A m \in ToolPositions(j) : p < m)
           => \E p \in ToolPositions(i)' : \A m \in ToolPositions(j)' : p < m
  <2> SUFFICES ASSUME NEW i \in Tools, NEW j \in Tools, NEW p \in ToolPositions(i),
                      \A m \in ToolPositions(j) : p < m
               PROVE  p \in ToolPositions(i)' /\ \A m \in ToolPositions(j)' : p < m
    OBVIOUS
  <2>1. p \in 1 .. Len(sent) /\ p < n
    BY <1>1, <1>2
  <2> QED BY <1>2, <2>1
<1>6. ASSUME evt.type # "tool" \/ evt.index \in {order[k] : k \in DOMAIN order}
      PROVE  InOrderOfArrival(order)'
  <2>1. {i \in Tools : ToolPositions(i)' # {}} = {i \in Tools : ToolPositions(i) # {}}
    BY <1>2, <1>4, <1>6
  <2>2. \A j, k \in DOMAIN order : j < k =>
          \E p \in ToolPositions(order[j])' : \A m \in ToolPositions(order[k])' : p < m
    <3>1. \A k \in DOMAIN order : order[k] \in Tools
      OBVIOUS
    <3> QED BY <1>4, <1>5, <3>1
  <2> QED BY <1>4, <2>1, <2>2 DEF InOrderOfArrival, ToSet
<1>7. ASSUME evt.type = "tool", evt.index \notin {order[k] : k \in DOMAIN order}
      PROVE  InOrderOfArrival(Append(order, evt.index))'
  <2> DEFINE l == Len(order)
             more == Append(order, evt.index)
  <2>1. /\ l \in Nat /\ DOMAIN more = DOMAIN order \union {l + 1} /\ DOMAIN order = 1 .. l
        /\ more[l + 1] = evt.index
        /\ \A k \in DOMAIN order : more[k] = order[k] /\ order[k] \in Tools
    BY <1>3, <1>7, Appending
  <2> HIDE DEF more, l
  <2>2. {more[k] : k \in DOMAIN more} = {order[k] : k \in DOMAIN order} \union {evt.index}
    BY <2>1
  <2>3. {i \in Tools : ToolPositions(i)' # {}}
          = {i \in Tools : ToolPositions(i) # {}} \union {evt.index}
    BY <1>2, <1>3, <1>7
  <2>4. ASSUME NEW j \in DOMAIN more, NEW k \in DOMAIN more, j < k
        PROVE  \E p \in ToolPositions(more[j])' : \A m \in ToolPositions(more[k])' : p < m
    <3>1. j \in DOMAIN order
      BY <2>1, <2>4
    <3>2. CASE k \in DOMAIN order
      BY <1>4, <1>5, <2>1, <2>4, <3>1, <3>2
    <3>3. CASE k \notin DOMAIN order
      <4>1. more[k] = evt.index /\ more[j] = order[j]
        BY <2>1, <3>1, <3>3
      <4>2. ToolPositions(evt.index) = {}
        BY <1>3, <1>4, <1>7
      <4>3. ToolPositions(more[k])' = {n}
        BY <1>2, <1>7, <4>1, <4>2
      <4>4. PICK p : p \in ToolPositions(order[j])
        BY <1>4, <3>1
      <4>5. p \in ToolPositions(more[j])' /\ p < n
        BY <1>1, <1>2, <4>1, <4>4
      <4> QED BY <4>3, <4>5
    <3> QED BY <3>2, <3>3
  <2> QED BY <1>4, <2>2, <2>3, <2>4 DEF InOrderOfArrival, ToSet, more
<1> QED BY <1>3, <1>6, <1>7

\* A reply that is cut after an event was cut before it, or is cut by it.
LEMMA Cutting ==
  ASSUME StreamTypeOK, NEW evt \in StreamEvent, Deliver(evt), cut'
  PROVE  /\ evt.type # "finish" => cut
         /\ evt.type = "finish" => evt.reason = "length" \/ (evt.reason = "stop" /\ cut)
<1> DEFINE n == Len(sent')
<1>1. /\ n \in Nat /\ n = Len(sent) + 1 /\ Len(sent) \in Nat /\ sent'[n] = evt
      /\ \A i \in 1 .. Len(sent) : sent'[i] = sent[i]
      /\ Positions("finish") \subseteq 1 .. Len(sent)
      /\ Positions("finish")' = Positions("finish") \union (IF evt.type = "finish" THEN {n} ELSE {})
  BY Delivery
<1> HIDE DEF n
<1>2. PICK i \in Positions("finish")' :
        sent'[i].reason = "length" /\ \A j \in Positions("finish")' : j > i => sent'[j].reason = "stop"
  BY DEF cut
<1>3. CASE i = n
  <2>1. evt.type = "finish" /\ evt.reason = "length"
    BY <1>1, <1>2, <1>3
  <2> QED BY <2>1
<1>4. CASE i # n
  <2>1. i \in Positions("finish") /\ i \in 1 .. Len(sent) /\ sent[i].reason = "length"
    BY <1>1, <1>2, <1>4
  <2>2. ASSUME NEW j \in Positions("finish"), j > i PROVE sent[j].reason = "stop"
    BY <1>1, <1>2, <2>2
  <2>3. cut
    BY <2>1, <2>2 DEF cut
  <2>4. evt.type = "finish" => evt.reason = "stop"
    BY <1>1, <1>2, <2>1
  <2> QED BY <2>3, <2>4
<1> QED BY <1>3, <1>4

RespStreaming ==
  /\ RespRight(responses)
  /\ responses.itemIndex < Len(sent)
  /\ cut => responses.finishReason = "length"

RespInv ==
  /\ Responses!TypeOK /\ Responses!Framed /\ Responses!CutReplyReported
  /\ phase = "streaming" => RespStreaming

\* The Responses handler starts right.
LEMMA RespInit == Init => RespInv
<1> SUFFICES ASSUME Init PROVE RespInv
  OBVIOUS
<1> DEFINE t == responses
<1>1. channel \in {"raw", "agent"} /\ sent = <<>> /\ phase = "streaming"
  BY DEF Init, StreamInit
<1>13. t = [itemIndex |-> -1, item |-> -1, text |-> <<>>, type |-> "",
            toolStream |-> <<>>, toolOrder |-> <<>>,
            stableIDs |-> [message |-> -1, reasoning |-> -1],
            collected |-> [message |-> <<>>, reasoning |-> <<>>],
            finishReason |-> "", wire |-> <<>>]
  BY DEF Init, Responses!Init, Responses!None
<1> HIDE DEF t
<1>14. /\ t.stableIDs = [message |-> -1, reasoning |-> -1]
       /\ t.collected = [message |-> <<>>, reasoning |-> <<>>]
  BY <1>13
<1>15. RespShaped(t)
  BY <1>13 DEF RespShaped
<1>16. t.text = <<>> /\ t.toolStream = <<>> /\ t.toolOrder = <<>> /\ t.wire = <<>>
  BY <1>13
<1>2. t.itemIndex = -1 /\ t.item = -1
  BY <1>13
<1>17. t.type \in ItemTypes /\ t.finishReason \in KnownReasons
  BY <1>13 DEF ItemTypes, KnownReasons
<1>3. StreamTypeOK
  BY <1>1, StreamAssumption DEF StreamTypeOK
<1>11. Len(sent) = 0 /\ MaxEvents \in Nat /\ -1 \in -1 .. MaxEvents
  BY <1>1, StreamAssumption
<1>12. /\ DOMAIN t.wire = {} /\ DOMAIN t.toolOrder = {} /\ DOMAIN t.toolStream = {}
       /\ Len(t.wire) = 0 /\ DOMAIN Ids(t.toolStream) = {}
  BY <1>16 DEF Ids
<1>4. \A k : Positions(k) = {} /\ ToolPositions(k) = {}
  BY <1>1 DEF Positions, ToolPositions
<1>5. InOrderOfArrival(t.toolOrder) /\ ~cut
  BY <1>12, <1>4 DEF InOrderOfArrival, ToSet, cut
<1>6. Responses!TypeOK
  <2>1. t.stableIDs.message = -1 /\ t.stableIDs.reasoning = -1
    BY <1>14
  <2>2. DOMAIN t.toolStream = Responses!ToSet(t.toolOrder)
    BY <1>12 DEF Responses!ToSet
  <2>3. \A type \in {"message", "reasoning"} : t.stableIDs[type] \in -1 .. t.itemIndex
    BY <1>2, <2>1
  <2>4. t.item \in {Responses!None} \union 0 .. t.itemIndex /\ t.itemIndex \in -1 .. MaxEvents
    BY <1>2, <1>11 DEF Responses!None
  <2>5. Responses!StreamTypeOK /\ Responses!InOrderOfArrival(t.toolOrder)
    BY <1>3, <1>5, SameTools
  <2> QED BY <2>2, <2>3, <2>4, <2>5 DEF Responses!TypeOK, t
<1>7. Responses!ItemByItem(t.wire)
  BY <1>12 DEF Responses!ItemByItem
<1>8. RespRight(t)
  <2>1. RespTyped(t)
    <3>1. t.toolStream \in RespCalls
      <4>1. <<>> \in [{} -> RespCall]
        OBVIOUS
      <4> QED BY <1>16, <4>1 DEF RespCalls
    <3>2. t.stableIDs \in [message : Int, reasoning : Int]
      BY <1>14
    <3>3. t.collected \in [message : Seq(Nat), reasoning : Seq(Nat)]
      BY <1>14
    <3>4. /\ t.itemIndex \in Int /\ t.item \in Int /\ t.text \in Seq(Nat) /\ t.type \in ItemTypes
          /\ t.toolOrder \in Seq(Tools)
          /\ t.finishReason \in KnownReasons /\ t.wire \in Seq(RespEvent)
      BY <1>2, <1>16, <1>17
    <3> QED BY <3>1, <3>2, <3>3, <3>4 DEF RespTyped
  <2>2. WireRight(t.wire, t.itemIndex, t.item, Ids(t.toolStream))
    <3>1. Before("added", t.wire, Len(t.wire) + 1) = t.itemIndex + 1
      <4>1. {j \in 1 .. (Len(t.wire) + 1) - 1 : t.wire[j].event = "added"} = {}
        BY <1>12
      <4>2. Before("added", t.wire, Len(t.wire) + 1) = 0
        BY <4>1, FS_EmptySet DEF Before
      <4> QED BY <1>2, <4>2
    <3>2. t.wire \in Seq(RespEvent) /\ t.itemIndex \in Int /\ t.itemIndex + 1 \in Nat /\ t.item = -1
      BY <1>2, <1>16
    <3> QED BY <1>7, <1>12, <3>1, <3>2 DEF WireRight
  <2>3. \A type \in RespTypes : t.stableIDs[type] \in -1 .. t.itemIndex
    BY <1>6 DEF RespTypes, Responses!TypeOK, t
  <2>4. /\ DOMAIN t.toolStream = {t.toolOrder[k] : k \in DOMAIN t.toolOrder}
        /\ \A j, k \in DOMAIN t.toolOrder : t.toolOrder[j] = t.toolOrder[k] => j = k
    BY <1>12
  <2>5. RespShaped(t)
    BY <1>15
  <2> QED BY <2>1, <2>2, <2>3, <2>4, <2>5 DEF RespRight
<1>9. t.itemIndex < Len(sent)
  BY <1>2, <1>11
<1>10. Responses!Framed /\ Responses!CutReplyReported
  BY <1>1, <1>7 DEF Responses!Framed, Responses!CutReplyReported, Responses!wire, t
<1> QED BY <1>5, <1>6, <1>8, <1>9, <1>10 DEF RespInv, RespStreaming, t

\* A text or reasoning increment, ...
LEMMA RespIncrement ==
  ASSUME NEW t, RespRight(t), NEW type \in RespTypes, NEW at \in Nat
  PROVE  LET u == Responses!Increment(t, type, at) IN
         /\ RespRight(u) /\ KeepsCalls(t, u) /\ u.itemIndex \in {t.itemIndex, t.itemIndex + 1}
<1> DEFINE c == Responses!closeItem(t)
           o == Responses!openItem(c, type)
           v == IF t.item # -1 /\ t.type = type THEN t ELSE o
           u == Responses!Increment(t, type, at)
<1>1. RespRight(c) /\ c.item = -1 /\ c.itemIndex = t.itemIndex /\ KeepsCalls(t, c)
  BY RespCloses
<1>2. RespRight(o) /\ o.item = c.itemIndex + 1 /\ o.itemIndex = c.itemIndex + 1 /\ KeepsCalls(c, o)
  <2> HIDE DEF c
  <2> QED BY <1>1, RespOpens
<1>3. u = TextWritten(v, type, at)
  BY DEF Responses!Increment, TextWritten, Responses!None
<1>4. t.itemIndex + 1 \in Nat
  BY DEF RespRight, WireRight
<1> HIDE DEF c, o, u
<1>5. RespRight(v) /\ v.item # -1 /\ KeepsCalls(t, v) /\ v.itemIndex \in {t.itemIndex, t.itemIndex + 1}
  <2>1. CASE t.item # -1 /\ t.type = type
    BY <2>1 DEF KeepsCalls
  <2>2. CASE ~(t.item # -1 /\ t.type = type)
    <3>1. v = o
      BY <2>2
    <3>2. o.item # -1
      BY <1>1, <1>2, <1>4
    <3> QED BY <1>1, <1>2, <3>1, <3>2 DEF KeepsCalls
  <2> QED BY <2>1, <2>2
<1> HIDE DEF v
<1>6. /\ RespRight(TextWritten(v, type, at)) /\ KeepsCalls(v, TextWritten(v, type, at))
      /\ TextWritten(v, type, at).itemIndex = v.itemIndex
  BY <1>5, RespWritesText
<1> QED BY <1>3, <1>5, <1>6 DEF KeepsCalls, u

\* ... a tool increment, ...
LEMMA RespToolIncrement ==
  ASSUME NEW t, RespRight(t), NEW i \in Tools, NEW at \in Nat
  PROVE  LET u == Responses!ToolIncrement(t, i, at) IN
         /\ RespRight(u) /\ u.finishReason = t.finishReason
         /\ u.itemIndex \in {t.itemIndex, t.itemIndex + 1}
         /\ u.toolOrder = IF i \in {t.toolOrder[k] : k \in DOMAIN t.toolOrder} THEN t.toolOrder
                          ELSE Append(t.toolOrder, i)
<1> DEFINE c == Responses!closeItem(t)
           o == Responses!AddTool(c, i)
           v == IF i \in DOMAIN t.toolStream THEN c ELSE o
           u == Responses!ToolIncrement(t, i, at)
<1>1. RespRight(c) /\ c.item = -1 /\ c.itemIndex = t.itemIndex /\ KeepsCalls(t, c)
  BY RespCloses
<1>2. u = ArgumentsWritten(v, i, at)
  BY DEF Responses!ToolIncrement, ArgumentsWritten
<1>3. DOMAIN t.toolStream = {t.toolOrder[k] : k \in DOMAIN t.toolOrder}
  BY DEF RespRight
<1> HIDE DEF c, u
<1>4. /\ RespRight(v) /\ i \in DOMAIN v.toolStream /\ v.finishReason = t.finishReason
      /\ v.itemIndex \in {t.itemIndex, t.itemIndex + 1}
      /\ v.toolOrder = IF i \in DOMAIN t.toolStream THEN t.toolOrder ELSE Append(t.toolOrder, i)
  <2>1. CASE i \in DOMAIN t.toolStream
    BY <1>1, <2>1 DEF KeepsCalls
  <2>2. CASE i \notin DOMAIN t.toolStream
    <3>1. i \notin DOMAIN c.toolStream
      BY <1>1, <2>2 DEF KeepsCalls
    <3>2. /\ RespRight(o) /\ o.itemIndex = c.itemIndex + 1
          /\ o.toolOrder = Append(c.toolOrder, i) /\ o.finishReason = c.finishReason
          /\ DOMAIN o.toolStream = DOMAIN c.toolStream \union {i}
      BY <1>1, <3>1, RespAddsTool
    <3> HIDE DEF o
    <3> QED BY <1>1, <2>2, <3>2 DEF KeepsCalls
  <2> QED BY <2>1, <2>2
<1> HIDE DEF v
<1>5. /\ RespRight(ArgumentsWritten(v, i, at))
      /\ ArgumentsWritten(v, i, at).itemIndex = v.itemIndex
      /\ ArgumentsWritten(v, i, at).toolOrder = v.toolOrder
      /\ ArgumentsWritten(v, i, at).finishReason = v.finishReason
  BY <1>4, RespWritesArguments
<1> QED BY <1>2, <1>3, <1>4, <1>5 DEF u

\* ... and a finish event keep the handler right; what cuts the reply is kept as its
\* reason, and a later "stop" does not replace it (responses.go: KeepReason).
LEMMA RespFinish ==
  ASSUME NEW t, RespRight(t), NEW reason \in Reasons
  PROVE  LET u == [t EXCEPT !.finishReason = Responses!KeepReason(@, reason)] IN
         /\ RespRight(u) /\ u.itemIndex = t.itemIndex /\ u.toolOrder = t.toolOrder
         /\ reason = "length" => u.finishReason = "length"
         /\ reason = "stop" /\ t.finishReason = "length" => u.finishReason = "length"
<1> DEFINE kept == Responses!KeepReason(t.finishReason, reason)
           u == [t EXCEPT !.finishReason = kept]
<1>1. kept \in {t.finishReason, reason}
  BY DEF Responses!KeepReason
<1>2. kept \in KnownReasons
  BY <1>1 DEF KnownReasons, RespRight, RespTyped
<1>3. /\ reason = "length" => kept = "length"
      /\ reason = "stop" /\ t.finishReason = "length" => kept = "length"
  BY DEF Responses!KeepReason
<1> HIDE DEF kept
<1>4. RespShaped(t) /\ RespTyped(t)
  BY DEF RespRight
<1>5. /\ u.itemIndex = t.itemIndex /\ u.item = t.item /\ u.text = t.text /\ u.type = t.type
      /\ u.toolStream = t.toolStream /\ u.toolOrder = t.toolOrder /\ u.stableIDs = t.stableIDs
      /\ u.collected = t.collected /\ u.finishReason = kept /\ u.wire = t.wire /\ RespShaped(u)
  BY <1>4 DEF RespShaped
<1> HIDE DEF u
<1>6. RespTyped(u)
  BY <1>2, <1>4, <1>5 DEF RespTyped
<1>7. RespRight(u)
  BY <1>5, <1>6 DEF RespRight
<1> QED BY <1>3, <1>5, <1>7 DEF u, kept

\* What a handler is like that has followed a stream of n events.
LEMMA RespBounds ==
  ASSUME NEW t, RespRight(t), NEW n \in Nat, t.itemIndex < n, n <= MaxEvents
  PROVE  /\ t.itemIndex \in -1 .. MaxEvents
         /\ t.item \in {-1} \union 0 .. t.itemIndex
         /\ DOMAIN t.toolStream = {t.toolOrder[k] : k \in DOMAIN t.toolOrder}
         /\ t.toolOrder \in Seq(Tools)
         /\ \A type \in {"message", "reasoning"} : t.stableIDs[type] \in -1 .. t.itemIndex
<1>1. t.itemIndex \in Int /\ t.itemIndex + 1 \in Nat
  BY DEF RespRight, WireRight
<1>2. t.item = -1 \/ t.item \in 0 .. t.itemIndex
  <2> SUFFICES ASSUME t.item # -1 PROVE t.item \in 0 .. t.itemIndex
    OBVIOUS
  <2>1. WireRight(t.wire, t.itemIndex, t.item, Ids(t.toolStream))
    BY DEF RespRight
  <2>2. OpenNow(t.wire, t.item) /\ t.wire \in Seq(RespEvent)
    BY <2>1 DEF WireRight
  <2>3. 1 .. (Len(t.wire) + 1) - 1 = DOMAIN t.wire
    BY <2>2
  <2>4. \E j \in DOMAIN t.wire : t.wire[j].id = t.item
    BY <2>2, <2>3 DEF OpenNow, Responses!Open, Responses!Is
  <2>5. \A j \in DOMAIN t.wire : t.wire[j].id \in 0 .. t.itemIndex
    BY <2>1 DEF WireRight
  <2> QED BY <2>4, <2>5
<1>3. MaxEvents \in Nat
  BY StreamAssumption
<1>4. t.itemIndex \in -1 .. MaxEvents
  BY <1>1, <1>3
<1>5. \A type \in {"message", "reasoning"} : t.stableIDs[type] \in -1 .. t.itemIndex
  BY DEF RespRight, RespTypes
<1>6. /\ DOMAIN t.toolStream = {t.toolOrder[k] : k \in DOMAIN t.toolOrder}
      /\ t.toolOrder \in Seq(Tools)
  BY DEF RespRight, RespTyped
<1> QED BY <1>2, <1>4, <1>5, <1>6

\* The callback keeps the Responses handler right.
LEMMA RespCallback ==
  ASSUME RespInv, NEW evt \in StreamEvent, Deliver(evt), Responses!Callback(evt, Len(sent'))
  PROVE  RespInv'
<1> DEFINE n == Len(sent')
<1>1. /\ StreamTypeOK /\ StreamTypeOK' /\ phase = "streaming" /\ phase' = "streaming"
      /\ Len(sent) \in Nat /\ n = Len(sent) + 1 /\ n <= MaxEvents /\ n \in Nat
  <2>1. StreamTypeOK
    BY SameTools DEF RespInv, Responses!TypeOK
  <2>2. /\ StreamTypeOK' /\ phase = "streaming" /\ phase' = "streaming"
        /\ Len(sent) \in Nat /\ n = Len(sent) + 1
    BY <2>1, Delivery
  <2> QED BY <2>1, <2>2 DEF StreamTypeOK
<1>2. /\ RespRight(responses) /\ responses.itemIndex < Len(sent)
      /\ (cut => responses.finishReason = "length") /\ InOrderOfArrival(responses.toolOrder)
      /\ responses.itemIndex \in Int /\ responses.toolOrder \in Seq(Tools)
  <2>1. /\ RespRight(responses) /\ responses.itemIndex < Len(sent)
        /\ (cut => responses.finishReason = "length")
    BY <1>1 DEF RespInv, RespStreaming
  <2>2. InOrderOfArrival(responses.toolOrder)
    BY SameTools DEF RespInv, Responses!TypeOK
  <2> QED BY <2>1, <2>2 DEF RespRight, RespTyped
<1> HIDE DEF n
<1>3. PICK t : t = responses
  OBVIOUS
<1>4. PICK u : u = responses'
  OBVIOUS
<1> DEFINE order == t.toolOrder
<1>5. /\ RespRight(t) /\ t.itemIndex < Len(sent) /\ (cut => t.finishReason = "length")
      /\ t.itemIndex \in Int /\ order \in Seq(Tools) /\ InOrderOfArrival(order)
  BY <1>2, <1>3
<1>6. /\ evt.type # "tool" => InOrderOfArrival(order)'
      /\ evt.type = "tool" =>
           /\ evt.index \in Tools
           /\ evt.index \in {order[k] : k \in DOMAIN order} => InOrderOfArrival(order)'
           /\ evt.index \notin {order[k] : k \in DOMAIN order}
                => InOrderOfArrival(Append(order, evt.index))'
  BY <1>1, <1>5, Arriving
<1>7. cut' => /\ evt.type # "finish" => cut
              /\ evt.type = "finish" => evt.reason = "length" \/ (evt.reason = "stop" /\ cut)
  BY <1>1, Cutting
<1>8. Responses!Callback(evt, n)
  BY DEF n
<1>9. PICK more \in Seq(Tools) :
        /\ RespRight(u) /\ u.itemIndex \in {t.itemIndex, t.itemIndex + 1}
        /\ (cut' => u.finishReason = "length")
        /\ more = u.toolOrder /\ InOrderOfArrival(more)'
  <2> order \in Seq(Tools)
    BY <1>5
  <2>1. ASSUME NEW type \in RespTypes, evt.type \in {"reasoning", "text"},
               u = Responses!Increment(t, type, n)
        PROVE  \E more \in Seq(Tools) :
                 /\ RespRight(u) /\ u.itemIndex \in {t.itemIndex, t.itemIndex + 1}
                 /\ (cut' => u.finishReason = "length")
                 /\ more = u.toolOrder /\ InOrderOfArrival(more)'
    <3>1. /\ RespRight(u) /\ KeepsCalls(t, u) /\ u.itemIndex \in {t.itemIndex, t.itemIndex + 1}
      BY <1>1, <1>5, <2>1, RespIncrement
    <3>2. u.toolOrder = order /\ u.finishReason = t.finishReason
      BY <3>1 DEF KeepsCalls
    <3> WITNESS order \in Seq(Tools)
    <3> QED BY <1>5, <1>6, <1>7, <2>1, <3>1, <3>2
  <2>2. CASE evt.type = "tool" /\ u = Responses!ToolIncrement(t, evt.index, n)
    <3> DEFINE i == evt.index
               now == IF i \in {order[k] : k \in DOMAIN order} THEN order ELSE Append(order, i)
    <3>1. /\ RespRight(u) /\ u.finishReason = t.finishReason
          /\ u.itemIndex \in {t.itemIndex, t.itemIndex + 1} /\ u.toolOrder = now
      BY <1>1, <1>5, <1>6, <2>2, RespToolIncrement
    <3> now \in Seq(Tools)
      BY <1>5, <1>6, <2>2
    <3>3. InOrderOfArrival(now)'
      <4>1. CASE i \in {order[k] : k \in DOMAIN order}
        BY <1>6, <2>2, <4>1
      <4>2. CASE i \notin {order[k] : k \in DOMAIN order}
        BY <1>6, <2>2, <4>2
      <4> QED BY <4>1, <4>2
    <3> HIDE DEF now
    <3> WITNESS now \in Seq(Tools)
    <3> QED BY <1>5, <1>7, <2>2, <3>1, <3>3
  <2>3. CASE evt.type = "finish" /\ u = [t EXCEPT !.finishReason = Responses!KeepReason(@, evt.reason)]
    <3>1. evt.reason \in Reasons
      BY <2>3 DEF StreamEvent
    <3>2. /\ RespRight(u) /\ u.itemIndex = t.itemIndex /\ u.toolOrder = order
          /\ evt.reason = "length" => u.finishReason = "length"
          /\ evt.reason = "stop" /\ t.finishReason = "length" => u.finishReason = "length"
      BY <1>5, <2>3, <3>1, RespFinish
    <3> WITNESS order \in Seq(Tools)
    <3> QED BY <1>5, <1>6, <1>7, <2>3, <3>2
  <2>4. CASE evt.type = "usage" /\ u = t
    <3> WITNESS order \in Seq(Tools)
    <3> QED BY <1>5, <1>6, <1>7, <2>4
  <2>5. \/ evt.type = "reasoning" /\ u = Responses!Increment(t, "reasoning", n)
        \/ evt.type = "text" /\ u = Responses!Increment(t, "message", n)
        \/ evt.type = "tool" /\ u = Responses!ToolIncrement(t, evt.index, n)
        \/ evt.type = "finish" /\ u = [t EXCEPT !.finishReason = Responses!KeepReason(@, evt.reason)]
        \/ evt.type = "usage" /\ u = t
    BY <1>3, <1>4, <1>8 DEF Responses!Callback
  <2>6. "reasoning" \in RespTypes /\ "message" \in RespTypes
    BY DEF RespTypes
  <2> QED BY <2>1, <2>2, <2>3, <2>4, <2>5, <2>6
<1>10. u.itemIndex \in Int /\ u.itemIndex < n
  BY <1>1, <1>5, <1>9
<1>11. /\ u.itemIndex \in -1 .. MaxEvents
       /\ u.item \in {-1} \union 0 .. u.itemIndex
       /\ DOMAIN u.toolStream = {u.toolOrder[k] : k \in DOMAIN u.toolOrder}
       /\ \A type \in {"message", "reasoning"} : u.stableIDs[type] \in -1 .. u.itemIndex
  BY <1>1, <1>9, <1>10, RespBounds
<1>12. Responses!TypeOK'
  <2>1. Responses!InOrderOfArrival(more)' /\ Responses!StreamTypeOK'
    BY <1>1, <1>9, SameTools
  <2>2. Responses!InOrderOfArrival(responses.toolOrder)'
    BY <1>4, <1>9, <2>1 DEF Responses!InOrderOfArrival
  <2> QED BY <1>4, <1>11, <2>1, <2>2 DEF Responses!TypeOK, Responses!ToSet, Responses!None
<1>13. Responses!Framed' /\ Responses!CutReplyReported'
  <2>1. Responses!ItemByItem(u.wire)
    BY <1>9 DEF RespRight, WireRight
  <2>2. responses'.wire = u.wire
    BY <1>4
  <2> QED BY <1>1, <2>1, <2>2 DEF Responses!Framed, Responses!CutReplyReported, Responses!wire
<1>14. RespStreaming'
  BY <1>4, <1>9, <1>10 DEF RespStreaming, n
<1> QED BY <1>12, <1>13, <1>14 DEF RespInv

\* An event that closes the reply may follow anything.
LEMMA RespWritesLast ==
  ASSUME NEW w \in Seq(RespEvent), Responses!ItemByItem(w), NEW e,
         e.event \notin {"added", "delta", "done"}
  PROVE  Responses!ItemByItem(Append(w, e)) /\ Last(Append(w, e)) = e
<1> DEFINE S == RespEvent \union {e}
<1>1. w \in Seq(S) /\ e \in S
  OBVIOUS
<1>2. \A i \in DOMAIN w : w[i].event \in {"added", "delta", "done"}
  BY DEF RespEvent
<1>3. Continues(w, e)
  BY DEF Continues
<1> HIDE DEF S
<1>4. Responses!ItemByItem(Append(w, e))
  BY <1>1, <1>2, <1>3, NextItem
<1>5. Last(Append(w, e)) = e
  BY <1>1 DEF Last
<1> QED BY <1>4, <1>5

\* The reply is closed: u is the handler t with nothing but its wire changed, and
\* its open item closed.
LEMMA RespOver ==
  ASSUME RespInv, phase = "streaming", phase' # "streaming", UNCHANGED <<channel, sent>>,
         phase' \in {"ended", "failed"},
         responses'.itemIndex = responses.itemIndex,
         responses'.item \in {-1, responses.item},
         responses'.stableIDs = responses.stableIDs,
         responses'.toolOrder = responses.toolOrder, responses'.toolStream = responses.toolStream,
         Responses!ItemByItem(responses'.wire),
         phase' = "ended" /\ responses.finishReason = "length"
           => Last(responses'.wire).status = "incomplete"
  PROVE  RespInv'
<1>1. cut => responses.finishReason = "length"
  BY DEF RespInv, RespStreaming
<1>2. Responses!cut' => cut
  BY DEF Responses!cut, cut, Responses!Positions, Positions
<1>3. Responses!CutReplyReported'
  BY <1>1, <1>2 DEF Responses!CutReplyReported, Responses!wire, Responses!Last, Last
<1>4. Responses!Framed'
  BY DEF Responses!Framed, Responses!wire
<1>5. Responses!TypeOK'
  <2>1. Responses!StreamTypeOK'
    BY DEF RespInv, Responses!TypeOK, Responses!StreamTypeOK
  <2>2. Responses!InOrderOfArrival(responses.toolOrder)'
    <3>1. \A i : Responses!ToolPositions(i)' = Responses!ToolPositions(i)
      BY DEF Responses!ToolPositions, Responses!Positions
    <3> QED BY <3>1 DEF RespInv, Responses!TypeOK, Responses!InOrderOfArrival
  <2> QED BY <2>1, <2>2 DEF RespInv, Responses!TypeOK, Responses!None
<1> QED BY <1>3, <1>4, <1>5 DEF RespInv

\* A failed stream ends in an error and nothing after it.
LEMMA RespFailed ==
  ASSUME RespInv, Fail, Responses!Failed PROVE RespInv'
<1> DEFINE t == responses
           e == [event |-> "failed"]
<1>1. phase = "streaming" /\ phase' = "failed" /\ UNCHANGED <<channel, sent>>
  BY DEF Fail
<1>2. RespRight(t)
  BY <1>1 DEF RespInv, RespStreaming
<1>3. t.wire \in Seq(RespEvent) /\ Responses!ItemByItem(t.wire) /\ RespShaped(t)
  BY <1>2 DEF RespRight, WireRight
<1>4. responses' = [t EXCEPT !.wire = Append(@, e)]
  BY DEF Responses!Failed, Responses!Write
<1>5. e.event \notin {"added", "delta", "done"}
  OBVIOUS
<1> HIDE DEF e
<1>6. /\ responses'.wire = Append(t.wire, e) /\ responses'.itemIndex = t.itemIndex
      /\ responses'.item = t.item /\ responses'.stableIDs = t.stableIDs
      /\ responses'.toolOrder = t.toolOrder /\ responses'.toolStream = t.toolStream
  BY <1>3, <1>4 DEF RespShaped
<1>7. Responses!ItemByItem(responses'.wire)
  BY <1>3, <1>5, <1>6, RespWritesLast
<1> QED BY <1>1, <1>6, <1>7, RespOver

\* The end of the stream closes every item, and a reply that was cut is reported as
\* incomplete.
LEMMA RespEnded ==
  ASSUME RespInv, End, Responses!Ended PROVE RespInv'
<1> DEFINE t == responses
           c == Responses!closeItem(t)
           u == Responses!closeTools(c)
           e == Responses!responseObject(u)
<1>1. phase = "streaming" /\ phase' = "ended" /\ UNCHANGED <<channel, sent>>
  BY DEF End
<1>2. RespRight(t)
  BY <1>1 DEF RespInv, RespStreaming
<1>3. RespRight(c) /\ c.item = -1 /\ c.itemIndex = t.itemIndex /\ KeepsCalls(t, c)
  BY <1>2, RespCloses
<1>8. c.stableIDs = t.stableIDs
  <2>1. RespShaped(t)
    BY <1>2 DEF RespRight
  <2> QED BY <2>1 DEF Responses!closeItem, Responses!Write, RespShaped
<1>4. responses' = [u EXCEPT !.wire = Append(@, e)]
  BY DEF Responses!Ended, Responses!Write
<1>5. /\ e.event \notin {"added", "delta", "done"}
      /\ e.status = Responses!Status(u.finishReason)
  BY DEF Responses!responseObject
<1> HIDE DEF c
<1>6. /\ u.wire \in Seq(RespEvent) /\ Responses!ItemByItem(u.wire)
      /\ u.itemIndex = c.itemIndex /\ u.item = c.item /\ u.stableIDs = c.stableIDs
      /\ KeepsCalls(c, u) /\ RespShaped(u)
  BY <1>3, RespClosesTools
<1> HIDE DEF u, e
<1>7. /\ responses'.wire = Append(u.wire, e) /\ responses'.itemIndex = t.itemIndex
      /\ responses'.item = -1 /\ responses'.stableIDs = t.stableIDs
      /\ responses'.toolOrder = t.toolOrder /\ responses'.toolStream = t.toolStream
      /\ u.finishReason = t.finishReason
  BY <1>3, <1>4, <1>6, <1>8 DEF RespShaped, KeepsCalls
<1>9. Responses!ItemByItem(responses'.wire) /\ Last(responses'.wire) = e
  BY <1>5, <1>6, <1>7, RespWritesLast
<1>10. t.finishReason = "length" => e.status = "incomplete"
  BY <1>5, <1>7 DEF Responses!Status
<1> QED BY <1>1, <1>7, <1>9, <1>10, RespOver

\* A stutter, ...
LEMMA RespUnchanged == RespInv /\ UNCHANGED vars => RespInv'
<1> SUFFICES ASSUME RespInv, UNCHANGED vars PROVE RespInv'
  OBVIOUS
<1>1. UNCHANGED <<channel, sent, phase, responses>>
  BY DEF vars, streamVars
<1>2. (cut' <=> cut) /\ (Responses!cut' <=> Responses!cut)
  BY <1>1 DEF cut, Responses!cut, Positions, Responses!Positions
<1>3. Responses!TypeOK'
  <2>1. \A order : Responses!InOrderOfArrival(order)' <=> Responses!InOrderOfArrival(order)
    BY <1>1 DEF Responses!InOrderOfArrival, Responses!ToolPositions, Responses!Positions
  <2>2. Responses!InOrderOfArrival(responses.toolOrder)'
    BY <1>1 DEF RespInv, Responses!TypeOK, Responses!InOrderOfArrival, Responses!ToolPositions,
                Responses!Positions
  <2> QED BY <1>1, <2>2 DEF RespInv, Responses!TypeOK, Responses!StreamTypeOK
<1>4. Responses!Framed'
  BY <1>1 DEF RespInv, Responses!Framed, Responses!wire
<1>5. Responses!CutReplyReported'
  BY <1>1, <1>2 DEF RespInv, Responses!CutReplyReported, Responses!wire
<1>6. phase' = "streaming" => RespStreaming'
  BY <1>1, <1>2 DEF RespInv, RespStreaming
<1> QED BY <1>3, <1>4, <1>5, <1>6 DEF RespInv

\* ... and so every step, keeps the Responses handler right.
LEMMA RespNext == RespInv /\ [Next]_vars => RespInv'
<1>1. ASSUME RespInv, Callback PROVE RespInv'
  BY <1>1, RespCallback DEF Callback
<1>2. ASSUME RespInv, Failed PROVE RespInv'
  BY <1>2, RespFailed DEF Failed
<1>3. ASSUME RespInv, Ended PROVE RespInv'
  BY <1>3, RespEnded DEF Ended
<1> QED BY <1>1, <1>2, <1>3, RespUnchanged DEF Next

(* The Anthropic handler. *)

BlockTypes == {"", "thinking", "text", "tool_use"}

AnthEvent ==
  [event : {"start"}, index : Nat, type : BlockTypes, id : BOOLEAN]
    \union [event : {"delta"}, index : Nat, type : BlockTypes, payload : Seq(Nat)]
    \union [event : {"stop"}, index : Nat]

AnthCall == [id : BOOLEAN, arguments : Seq(Nat)]
AnthCalls == UNION {[D -> AnthCall] : D \in SUBSET Tools}

AnthReasons == Reasons \union {"stop"}

\* What the wire w shows as long as nothing has closed the reply: n is the last
\* index given, open: its block is open.
BlocksRight(w, n, open) ==
  /\ w \in Seq(AnthEvent) /\ n \in Int /\ n + 1 \in Nat /\ (open => n \in Nat)
  /\ Anthropic!BlockByBlock(w)
  /\ Before("start", w, Len(w) + 1) = n + 1
  /\ Before("stop", w, Len(w) + 1) = IF open THEN n ELSE n + 1

\* An event e may come next on w.
Follows(w, e) ==
  LET started == Before("start", w, Len(w) + 1)
      open == started - Before("stop", w, Len(w) + 1)
  IN CASE e.event = "start" -> open = 0 /\ e.index = started
       [] e.event \in {"delta", "stop"} -> open = 1 /\ e.index = started - 1
       [] e.event = "message_delta" -> open = 0
       [] OTHER -> TRUE

\* A wire with an event that may come next still has its blocks one by one.
LEMMA NextBlock ==
  ASSUME NEW S, NEW w \in Seq(S), NEW e \in S, Anthropic!BlockByBlock(w),
         \A i \in DOMAIN w : w[i].event \in {"start", "delta", "stop"},
         Follows(w, e)
  PROVE  Anthropic!BlockByBlock(Append(w, e))
<1> DEFINE v == Append(w, e)
           l == Len(w)
           Fits(x, m, i) ==
             CASE x[i].event = "start" ->
                    /\ Before("start", x, i) - Before("stop", x, i) = 0
                    /\ x[i].index = Before("start", x, i)
               [] x[i].event \in {"delta", "stop"} ->
                    /\ Before("start", x, i) - Before("stop", x, i) = 1
                    /\ x[i].index = Before("start", x, i) - 1
               [] x[i].event = "message_delta" ->
                    Before("start", x, i) - Before("stop", x, i) = 0
               [] OTHER -> i = m
<1>1. /\ l \in Nat /\ v[l + 1] = e /\ Len(v) = l + 1
      /\ \A i \in 1 .. l : v[i] = w[i]
      /\ DOMAIN w = 1 .. l /\ DOMAIN v = 1 .. l + 1
  BY Appending
<1>2. \A i \in 1 .. l + 1 : /\ Before("start", v, i) = Before("start", w, i)
                            /\ Before("stop", v, i) = Before("stop", w, i)
  BY CountedBefore
<1> HIDE DEF v
<1>3. /\ Anthropic!BlockByBlock(w) <=> \A i \in DOMAIN w : Fits(w, l, i)
      /\ Anthropic!BlockByBlock(v) <=> \A i \in DOMAIN v : Fits(v, Len(v), i)
  BY SameCounts DEF Anthropic!BlockByBlock
<1> HIDE DEF l
<1>4. ASSUME NEW i \in 1 .. l PROVE Fits(v, Len(v), i)
  <2>1. v[i] = w[i] /\ i \in 1 .. l + 1 /\ i \in DOMAIN w
    BY <1>1
  <2>2. Fits(w, l, i) /\ w[i].event \in {"start", "delta", "stop"}
    BY <1>3, <2>1
  <2> QED BY <1>2, <2>1, <2>2
<1>5. Fits(v, Len(v), l + 1)
  <2>1. l + 1 \in 1 .. l + 1
    BY <1>1
  <2>2. /\ Before("start", v, l + 1) = Before("start", w, l + 1)
        /\ Before("stop", v, l + 1) = Before("stop", w, l + 1)
    BY <1>2, <2>1
  <2> QED BY <1>1, <2>2 DEF Follows, l
<1>6. \A i \in DOMAIN v : i \in 1 .. l \/ i = l + 1
  BY <1>1
<1> HIDE DEF Fits
<1> QED BY <1>3, <1>4, <1>5, <1>6 DEF v

\* What a wire shows with one more event: a block is started, ...
LEMMA BlockStarts ==
  ASSUME NEW w, NEW n, BlocksRight(w, n, FALSE),
         NEW e \in AnthEvent, e.event = "start", e.index = n + 1
  PROVE  BlocksRight(Append(w, e), n + 1, TRUE)
<1>1. /\ w \in Seq(AnthEvent) /\ n \in Int /\ n + 1 \in Nat /\ Anthropic!BlockByBlock(w)
      /\ Before("start", w, Len(w) + 1) = n + 1 /\ Before("stop", w, Len(w) + 1) = n + 1
  BY DEF BlocksRight
<1>2. \A i \in DOMAIN w : w[i].event \in {"start", "delta", "stop"}
  BY <1>1 DEF AnthEvent
<1>3. Follows(w, e)
  BY <1>1 DEF Follows
<1>4. Append(w, e) \in Seq(AnthEvent) /\ Len(Append(w, e)) + 1 = Len(w) + 2
  BY <1>1, Appending
<1>5. Anthropic!BlockByBlock(Append(w, e))
  BY <1>1, <1>2, <1>3, NextBlock
<1>6. /\ Before("start", Append(w, e), Len(w) + 2) = Before("start", w, Len(w) + 1) + 1
      /\ Before("stop", Append(w, e), Len(w) + 2) = Before("stop", w, Len(w) + 1) + 0
  BY <1>1, CountedNext
<1> QED BY <1>1, <1>4, <1>5, <1>6 DEF BlocksRight

\* ... filled ...
LEMMA BlockFilled ==
  ASSUME NEW w, NEW n, BlocksRight(w, n, TRUE),
         NEW e \in AnthEvent, e.event = "delta", e.index = n
  PROVE  BlocksRight(Append(w, e), n, TRUE)
<1>1. /\ w \in Seq(AnthEvent) /\ n \in Nat /\ n + 1 \in Nat /\ Anthropic!BlockByBlock(w)
      /\ Before("start", w, Len(w) + 1) = n + 1 /\ Before("stop", w, Len(w) + 1) = n
  BY DEF BlocksRight
<1>2. \A i \in DOMAIN w : w[i].event \in {"start", "delta", "stop"}
  BY <1>1 DEF AnthEvent
<1>3. Follows(w, e)
  BY <1>1 DEF Follows
<1>4. Append(w, e) \in Seq(AnthEvent) /\ Len(Append(w, e)) + 1 = Len(w) + 2
  BY <1>1, Appending
<1>5. Anthropic!BlockByBlock(Append(w, e))
  BY <1>1, <1>2, <1>3, NextBlock
<1>6. /\ Before("start", Append(w, e), Len(w) + 2) = Before("start", w, Len(w) + 1) + 0
      /\ Before("stop", Append(w, e), Len(w) + 2) = Before("stop", w, Len(w) + 1) + 0
  BY <1>1, CountedNext
<1> QED BY <1>1, <1>4, <1>5, <1>6 DEF BlocksRight

\* ... and stopped.
LEMMA BlockStops ==
  ASSUME NEW w, NEW n, BlocksRight(w, n, TRUE),
         NEW e \in AnthEvent, e.event = "stop", e.index = n
  PROVE  BlocksRight(Append(w, e), n, FALSE)
<1>1. /\ w \in Seq(AnthEvent) /\ n \in Nat /\ n + 1 \in Nat /\ Anthropic!BlockByBlock(w)
      /\ Before("start", w, Len(w) + 1) = n + 1 /\ Before("stop", w, Len(w) + 1) = n
  BY DEF BlocksRight
<1>2. \A i \in DOMAIN w : w[i].event \in {"start", "delta", "stop"}
  BY <1>1 DEF AnthEvent
<1>3. Follows(w, e)
  BY <1>1 DEF Follows
<1>4. Append(w, e) \in Seq(AnthEvent) /\ Len(Append(w, e)) + 1 = Len(w) + 2
  BY <1>1, Appending
<1>5. Anthropic!BlockByBlock(Append(w, e))
  BY <1>1, <1>2, <1>3, NextBlock
<1>6. /\ Before("start", Append(w, e), Len(w) + 2) = Before("start", w, Len(w) + 1) + 0
      /\ Before("stop", Append(w, e), Len(w) + 2) = Before("stop", w, Len(w) + 1) + 1
  BY <1>1, CountedNext
<1> QED BY <1>1, <1>4, <1>5, <1>6 DEF BlocksRight

\* The fields of the handler's state, ...
AnthShaped(t) ==
  t = [blockOpen |-> t.blockOpen, blockIndex |-> t.blockIndex, blockType |-> t.blockType,
       toolAccMap |-> t.toolAccMap, toolOrder |-> t.toolOrder,
       finishReason |-> t.finishReason, wire |-> t.wire]

\* ... and their types.
AnthTyped(t) ==
  /\ t.blockOpen \in BOOLEAN /\ t.blockIndex \in Int /\ t.blockType \in BlockTypes
  /\ t.toolAccMap \in AnthCalls /\ t.toolOrder \in Seq(Tools)
  /\ t.finishReason \in AnthReasons /\ t.wire \in Seq(AnthEvent)

\* What a handler t is like as long as the stream goes on.
AnthRight(t) ==
  /\ AnthShaped(t) /\ AnthTyped(t)
  /\ BlocksRight(t.wire, t.blockIndex, t.blockOpen)
  /\ DOMAIN t.toolAccMap = {t.toolOrder[k] : k \in DOMAIN t.toolOrder}

\* The parts of the handler that rendering leaves alone.
KeepsAcc(t, u) ==
  u.toolAccMap = t.toolAccMap /\ u.toolOrder = t.toolOrder /\ u.finishReason = t.finishReason

\* closeBlock stops the open block, ...
LEMMA AnthCloses ==
  ASSUME NEW t, AnthRight(t)
  PROVE  LET u == Anthropic!closeBlock(t) IN
         AnthRight(u) /\ ~u.blockOpen /\ u.blockIndex = t.blockIndex /\ KeepsAcc(t, u)
<1> DEFINE u == Anthropic!closeBlock(t)
           e == [event |-> "stop", index |-> t.blockIndex]
<1>1. /\ AnthShaped(t) /\ AnthTyped(t) /\ BlocksRight(t.wire, t.blockIndex, t.blockOpen)
      /\ t.blockOpen \in BOOLEAN
  BY DEF AnthRight, AnthTyped
<1>2. CASE t.blockOpen
  <2>1. u = [[t EXCEPT !.blockOpen = FALSE] EXCEPT !.wire = Append(@, e)]
    BY <1>2 DEF Anthropic!closeBlock, Anthropic!Write
  <2>2. BlocksRight(t.wire, t.blockIndex, TRUE)
    <3>1. t.blockOpen = TRUE
      BY <1>1, <1>2
    <3> QED BY <1>1, <3>1
  <2>3. e \in AnthEvent /\ e.event = "stop" /\ e.index = t.blockIndex
    BY <2>2 DEF BlocksRight, AnthEvent
  <2> HIDE DEF u, e
  <2>4. BlocksRight(Append(t.wire, e), t.blockIndex, FALSE)
    BY <2>2, <2>3, BlockStops
  <2>5. /\ AnthShaped(u) /\ u.blockOpen = FALSE /\ u.blockIndex = t.blockIndex
        /\ u.blockType = t.blockType /\ KeepsAcc(t, u) /\ u.wire = Append(t.wire, e)
    BY <1>1, <2>1 DEF AnthShaped, KeepsAcc
  <2>6. AnthTyped(u)
    <3>1. Append(t.wire, e) \in Seq(AnthEvent)
      BY <2>4 DEF BlocksRight
    <3> QED BY <1>1, <2>5, <3>1 DEF AnthTyped, KeepsAcc
  <2> QED BY <2>4, <2>5, <2>6 DEF AnthRight, KeepsAcc, u
<1>3. CASE ~t.blockOpen
  <2>1. u = t
    BY <1>3 DEF Anthropic!closeBlock
  <2> QED BY <1>3, <2>1 DEF KeepsAcc
<1> QED BY <1>2, <1>3

\* ... openBlock starts the next, ...
LEMMA AnthOpens ==
  ASSUME NEW t, AnthRight(t), ~t.blockOpen, NEW type \in BlockTypes, NEW id \in BOOLEAN
  PROVE  LET u == Anthropic!openBlock(t, type, id) IN
         /\ AnthRight(u) /\ u.blockOpen /\ u.blockIndex = t.blockIndex + 1 /\ KeepsAcc(t, u)
<1> DEFINE u == Anthropic!openBlock(t, type, id)
           e == [event |-> "start", index |-> t.blockIndex + 1, type |-> type, id |-> id]
<1>1. /\ AnthShaped(t) /\ AnthTyped(t) /\ BlocksRight(t.wire, t.blockIndex, t.blockOpen)
      /\ t.blockOpen \in BOOLEAN
  BY DEF AnthRight, AnthTyped
<1>2. u = [[t EXCEPT !.blockIndex = @ + 1, !.blockOpen = TRUE, !.blockType = type]
             EXCEPT !.wire = Append(@, e)]
  BY DEF Anthropic!openBlock, Anthropic!Write
<1>3. BlocksRight(t.wire, t.blockIndex, FALSE)
  <2>1. t.blockOpen = FALSE
    BY <1>1
  <2> QED BY <1>1, <2>1
<1>4. e \in AnthEvent /\ e.event = "start" /\ e.index = t.blockIndex + 1
  BY <1>3 DEF BlocksRight, AnthEvent
<1> HIDE DEF u, e
<1>5. BlocksRight(Append(t.wire, e), t.blockIndex + 1, TRUE)
  BY <1>3, <1>4, BlockStarts
<1>6. /\ AnthShaped(u) /\ u.blockOpen = TRUE /\ u.blockIndex = t.blockIndex + 1
      /\ u.blockType = type /\ KeepsAcc(t, u) /\ u.wire = Append(t.wire, e)
  BY <1>1, <1>2 DEF AnthShaped, KeepsAcc
<1>7. AnthTyped(u)
  <2>1. Append(t.wire, e) \in Seq(AnthEvent) /\ t.blockIndex + 1 \in Int
    BY <1>5 DEF BlocksRight
  <2> QED BY <1>1, <1>6, <2>1 DEF AnthTyped, KeepsAcc
<1> QED BY <1>1, <1>5, <1>6, <1>7 DEF AnthRight, KeepsAcc, u

\* ... and delta fills it, all without touching the accumulators.
LEMMA AnthFills ==
  ASSUME NEW t, AnthRight(t), t.blockOpen, NEW payload \in Seq(Nat)
  PROVE  LET u == Anthropic!delta(t, payload) IN
         /\ AnthRight(u) /\ u.blockOpen /\ u.blockIndex = t.blockIndex /\ KeepsAcc(t, u)
<1> DEFINE u == Anthropic!delta(t, payload)
           e == [event |-> "delta", index |-> t.blockIndex, type |-> t.blockType,
                 payload |-> payload]
<1>1. /\ AnthShaped(t) /\ AnthTyped(t) /\ BlocksRight(t.wire, t.blockIndex, t.blockOpen)
      /\ t.blockOpen \in BOOLEAN /\ t.blockType \in BlockTypes
  BY DEF AnthRight, AnthTyped
<1>2. u = [t EXCEPT !.wire = Append(@, e)]
  BY DEF Anthropic!delta, Anthropic!Write
<1>3. BlocksRight(t.wire, t.blockIndex, TRUE)
  <2>1. t.blockOpen = TRUE
    BY <1>1
  <2> QED BY <1>1, <2>1
<1>4. e \in AnthEvent /\ e.event = "delta" /\ e.index = t.blockIndex
  BY <1>1, <1>3 DEF BlocksRight, AnthEvent
<1> HIDE DEF u, e
<1>5. BlocksRight(Append(t.wire, e), t.blockIndex, TRUE)
  BY <1>3, <1>4, BlockFilled
<1>6. /\ AnthShaped(u) /\ u.blockOpen = t.blockOpen /\ u.blockIndex = t.blockIndex
      /\ u.blockType = t.blockType /\ KeepsAcc(t, u) /\ u.wire = Append(t.wire, e)
  BY <1>1, <1>2 DEF AnthShaped, KeepsAcc
<1>7. AnthTyped(u)
  <2>1. Append(t.wire, e) \in Seq(AnthEvent)
    BY <1>5 DEF BlocksRight
  <2> QED BY <1>1, <1>6, <2>1 DEF AnthTyped, KeepsAcc
<1>8. t.blockOpen = TRUE
  BY <1>1
<1> QED BY <1>1, <1>5, <1>6, <1>7, <1>8 DEF AnthRight, KeepsAcc, u

\* A text or reasoning increment ...
LEMMA AnthIncrement ==
  ASSUME NEW t, AnthRight(t), NEW type \in {"thinking", "text"}, NEW at \in Nat
  PROVE  LET u == Anthropic!Increment(t, type, at) IN
         /\ AnthRight(u) /\ u.blockIndex \in {t.blockIndex, t.blockIndex + 1} /\ KeepsAcc(t, u)
<1> DEFINE c == Anthropic!closeBlock(t)
           o == Anthropic!openBlock(c, type, FALSE)
           v == IF t.blockOpen /\ t.blockType = type THEN t ELSE o
           u == Anthropic!Increment(t, type, at)
<1>1. AnthRight(c) /\ ~c.blockOpen /\ c.blockIndex = t.blockIndex /\ KeepsAcc(t, c)
  BY AnthCloses
<1>2. AnthRight(o) /\ o.blockOpen /\ o.blockIndex = c.blockIndex + 1 /\ KeepsAcc(c, o)
  <2> HIDE DEF c
  <2>1. type \in BlockTypes
    BY DEF BlockTypes
  <2> QED BY <1>1, <2>1, AnthOpens
<1>3. u = Anthropic!delta(v, <<at>>)
  BY DEF Anthropic!Increment
<1> HIDE DEF c, o, u
<1>4. AnthRight(v) /\ v.blockOpen /\ KeepsAcc(t, v) /\ v.blockIndex \in {t.blockIndex, t.blockIndex + 1}
  <2>1. CASE t.blockOpen /\ t.blockType = type
    BY <2>1 DEF KeepsAcc
  <2>2. CASE ~(t.blockOpen /\ t.blockType = type)
    <3>1. v = o
      BY <2>2
    <3> QED BY <1>1, <1>2, <3>1 DEF KeepsAcc
  <2> QED BY <2>1, <2>2
<1> HIDE DEF v
<1>5. LET d == Anthropic!delta(v, <<at>>) IN
      AnthRight(d) /\ d.blockIndex = v.blockIndex /\ KeepsAcc(v, d)
  <2>1. <<at>> \in Seq(Nat)
    OBVIOUS
  <2> QED BY <1>4, <2>1, AnthFills
<1> QED BY <1>3, <1>4, <1>5 DEF KeepsAcc, u

\* ... and a tool increment keep the handler right.
LEMMA AnthAccumulate ==
  ASSUME NEW t, AnthRight(t), NEW evt, evt.index \in Tools, evt.id \in BOOLEAN, NEW at \in Nat
  PROVE  LET u == Anthropic!Accumulate(t, evt, at) IN
         /\ AnthRight(u) /\ u.finishReason = t.finishReason /\ u.blockIndex = t.blockIndex
         /\ u.toolOrder = IF evt.index \in {t.toolOrder[k] : k \in DOMAIN t.toolOrder}
                          THEN t.toolOrder ELSE Append(t.toolOrder, evt.index)
<1> DEFINE u == Anthropic!Accumulate(t, evt, at)
           i == evt.index
           known == i \in DOMAIN t.toolAccMap
           acc == IF known THEN t.toolAccMap[i] ELSE [id |-> FALSE, arguments |-> <<>>]
           more == [j \in DOMAIN t.toolAccMap \union {i} |->
                      IF j # i THEN t.toolAccMap[j]
                      ELSE [id |-> acc.id \/ evt.id, arguments |-> Append(acc.arguments, at)]]
           order == IF known THEN t.toolOrder ELSE Append(t.toolOrder, i)
<1>1. /\ AnthShaped(t) /\ AnthTyped(t) /\ BlocksRight(t.wire, t.blockIndex, t.blockOpen)
      /\ DOMAIN t.toolAccMap = {t.toolOrder[k] : k \in DOMAIN t.toolOrder}
  BY DEF AnthRight
<1>2. t.toolAccMap \in AnthCalls /\ t.toolOrder \in Seq(Tools)
  BY <1>1 DEF AnthTyped
<1>3. u = [t EXCEPT !.toolAccMap = more, !.toolOrder = order]
  BY DEF Anthropic!Accumulate
<1>4. more \in AnthCalls /\ DOMAIN more = DOMAIN t.toolAccMap \union {i}
  <2>1. PICK D \in SUBSET Tools : t.toolAccMap \in [D -> AnthCall]
    BY <1>2 DEF AnthCalls
  <2>2. acc \in AnthCall
    <3>1. [id |-> FALSE, arguments |-> <<>>] \in AnthCall
      BY DEF AnthCall
    <3> QED BY <2>1, <3>1
  <2>3. [id |-> acc.id \/ evt.id, arguments |-> Append(acc.arguments, at)] \in AnthCall
    <3>1. acc.id \in BOOLEAN /\ acc.arguments \in Seq(Nat)
      BY <2>2 DEF AnthCall
    <3> HIDE DEF acc
    <3>2. Append(acc.arguments, at) \in Seq(Nat)
      BY <3>1
    <3> QED BY <3>1, <3>2 DEF AnthCall
  <2> HIDE DEF acc
  <2>4. more \in [D \union {i} -> AnthCall]
    BY <2>1, <2>3
  <2>5. D \union {i} \in SUBSET Tools
    OBVIOUS
  <2> QED BY <2>1, <2>4, <2>5 DEF AnthCalls
<1>5. order \in Seq(Tools) /\ {order[k] : k \in DOMAIN order} = DOMAIN t.toolAccMap \union {i}
  <2>1. CASE known
    BY <1>1, <1>2, <2>1
  <2>2. CASE ~known
    <3>1. /\ Append(t.toolOrder, i) \in Seq(Tools)
          /\ DOMAIN Append(t.toolOrder, i) = DOMAIN t.toolOrder \union {Len(t.toolOrder) + 1}
          /\ Append(t.toolOrder, i)[Len(t.toolOrder) + 1] = i
          /\ \A k \in DOMAIN t.toolOrder : Append(t.toolOrder, i)[k] = t.toolOrder[k]
      BY <1>2, Appending
    <3>2. order = Append(t.toolOrder, i)
      BY <2>2
    <3> HIDE DEF order
    <3> QED BY <1>1, <3>1, <3>2
  <2> QED BY <2>1, <2>2
<1>6. order = IF i \in {t.toolOrder[k] : k \in DOMAIN t.toolOrder}
              THEN t.toolOrder ELSE Append(t.toolOrder, i)
  BY <1>1
<1> HIDE DEF u, more, order
<1>7. /\ AnthShaped(u) /\ u.blockOpen = t.blockOpen /\ u.blockIndex = t.blockIndex
      /\ u.blockType = t.blockType /\ u.toolAccMap = more /\ u.toolOrder = order
      /\ u.finishReason = t.finishReason /\ u.wire = t.wire
  BY <1>1, <1>3 DEF AnthShaped
<1>8. AnthTyped(u)
  BY <1>1, <1>4, <1>5, <1>7 DEF AnthTyped
<1> QED BY <1>1, <1>4, <1>5, <1>6, <1>7, <1>8 DEF AnthRight, u

\* One tool call is rendered.
Render(u, i) ==
  Anthropic!closeBlock(
    Anthropic!delta(Anthropic!openBlock(u, "tool_use", u.toolAccMap[i].id),
                    u.toolAccMap[i].arguments))

\* The states that a handler which renders its tool calls can be in, or may look
\* like.
Rendering(t) ==
  [blockOpen : BOOLEAN, blockIndex : Nat \union {-1}, blockType : BlockTypes,
   toolAccMap : {t.toolAccMap}, toolOrder : {t.toolOrder},
   finishReason : {t.finishReason}, wire : Seq(AnthEvent)]

\* The types of an accumulator.
LEMMA AnthCallsTyped ==
  ASSUME NEW t, AnthRight(t), NEW i \in DOMAIN t.toolAccMap
  PROVE  t.toolAccMap[i].id \in BOOLEAN /\ t.toolAccMap[i].arguments \in Seq(Nat)
<1>1. t.toolAccMap \in AnthCalls
  BY DEF AnthRight, AnthTyped
<1>2. PICK D \in SUBSET Tools : t.toolAccMap \in [D -> AnthCall]
  BY <1>1 DEF AnthCalls
<1>3. t.toolAccMap[i] \in AnthCall
  BY <1>2
<1> QED BY <1>3 DEF AnthCall

\* What rendering keeps right.
LEMMA AnthRenders ==
  ASSUME NEW u, AnthRight(u), ~u.blockOpen, NEW i \in DOMAIN u.toolAccMap
  PROVE  LET v == Render(u, i) IN
         /\ AnthRight(v) /\ ~v.blockOpen /\ v.blockIndex = u.blockIndex + 1 /\ KeepsAcc(u, v)
<1> DEFINE o == Anthropic!openBlock(u, "tool_use", u.toolAccMap[i].id)
           d == Anthropic!delta(o, u.toolAccMap[i].arguments)
           c == Anthropic!closeBlock(d)
<1>1. u.toolAccMap[i].id \in BOOLEAN /\ u.toolAccMap[i].arguments \in Seq(Nat)
  BY AnthCallsTyped
<1>2. "tool_use" \in BlockTypes
  BY DEF BlockTypes
<1>3. AnthRight(o) /\ o.blockOpen /\ o.blockIndex = u.blockIndex + 1 /\ KeepsAcc(u, o)
  BY <1>1, <1>2, AnthOpens
<1>4. AnthRight(d) /\ d.blockOpen /\ d.blockIndex = o.blockIndex /\ KeepsAcc(o, d)
  <2> HIDE DEF o
  <2> QED BY <1>1, <1>3, AnthFills
<1>5. AnthRight(c) /\ ~c.blockOpen /\ c.blockIndex = d.blockIndex /\ KeepsAcc(d, c)
  <2> HIDE DEF d
  <2> QED BY <1>4, AnthCloses
<1>6. c = Render(u, i)
  BY DEF Render
<1> HIDE DEF o, d, c
<1> QED BY <1>3, <1>4, <1>5, <1>6 DEF KeepsAcc

\* A handler that keeps its accumulators is one of these states.
LEMMA RenderingStates ==
  ASSUME NEW t, NEW u, AnthRight(u), KeepsAcc(t, u)
  PROVE  u \in Rendering(t)
<1>1. AnthShaped(u) /\ AnthTyped(u) /\ u.blockIndex \in Nat \union {-1}
  <2>1. u.blockIndex \in Int /\ u.blockIndex + 1 \in Nat
    BY DEF AnthRight, BlocksRight
  <2>2. u.blockIndex \in Nat \union {-1}
    BY <2>1
  <2> QED BY <2>2 DEF AnthRight
<1>2. /\ u.blockOpen \in BOOLEAN /\ u.blockType \in BlockTypes /\ u.wire \in Seq(AnthEvent)
      /\ u.toolAccMap \in {t.toolAccMap} /\ u.toolOrder \in {t.toolOrder}
      /\ u.finishReason \in {t.finishReason}
  BY <1>1 DEF AnthTyped, KeepsAcc
<1> QED BY <1>1, <1>2 DEF AnthShaped, Rendering

\* A handler that renders looks like one, whatever call it is about to render.
LEMMA RenderingTyped ==
  ASSUME NEW t, AnthRight(t), NEW i \in DOMAIN t.toolAccMap, NEW u \in Rendering(t)
  PROVE  Render(u, i) \in Rendering(t)
<1> DEFINE id == t.toolAccMap[i].id
           args == t.toolAccMap[i].arguments
           n == u.blockIndex + 1
           e1 == [event |-> "start", index |-> n, type |-> "tool_use", id |-> id]
           e2 == [event |-> "delta", index |-> n, type |-> "tool_use", payload |-> args]
           e3 == [event |-> "stop", index |-> n]
           o == Anthropic!openBlock(u, "tool_use", u.toolAccMap[i].id)
           d == Anthropic!delta(o, u.toolAccMap[i].arguments)
           c == Anthropic!closeBlock(d)
<1>1. id \in BOOLEAN /\ args \in Seq(Nat) /\ "tool_use" \in BlockTypes
  BY AnthCallsTyped DEF BlockTypes
<1>2. /\ u.toolAccMap = t.toolAccMap /\ u.wire \in Seq(AnthEvent) /\ n \in Nat
      /\ u.toolOrder = t.toolOrder /\ u.finishReason = t.finishReason
  BY DEF Rendering
<1>3. /\ AnthShaped(u)
  BY DEF Rendering, AnthShaped
<1>4. e1 \in AnthEvent /\ e2 \in AnthEvent /\ e3 \in AnthEvent
  BY <1>1, <1>2 DEF AnthEvent
<1>5. o = [[u EXCEPT !.blockIndex = @ + 1, !.blockOpen = TRUE, !.blockType = "tool_use"]
             EXCEPT !.wire = Append(@, e1)]
  BY <1>2 DEF Anthropic!openBlock, Anthropic!Write
<1> HIDE DEF o, e1, n
<1>6. /\ AnthShaped(o) /\ o.blockIndex = n /\ o.blockOpen = TRUE /\ o.blockType = "tool_use"
      /\ o.wire = Append(u.wire, e1) /\ KeepsAcc(u, o)
  BY <1>3, <1>5 DEF AnthShaped, KeepsAcc, n
<1>7. d = [o EXCEPT !.wire = Append(@, e2)]
  BY <1>2, <1>6 DEF Anthropic!delta, Anthropic!Write
<1> HIDE DEF d, e2
<1>8. /\ AnthShaped(d) /\ d.blockIndex = n /\ d.blockOpen = TRUE /\ d.blockType = "tool_use"
      /\ d.wire = Append(Append(u.wire, e1), e2) /\ KeepsAcc(u, d)
  BY <1>6, <1>7 DEF AnthShaped, KeepsAcc
<1>9. c = [[d EXCEPT !.blockOpen = FALSE] EXCEPT !.wire = Append(@, e3)]
  BY <1>8 DEF Anthropic!closeBlock, Anthropic!Write
<1>10. c = Render(u, i)
  BY DEF Render, o, d
<1> HIDE DEF c, e3
<1>11. /\ AnthShaped(c) /\ c.blockIndex = n /\ c.blockOpen = FALSE /\ c.blockType = "tool_use"
       /\ c.wire = Append(Append(Append(u.wire, e1), e2), e3) /\ KeepsAcc(u, c)
  BY <1>8, <1>9 DEF AnthShaped, KeepsAcc
<1>12. c.wire \in Seq(AnthEvent)
  <2>1. Append(u.wire, e1) \in Seq(AnthEvent)
    BY <1>2, <1>4
  <2>2. Append(Append(u.wire, e1), e2) \in Seq(AnthEvent)
    BY <2>1, <1>4
  <2> QED BY <1>4, <1>11, <2>2
<1>13. /\ c.blockIndex \in Nat \union {-1} /\ c.blockOpen \in BOOLEAN /\ c.blockType \in BlockTypes
       /\ c.toolAccMap \in {t.toolAccMap} /\ c.toolOrder \in {t.toolOrder}
       /\ c.finishReason \in {t.finishReason}
  BY <1>1, <1>2, <1>11 DEF KeepsAcc
<1>14. c \in Rendering(t)
  BY <1>11, <1>12, <1>13 DEF AnthShaped, Rendering
<1> QED BY <1>10, <1>14

\* flushToolCalls is the fold of the calls in the order of their arrival.
LEMMA FlushFolds ==
  ASSUME NEW t, AnthRight(t)
  PROVE  \E f : /\ Anthropic!flushToolCalls(t) = f[1 .. Len(t.toolOrder)]
                /\ f[{}] = Anthropic!closeBlock(t)
                /\ \A k \in 1 .. Len(t.toolOrder) :
                     f[1 .. k] = Render(f[1 .. k - 1], t.toolOrder[k])
<1> DEFINE order == t.toolOrder
           N == Len(order)
           base == Anthropic!closeBlock(t)
           Body(f) == [s \in SUBSET DOMAIN order |->
                         IF s = {} THEN base ELSE Render(f[s \ {Max(s)}], order[Max(s)])]
           fold == CHOOSE f : f = Body(f)
           V == Rendering(t)
           step == [k \in 1 .. N |-> [u \in V |-> Render(u, order[k])]]
<1>1. /\ order \in Seq(Tools) /\ N \in Nat /\ DOMAIN order = 1 .. N
      /\ \A k \in 1 .. N : order[k] \in DOMAIN t.toolAccMap
  BY DEF AnthRight, AnthTyped
<1>2. base \in V
  <2>1. AnthRight(base) /\ KeepsAcc(t, base)
    BY AnthCloses
  <2> HIDE DEF base
  <2> QED BY <2>1, RenderingStates
<1>3. step \in [1 .. N -> [V -> V]]
  <2>1. \A k \in 1 .. N : \A u \in V : Render(u, order[k]) \in V
    BY <1>1, RenderingTyped
  <2> HIDE DEF V
  <2> QED BY <2>1
<1>4. Anthropic!flushToolCalls(t) = fold[1 .. N]
  <2>1. \A S : Anthropic!Max(S) = Max(S)
    BY DEF Anthropic!Max, Max
  <2> QED BY <1>1, <2>1 DEF Anthropic!flushToolCalls, Anthropic!FoldLeft, Anthropic!MapThenFoldSet, Render
<1>5. PICK f \in [SUBSET (1 .. N) -> V] : Solves(f, N, base, step)
  <2> HIDE DEF base, step, V
  <2> QED BY <1>1, <1>2, <1>3, FoldSolution
<1> HIDE DEF base, V
<1>6. ASSUME NEW s \in SUBSET (1 .. N)
      PROVE  f[s] = IF s = {} THEN base ELSE Render(f[s \ {Max(s)}], order[Max(s)])
  <2>1. CASE s = {}
    BY <1>5, <2>1 DEF Solves
  <2>2. CASE s # {}
    <3>1. Max(s) \in 1 .. N
      <4> HIDE DEF N
      <4> QED BY <1>1, <2>2, MaxUpTo
    <3>2. f[s \ {Max(s)}] \in V
      OBVIOUS
    <3>3. f[s] = step[Max(s)][f[s \ {Max(s)}]]
      BY <1>5, <2>2 DEF Solves
    <3> HIDE DEF N
    <3> QED BY <2>2, <3>1, <3>2, <3>3
  <2> QED BY <2>1, <2>2
<1>7. f = Body(f)
  BY <1>1, <1>6
<1>8. fold = Body(fold)
  <2> HIDE DEF Body
  <2> QED BY <1>7
<1> HIDE DEF fold, step
<1>9. fold[{}] = base
  BY <1>8
<1>10. ASSUME NEW k \in 1 .. N PROVE fold[1 .. k] = Render(fold[1 .. k - 1], order[k])
  <2>1. /\ 1 .. k # {} /\ 1 .. k \in SUBSET (1 .. N) /\ Max(1 .. k) = k /\ (1 .. k) \ {k} = 1 .. k - 1
    <3>1. k - 1 \in 0 .. N - 1 /\ (k - 1) + 1 = k
      BY <1>1
    <3> HIDE DEF N, order
    <3> QED BY <1>1, <3>1, NextPlace
  <2>2. fold[1 .. k] = Render(fold[(1 .. k) \ {Max(1 .. k)}], order[Max(1 .. k)])
    <3> HIDE DEF N, order
    <3> QED BY <1>1, <1>8, <2>1
  <2> QED BY <2>1, <2>2
<1> QED BY <1>4, <1>9, <1>10 DEF base

\* flushToolCalls renders each call as a block of its own and leaves none open, whatever
\* was open before (anthropic.go: flushToolCalls).
LEMMA AnthFlushes ==
  ASSUME NEW t, AnthRight(t)
  PROVE  LET u == Anthropic!flushToolCalls(t) IN
         /\ AnthRight(u) /\ ~u.blockOpen /\ KeepsAcc(t, u)
         /\ u.blockIndex = t.blockIndex + Len(t.toolOrder)
<1> DEFINE order == t.toolOrder
           N == Len(order)
<1>1. PICK f : /\ Anthropic!flushToolCalls(t) = f[1 .. N]
               /\ f[{}] = Anthropic!closeBlock(t)
               /\ \A k \in 1 .. N : f[1 .. k] = Render(f[1 .. k - 1], order[k])
  BY FlushFolds
<1>2. /\ order \in Seq(Tools) /\ N \in Nat /\ DOMAIN order = 1 .. N
      /\ \A k \in 1 .. N : order[k] \in DOMAIN t.toolAccMap
      /\ t.blockIndex \in Int
  BY DEF AnthRight, AnthTyped
<1> DEFINE Right(k) == /\ AnthRight(f[1 .. k]) /\ ~f[1 .. k].blockOpen /\ KeepsAcc(t, f[1 .. k])
                       /\ f[1 .. k].blockIndex = t.blockIndex + k
           T == {k \in 0 .. N : Right(k)}
<1>3. Right(0)
  <2>1. 1 .. 0 = {}
    OBVIOUS
  <2>2. f[1 .. 0] = Anthropic!closeBlock(t)
    BY <1>1, <2>1
  <2>3. /\ AnthRight(f[1 .. 0]) /\ ~f[1 .. 0].blockOpen /\ f[1 .. 0].blockIndex = t.blockIndex
        /\ KeepsAcc(t, f[1 .. 0])
    BY <2>2, AnthCloses
  <2> QED BY <1>2, <2>3
<1>4. ASSUME NEW k \in 0 .. N - 1, Right(k) PROVE Right(k + 1)
  <2>1. k + 1 \in 1 .. N /\ (k + 1) - 1 = k
    BY <1>2
  <2>2. f[1 .. k + 1] = Render(f[1 .. k], order[k + 1])
    BY <1>1, <2>1
  <2>3. order[k + 1] \in DOMAIN f[1 .. k].toolAccMap
    BY <1>2, <1>4, <2>1 DEF KeepsAcc
  <2> HIDE DEF N, order
  <2>4. /\ AnthRight(f[1 .. k + 1]) /\ ~f[1 .. k + 1].blockOpen
        /\ f[1 .. k + 1].blockIndex = f[1 .. k].blockIndex + 1
        /\ KeepsAcc(f[1 .. k], f[1 .. k + 1])
    BY <1>4, <2>2, <2>3, AnthRenders
  <2>5. f[1 .. k + 1].blockIndex = t.blockIndex + (k + 1)
    BY <1>2, <1>4, <2>4
  <2> QED BY <1>4, <2>4, <2>5 DEF KeepsAcc
<1>5. 0 .. N \subseteq T
  <2> HIDE DEF N, Right
  <2>1. 0 \in T
    BY <1>2, <1>3
  <2>2. ASSUME NEW k \in 0 .. N - 1, k \in T PROVE k + 1 \in T
    <3>1. k + 1 \in 0 .. N
      BY <1>2
    <3> QED BY <1>4, <2>2, <3>1
  <2> HIDE DEF T
  <2> QED BY <1>2, <2>1, <2>2, UpTo
<1>6. Right(N)
  <2> HIDE DEF N, Right
  <2> QED BY <1>2, <1>5
<1> QED BY <1>1, <1>6

AnthStreaming ==
  /\ AnthRight(anthropic)
  /\ anthropic.blockIndex + 1 + Len(anthropic.toolOrder) <= Len(sent)

AnthInv ==
  /\ Anthropic!TypeOK /\ Anthropic!Framed /\ Anthropic!ToolUseAnnounced
  /\ phase = "streaming" => AnthStreaming

\* What the types say of a handler.
LEMMA AnthBounds ==
  ASSUME NEW t, AnthRight(t), NEW n \in Nat, t.blockIndex + 1 + Len(t.toolOrder) <= n,
         n <= MaxEvents
  PROVE  /\ t.blockOpen \in BOOLEAN /\ t.blockType \in BlockTypes
         /\ t.blockIndex \in -1 .. MaxEvents /\ t.toolOrder \in Seq(Tools)
         /\ t.blockIndex \in Int
<1>1. /\ t.blockIndex \in Int /\ t.blockIndex + 1 \in Nat /\ t.toolOrder \in Seq(Tools)
      /\ t.blockOpen \in BOOLEAN /\ t.blockType \in BlockTypes
  BY DEF AnthRight, AnthTyped, BlocksRight
<1>2. MaxEvents \in Nat /\ Len(t.toolOrder) \in Nat
  BY <1>1, StreamAssumption
<1>3. t.blockIndex \in -1 .. MaxEvents
  BY <1>1, <1>2
<1> QED BY <1>1, <1>3

\* The Anthropic handler starts right.
LEMMA AnthInit == Init => AnthInv
<1> SUFFICES ASSUME Init PROVE AnthInv
  OBVIOUS
<1> DEFINE t == anthropic
<1>1. channel \in {"raw", "agent"} /\ sent = <<>> /\ phase = "streaming"
  BY DEF Init, StreamInit
<1>2. t = [blockOpen |-> FALSE, blockIndex |-> -1, blockType |-> "",
           toolAccMap |-> <<>>, toolOrder |-> <<>>,
           finishReason |-> "stop", wire |-> <<>>]
  BY DEF Init, Anthropic!Init
<1> HIDE DEF t
<1>3. AnthShaped(t)
  BY <1>2 DEF AnthShaped
<1>4. t.toolAccMap = <<>> /\ t.toolOrder = <<>> /\ t.wire = <<>>
  BY <1>2
<1>5. t.blockIndex = -1 /\ t.blockOpen = FALSE
  BY <1>2
<1>6. t.blockType \in BlockTypes /\ t.finishReason \in AnthReasons
  BY <1>2 DEF BlockTypes, AnthReasons
<1>7. StreamTypeOK /\ Len(sent) = 0 /\ MaxEvents \in Nat
  BY <1>1, StreamAssumption DEF StreamTypeOK
<1>8. /\ DOMAIN t.wire = {} /\ DOMAIN t.toolOrder = {} /\ DOMAIN t.toolAccMap = {}
      /\ Len(t.wire) = 0 /\ Len(t.toolOrder) = 0 /\ t.wire \in Seq(AnthEvent)
  BY <1>4
<1>9. InOrderOfArrival(t.toolOrder)
  <2>1. \A k : Positions(k) = {} /\ ToolPositions(k) = {}
    BY <1>1 DEF Positions, ToolPositions
  <2> QED BY <1>8, <2>1 DEF InOrderOfArrival, ToSet
<1>10. BlocksRight(t.wire, t.blockIndex, FALSE)
  <2>1. Anthropic!BlockByBlock(t.wire)
    BY <1>8 DEF Anthropic!BlockByBlock
  <2>2. \A kind : Before(kind, t.wire, Len(t.wire) + 1) = 0
    <3>1. \A kind : {j \in 1 .. (Len(t.wire) + 1) - 1 : t.wire[j].event = kind} = {}
      BY <1>8
    <3> QED BY <3>1, FS_EmptySet DEF Before
  <2>3. t.blockIndex \in Int /\ t.blockIndex + 1 = 0
    BY <1>5
  <2> QED BY <1>8, <2>1, <2>2, <2>3 DEF BlocksRight
<1>11. AnthRight(t)
  <2>1. t.toolAccMap \in AnthCalls
    <3>1. <<>> \in [{} -> AnthCall]
      OBVIOUS
    <3> QED BY <1>4, <3>1 DEF AnthCalls
  <2>2. t.toolOrder \in Seq(Tools) /\ t.blockIndex \in Int
    BY <1>4, <1>5
  <2>6. t.blockOpen \in BOOLEAN
    BY <1>5
  <2>3. DOMAIN t.toolAccMap = {t.toolOrder[k] : k \in DOMAIN t.toolOrder}
    BY <1>8
  <2>4. BlocksRight(t.wire, t.blockIndex, t.blockOpen)
    BY <1>5, <1>10
  <2>5. AnthTyped(t)
    BY <1>6, <1>8, <2>1, <2>2, <2>6 DEF AnthTyped
  <2> QED BY <1>3, <2>3, <2>4, <2>5 DEF AnthRight
<1>12. Anthropic!TypeOK
  <2>1. Anthropic!StreamTypeOK /\ Anthropic!InOrderOfArrival(t.toolOrder)
    BY <1>7, <1>9, SameTools
  <2>2. t.blockIndex \in -1 .. MaxEvents
    BY <1>5, <1>7
  <2>4. t.blockOpen \in BOOLEAN
    BY <1>5
  <2>3. Anthropic!ToSet(t.toolOrder) = DOMAIN t.toolAccMap
    BY <1>8 DEF Anthropic!ToSet
  <2> QED BY <1>6, <2>1, <2>2, <2>3, <2>4 DEF Anthropic!TypeOK, BlockTypes, t
<1>13. Anthropic!Framed /\ Anthropic!ToolUseAnnounced
  BY <1>1, <1>10 DEF Anthropic!Framed, Anthropic!ToolUseAnnounced, Anthropic!wire, BlocksRight, t
<1>14. t.blockIndex + 1 + Len(t.toolOrder) <= Len(sent)
  BY <1>5, <1>7, <1>8
<1> QED BY <1>11, <1>12, <1>13, <1>14 DEF AnthInv, AnthStreaming, t

\* The callback keeps the Anthropic handler right.
LEMMA AnthCallback ==
  ASSUME AnthInv, NEW evt \in StreamEvent, Deliver(evt), Anthropic!Callback(evt, Len(sent'))
  PROVE  AnthInv'
<1> DEFINE n == Len(sent')
<1>1. /\ StreamTypeOK /\ StreamTypeOK' /\ phase = "streaming" /\ phase' = "streaming"
      /\ Len(sent) \in Nat /\ n = Len(sent) + 1 /\ n <= MaxEvents /\ n \in Nat
  <2>1. StreamTypeOK
    BY SameTools DEF AnthInv, Anthropic!TypeOK
  <2>2. /\ StreamTypeOK' /\ phase = "streaming" /\ phase' = "streaming"
        /\ Len(sent) \in Nat /\ n = Len(sent) + 1
    BY <2>1, Delivery
  <2> QED BY <2>1, <2>2 DEF StreamTypeOK
<1>2. /\ AnthRight(anthropic)
      /\ anthropic.blockIndex + 1 + Len(anthropic.toolOrder) <= Len(sent)
      /\ InOrderOfArrival(anthropic.toolOrder)
  <2>1. InOrderOfArrival(anthropic.toolOrder)
    BY SameTools DEF AnthInv, Anthropic!TypeOK
  <2> QED BY <1>1, <2>1 DEF AnthInv, AnthStreaming
<1> HIDE DEF n
<1>3. PICK t : t = anthropic
  OBVIOUS
<1>4. PICK u : u = anthropic'
  OBVIOUS
<1> DEFINE order == t.toolOrder
<1>5. /\ AnthRight(t) /\ t.blockIndex + 1 + Len(order) <= Len(sent)
      /\ InOrderOfArrival(order)
  BY <1>2, <1>3
<1>16. t.blockIndex \in Int /\ order \in Seq(Tools) /\ Len(order) \in Nat
  BY <1>5 DEF AnthRight, AnthTyped
<1>6. /\ evt.type # "tool" => InOrderOfArrival(order)'
      /\ evt.type = "tool" =>
           /\ evt.index \in Tools
           /\ evt.index \in {order[k] : k \in DOMAIN order} => InOrderOfArrival(order)'
           /\ evt.index \notin {order[k] : k \in DOMAIN order}
                => InOrderOfArrival(Append(order, evt.index))'
  BY <1>1, <1>5, <1>16, Arriving
<1>8. Anthropic!Callback(evt, n)
  BY DEF n
<1>9. PICK more \in Seq(Tools) :
        /\ AnthRight(u) /\ u.blockIndex + 1 + Len(more) <= n
        /\ more = u.toolOrder /\ InOrderOfArrival(more)'
  <2> order \in Seq(Tools)
    BY <1>16
  <2>1. ASSUME NEW type \in {"thinking", "text"}, evt.type \in {"reasoning", "text"},
               u = Anthropic!Increment(t, type, n)
        PROVE  \E more \in Seq(Tools) :
                 /\ AnthRight(u) /\ u.blockIndex + 1 + Len(more) <= n
                 /\ more = u.toolOrder /\ InOrderOfArrival(more)'
    <3>1. AnthRight(u) /\ KeepsAcc(t, u) /\ u.blockIndex \in {t.blockIndex, t.blockIndex + 1}
      BY <1>1, <1>5, <2>1, AnthIncrement
    <3>2. u.toolOrder = order
      BY <3>1 DEF KeepsAcc
    <3>3. u.blockIndex + 1 + Len(order) <= n
      BY <1>1, <1>5, <1>16, <3>1
    <3> WITNESS order \in Seq(Tools)
    <3> QED BY <1>6, <2>1, <3>1, <3>2, <3>3
  <2>2. CASE evt.type = "tool" /\ u = Anthropic!Accumulate(t, evt, n)
    <3> DEFINE i == evt.index
               now == IF i \in {order[k] : k \in DOMAIN order} THEN order ELSE Append(order, i)
    <3>4. evt.id \in BOOLEAN
      BY <2>2 DEF StreamEvent
    <3>1. AnthRight(u) /\ u.blockIndex = t.blockIndex /\ u.toolOrder = now
      <4>1. i \in Tools
        BY <1>6, <2>2
      <4> HIDE <1>6
      <4>2. LET v == Anthropic!Accumulate(t, evt, n) IN
            /\ AnthRight(v) /\ v.blockIndex = t.blockIndex
            /\ v.toolOrder = IF evt.index \in {t.toolOrder[k] : k \in DOMAIN t.toolOrder}
                             THEN t.toolOrder ELSE Append(t.toolOrder, evt.index)
        <5>1. AnthRight(t) /\ n \in Nat
          BY <1>1, <1>5
        <5>2. evt.index \in Tools
          BY <4>1
        <5> HIDE DEF order, now, i
        <5> QED BY <3>4, <5>1, <5>2, AnthAccumulate
      <4> QED BY <2>2, <4>2
    <3> now \in Seq(Tools)
      BY <1>6, <2>2
    <3>3. InOrderOfArrival(now)'
      <4>1. CASE i \in {order[k] : k \in DOMAIN order}
        BY <1>6, <2>2, <4>1
      <4>2. CASE i \notin {order[k] : k \in DOMAIN order}
        BY <1>6, <2>2, <4>2
      <4> QED BY <4>1, <4>2
    <3>5. Len(now) <= Len(order) + 1 /\ Len(now) \in Nat
      BY <1>6, <1>16, <2>2
    <3> HIDE DEF now
    <3>6. u.blockIndex + 1 + Len(now) <= n
      BY <1>1, <1>5, <1>16, <3>1, <3>5
    <3> WITNESS now \in Seq(Tools)
    <3> QED BY <3>1, <3>3, <3>6
  <2>3. CASE evt.type = "finish" /\ u = [t EXCEPT !.finishReason = evt.reason]
    <3>1. evt.reason \in AnthReasons
      BY <2>3 DEF StreamEvent, AnthReasons
    <3>2. AnthShaped(t) /\ AnthTyped(t)
      BY <1>5 DEF AnthRight
    <3>3. /\ AnthShaped(u) /\ u.blockOpen = t.blockOpen /\ u.blockIndex = t.blockIndex
          /\ u.blockType = t.blockType /\ u.toolAccMap = t.toolAccMap /\ u.toolOrder = order
          /\ u.finishReason = evt.reason /\ u.wire = t.wire
      BY <2>3, <3>2 DEF AnthShaped
    <3>4. AnthTyped(u)
      BY <3>1, <3>2, <3>3 DEF AnthTyped
    <3>5. AnthRight(u)
      BY <1>5, <3>3, <3>4 DEF AnthRight
    <3>6. u.blockIndex + 1 + Len(order) <= n
      BY <1>1, <1>5, <1>16, <3>3
    <3> WITNESS order \in Seq(Tools)
    <3> QED BY <1>6, <2>3, <3>3, <3>5, <3>6
  <2>4. CASE evt.type = "usage" /\ u = t
    <3>6. u.blockIndex + 1 + Len(order) <= n
      BY <1>1, <1>5, <1>16, <2>4
    <3> WITNESS order \in Seq(Tools)
    <3> QED BY <1>5, <1>6, <2>4, <3>6
  <2>5. \/ evt.type = "reasoning" /\ u = Anthropic!Increment(t, "thinking", n)
        \/ evt.type = "text" /\ u = Anthropic!Increment(t, "text", n)
        \/ evt.type = "tool" /\ u = Anthropic!Accumulate(t, evt, n)
        \/ evt.type = "finish" /\ u = [t EXCEPT !.finishReason = evt.reason]
        \/ evt.type = "usage" /\ u = t
    BY <1>3, <1>4, <1>8 DEF Anthropic!Callback
  <2> QED BY <2>1, <2>2, <2>3, <2>4, <2>5
<1>10. /\ u.blockOpen \in BOOLEAN /\ u.blockType \in BlockTypes
       /\ u.blockIndex \in -1 .. MaxEvents
  BY <1>1, <1>9, AnthBounds
<1>11. Anthropic!TypeOK'
  <2>1. Anthropic!InOrderOfArrival(more)' /\ Anthropic!StreamTypeOK'
    BY <1>1, <1>9, SameTools
  <2>2. Anthropic!InOrderOfArrival(anthropic.toolOrder)'
    BY <1>4, <1>9, <2>1 DEF Anthropic!InOrderOfArrival
  <2>3. {u.toolOrder[k] : k \in DOMAIN u.toolOrder} = DOMAIN u.toolAccMap
    BY <1>9 DEF AnthRight
  <2> QED BY <1>4, <1>10, <2>1, <2>2, <2>3 DEF Anthropic!TypeOK, Anthropic!ToSet, BlockTypes
<1>12. Anthropic!Framed' /\ Anthropic!ToolUseAnnounced'
  <2>1. Anthropic!BlockByBlock(u.wire)
    BY <1>9 DEF AnthRight, BlocksRight
  <2>2. anthropic'.wire = u.wire
    BY <1>4
  <2> QED BY <1>1, <2>1, <2>2 DEF Anthropic!Framed, Anthropic!ToolUseAnnounced, Anthropic!wire
<1>13. AnthStreaming'
  BY <1>4, <1>9 DEF AnthStreaming, n
<1> QED BY <1>11, <1>12, <1>13 DEF AnthInv

\* An event that closes the reply.
LEMMA AnthWritesLast ==
  ASSUME NEW w, NEW n, NEW open, BlocksRight(w, n, open), NEW e,
         e.event \notin {"start", "delta", "stop"}, e.event = "message_delta" => open = FALSE
  PROVE  Anthropic!BlockByBlock(Append(w, e)) /\ Last(Append(w, e)) = e
<1> DEFINE S == AnthEvent \union {e}
<1>1. w \in Seq(AnthEvent) /\ w \in Seq(S) /\ e \in S
  BY DEF BlocksRight
<1>2. \A i \in DOMAIN w : w[i].event \in {"start", "delta", "stop"}
  BY <1>1 DEF AnthEvent
<1>3. Follows(w, e)
  <2>1. /\ n + 1 \in Nat /\ Before("start", w, Len(w) + 1) = n + 1
        /\ Before("stop", w, Len(w) + 1) = IF open THEN n ELSE n + 1
    BY DEF BlocksRight
  <2>2. e.event = "message_delta" =>
          Before("start", w, Len(w) + 1) - Before("stop", w, Len(w) + 1) = 0
    BY <2>1
  <2> QED BY <2>2 DEF Follows
<1>4. Anthropic!BlockByBlock(w)
  BY DEF BlocksRight
<1> HIDE DEF S
<1>5. Anthropic!BlockByBlock(Append(w, e))
  BY <1>1, <1>2, <1>3, <1>4, NextBlock
<1>6. Last(Append(w, e)) = e
  BY <1>1 DEF Last
<1> QED BY <1>5, <1>6

\* A tool call has come if and only if there is an accumulator.
LEMMA ToolCallsSeen ==
  ASSUME StreamTypeOK, NEW order \in Seq(Tools), InOrderOfArrival(order)
  PROVE  order # <<>> <=> Positions("tool") # {}
<1>1. {order[k] : k \in DOMAIN order} = {i \in Tools : ToolPositions(i) # {}}
  BY DEF InOrderOfArrival, ToSet
<1>2. \A p \in Positions("tool") : sent[p].index \in Tools
  <2> SUFFICES ASSUME NEW p \in Positions("tool") PROVE sent[p].index \in Tools
    OBVIOUS
  <2>1. sent[p] \in StreamEvent /\ sent[p].type = "tool"
    BY DEF Positions, StreamTypeOK
  <2> QED BY <2>1 DEF StreamEvent
<1>3. ASSUME order # <<>> PROVE Positions("tool") # {}
  <2>1. PICK k : k \in DOMAIN order
    <3>1. Len(order) \in Nat \ {0} /\ DOMAIN order = 1 .. Len(order)
      BY <1>3, EmptySeq
    <3>2. 1 \in DOMAIN order
      BY <3>1
    <3> QED BY <3>2
  <2>2. ToolPositions(order[k]) # {}
    BY <1>1, <2>1
  <2> QED BY <2>2 DEF ToolPositions
<1>4. ASSUME NEW p \in Positions("tool") PROVE order # <<>>
  <2>1. p \in ToolPositions(sent[p].index)
    BY DEF ToolPositions
  <2>2. sent[p].index \in {order[k] : k \in DOMAIN order}
    BY <1>1, <1>2, <2>1
  <2> QED BY <2>2
<1> QED BY <1>3, <1>4

\* The stop reason tells the client to run tools, or does not.
LEMMA StopReason ==
  ASSUME NEW finish, NEW hasToolCalls \in BOOLEAN
  PROVE  Anthropic!mapStopReason(finish, hasToolCalls) = "tool_use"
           <=> hasToolCalls \/ finish \in {"tool_calls", "tool_use"}
<1> DEFINE told == Anthropic!mapStopReason(finish, hasToolCalls)
<1>1. CASE hasToolCalls \/ finish = "tool_calls"
  BY <1>1 DEF Anthropic!mapStopReason
<1>2. CASE ~(hasToolCalls \/ finish = "tool_calls") /\ finish = "length"
  <2>1. told = "max_tokens"
    BY <1>2, Zenon DEF Anthropic!mapStopReason
  <2> QED BY <1>2, <2>1
<1>3. CASE ~(hasToolCalls \/ finish = "tool_calls") /\ finish \in {"stop", ""}
  <2>1. told = "end_turn" /\ finish # "tool_use"
    BY <1>3, Zenon DEF Anthropic!mapStopReason
  <2>2. told # "tool_use"
    BY <2>1
  <2> QED BY <1>3, <2>1, <2>2, Zenon
<1>4. CASE ~(hasToolCalls \/ finish = "tool_calls") /\ finish \notin {"length", "stop", ""}
  <2>1. told = finish
    BY <1>4, Zenon DEF Anthropic!mapStopReason
  <2> QED BY <1>4, <2>1, Zenon
<1> QED BY <1>1, <1>2, <1>3, <1>4, Zenon

\* The reply is closed: the handler has written its last event.
LEMMA AnthOver ==
  ASSUME AnthInv, phase = "streaming", phase' # "streaming", UNCHANGED <<channel, sent>>,
         phase' \in {"ended", "failed"}, NEW t, t = anthropic',
         t.blockOpen \in BOOLEAN, t.blockType \in BlockTypes, t.blockIndex \in -1 .. MaxEvents,
         t.toolOrder = anthropic.toolOrder, t.toolAccMap = anthropic.toolAccMap,
         Anthropic!BlockByBlock(t.wire),
         phase' = "ended" =>
           (Last(t.wire).stop_reason = "tool_use"
              <=> Positions("tool") # {} \/ t.finishReason \in {"tool_calls", "tool_use"})
  PROVE  AnthInv'
<1>1. \A type : Anthropic!Positions(type)' = Positions(type)
  BY DEF Anthropic!Positions, Positions
<1>2. Anthropic!ToolUseAnnounced'
  BY <1>1 DEF Anthropic!ToolUseAnnounced, Anthropic!wire, Anthropic!Last, Last
<1>3. Anthropic!Framed'
  BY DEF Anthropic!Framed, Anthropic!wire
<1>4. Anthropic!TypeOK'
  <2>1. Anthropic!StreamTypeOK'
    BY DEF AnthInv, Anthropic!TypeOK, Anthropic!StreamTypeOK
  <2>2. Anthropic!InOrderOfArrival(anthropic.toolOrder)'
    <3>1. \A i : Anthropic!ToolPositions(i)' = Anthropic!ToolPositions(i)
      BY DEF Anthropic!ToolPositions, Anthropic!Positions
    <3> QED BY <3>1 DEF AnthInv, Anthropic!TypeOK, Anthropic!InOrderOfArrival
  <2>3. Anthropic!ToSet(t.toolOrder) = DOMAIN t.toolAccMap
    BY DEF AnthInv, Anthropic!TypeOK
  <2>4. t.blockType \in {"", "thinking", "text", "tool_use"}
    BY DEF BlockTypes
  <2> QED BY <2>1, <2>2, <2>3, <2>4 DEF Anthropic!TypeOK
<1> QED BY <1>2, <1>3, <1>4 DEF AnthInv

\* A failed stream ends in an error and nothing after it.
LEMMA AnthFailed ==
  ASSUME AnthInv, Fail, Anthropic!Failed PROVE AnthInv'
<1> DEFINE t == anthropic
           e == [event |-> "error"]
<1>1. phase = "streaming" /\ phase' = "failed" /\ UNCHANGED <<channel, sent>>
  BY DEF Fail
<1>2. AnthRight(t)
  BY <1>1 DEF AnthInv, AnthStreaming
<1>3. AnthShaped(t) /\ AnthTyped(t) /\ BlocksRight(t.wire, t.blockIndex, t.blockOpen)
  BY <1>2 DEF AnthRight
<1>4. anthropic' = [t EXCEPT !.wire = Append(@, e)]
  BY DEF Anthropic!Failed, Anthropic!Write
<1>5. e.event \notin {"start", "delta", "stop", "message_delta"}
  OBVIOUS
<1> HIDE DEF e
<1>6. PICK u : u = anthropic'
  OBVIOUS
<1>7. /\ u.wire = Append(t.wire, e) /\ u.blockOpen = t.blockOpen
      /\ u.blockIndex = t.blockIndex /\ u.blockType = t.blockType
      /\ u.toolOrder = t.toolOrder /\ u.toolAccMap = t.toolAccMap
  BY <1>3, <1>4, <1>6 DEF AnthShaped
<1>8. Anthropic!BlockByBlock(u.wire)
  BY <1>3, <1>5, <1>7, AnthWritesLast
<1>9. t.blockIndex \in -1 .. MaxEvents
  BY DEF AnthInv, Anthropic!TypeOK
<1>10. u.blockOpen \in BOOLEAN /\ u.blockType \in BlockTypes
  BY <1>3, <1>7 DEF AnthTyped
<1> QED BY <1>1, <1>6, <1>7, <1>8, <1>9, <1>10, AnthOver

\* The end of the stream renders the tool calls, and says so if there are any.
LEMMA AnthEnded ==
  ASSUME AnthInv, End, Anthropic!Ended PROVE AnthInv'
<1> DEFINE t == anthropic
           r == Anthropic!flushToolCalls(t)
           c == Anthropic!closeBlock(r)
           e == [event |-> "message_delta",
                 stop_reason |-> Anthropic!mapStopReason(t.finishReason, t.toolOrder # <<>>)]
<1>1. phase = "streaming" /\ phase' = "ended" /\ UNCHANGED <<channel, sent>>
  BY DEF End
<1>2. AnthRight(t) /\ t.blockIndex + 1 + Len(t.toolOrder) <= Len(sent)
  BY <1>1 DEF AnthInv, AnthStreaming
<1>3. /\ StreamTypeOK /\ InOrderOfArrival(t.toolOrder) /\ t.toolOrder \in Seq(Tools)
      /\ Len(sent) \in Nat /\ Len(sent) <= MaxEvents /\ Len(t.toolOrder) \in Nat
      /\ MaxEvents \in Nat
  <2>1. StreamTypeOK /\ InOrderOfArrival(t.toolOrder)
    BY SameTools DEF AnthInv, Anthropic!TypeOK
  <2>2. t.toolOrder \in Seq(Tools)
    BY <1>2 DEF AnthRight, AnthTyped
  <2> QED BY <2>1, <2>2, StreamAssumption DEF StreamTypeOK
<1>4. /\ AnthRight(r) /\ ~r.blockOpen /\ KeepsAcc(t, r)
      /\ r.blockIndex = t.blockIndex + Len(t.toolOrder)
  BY <1>2, AnthFlushes
<1>5. AnthRight(c) /\ ~c.blockOpen /\ c.blockIndex = r.blockIndex /\ KeepsAcc(r, c)
  <2> HIDE DEF r
  <2> QED BY <1>4, AnthCloses
<1>6. anthropic' = [c EXCEPT !.wire = Append(@, e)]
  BY DEF Anthropic!Ended, Anthropic!Finish, Anthropic!Write
<1>7. e.event = "message_delta" /\ e.event \notin {"start", "delta", "stop"}
  OBVIOUS
<1>8. e.stop_reason = "tool_use"
        <=> Positions("tool") # {} \/ t.finishReason \in {"tool_calls", "tool_use"}
  <2>1. t.toolOrder # <<>> <=> Positions("tool") # {}
    BY <1>3, ToolCallsSeen
  <2>2. e.stop_reason = Anthropic!mapStopReason(t.finishReason, t.toolOrder # <<>>)
    OBVIOUS
  <2>3. (t.toolOrder # <<>>) \in BOOLEAN
    OBVIOUS
  <2>4. Anthropic!mapStopReason(t.finishReason, t.toolOrder # <<>>) = "tool_use"
          <=> (t.toolOrder # <<>>) \/ t.finishReason \in {"tool_calls", "tool_use"}
    BY <2>3, StopReason
  <2> HIDE DEF e
  <2> QED BY <2>1, <2>2, <2>4
<1> HIDE DEF r, c, e
<1>9. PICK u : u = anthropic'
  OBVIOUS
<1>10. AnthShaped(c) /\ AnthTyped(c) /\ BlocksRight(c.wire, c.blockIndex, c.blockOpen)
  BY <1>5 DEF AnthRight
<1>11. /\ u.wire = Append(c.wire, e) /\ u.blockOpen = c.blockOpen
       /\ u.blockIndex = c.blockIndex /\ u.blockType = c.blockType
       /\ u.toolOrder = c.toolOrder /\ u.toolAccMap = c.toolAccMap
       /\ u.finishReason = c.finishReason
  BY <1>6, <1>9, <1>10 DEF AnthShaped
<1>12. c.blockOpen = FALSE
  BY <1>5, <1>10 DEF AnthTyped
<1>13. Anthropic!BlockByBlock(u.wire) /\ Last(u.wire) = e
  <2>1. BlocksRight(c.wire, c.blockIndex, FALSE)
    BY <1>10, <1>12
  <2>2. Anthropic!BlockByBlock(Append(c.wire, e)) /\ Last(Append(c.wire, e)) = e
    BY <1>7, <2>1, AnthWritesLast
  <2> QED BY <1>11, <2>2
<1>14. u.blockIndex \in -1 .. MaxEvents
  <2>1. t.blockIndex \in Int /\ t.blockIndex + 1 \in Nat
    BY <1>2 DEF AnthRight, BlocksRight
  <2>2. u.blockIndex = t.blockIndex + Len(t.toolOrder)
    BY <1>4, <1>5, <1>11
  <2> QED BY <1>2, <1>3, <2>1, <2>2
<1>15. u.blockOpen \in BOOLEAN /\ u.blockType \in BlockTypes
  BY <1>10, <1>11 DEF AnthTyped
<1>16. /\ u.toolOrder = anthropic.toolOrder /\ u.toolAccMap = anthropic.toolAccMap
       /\ u.finishReason = anthropic.finishReason
  BY <1>4, <1>5, <1>11 DEF KeepsAcc
<1> QED BY <1>1, <1>8, <1>9, <1>13, <1>14, <1>15, <1>16, AnthOver

\* A stutter, ...
LEMMA AnthUnchanged == AnthInv /\ UNCHANGED vars => AnthInv'
<1> SUFFICES ASSUME AnthInv, UNCHANGED vars PROVE AnthInv'
  OBVIOUS
<1>1. UNCHANGED <<channel, sent, phase, anthropic>>
  BY DEF vars, streamVars
<1>2. \A type : Anthropic!Positions(type)' = Anthropic!Positions(type)
  BY <1>1 DEF Anthropic!Positions
<1>3. Anthropic!TypeOK'
  <2>1. Anthropic!InOrderOfArrival(anthropic.toolOrder)'
    <3>1. Anthropic!InOrderOfArrival(anthropic.toolOrder)
      BY DEF AnthInv, Anthropic!TypeOK
    <3>2. \A i : Anthropic!ToolPositions(i)' = Anthropic!ToolPositions(i)
      BY <1>1, <1>2 DEF Anthropic!ToolPositions
    <3> QED BY <1>1, <3>1, <3>2 DEF Anthropic!InOrderOfArrival
  <2> QED BY <1>1, <2>1 DEF AnthInv, Anthropic!TypeOK, Anthropic!StreamTypeOK
<1>4. Anthropic!Framed'
  BY <1>1 DEF AnthInv, Anthropic!Framed, Anthropic!wire
<1>5. Anthropic!ToolUseAnnounced'
  BY <1>1, <1>2 DEF AnthInv, Anthropic!ToolUseAnnounced, Anthropic!wire
<1>6. phase' = "streaming" => AnthStreaming'
  BY <1>1 DEF AnthInv, AnthStreaming
<1> QED BY <1>3, <1>4, <1>5, <1>6 DEF AnthInv

\* ... and so every step, keeps the Anthropic handler right.
LEMMA AnthNext == AnthInv /\ [Next]_vars => AnthInv'
<1>1. ASSUME AnthInv, Callback PROVE AnthInv'
  BY <1>1, AnthCallback DEF Callback
<1>2. ASSUME AnthInv, Failed PROVE AnthInv'
  BY <1>2, AnthFailed DEF Failed
<1>3. ASSUME AnthInv, Ended PROVE AnthInv'
  BY <1>3, AnthEnded DEF Ended
<1> QED BY <1>1, <1>2, <1>3, AnthUnchanged DEF Next

\* The chat handler has its types.
LEMMA ChatTypes == ChatInv => Chat!TypeOK
<1> SUFFICES ASSUME ChatTyped PROVE Chat!TypeOK
  BY DEF ChatInv
<1>1. Chat!StreamTypeOK
  BY DEF ChatTyped, StreamTypeOK, Chat!StreamTypeOK, StreamEvent, Chat!StreamEvent
<1>2. finishSent = (Chat!Finishing # {})
  BY Zenon DEF ChatTyped
<1> QED BY <1>1, <1>2 DEF ChatTyped, Chat!TypeOK

AdaptersInv == ChatInv /\ RespInv /\ AnthInv

\* The three invariants hold together.
LEMMA Adapting == Spec => []AdaptersInv
<1>1. Init => AdaptersInv
  BY ChatInit, RespInit, AnthInit DEF AdaptersInv
<1>2. AdaptersInv /\ [Next]_vars => AdaptersInv'
  BY ChatNext, RespNext, AnthNext DEF AdaptersInv
<1> QED BY <1>1, <1>2, PTL DEF Spec

\* Whatever the upstream sends and however it ends, every client sees a well-formed reply:
\* Anthropic blocks one after the other, Responses items added before and done after their
\* increments, chat chunks closed by one [DONE].
THEOREM RepliesAreFramed == Spec => []Framed
<1>1. AdaptersInv => Framed
  BY ChatTypes, SameTools DEF AdaptersInv, ChatInv, ChatTyped, RespInv, AnthInv, Framed, TypeOK
<1> QED BY <1>1, Adapting, PTL

\* In whatever order the finish, usage and tool events come: an Anthropic client that has got
\* tool calls is told to run them, and one that has got none only if the upstream's last
\* finish reason says so (anthropic.go:208); a Responses reply is not called completed if the
\* upstream gave "length" and after it no reason but "stop"; a chat client gets one finish
\* reason, the first the upstream gave or "stop", and the last usage, as the log has.
THEOREM EndingsAreReported == Spec => []EndingReported
<1>1. AdaptersInv => EndingReported
  BY DEF AdaptersInv, ChatInv, RespInv, AnthInv, EndingReported
<1> QED BY <1>1, Adapting, PTL

-----------------------------------------------------------------------------
(* Nothing is lost. *)

\* The handlers' copies of Lists are one operator.
LEMMA SameLists ==
  \A seq, P : /\ Responses!Lists(seq, P) <=> Lists(seq, P)
              /\ Anthropic!Lists(seq, P) <=> Lists(seq, P)
  BY DEF Responses!Lists, Anthropic!Lists, Lists, Responses!ToSet, Anthropic!ToSet, ToSet

\* The increments of a tool call are places of the stream.
LEMMA CallPlaces ==
  ASSUME StreamTypeOK PROVE \A i : ToolPositions(i) \subseteq Nat
  BY DEF StreamTypeOK, ToolPositions, Positions

\* A sequence that lists places lists one more when a later one is appended.
LEMMA ListsAppend ==
  ASSUME NEW seq \in Seq(Nat), NEW P, Lists(seq, P), NEW at \in Nat, \A p \in P : p < at
  PROVE  Lists(Append(seq, at), P \union {at})
<1> DEFINE l == Len(seq)
           more == Append(seq, at)
<1>1. /\ l \in Nat /\ DOMAIN seq = 1 .. l /\ DOMAIN more = DOMAIN seq \union {l + 1}
      /\ more[l + 1] = at /\ \A k \in DOMAIN seq : more[k] = seq[k] /\ seq[k] \in Nat
  BY Appending
<1>2. {seq[k] : k \in DOMAIN seq} = P /\ \A j, k \in DOMAIN seq : j < k => seq[j] < seq[k]
  BY DEF Lists, ToSet
<1> HIDE DEF l, more
<1>3. {more[k] : k \in DOMAIN more} = P \union {at}
  BY <1>1, <1>2
<1>4. ASSUME NEW j \in DOMAIN more, NEW k \in DOMAIN more, j < k PROVE more[j] < more[k]
  <2>1. j \in DOMAIN seq
    BY <1>1, <1>4
  <2>2. CASE k \in DOMAIN seq
    BY <1>1, <1>2, <1>4, <2>1, <2>2
  <2>3. CASE k = l + 1
    <3>1. seq[j] \in P
      BY <1>2, <2>1
    <3> QED BY <1>1, <2>1, <2>3, <3>1
  <2> QED BY <1>1, <2>2, <2>3
<1> QED BY <1>3, <1>4 DEF Lists, ToSet, more

\* The empty sequence lists no place.
LEMMA ListsNothing == Lists(<<>>, {})
  BY DEF Lists, ToSet

\* The first place that is listed is the least.
LEMMA ListsFirst ==
  ASSUME NEW seq \in Seq(Nat), NEW P, Lists(seq, P), P # {}
  PROVE  seq[1] \in P /\ \A p \in P : seq[1] <= p
<1>1. {seq[k] : k \in DOMAIN seq} = P /\ \A j, k \in DOMAIN seq : j < k => seq[j] < seq[k]
  BY DEF Lists, ToSet
<1>2. DOMAIN seq = 1 .. Len(seq) /\ Len(seq) \in Nat /\ \A k \in DOMAIN seq : seq[k] \in Nat
  OBVIOUS
<1>3. DOMAIN seq # {} /\ 1 \in DOMAIN seq
  <2>1. DOMAIN seq # {}
    BY <1>1
  <2> QED BY <1>2, <2>1
<1>4. ASSUME NEW p \in P PROVE seq[1] <= p
  <2>1. PICK k \in DOMAIN seq : seq[k] = p
    BY <1>1
  <2>2. k = 1 \/ 1 < k
    BY <1>2
  <2> QED BY <1>1, <1>2, <1>3, <2>1, <2>2
<1> QED BY <1>1, <1>3, <1>4

\* Texts, one for each tool call at a place of its own, in the order of arrival, list the
\* calls.
LEMMA ListingCalls ==
  ASSUME StreamTypeOK, NEW order \in Seq(Tools), InOrderOfArrival(order), NEW place, NEW texts,
         \A k \in DOMAIN order : place[k] \in Nat,
         \A j, k \in DOMAIN order : j < k => place[j] < place[k],
         DOMAIN texts = {place[k] : k \in DOMAIN order},
         \A k \in DOMAIN order : /\ texts[place[k]] \in Seq(Nat)
                                 /\ Lists(texts[place[k]], ToolPositions(order[k]))
  PROVE  ListsCalls(texts)
<1>1. /\ {order[k] : k \in DOMAIN order} = {i \in Tools : ToolPositions(i) # {}}
      /\ \A j, k \in DOMAIN order : j < k =>
           \E n \in ToolPositions(order[j]) : \A m \in ToolPositions(order[k]) : n < m
  BY DEF InOrderOfArrival, ToSet
<1>2. \A i \in Tools : ToolPositions(i) # {} =>
        \E p \in DOMAIN texts : Lists(texts[p], ToolPositions(i))
  <2> SUFFICES ASSUME NEW i \in Tools, ToolPositions(i) # {}
               PROVE  \E p \in DOMAIN texts : Lists(texts[p], ToolPositions(i))
    OBVIOUS
  <2>1. PICK k \in DOMAIN order : order[k] = i
    BY <1>1
  <2> QED BY <2>1
<1>3. \A p \in DOMAIN texts :
        \E i \in Tools : ToolPositions(i) # {} /\ Lists(texts[p], ToolPositions(i))
  <2> SUFFICES ASSUME NEW k \in DOMAIN order
               PROVE  \E i \in Tools : ToolPositions(i) # {} /\ Lists(texts[place[k]], ToolPositions(i))
    OBVIOUS
  <2>1. order[k] \in Tools /\ ToolPositions(order[k]) # {}
    BY <1>1
  <2> QED BY <2>1
<1>4. ASSUME NEW p \in DOMAIN texts, NEW q \in DOMAIN texts, p < q
      PROVE  texts[p][1] < texts[q][1]
  <2>1. PICK j \in DOMAIN order : place[j] = p
    OBVIOUS
  <2>2. PICK k \in DOMAIN order : place[k] = q
    OBVIOUS
  <2>3. j \in Nat /\ k \in Nat /\ place[j] \in Nat /\ place[k] \in Nat
    OBVIOUS
  <2>4. j < k
    <3>1. j < k \/ j = k \/ k < j
      BY <2>3
    <3>2. k < j => place[k] < place[j]
      OBVIOUS
    <3>3. place[j] < place[k]
      BY <1>4, <2>1, <2>2
    <3> QED BY <2>3, <3>1, <3>2, <3>3
  <2>5. PICK n \in ToolPositions(order[j]) : \A m \in ToolPositions(order[k]) : n < m
    BY <1>1, <2>4
  <2>6. ToolPositions(order[j]) # {} /\ ToolPositions(order[k]) # {}
    BY <1>1
  <2>7. texts[p][1] \in ToolPositions(order[j]) /\ texts[p][1] <= n
    BY <2>1, <2>5, <2>6, ListsFirst
  <2>8. texts[q][1] \in ToolPositions(order[k])
    BY <2>2, <2>6, ListsFirst
  <2>9. n < texts[q][1] /\ n \in Nat /\ texts[p][1] \in Nat /\ texts[q][1] \in Nat
    <3>1. ToolPositions(order[j]) \subseteq Nat /\ ToolPositions(order[k]) \subseteq Nat
      BY CallPlaces
    <3> QED BY <2>5, <2>7, <2>8, <3>1
  <2> QED BY <2>7, <2>9
<1> QED BY <1>2, <1>3, <1>4 DEF ListsCalls

\* What has been streamed of item id before place i of wire w.
Streamed(w, i, id) ==
  {w[j].text[1] : j \in {k \in 1 .. i - 1 : Responses!Is(w, k, "delta", id)}}

StreamedNow(w, id) == Streamed(w, Len(w) + 1, id)

\* An item that is done on wire w has what was streamed of it, and what is streamed comes
\* in the order of the stream, of which n events have been delivered.
WireText(w, n) ==
  /\ \A i \in DOMAIN w : w[i].event = "done" => Lists(w[i].text, Streamed(w, i, w[i].id))
  /\ \A i \in DOMAIN w : w[i].event = "delta" => w[i].text[1] \in 1 .. n
  /\ \A i, j \in DOMAIN w :
       w[i].event = "delta" /\ w[j].event = "delta" /\ i < j => w[i].text[1] < w[j].text[1]

\* What comes later on the wire does not change what has been streamed before.
LEMMA StreamedBefore ==
  ASSUME NEW S, NEW w \in Seq(S), NEW R, NEW v \in Seq(R), Len(w) <= Len(v),
         \A j \in DOMAIN w : v[j] = w[j], NEW id
  PROVE  \A i \in 1 .. Len(w) + 1 : Streamed(v, i, id) = Streamed(w, i, id)
<1> SUFFICES ASSUME NEW i \in 1 .. Len(w) + 1 PROVE Streamed(v, i, id) = Streamed(w, i, id)
  OBVIOUS
<1>1. \A j \in 1 .. i - 1 : v[j] = w[j]
  OBVIOUS
<1>2. {k \in 1 .. i - 1 : Responses!Is(v, k, "delta", id)}
        = {k \in 1 .. i - 1 : Responses!Is(w, k, "delta", id)}
  BY <1>1 DEF Responses!Is
<1> QED BY <1>1, <1>2 DEF Streamed

\* Events that are no increments may follow, if those that are done have what was streamed.
LEMMA TextKept ==
  ASSUME NEW S, NEW w \in Seq(S), NEW R, NEW v \in Seq(R), Len(w) <= Len(v),
         \A j \in DOMAIN w : v[j] = w[j], NEW n, WireText(w, n),
         \A i \in Len(w) + 1 .. Len(v) :
           /\ v[i].event # "delta"
           /\ v[i].event = "done" => Lists(v[i].text, StreamedNow(w, v[i].id))
  PROVE  /\ WireText(v, n)
         /\ \A id : StreamedNow(v, id) = StreamedNow(w, id)
<1> DEFINE l == Len(w)
           m == Len(v)
<1>1. /\ l \in Nat /\ m \in Nat /\ l <= m /\ DOMAIN w = 1 .. l /\ DOMAIN v = 1 .. m
      /\ \A i \in 1 .. l : v[i] = w[i]
      /\ \A i \in l + 1 .. m : v[i].event # "delta"
  OBVIOUS
<1>2. \A id : \A i \in 1 .. l + 1 : Streamed(v, i, id) = Streamed(w, i, id)
  BY StreamedBefore
<1> HIDE DEF l, m
<1>3. ASSUME NEW id, NEW i \in l + 1 .. m + 1 PROVE Streamed(v, i, id) = Streamed(w, l + 1, id)
  <2>1. {k \in 1 .. i - 1 : Responses!Is(v, k, "delta", id)}
          = {k \in 1 .. l : Responses!Is(v, k, "delta", id)}
    <3>1. \A k \in 1 .. i - 1 : k \in 1 .. l \/ k \in l + 1 .. m
      BY <1>1
    <3>2. \A k \in 1 .. l : k \in 1 .. i - 1
      BY <1>1
    <3> QED BY <1>1, <3>1, <3>2 DEF Responses!Is
  <2>2. (l + 1) - 1 = l
    BY <1>1
  <2>3. l + 1 \in 1 .. l + 1
    BY <1>1
  <2>4. Streamed(v, i, id) = Streamed(v, l + 1, id)
    BY <2>1, <2>2 DEF Streamed
  <2> QED BY <1>2, <2>3, <2>4
<1>4. \A id : StreamedNow(v, id) = StreamedNow(w, id)
  <2>1. m + 1 \in l + 1 .. m + 1
    BY <1>1
  <2> QED BY <1>3, <2>1 DEF StreamedNow, l, m
<1>5. ASSUME NEW i \in DOMAIN v, v[i].event = "done"
      PROVE  Lists(v[i].text, Streamed(v, i, v[i].id))
  <2>1. CASE i \in 1 .. l
    <3>1. i \in 1 .. l + 1 /\ i \in DOMAIN w
      BY <1>1, <2>1
    <3>2. Lists(w[i].text, Streamed(w, i, w[i].id))
      BY <1>1, <1>5, <2>1, <3>1 DEF WireText
    <3> QED BY <1>1, <1>2, <2>1, <3>1, <3>2
  <2>2. CASE i \in l + 1 .. m
    <3>1. Lists(v[i].text, StreamedNow(w, v[i].id))
      BY <1>5, <2>2 DEF l, m
    <3>2. i \in l + 1 .. m + 1
      BY <1>1, <2>2
    <3> QED BY <1>3, <3>1, <3>2 DEF StreamedNow, l
  <2> QED BY <1>1, <2>1, <2>2
<1>6. \A i \in DOMAIN v : v[i].event = "delta" => i \in DOMAIN w /\ v[i] = w[i]
  <2>1. \A i \in 1 .. m : i \in 1 .. l \/ i \in l + 1 .. m
    BY <1>1
  <2> QED BY <1>1, <2>1
<1>7. \A i \in DOMAIN v : v[i].event = "delta" => v[i].text[1] \in 1 .. n
  BY <1>6 DEF WireText
<1>8. \A i, j \in DOMAIN v :
        v[i].event = "delta" /\ v[j].event = "delta" /\ i < j => v[i].text[1] < v[j].text[1]
  BY <1>6 DEF WireText
<1> QED BY <1>4, <1>5, <1>7, <1>8 DEF WireText

\* A later increment may follow.
LEMMA TextStreamed ==
  ASSUME NEW S, NEW w \in Seq(S), NEW n \in Nat, WireText(w, n), NEW e \in S,
         e.event = "delta", NEW at \in Nat, at > n, e.text = <<at>>
  PROVE  /\ WireText(Append(w, e), at)
         /\ \A id : StreamedNow(Append(w, e), id) = StreamedNow(w, id) \union
                      (IF e.id = id THEN {at} ELSE {})
<1> DEFINE l == Len(w)
           v == Append(w, e)
<1>1. /\ l \in Nat /\ DOMAIN w = 1 .. l /\ DOMAIN v = DOMAIN w \union {l + 1} /\ Len(v) = l + 1
      /\ v \in Seq(S) /\ v[l + 1] = e /\ \A i \in DOMAIN w : v[i] = w[i]
  BY Appending
<1>2. e.text[1] = at
  OBVIOUS
<1>3. \A id : \A i \in 1 .. l + 1 : Streamed(v, i, id) = Streamed(w, i, id)
  <2>1. Len(w) <= Len(v)
    BY <1>1
  <2> HIDE DEF v
  <2> QED BY <1>1, <2>1, StreamedBefore
<1> HIDE DEF l, v
<1>4. ASSUME NEW id PROVE StreamedNow(v, id) = StreamedNow(w, id) \union (IF e.id = id THEN {at} ELSE {})
  <2>1. {k \in 1 .. (l + 2) - 1 : Responses!Is(v, k, "delta", id)}
          = {k \in 1 .. (l + 1) - 1 : Responses!Is(v, k, "delta", id)}
              \union (IF e.id = id THEN {l + 1} ELSE {})
    <3>1. 1 .. (l + 2) - 1 = (1 .. (l + 1) - 1) \union {l + 1}
      BY <1>1
    <3>2. Responses!Is(v, l + 1, "delta", id) <=> e.id = id
      BY <1>1 DEF Responses!Is
    <3> QED BY <3>1, <3>2
  <2>2. Streamed(v, l + 2, id) = Streamed(v, l + 1, id) \union (IF e.id = id THEN {at} ELSE {})
    BY <1>1, <1>2, <2>1 DEF Streamed
  <2>3. l + 1 \in 1 .. l + 1 /\ Len(v) + 1 = l + 2
    BY <1>1
  <2> QED BY <1>3, <2>2, <2>3 DEF StreamedNow, l
<1>5. ASSUME NEW i \in DOMAIN v, v[i].event = "done"
      PROVE  Lists(v[i].text, Streamed(v, i, v[i].id))
  <2>1. i \in DOMAIN w /\ i \in 1 .. l + 1 /\ v[i] = w[i]
    BY <1>1, <1>5
  <2>2. Lists(w[i].text, Streamed(w, i, w[i].id))
    BY <1>5, <2>1 DEF WireText
  <2> QED BY <1>3, <2>1, <2>2
<1>6. \A i \in DOMAIN w : w[i].event = "delta" => w[i].text[1] \in 1 .. n
  BY DEF WireText
<1>7. \A i \in DOMAIN v : v[i].event = "delta" => v[i].text[1] \in 1 .. at
  BY <1>1, <1>2, <1>6
<1>8. ASSUME NEW i \in DOMAIN v, NEW j \in DOMAIN v,
             v[i].event = "delta", v[j].event = "delta", i < j
      PROVE  v[i].text[1] < v[j].text[1]
  <2>1. i \in DOMAIN w /\ v[i] = w[i]
    BY <1>1, <1>8
  <2>2. CASE j \in DOMAIN w
    BY <1>1, <1>8, <2>1, <2>2 DEF WireText
  <2>3. CASE j = l + 1
    BY <1>1, <1>2, <1>6, <1>8, <2>1, <2>3
  <2> QED BY <1>1, <2>2, <2>3
<1> QED BY <1>4, <1>5, <1>7, <1>8 DEF WireText, v

\* The items that are open on w are the open text or reasoning item and the tool calls.
Accounted(w, item, ids) ==
  \A id : OpenNow(w, id) => (item # -1 /\ id = item) \/ \E i \in DOMAIN ids : id = ids[i]

\* An item that is added or done is accounted for.
LEMMA Accounting ==
  ASSUME NEW S, NEW w \in Seq(S), NEW e \in S, NEW item, NEW ids, Accounted(w, item, ids)
  PROVE  /\ e.event = "delta" => Accounted(Append(w, e), item, ids)
         /\ e.event = "done" /\ e.id = item => Accounted(Append(w, e), -1, ids)
         /\ e.event = "added" /\ item = -1 /\ e.id # -1 => Accounted(Append(w, e), e.id, ids)
         /\ \A more :
              (/\ e.event = "added" /\ item = -1 /\ \E i \in DOMAIN more : e.id = more[i]
               /\ \A i \in DOMAIN ids : i \in DOMAIN more /\ more[i] = ids[i])
              => Accounted(Append(w, e), -1, more)
<1> DEFINE v == Append(w, e)
<1>1. \A id : OpenNow(v, id) => /\ OpenNow(w, id) \/ (e.event = "added" /\ e.id = id)
                                /\ ~(e.event = "done" /\ e.id = id)
  BY Opening
<1> HIDE DEF v
<1>2. e.event = "delta" => Accounted(v, item, ids)
  BY <1>1 DEF Accounted
<1>3. e.event = "done" /\ e.id = item => Accounted(v, -1, ids)
  BY <1>1 DEF Accounted
<1>4. e.event = "added" /\ item = -1 /\ e.id # -1 => Accounted(v, e.id, ids)
  BY <1>1 DEF Accounted
<1>5. ASSUME NEW more, e.event = "added", item = -1, \E i \in DOMAIN more : e.id = more[i],
             \A i \in DOMAIN ids : i \in DOMAIN more /\ more[i] = ids[i]
      PROVE  Accounted(v, -1, more)
  BY <1>1, <1>5 DEF Accounted
<1> QED BY <1>2, <1>3, <1>4, <1>5 DEF v

\* What a handler t, which has followed n events, keeps of the texts of its open items is
\* what was streamed of them, ...
RespText(t, n) ==
  /\ WireText(t.wire, n)
  /\ t.item # -1 => Lists(t.text, StreamedNow(t.wire, t.item))
  /\ \A i \in DOMAIN t.toolStream :
       Lists(t.toolStream[i].text, StreamedNow(t.wire, t.toolStream[i].id))
  /\ Accounted(t.wire, t.item, Ids(t.toolStream))

\* ... which comes from these events.
LEMMA StreamedSoFar ==
  ASSUME NEW S, NEW w \in Seq(S), NEW n, WireText(w, n)
  PROVE  \A id : StreamedNow(w, id) \subseteq 1 .. n
<1>1. (Len(w) + 1) - 1 = Len(w) /\ DOMAIN w = 1 .. Len(w)
  OBVIOUS
<1> QED BY <1>1 DEF StreamedNow, Streamed, WireText, Responses!Is

\* One event that is no increment may follow.
LEMMA TextFollowed ==
  ASSUME NEW S, NEW w \in Seq(S), NEW n, WireText(w, n), NEW e \in S, e.event # "delta",
         e.event = "done" => Lists(e.text, StreamedNow(w, e.id))
  PROVE  /\ WireText(Append(w, e), n)
         /\ \A id : StreamedNow(Append(w, e), id) = StreamedNow(w, id)
<1> DEFINE v == Append(w, e)
<1>1. /\ v \in Seq(S) /\ Len(v) = Len(w) + 1 /\ Len(w) \in Nat
      /\ \A j \in DOMAIN w : v[j] = w[j]
      /\ v[Len(w) + 1] = e
  BY Appending
<1> HIDE DEF v
<1>2. Len(w) <= Len(v) /\ \A i \in Len(w) + 1 .. Len(v) : v[i] = e
  BY <1>1
<1>3. \A i \in Len(w) + 1 .. Len(v) :
        /\ v[i].event # "delta"
        /\ v[i].event = "done" => Lists(v[i].text, StreamedNow(w, v[i].id))
  BY <1>2
<1>4. WireText(v, n) /\ \A id : StreamedNow(v, id) = StreamedNow(w, id)
  BY <1>1, <1>2, <1>3, TextKept
<1> QED BY <1>4 DEF v

\* The types of what the handler keeps.
LEMMA RespCallTyped ==
  ASSUME NEW t, RespRight(t), NEW i \in DOMAIN t.toolStream
  PROVE  t.toolStream[i].text \in Seq(Nat) /\ t.toolStream[i].id \in Nat
<1>1. t.toolStream \in RespCalls
  BY DEF RespRight, RespTyped
<1>2. PICK D \in SUBSET Tools : t.toolStream \in [D -> RespCall]
  BY <1>1 DEF RespCalls
<1> QED BY <1>2 DEF RespCall

\* closeItem closes the item with what was streamed of it ...
LEMMA TextCloses ==
  ASSUME NEW t, RespRight(t), NEW n, RespText(t, n)
  PROVE  LET u == Responses!closeItem(t) IN
         RespText(u, n) /\ u.collected = t.collected /\ u.toolStream = t.toolStream
<1>1. CASE t.item = -1
  <2>1. Responses!closeItem(t) = t
    BY <1>1 DEF Responses!closeItem, Responses!None
  <2> QED BY <2>1
<1>2. CASE t.item # -1
  <2> DEFINE e == [event |-> "done", id |-> t.item, type |-> t.type,
                   text |-> t.text, status |-> Responses!Status(t.finishReason)]
             u == Responses!closeItem(t)
             l == Len(t.wire)
  <2>1. RespShaped(t) /\ t.wire \in Seq(RespEvent) /\ l \in Nat
    BY DEF RespRight, RespTyped
  <2>2. u = [[t EXCEPT !.item = -1] EXCEPT !.wire = Append(@, e)]
    BY <1>2 DEF Responses!closeItem, Responses!None, Responses!Write
  <2>3. e.event = "done" /\ e.id = t.item /\ e.text = t.text
    OBVIOUS
  <2> HIDE DEF e, u
  <2>4. /\ u.item = -1 /\ u.wire = Append(t.wire, e)
        /\ u.toolStream = t.toolStream /\ u.collected = t.collected
    BY <2>1, <2>2 DEF RespShaped
  <2>5. e \in RespEvent
    <3>1. RespRight(u) /\ u.wire = Append(t.wire, e)
      BY <2>4, RespCloses DEF u
    <3>2. u.wire \in Seq(RespEvent)
      BY <3>1 DEF RespRight, RespTyped
    <3>3. u.wire[l + 1] = e /\ l + 1 \in DOMAIN u.wire
      BY <2>1, <3>1, <3>2
    <3> QED BY <3>2, <3>3
  <2>6. WireText(u.wire, n) /\ \A id : StreamedNow(u.wire, id) = StreamedNow(t.wire, id)
    <3>1. WireText(t.wire, n) /\ Lists(e.text, StreamedNow(t.wire, e.id))
      BY <1>2, <2>3 DEF RespText
    <3> QED BY <2>1, <2>3, <2>4, <2>5, <3>1, TextFollowed
  <2>7. Accounted(u.wire, -1, Ids(u.toolStream))
    <3>1. Accounted(t.wire, t.item, Ids(t.toolStream)) /\ e \in RespEvent
      BY <2>5 DEF RespText
    <3> QED BY <2>1, <2>3, <2>4, <3>1, Accounting
  <2>8. RespText(u, n)
    BY <2>4, <2>6, <2>7 DEF RespText
  <2> QED BY <2>4, <2>8 DEF u
<1> QED BY <1>1, <1>2

\* ... and openItem opens one of which nothing was.
LEMMA TextOpens ==
  ASSUME NEW t, RespRight(t), t.item = -1, NEW type \in RespTypes, NEW n, RespText(t, n)
  PROVE  LET u == Responses!openItem(t, type) IN
         RespText(u, n) /\ u.collected = t.collected /\ u.toolStream = t.toolStream
<1> DEFINE e == [event |-> "added", id |-> t.itemIndex + 1, type |-> type]
           u == Responses!openItem(t, type)
           m == t.itemIndex + 1
           w == t.wire
           l == Len(w)
<1>1. /\ RespShaped(t) /\ w \in Seq(RespEvent) /\ l \in Nat /\ m \in Nat /\ t.itemIndex \in Int
      /\ \A i \in DOMAIN w : w[i].id \in 0 .. t.itemIndex
  BY DEF RespRight, RespTyped, WireRight
<1>2. u = [[t EXCEPT !.itemIndex = @ + 1, !.item = t.itemIndex + 1,
                     !.type = type, !.text = <<>>,
                     !.stableIDs[type] = t.itemIndex + 1] EXCEPT !.wire = Append(@, e)]
  BY DEF Responses!openItem, Responses!Write
<1>3. e.event = "added" /\ e.id = m
  OBVIOUS
<1> HIDE DEF e, u
<1>4. /\ u.item = m /\ u.wire = Append(w, e) /\ u.text = <<>>
      /\ u.toolStream = t.toolStream /\ u.collected = t.collected
  BY <1>1, <1>2 DEF RespShaped
<1>5. e \in RespEvent
  <2>1. RespRight(u) /\ u.wire = Append(w, e)
    BY <1>4, RespOpens DEF u
  <2>2. u.wire \in Seq(RespEvent)
    BY <2>1 DEF RespRight, RespTyped
  <2>3. u.wire[l + 1] = e /\ l + 1 \in DOMAIN u.wire
    BY <1>1, <2>1, <2>2
  <2> QED BY <2>2, <2>3
<1>7. StreamedNow(w, m) = {}
  <2>1. \A i \in DOMAIN w : w[i].id # m
    BY <1>1
  <2>2. (Len(w) + 1) - 1 = Len(w) /\ DOMAIN w = 1 .. Len(w)
    BY <1>1
  <2> HIDE DEF m
  <2> QED BY <2>1, <2>2 DEF StreamedNow, Streamed, Responses!Is
<1> HIDE DEF w, m
<1>8. WireText(u.wire, n) /\ \A id : StreamedNow(u.wire, id) = StreamedNow(w, id)
  <2>1. WireText(w, n)
    BY DEF RespText, w
  <2> QED BY <1>1, <1>3, <1>4, <1>5, <2>1, TextFollowed
<1>9. Accounted(u.wire, m, Ids(u.toolStream))
  <2>1. Accounted(w, -1, Ids(t.toolStream)) /\ m # -1
    BY <1>1 DEF RespText, w
  <2> QED BY <1>1, <1>3, <1>4, <1>5, <2>1, Accounting
<1>10. RespText(u, n)
  <2>1. Lists(u.text, StreamedNow(u.wire, u.item))
    BY <1>4, <1>7, <1>8, ListsNothing
  <2>2. \A i \in DOMAIN u.toolStream :
          Lists(u.toolStream[i].text, StreamedNow(u.wire, u.toolStream[i].id))
    BY <1>4, <1>8 DEF RespText, w
  <2> QED BY <1>4, <1>8, <1>9, <2>1, <2>2 DEF RespText
<1> QED BY <1>4, <1>10 DEF u

\* An increment lengthens the text of the open item, ...
LEMMA TextWrites ==
  ASSUME NEW t, RespRight(t), t.item # -1, NEW type \in RespTypes, NEW n \in Nat, RespText(t, n),
         NEW at \in Nat, at > n
  PROVE  LET u == TextWritten(t, type, at) IN
         /\ RespText(u, at) /\ u.toolStream = t.toolStream
         /\ \A x \in RespTypes :
              u.collected[x] = IF x = type THEN Append(t.collected[x], at) ELSE t.collected[x]
<1> DEFINE u == TextWritten(t, type, at)
           e == [event |-> "delta", id |-> t.item, text |-> <<at>>]
           w == t.wire
           calls == t.toolStream
<1>1. /\ RespShaped(t) /\ w \in Seq(RespEvent) /\ t.text \in Seq(Nat)
      /\ t.collected \in [message : Seq(Nat), reasoning : Seq(Nat)]
      /\ \A i \in DOMAIN calls : calls[i].id # t.item
  BY DEF RespRight, RespTyped, WireRight, Ids
<1>2. u = [[t EXCEPT !.text = Append(@, at), !.collected[type] = Append(@, at)]
             EXCEPT !.wire = Append(@, e)]
  BY DEF Responses!Write, TextWritten
<1>3. e.event = "delta" /\ e.id = t.item /\ e.text = <<at>>
  OBVIOUS
<1> HIDE DEF e, u
<1>4. /\ u.item = t.item /\ u.wire = Append(w, e) /\ u.toolStream = calls
      /\ u.text = Append(t.text, at)
      /\ u.collected = [t.collected EXCEPT ![type] = Append(@, at)]
  BY <1>1, <1>2 DEF RespShaped
<1>5. \A x \in RespTypes :
        u.collected[x] = IF x = type THEN Append(t.collected[x], at) ELSE t.collected[x]
  <2>1. PICK c \in [message : Seq(Nat), reasoning : Seq(Nat)] : c = t.collected
    BY <1>1
  <2>2. \A x \in RespTypes : [c EXCEPT ![type] = Append(@, at)][x]
          = IF x = type THEN Append(c[x], at) ELSE c[x]
    BY Collecting
  <2> QED BY <1>4, <2>1, <2>2
<1> DEFINE S == RespEvent \union {e}
<1>6. w \in Seq(S) /\ e \in S
  BY <1>1
<1> HIDE DEF S, w, calls
<1>7. /\ WireText(w, n) /\ Lists(t.text, StreamedNow(w, t.item))
      /\ \A i \in DOMAIN calls : Lists(calls[i].text, StreamedNow(w, calls[i].id))
      /\ Accounted(w, t.item, Ids(calls))
  BY DEF RespText, w, calls
<1>8. /\ WireText(u.wire, at)
      /\ \A id : StreamedNow(u.wire, id) = StreamedNow(w, id) \union
                   (IF t.item = id THEN {at} ELSE {})
  BY <1>3, <1>4, <1>6, <1>7, TextStreamed
<1>9. Lists(u.text, StreamedNow(u.wire, u.item))
  <2>1. \A p \in StreamedNow(w, t.item) : p < at
    <3>1. StreamedNow(w, t.item) \subseteq 1 .. n
      BY <1>6, <1>7, StreamedSoFar
    <3> QED BY <3>1
  <2>2. Lists(Append(t.text, at), StreamedNow(w, t.item) \union {at})
    BY <1>1, <1>7, <2>1, ListsAppend
  <2>3. StreamedNow(u.wire, u.item) = StreamedNow(w, t.item) \union {at}
    BY <1>4, <1>8
  <2> QED BY <1>4, <2>2, <2>3
<1>10. \A i \in DOMAIN u.toolStream :
         Lists(u.toolStream[i].text, StreamedNow(u.wire, u.toolStream[i].id))
  <2> SUFFICES ASSUME NEW i \in DOMAIN calls
               PROVE  Lists(calls[i].text, StreamedNow(u.wire, calls[i].id))
    BY <1>4
  <2>1. StreamedNow(u.wire, calls[i].id) = StreamedNow(w, calls[i].id)
    BY <1>1, <1>8 DEF calls
  <2> QED BY <1>7, <2>1
<1>11. Accounted(u.wire, u.item, Ids(u.toolStream))
  BY <1>3, <1>4, <1>6, <1>7, Accounting
<1>12. RespText(u, at)
  BY <1>8, <1>9, <1>10, <1>11 DEF RespText
<1> QED BY <1>4, <1>5, <1>12 DEF u, calls

\* ... a tool call begins with no arguments, ...
LEMMA TextAddsTool ==
  ASSUME NEW t, RespRight(t), t.item = -1, NEW i \in Tools, i \notin DOMAIN t.toolStream,
         NEW n, RespText(t, n)
  PROVE  LET u == Responses!AddTool(t, i) IN
         /\ RespText(u, n) /\ u.collected = t.collected
         /\ DOMAIN u.toolStream = DOMAIN t.toolStream \union {i}
         /\ u.toolStream[i].text = <<>>
         /\ \A j \in DOMAIN t.toolStream : u.toolStream[j] = t.toolStream[j]
<1> DEFINE u == Responses!AddTool(t, i)
           m == t.itemIndex + 1
           e == [event |-> "added", id |-> m, type |-> "function_call"]
           w == t.wire
           more == [j \in DOMAIN t.toolStream \union {i} |->
                      IF j # i THEN t.toolStream[j] ELSE [id |-> m, text |-> <<>>]]
<1>1. /\ RespShaped(t) /\ w \in Seq(RespEvent) /\ m \in Nat /\ t.itemIndex \in Int
      /\ \A k \in DOMAIN w : w[k].id \in 0 .. t.itemIndex
  BY DEF RespRight, RespTyped, WireRight
<1>2. u = [[t EXCEPT !.itemIndex = @ + 1, !.toolStream = more, !.toolOrder = Append(@, i)]
             EXCEPT !.wire = Append(@, e)]
  BY DEF Responses!AddTool, Responses!Write
<1>3. e.event = "added" /\ e.id = m /\ e \in RespEvent
  BY <1>1 DEF RespEvent, ItemTypes
<1>4. /\ DOMAIN more = DOMAIN t.toolStream \union {i}
      /\ more[i].id = m /\ more[i].text = <<>>
      /\ \A j \in DOMAIN t.toolStream : more[j] = t.toolStream[j]
  OBVIOUS
<1>5. StreamedNow(w, m) = {}
  <2>1. \A k \in DOMAIN w : w[k].id # m
    BY <1>1
  <2>2. (Len(w) + 1) - 1 = Len(w) /\ DOMAIN w = 1 .. Len(w)
    BY <1>1
  <2> HIDE DEF m
  <2> QED BY <2>1, <2>2 DEF StreamedNow, Streamed, Responses!Is
<1> HIDE DEF e, more, u
<1>6. /\ u.item = t.item /\ u.wire = Append(w, e) /\ u.toolStream = more
      /\ u.collected = t.collected
  BY <1>1, <1>2 DEF RespShaped
<1> HIDE DEF w, m
<1>7. /\ WireText(w, n) /\ Accounted(w, -1, Ids(t.toolStream))
      /\ \A j \in DOMAIN t.toolStream :
           Lists(t.toolStream[j].text, StreamedNow(w, t.toolStream[j].id))
  BY DEF RespText, w
<1>8. WireText(u.wire, n) /\ \A id : StreamedNow(u.wire, id) = StreamedNow(w, id)
  BY <1>1, <1>3, <1>6, <1>7, TextFollowed
<1>9. \A j \in DOMAIN more : Lists(more[j].text, StreamedNow(u.wire, more[j].id))
  BY <1>4, <1>5, <1>7, <1>8, ListsNothing
<1>10. Accounted(u.wire, -1, Ids(more))
  <2>1. /\ \E j \in DOMAIN Ids(more) : e.id = Ids(more)[j]
        /\ \A j \in DOMAIN Ids(t.toolStream) : j \in DOMAIN Ids(more) /\ Ids(more)[j] = Ids(t.toolStream)[j]
    BY <1>3, <1>4 DEF Ids
  <2> QED BY <1>1, <1>3, <1>6, <1>7, <2>1, Accounting
<1>11. RespText(u, n)
  BY <1>6, <1>8, <1>9, <1>10 DEF RespText
<1> QED BY <1>4, <1>6, <1>11 DEF u

\* ... and an increment lengthens those of its call.
LEMMA TextWritesArguments ==
  ASSUME NEW t, RespRight(t), NEW i \in DOMAIN t.toolStream, NEW n \in Nat, RespText(t, n),
         NEW at \in Nat, at > n
  PROVE  LET u == ArgumentsWritten(t, i, at) IN
         /\ RespText(u, at) /\ u.collected = t.collected
         /\ DOMAIN u.toolStream = DOMAIN t.toolStream
         /\ \A j \in DOMAIN t.toolStream :
              u.toolStream[j].text = IF j = i THEN Append(t.toolStream[j].text, at)
                                     ELSE t.toolStream[j].text
<1> DEFINE u == ArgumentsWritten(t, i, at)
           id == t.toolStream[i].id
           e == [event |-> "delta", id |-> id, text |-> <<at>>]
           calls == t.toolStream
           more == [calls EXCEPT ![i].text = Append(@, at)]
           w == t.wire
<1>1. /\ RespShaped(t) /\ w \in Seq(RespEvent)
      /\ \A j \in DOMAIN calls : calls[j].id # t.item /\ (calls[j].id = id => j = i)
  BY DEF RespRight, RespTyped, WireRight, Ids
<1>2. u = [[t EXCEPT !.toolStream = more] EXCEPT !.wire = Append(@, e)]
  BY DEF Responses!Write, ArgumentsWritten
<1>3. e.event = "delta" /\ e.id = id /\ e.text = <<at>>
  OBVIOUS
<1>4. \A j \in DOMAIN calls : calls[j] \in RespCall
  <2>1. calls \in RespCalls
    BY DEF RespRight, RespTyped
  <2>2. PICK D \in SUBSET Tools : calls \in [D -> RespCall]
    BY <2>1 DEF RespCalls
  <2> QED BY <2>2
<1>5. /\ DOMAIN more = DOMAIN calls
      /\ \A j \in DOMAIN calls : more[j].id = calls[j].id
      /\ \A j \in DOMAIN calls : more[j].text = IF j = i THEN Append(calls[j].text, at)
                                                ELSE calls[j].text
  <2>1. /\ [calls[i] EXCEPT !.text = Append(@, at)].id = calls[i].id
        /\ [calls[i] EXCEPT !.text = Append(@, at)].text = Append(calls[i].text, at)
    BY <1>4, CallGrows
  <2>2. DOMAIN more = DOMAIN calls
    OBVIOUS
  <2>3. more[i] = [calls[i] EXCEPT !.text = Append(@, at)] /\ \A j \in DOMAIN calls : j # i => more[j] = calls[j]
    OBVIOUS
  <2> HIDE DEF more
  <2> QED BY <2>1, <2>2, <2>3
<1> HIDE DEF e, more, u
<1>6. /\ u.item = t.item /\ u.wire = Append(w, e) /\ u.toolStream = more
      /\ u.collected = t.collected /\ u.text = t.text
  BY <1>1, <1>2 DEF RespShaped
<1> DEFINE S == RespEvent \union {e}
<1>7. w \in Seq(S) /\ e \in S
  BY <1>1
<1>8. calls[i].text \in Seq(Nat) /\ \A j \in DOMAIN calls : (calls[j].id = id => j = i) /\ calls[j].id # t.item
  BY <1>1, <1>4 DEF RespCall
<1>16. calls[i].id = id
  OBVIOUS
<1> HIDE DEF S, w, calls, id
<1>9. /\ WireText(w, n) /\ (t.item # -1 => Lists(t.text, StreamedNow(w, t.item)))
      /\ \A j \in DOMAIN calls : Lists(calls[j].text, StreamedNow(w, calls[j].id))
      /\ Accounted(w, t.item, Ids(calls))
  BY DEF RespText, w, calls
<1>10. /\ WireText(u.wire, at)
       /\ \A x : StreamedNow(u.wire, x) = StreamedNow(w, x) \union (IF id = x THEN {at} ELSE {})
  BY <1>3, <1>6, <1>7, <1>9, TextStreamed
<1>11. ASSUME NEW j \in DOMAIN calls PROVE Lists(more[j].text, StreamedNow(u.wire, more[j].id))
  <2>1. CASE j = i
    <3>1. \A p \in StreamedNow(w, id) : p < at
      <4>1. StreamedNow(w, id) \subseteq 1 .. n
        BY <1>7, <1>9, StreamedSoFar
      <4> QED BY <4>1
    <3>2. Lists(Append(calls[i].text, at), StreamedNow(w, id) \union {at})
      BY <1>8, <1>9, <1>16, <3>1, <2>1, ListsAppend
    <3>3. StreamedNow(u.wire, more[j].id) = StreamedNow(w, id) \union {at}
      BY <1>5, <1>10, <1>16, <2>1
    <3> QED BY <1>5, <2>1, <3>2, <3>3
  <2>2. CASE j # i
    <3>1. StreamedNow(u.wire, more[j].id) = StreamedNow(w, calls[j].id)
      BY <1>5, <1>8, <1>10, <2>2
    <3> QED BY <1>5, <1>9, <2>2, <3>1
  <2> QED BY <2>1, <2>2
<1>12. u.item # -1 => Lists(u.text, StreamedNow(u.wire, u.item))
  <2>1. id # t.item /\ i \in DOMAIN calls
    BY <1>8, <1>16 DEF calls
  <2> QED BY <1>6, <1>9, <1>10, <2>1
<1>13. Ids(more) = Ids(calls)
  BY <1>5 DEF Ids
<1>14. Accounted(u.wire, u.item, Ids(u.toolStream))
  BY <1>3, <1>6, <1>7, <1>9, <1>13, Accounting
<1>15. RespText(u, at)
  BY <1>5, <1>6, <1>10, <1>11, <1>12, <1>14 DEF RespText
<1> QED BY <1>5, <1>6, <1>15 DEF u, calls

\* A text or reasoning increment ...
LEMMA TextIncrement ==
  ASSUME NEW t, RespRight(t), NEW type \in RespTypes, NEW n \in Nat, RespText(t, n),
         NEW at \in Nat, at > n
  PROVE  LET u == Responses!Increment(t, type, at) IN
         /\ RespText(u, at) /\ u.toolStream = t.toolStream
         /\ \A x \in RespTypes :
              u.collected[x] = IF x = type THEN Append(t.collected[x], at) ELSE t.collected[x]
<1> DEFINE c == Responses!closeItem(t)
           o == Responses!openItem(c, type)
           v == IF t.item # -1 /\ t.type = type THEN t ELSE o
           u == Responses!Increment(t, type, at)
<1>1. RespRight(c) /\ c.item = -1 /\ c.itemIndex = t.itemIndex
  BY RespCloses
<1>2. RespText(c, n) /\ c.collected = t.collected /\ c.toolStream = t.toolStream
  BY TextCloses
<1>3. u = TextWritten(v, type, at)
  BY DEF Responses!Increment, TextWritten, Responses!None
<1>4. t.itemIndex + 1 \in Nat
  BY DEF RespRight, WireRight
<1> HIDE DEF c, u
<1>5. RespRight(o) /\ o.item = c.itemIndex + 1
  BY <1>1, RespOpens
<1>6. RespText(o, n) /\ o.collected = c.collected /\ o.toolStream = c.toolStream
  BY <1>1, <1>2, TextOpens
<1> HIDE DEF o
<1>7. /\ RespRight(v) /\ v.item # -1 /\ RespText(v, n)
      /\ v.collected = t.collected /\ v.toolStream = t.toolStream
  BY <1>1, <1>2, <1>4, <1>5, <1>6
<1> HIDE DEF v
<1>8. /\ RespText(TextWritten(v, type, at), at) /\ TextWritten(v, type, at).toolStream = v.toolStream
      /\ \A x \in RespTypes : TextWritten(v, type, at).collected[x]
           = IF x = type THEN Append(v.collected[x], at) ELSE v.collected[x]
  BY <1>7, TextWrites
<1> QED BY <1>3, <1>7, <1>8 DEF u

\* ... and a tool increment are kept with what they belong to.
LEMMA TextToolIncrement ==
  ASSUME NEW t, RespRight(t), NEW i \in Tools, NEW n \in Nat, RespText(t, n),
         NEW at \in Nat, at > n
  PROVE  LET u == Responses!ToolIncrement(t, i, at) IN
         /\ RespText(u, at) /\ u.collected = t.collected
         /\ DOMAIN u.toolStream = DOMAIN t.toolStream \union {i}
         /\ u.toolStream[i].text
              = Append(IF i \in DOMAIN t.toolStream THEN t.toolStream[i].text ELSE <<>>, at)
         /\ \A j \in DOMAIN t.toolStream : j # i => u.toolStream[j].text = t.toolStream[j].text
<1> DEFINE c == Responses!closeItem(t)
           o == Responses!AddTool(c, i)
           v == IF i \in DOMAIN t.toolStream THEN c ELSE o
           u == Responses!ToolIncrement(t, i, at)
<1>1. RespRight(c) /\ c.item = -1
  BY RespCloses
<1>2. RespText(c, n) /\ c.collected = t.collected /\ c.toolStream = t.toolStream
  BY TextCloses
<1>3. u = ArgumentsWritten(v, i, at)
  BY DEF Responses!ToolIncrement, ArgumentsWritten
<1> HIDE DEF c, u
<1>4. ASSUME i \notin DOMAIN t.toolStream
      PROVE  /\ RespRight(o) /\ RespText(o, n) /\ o.collected = c.collected
             /\ DOMAIN o.toolStream = DOMAIN c.toolStream \union {i}
             /\ o.toolStream[i].text = <<>>
             /\ \A j \in DOMAIN c.toolStream : o.toolStream[j] = c.toolStream[j]
  <2>1. i \notin DOMAIN c.toolStream
    BY <1>2, <1>4
  <2>2. RespRight(o)
    BY <1>1, <2>1, RespAddsTool
  <2> QED BY <1>1, <1>2, <2>1, <2>2, TextAddsTool
<1> HIDE DEF o
<1>5. /\ RespRight(v) /\ RespText(v, n) /\ v.collected = t.collected
      /\ DOMAIN v.toolStream = DOMAIN t.toolStream \union {i}
      /\ v.toolStream[i].text = IF i \in DOMAIN t.toolStream THEN t.toolStream[i].text ELSE <<>>
      /\ \A j \in DOMAIN t.toolStream : v.toolStream[j] = t.toolStream[j]
  <2>1. CASE i \in DOMAIN t.toolStream
    <3>1. DOMAIN t.toolStream = DOMAIN t.toolStream \union {i}
      BY <2>1
    <3> QED BY <1>1, <1>2, <2>1, <3>1
  <2>2. CASE i \notin DOMAIN t.toolStream
    BY <1>2, <1>4, <2>2
  <2> QED BY <2>1, <2>2
<1> HIDE DEF v
<1>6. i \in DOMAIN v.toolStream
  BY <1>5
<1>7. /\ RespText(ArgumentsWritten(v, i, at), at)
      /\ ArgumentsWritten(v, i, at).collected = v.collected
      /\ DOMAIN ArgumentsWritten(v, i, at).toolStream = DOMAIN v.toolStream
      /\ \A j \in DOMAIN v.toolStream : ArgumentsWritten(v, i, at).toolStream[j].text
           = IF j = i THEN Append(v.toolStream[j].text, at) ELSE v.toolStream[j].text
  BY <1>5, <1>6, TextWritesArguments
<1>8. /\ RespText(u, at) /\ u.collected = t.collected
      /\ DOMAIN u.toolStream = DOMAIN v.toolStream
      /\ \A j \in DOMAIN v.toolStream :
           u.toolStream[j].text = IF j = i THEN Append(v.toolStream[j].text, at) ELSE v.toolStream[j].text
  BY <1>3, <1>5, <1>7
<1>9. u.toolStream[i].text
        = Append(IF i \in DOMAIN t.toolStream THEN t.toolStream[i].text ELSE <<>>, at)
  BY <1>5, <1>6, <1>8
<1>10. \A j \in DOMAIN t.toolStream : j # i => u.toolStream[j].text = t.toolStream[j].text
  BY <1>5, <1>8
<1> QED BY <1>5, <1>8, <1>9, <1>10 DEF u

\* What a handler t has gathered is what has been delivered.
RespGathered(t) ==
  /\ Lists(t.collected.message, Positions("text"))
  /\ Lists(t.collected.reasoning, Positions("reasoning"))
  /\ \A i \in DOMAIN t.toolStream : Lists(t.toolStream[i].text, ToolPositions(i))

RespTextInv ==
  /\ Responses!NothingLost /\ Responses!DoneIsWhatWasStreamed
  /\ phase = "streaming" => RespText(responses, Len(sent)) /\ RespGathered(responses)

\* At the start nothing has been gathered and nothing streamed.
LEMMA TextInit == Init => RespTextInv
<1> SUFFICES ASSUME Init PROVE RespTextInv
  OBVIOUS
<1>1. PICK t : t = responses
  OBVIOUS
<1>2. /\ t.item = -1 /\ t.text = <<>> /\ t.toolStream = <<>> /\ t.wire = <<>>
      /\ t.collected.message = <<>> /\ t.collected.reasoning = <<>>
      /\ phase = "streaming" /\ sent = <<>>
  BY <1>1 DEF Init, StreamInit, Responses!Init, Responses!None
<1>3. /\ DOMAIN t.wire = {} /\ DOMAIN t.toolStream = {} /\ Len(t.wire) = 0
  BY <1>2
<1>4. Responses!NothingLost
  BY <1>2 DEF Responses!NothingLost
<1>5. Responses!DoneIsWhatWasStreamed
  BY <1>1, <1>2, <1>3 DEF Responses!DoneIsWhatWasStreamed, Responses!wire
<1>6. WireText(t.wire, Len(sent))
  BY <1>3 DEF WireText
<1>7. Accounted(t.wire, t.item, Ids(t.toolStream))
  <2>1. 1 .. (Len(t.wire) + 1) - 1 = {}
    BY <1>3
  <2>2. \A id : ~OpenNow(t.wire, id)
    BY <2>1 DEF OpenNow, Responses!Open
  <2> QED BY <2>2 DEF Accounted
<1>8. RespText(t, Len(sent))
  BY <1>2, <1>3, <1>6, <1>7 DEF RespText
<1>9. RespGathered(t)
  <2>1. Positions("text") = {} /\ Positions("reasoning") = {}
    BY <1>2 DEF Positions
  <2> QED BY <1>2, <1>3, <2>1, ListsNothing DEF RespGathered
<1> QED BY <1>1, <1>4, <1>5, <1>8, <1>9 DEF RespTextInv

\* What is right of the text on the wire is what was to be shown, as long as the reply is
\* not over.
LEMMA TextShown ==
  ASSUME NEW u, u = responses', NEW n, WireText(u.wire, n), phase' # "ended"
  PROVE  Responses!DoneIsWhatWasStreamed' /\ Responses!NothingLost'
<1>1. \A i \in DOMAIN u.wire : u.wire[i].event = "done" =>
        Lists(u.wire[i].text,
              {u.wire[j].text[1] : j \in {k \in 1 .. i - 1 : Responses!Is(u.wire, k, "delta", u.wire[i].id)}})
  BY DEF WireText, Streamed
<1>2. \A i, j \in DOMAIN u.wire :
        u.wire[i].event = "delta" /\ u.wire[j].event = "delta" /\ i < j
          => u.wire[i].text[1] < u.wire[j].text[1]
  BY DEF WireText
<1>3. Responses!NothingLost'
  BY DEF Responses!NothingLost
<1> QED BY <1>1, <1>2, <1>3, SameLists DEF Responses!DoneIsWhatWasStreamed, Responses!wire

\* What a delivered event adds to the tool calls.
LEMMA CallDelivery ==
  ASSUME StreamTypeOK, NEW evt \in StreamEvent, Deliver(evt)
  PROVE  /\ \A i : ToolPositions(i)' = ToolPositions(i) \union
                     (IF evt.type = "tool" /\ evt.index = i THEN {Len(sent')} ELSE {})
         /\ \A i : ToolPositions(i) \subseteq 1 .. Len(sent)
<1> DEFINE n == Len(sent')
<1>1. /\ n \in Nat /\ n = Len(sent) + 1 /\ Len(sent) \in Nat /\ sent'[n] = evt
      /\ \A i \in 1 .. Len(sent) : sent'[i] = sent[i]
      /\ Positions("tool") \subseteq 1 .. Len(sent)
      /\ Positions("tool")' = Positions("tool") \union (IF evt.type = "tool" THEN {n} ELSE {})
  BY Delivery
<1> HIDE DEF n
<1> QED BY <1>1 DEF ToolPositions, n

\* An increment is listed with those of its kind.
LEMMA ListsDelivered ==
  ASSUME NEW n \in Nat, NEW seq \in Seq(Nat), NEW P \in SUBSET (1 .. n), Lists(seq, P)
  PROVE  Lists(Append(seq, n + 1), P \union {n + 1})
<1>1. n + 1 \in Nat /\ \A p \in P : p < n + 1
  OBVIOUS
<1> QED BY <1>1, ListsAppend

\* The callback keeps the texts of the Responses handler what has been delivered.
LEMMA TextCallback ==
  ASSUME RespInv, RespTextInv, NEW evt \in StreamEvent, Deliver(evt),
         Responses!Callback(evt, Len(sent'))
  PROVE  RespTextInv'
<1> DEFINE t == responses
           n == Len(sent)
           at == Len(sent')
<1>1. /\ StreamTypeOK /\ phase = "streaming"
  BY SameTools DEF RespInv, Responses!TypeOK, Deliver, DeliverRaw, DeliverAgent, Delivered
<1>2. /\ phase' = "streaming" /\ n \in Nat /\ at = n + 1 /\ at \in Nat /\ at > n
      /\ \A x : Positions(x) \subseteq 1 .. n
      /\ \A x : Positions(x)' = Positions(x) \union (IF evt.type = x THEN {at} ELSE {})
  BY <1>1, Delivery
<1>3. /\ \A i : ToolPositions(i)' = ToolPositions(i) \union
                  (IF evt.type = "tool" /\ evt.index = i THEN {at} ELSE {})
      /\ \A i : ToolPositions(i) \subseteq 1 .. n
  BY <1>1, CallDelivery
<1>4. RespRight(t) /\ RespText(t, n) /\ RespGathered(t)
  BY <1>1 DEF RespInv, RespStreaming, RespTextInv
<1>5. PICK u : u = responses'
  OBVIOUS
<1>6. t.collected.message \in Seq(Nat) /\ t.collected.reasoning \in Seq(Nat)
  BY <1>4 DEF RespRight, RespTyped
<1>7. /\ Lists(t.collected.message, Positions("text"))
      /\ Lists(t.collected.reasoning, Positions("reasoning"))
      /\ \A i \in DOMAIN t.toolStream : Lists(t.toolStream[i].text, ToolPositions(i))
  BY <1>4 DEF RespGathered
<1>8. \A i \in DOMAIN t.toolStream : t.toolStream[i].text \in Seq(Nat)
  BY <1>4, RespCallTyped
<1>9. DOMAIN t.toolStream = {i \in Tools : ToolPositions(i) # {}}
  <2>1. DOMAIN t.toolStream = {t.toolOrder[k] : k \in DOMAIN t.toolOrder}
    BY <1>4 DEF RespRight
  <2>2. InOrderOfArrival(t.toolOrder)
    BY SameTools DEF RespInv, Responses!TypeOK
  <2> QED BY <2>1, <2>2 DEF InOrderOfArrival, ToSet
<1> DEFINE Gathers == /\ Lists(u.collected.message, Positions("text")')
                      /\ Lists(u.collected.reasoning, Positions("reasoning")')
                      /\ \A i \in DOMAIN u.toolStream : Lists(u.toolStream[i].text, ToolPositions(i)')
<1> HIDE DEF t, n, at
<1>10. ASSUME evt.type = "text" PROVE RespText(u, at) /\ Gathers
  <2>1. u = Responses!Increment(t, "message", at)
    BY <1>5, <1>10 DEF Responses!Callback, t, at
  <2>2. "message" \in RespTypes /\ "reasoning" \in RespTypes
    BY DEF RespTypes
  <2>5. /\ RespText(u, at) /\ u.toolStream = t.toolStream
        /\ \A x \in RespTypes :
             u.collected[x] = IF x = "message" THEN Append(t.collected[x], at) ELSE t.collected[x]
    BY <1>2, <1>4, <2>1, <2>2, TextIncrement
  <2>3. /\ RespText(u, at) /\ u.toolStream = t.toolStream
        /\ u.collected["message"] = Append(t.collected["message"], at)
        /\ u.collected["reasoning"] = t.collected["reasoning"]
    BY <2>2, <2>5
  <2>4. Lists(Append(t.collected.message, at), Positions("text") \union {at})
    BY <1>2, <1>6, <1>7, ListsDelivered
  <2> QED BY <1>2, <1>3, <1>7, <1>10, <2>3, <2>4
<1>11. ASSUME evt.type = "reasoning" PROVE RespText(u, at) /\ Gathers
  <2>1. u = Responses!Increment(t, "reasoning", at)
    BY <1>5, <1>11 DEF Responses!Callback, t, at
  <2>2. "message" \in RespTypes /\ "reasoning" \in RespTypes
    BY DEF RespTypes
  <2>5. /\ RespText(u, at) /\ u.toolStream = t.toolStream
        /\ \A x \in RespTypes :
             u.collected[x] = IF x = "reasoning" THEN Append(t.collected[x], at) ELSE t.collected[x]
    BY <1>2, <1>4, <2>1, <2>2, TextIncrement
  <2>3. /\ RespText(u, at) /\ u.toolStream = t.toolStream
        /\ u.collected["reasoning"] = Append(t.collected["reasoning"], at)
        /\ u.collected["message"] = t.collected["message"]
    BY <2>2, <2>5
  <2>4. Lists(Append(t.collected.reasoning, at), Positions("reasoning") \union {at})
    BY <1>2, <1>6, <1>7, ListsDelivered
  <2> QED BY <1>2, <1>3, <1>7, <1>11, <2>3, <2>4
<1>12. ASSUME evt.type = "tool" PROVE RespText(u, at) /\ Gathers
  <2> DEFINE i == evt.index
  <2>1. u = Responses!ToolIncrement(t, i, at)
    BY <1>5, <1>12 DEF Responses!Callback, t, at
  <2>2. i \in Tools
    BY <1>12 DEF StreamEvent
  <2> HIDE DEF i
  <2>3. /\ RespText(u, at) /\ u.collected = t.collected
        /\ DOMAIN u.toolStream = DOMAIN t.toolStream \union {i}
        /\ u.toolStream[i].text
             = Append(IF i \in DOMAIN t.toolStream THEN t.toolStream[i].text ELSE <<>>, at)
        /\ \A j \in DOMAIN t.toolStream : j # i => u.toolStream[j].text = t.toolStream[j].text
    BY <1>2, <1>4, <2>1, <2>2, TextToolIncrement
  <2>4. Lists(u.toolStream[i].text, ToolPositions(i) \union {at})
    <3>1. CASE i \in DOMAIN t.toolStream
      BY <1>2, <1>3, <1>7, <1>8, <2>3, <3>1, ListsDelivered
    <3>2. CASE i \notin DOMAIN t.toolStream
      <4>1. ToolPositions(i) = {}
        BY <1>9, <2>2, <3>2
      <4>2. {} \in SUBSET (1 .. n) /\ <<>> \in Seq(Nat)
        OBVIOUS
      <4>3. Lists(Append(<<>>, at), {} \union {at})
        BY <1>2, <4>2, ListsNothing, ListsDelivered
      <4> QED BY <2>3, <3>2, <4>1, <4>3
    <3> QED BY <3>1, <3>2
  <2>5. \A j \in DOMAIN u.toolStream : Lists(u.toolStream[j].text, ToolPositions(j)')
    <3> SUFFICES ASSUME NEW j \in DOMAIN u.toolStream
                 PROVE  Lists(u.toolStream[j].text, ToolPositions(j)')
      OBVIOUS
    <3>1. CASE j = i
      BY <1>3, <1>12, <2>4, <3>1 DEF i
    <3>2. CASE j # i
      <4>1. ToolPositions(j)' = ToolPositions(j)
        BY <1>3, <3>2 DEF i
      <4> QED BY <1>7, <2>3, <3>2, <4>1
    <3> QED BY <3>1, <3>2
  <2> QED BY <1>2, <1>7, <1>12, <2>3, <2>5
<1>13. ASSUME evt.type = "finish" \/ evt.type = "usage" PROVE RespText(u, at) /\ Gathers
  <2>1. /\ u.wire = t.wire /\ u.item = t.item /\ u.text = t.text
        /\ u.toolStream = t.toolStream /\ u.collected = t.collected
    <3>1. RespShaped(t)
      BY <1>4 DEF RespRight
    <3> QED BY <1>5, <1>13, <3>1 DEF Responses!Callback, RespShaped, t
  <2>2. WireText(u.wire, at)
    <3>1. \A x \in 1 .. n : x \in 1 .. at
      BY <1>2
    <3> QED BY <1>4, <2>1, <3>1 DEF RespText, WireText
  <2>3. RespText(u, at)
    BY <1>4, <2>1, <2>2 DEF RespText
  <2> QED BY <1>2, <1>3, <1>7, <1>13, <2>1, <2>3
<1>14. RespText(u, at) /\ Gathers
  <2>1. evt.type \in {"text", "reasoning", "usage", "tool", "finish"}
    BY DEF StreamEvent
  <2> QED BY <1>10, <1>11, <1>12, <1>13, <2>1
<1>15. Responses!DoneIsWhatWasStreamed' /\ Responses!NothingLost'
  BY <1>2, <1>5, <1>14, TextShown DEF RespText
<1>16. RespText(responses, Len(sent))' /\ RespGathered(responses)'
  BY <1>5, <1>14 DEF RespText, RespGathered, at
<1> QED BY <1>15, <1>16 DEF RespTextInv

\* A failed stream shows no text that was not streamed.
LEMMA TextFailed ==
  ASSUME RespInv, RespTextInv, Fail, Responses!Failed PROVE RespTextInv'
<1> DEFINE e == [event |-> "failed"]
           S == RespEvent \union {e}
<1>1. phase = "streaming" /\ phase' = "failed"
  BY DEF Fail
<1>2. RespRight(responses) /\ RespText(responses, Len(sent))
  BY <1>1 DEF RespInv, RespStreaming, RespTextInv
<1>3. PICK u : u = responses'
  OBVIOUS
<1>4. u.wire = Append(responses.wire, e) /\ responses.wire \in Seq(S) /\ e \in S
  <2>1. RespShaped(responses) /\ responses.wire \in Seq(RespEvent)
    BY <1>2 DEF RespRight, RespTyped
  <2>2. u = [responses EXCEPT !.wire = Append(@, e)]
    BY <1>3 DEF Responses!Failed, Responses!Write
  <2> HIDE DEF e
  <2>3. u.wire = Append(responses.wire, e)
    BY <2>1, <2>2 DEF RespShaped
  <2> QED BY <2>1, <2>3
<1>5. e.event # "delta" /\ e.event # "done"
  OBVIOUS
<1> HIDE DEF e, S
<1>6. WireText(u.wire, Len(sent))
  <2>1. WireText(responses.wire, Len(sent))
    BY <1>2 DEF RespText
  <2> QED BY <1>4, <1>5, <2>1, TextFollowed
<1> QED BY <1>1, <1>3, <1>6, TextShown DEF RespTextInv

\* What a concatenation has where.
LEMMA Joining ==
  ASSUME NEW S, NEW v \in Seq(S), NEW f \in Seq(S), NEW x, x = v \o f
  PROVE  /\ x \in Seq(S) /\ Len(x) = Len(v) + Len(f) /\ DOMAIN x = 1 .. Len(v) + Len(f)
         /\ \A i \in 1 .. Len(v) : x[i] = v[i]
         /\ \A k \in 1 .. Len(f) : x[Len(v) + k] = f[k]
<1>1. v \o f \in Seq(S) /\ Len(v \o f) = Len(v) + Len(f)
  OBVIOUS
<1>2. \A i \in 1 .. Len(v) : (v \o f)[i] = v[i]
  OBVIOUS
<1>3. \A k \in 1 .. Len(f) : (v \o f)[Len(v) + k] = f[k]
  OBVIOUS
<1> QED BY <1>1, <1>2, <1>3

\* closeTools writes that each tool call is done, with its arguments.
LEMMA ToolsDone ==
  ASSUME NEW t, RespRight(t)
  PROVE  LET u == Responses!closeTools(t) IN
         /\ u.wire \in Seq(RespEvent)
         /\ Len(u.wire) = Len(t.wire) + Len(t.toolOrder)
         /\ \A i \in 1 .. Len(t.wire) : u.wire[i] = t.wire[i]
         /\ \A k \in 1 .. Len(t.toolOrder) :
              /\ u.wire[Len(t.wire) + k].event = "done"
              /\ u.wire[Len(t.wire) + k].id = t.toolStream[t.toolOrder[k]].id
              /\ u.wire[Len(t.wire) + k].text = t.toolStream[t.toolOrder[k]].text
         /\ u.collected = t.collected /\ u.toolStream = t.toolStream
         /\ u.toolOrder = t.toolOrder
<1> DEFINE u == Responses!closeTools(t)
           status == IF t.finishReason \in {"length", "max_tokens", "incomplete"}
                     THEN "incomplete" ELSE "completed"
           done(k) == [event |-> "done", id |-> t.toolStream[t.toolOrder[k]].id,
                       type |-> "function_call",
                       text |-> t.toolStream[t.toolOrder[k]].text, status |-> status]
           f == [k \in DOMAIN t.toolOrder |-> done(k)]
           S == RespEvent \union {done(k) : k \in DOMAIN t.toolOrder}
<1>1. RespShaped(t) /\ t.wire \in Seq(RespEvent) /\ t.toolOrder \in Seq(Tools)
  BY DEF RespRight, RespTyped
<1>2. u = [t EXCEPT !.wire = t.wire \o f]
  BY <1>1 DEF Responses!closeTools, RespShaped
<1>4. \A k \in DOMAIN t.toolOrder :
        /\ done(k).event = "done" /\ done(k).id = t.toolStream[t.toolOrder[k]].id
        /\ done(k).text = t.toolStream[t.toolOrder[k]].text
  OBVIOUS
<1>5. \A k \in DOMAIN t.toolOrder : done(k) \in S
  OBVIOUS
<1>6. t.wire \in Seq(S) /\ DOMAIN t.toolOrder = 1 .. Len(t.toolOrder) /\ Len(t.toolOrder) \in Nat
  BY <1>1
<1> HIDE DEF done, S, status
<1>7. f \in Seq(S) /\ Len(f) = Len(t.toolOrder) /\ \A k \in 1 .. Len(t.toolOrder) : f[k] = done(k)
  BY <1>5, <1>6
<1> HIDE DEF f, u
<1>8. /\ u.wire = t.wire \o f /\ u.collected = t.collected
      /\ u.toolStream = t.toolStream /\ u.toolOrder = t.toolOrder
  BY <1>1, <1>2 DEF RespShaped
<1> HIDE DEF u
<1>9. /\ Len(u.wire) = Len(t.wire) + Len(f)
      /\ \A i \in 1 .. Len(t.wire) : u.wire[i] = t.wire[i]
      /\ \A k \in 1 .. Len(f) : u.wire[Len(t.wire) + k] = f[k]
  <2>1. PICK x : x = u.wire
    OBVIOUS
  <2>2. PICK v \in Seq(S) : v = t.wire
    BY <1>6
  <2>3. x = v \o f
    BY <1>8, <2>1, <2>2
  <2>4. /\ Len(x) = Len(v) + Len(f)
        /\ \A i \in 1 .. Len(v) : x[i] = v[i]
        /\ \A k \in 1 .. Len(f) : x[Len(v) + k] = f[k]
    <3>1. f \in Seq(S)
      BY <1>7
    <3> QED BY <2>3, <3>1, Joining
  <2> QED BY <2>1, <2>2, <2>4
<1>10. u.wire \in Seq(RespEvent)
  BY RespClosesTools DEF u
<1> QED BY <1>4, <1>6, <1>7, <1>8, <1>9, <1>10 DEF u

\* The reply object: reasoning and text, if there were any, and the tool calls.
OutputIs(out, u, a, b) ==
  /\ DOMAIN out = 1 .. a + b + Len(u.toolOrder)
  /\ a = 1 => out[1].type = "reasoning" /\ out[1].text = u.collected.reasoning
  /\ b = 1 => out[a + 1].type = "message" /\ out[a + 1].text = u.collected.message
  /\ \A k \in 1 .. Len(u.toolOrder) :
       /\ out[a + b + k].type = "function_call"
       /\ out[a + b + k].text = u.toolStream[u.toolOrder[k]].text

\* That is what responseObject puts into it (responses.go: responseObject).
LEMMA Output ==
  ASSUME NEW u, NEW out, out = Responses!responseObject(u).output, NEW a, NEW b,
         u.collected.message \in Seq(Nat), u.collected.reasoning \in Seq(Nat),
         a = IF u.collected.reasoning = <<>> THEN 0 ELSE 1,
         b = IF u.collected.message = <<>> THEN 0 ELSE 1,
         u.toolOrder \in Seq(Tools)
  PROVE  OutputIs(out, u, a, b)
<1> DEFINE item(type) == [id |-> u.stableIDs[type], type |-> type, text |-> u.collected[type]]
           one(type) == IF u.collected[type] = <<>> THEN <<>> ELSE << item(type) >>
           call(k) == [id |-> u.toolStream[u.toolOrder[k]].id, type |-> "function_call",
                       text |-> u.toolStream[u.toolOrder[k]].text]
           calls == [k \in DOMAIN u.toolOrder |-> call(k)]
           S == {item("reasoning"), item("message")} \union {call(k) : k \in DOMAIN u.toolOrder}
           A == one("reasoning")
           B == one("message")
<1>1. out = A \o B \o calls
  BY DEF Responses!responseObject
<1>2. item("reasoning") \in S /\ item("message") \in S /\ \A k \in DOMAIN u.toolOrder : call(k) \in S
  OBVIOUS
<1>3. DOMAIN u.toolOrder = 1 .. Len(u.toolOrder) /\ Len(u.toolOrder) \in Nat
  OBVIOUS
<1>4. /\ item("reasoning").type = "reasoning" /\ item("reasoning").text = u.collected.reasoning
      /\ item("message").type = "message" /\ item("message").text = u.collected.message
  OBVIOUS
<1>5. \A k : call(k).type = "function_call" /\ call(k).text = u.toolStream[u.toolOrder[k]].text
  OBVIOUS
<1> HIDE DEF item, call, S
<1>6. A \in Seq(S) /\ Len(A) = a /\ (a = 1 => A[1] = item("reasoning")) /\ a \in {0, 1}
  BY <1>2
<1>7. B \in Seq(S) /\ Len(B) = b /\ (b = 1 => B[1] = item("message")) /\ b \in {0, 1}
  BY <1>2
<1>8. /\ calls \in Seq(S) /\ Len(calls) = Len(u.toolOrder)
      /\ \A k \in 1 .. Len(u.toolOrder) : calls[k] = call(k)
  BY <1>2, <1>3
<1> HIDE DEF A, B, calls
<1>9. PICK AB : AB = A \o B
  OBVIOUS
<1>10. /\ AB \in Seq(S) /\ Len(AB) = Len(A) + Len(B)
       /\ \A i \in 1 .. Len(A) : AB[i] = A[i]
       /\ \A k \in 1 .. Len(B) : AB[Len(A) + k] = B[k]
  <2>1. A \in Seq(S) /\ B \in Seq(S)
    BY <1>6, <1>7
  <2> QED BY <1>9, <2>1, Joining
<1>11. /\ Len(out) = Len(AB) + Len(calls)
       /\ \A i \in 1 .. Len(AB) : out[i] = AB[i]
       /\ \A k \in 1 .. Len(calls) : out[Len(AB) + k] = calls[k]
       /\ DOMAIN out = 1 .. Len(AB) + Len(calls)
  <2>1. PICK x : x = out
    OBVIOUS
  <2>2. x = AB \o calls
    BY <1>1, <1>9, <2>1
  <2>3. /\ Len(x) = Len(AB) + Len(calls)
        /\ \A i \in 1 .. Len(AB) : x[i] = AB[i]
        /\ \A k \in 1 .. Len(calls) : x[Len(AB) + k] = calls[k]
        /\ DOMAIN x = 1 .. Len(AB) + Len(calls)
    <3>1. AB \in Seq(S) /\ calls \in Seq(S)
      BY <1>8, <1>10
    <3> QED BY <2>2, <3>1, Joining
  <2> QED BY <2>1, <2>3
<1>12. Len(AB) = a + b
  BY <1>6, <1>7, <1>10
<1>13. /\ DOMAIN out = 1 .. a + b + Len(u.toolOrder)
       /\ \A k \in 1 .. Len(u.toolOrder) : out[a + b + k] = calls[k]
  BY <1>8, <1>11, <1>12
<1>14. ASSUME a = 1 PROVE out[1] = item("reasoning")
  <2>1. 1 \in 1 .. Len(AB) /\ 1 \in 1 .. Len(A)
    BY <1>6, <1>7, <1>12, <1>14
  <2> QED BY <1>6, <1>10, <1>11, <1>14, <2>1
<1>15. ASSUME b = 1 PROVE out[a + 1] = item("message")
  <2>1. a + 1 \in 1 .. Len(AB) /\ 1 \in 1 .. Len(B) /\ Len(A) + 1 = a + 1
    BY <1>6, <1>7, <1>12, <1>15
  <2> QED BY <1>7, <1>10, <1>11, <1>15, <2>1
<1>16. a = 1 => out[1].type = "reasoning" /\ out[1].text = u.collected.reasoning
  BY <1>4, <1>14
<1>17. b = 1 => out[a + 1].type = "message" /\ out[a + 1].text = u.collected.message
  BY <1>4, <1>15
<1>18. ASSUME NEW k \in 1 .. Len(u.toolOrder)
       PROVE  /\ out[a + b + k].type = "function_call"
              /\ out[a + b + k].text = u.toolStream[u.toolOrder[k]].text
  <2>1. out[a + b + k] = call(k)
    BY <1>8, <1>13
  <2> QED BY <1>5, <2>1
<1> QED BY <1>13, <1>16, <1>17, <1>18 DEF OutputIs

\* A sequence is empty when it lists no place.
LEMMA ListsEmpty ==
  ASSUME NEW seq \in Seq(Nat), NEW P, Lists(seq, P)
  PROVE  seq = <<>> <=> P = {}
<1>1. {seq[k] : k \in DOMAIN seq} = P /\ DOMAIN seq = 1 .. Len(seq) /\ Len(seq) \in Nat
  BY DEF Lists, ToSet
<1>2. P = {} <=> DOMAIN seq = {}
  BY <1>1
<1>3. DOMAIN seq = {} => Len(seq) = 0
  <2>1. Len(seq) # 0 => 1 \in 1 .. Len(seq)
    BY <1>1
  <2> QED BY <1>1, <2>1
<1>4. Len(seq) = 0 => seq = <<>>
  OBVIOUS
<1>5. seq = <<>> => DOMAIN seq = {}
  OBVIOUS
<1> QED BY <1>2, <1>3, <1>4, <1>5

\* An item is done once on a wire that goes item by item.
LEMMA DoneOnce ==
  ASSUME NEW w, Responses!ItemByItem(w), DOMAIN w \subseteq Nat, NEW id,
         NEW j \in DOMAIN w, NEW k \in DOMAIN w,
         Responses!Is(w, j, "done", id), Responses!Is(w, k, "done", id), 1 <= j, j < k
  PROVE  FALSE
<1>1. w[k].event = "done" /\ w[k].id = id
  BY DEF Responses!Is
<1>2. Responses!Open(w, k, w[k].id)
  BY <1>1 DEF Responses!ItemByItem
<1>3. j \in 1 .. k - 1 /\ 1 .. k - 1 = 1 .. k - 1
  <2>1. j \in Nat /\ k \in Nat
    OBVIOUS
  <2> QED BY <2>1
<1> QED BY <1>1, <1>2, <1>3 DEF Responses!Open

\* Every item is done, once.
AllDone(w) ==
  \A i \in DOMAIN w : w[i].event = "added" =>
    \E j \in DOMAIN w : \A k \in DOMAIN w : Responses!Is(w, k, "done", w[i].id) <=> k = j

\* What closeTools leaves, with what follows it, is what was streamed: items are done, and
\* with all of it.
LEMMA TextEnds ==
  ASSUME NEW t, RespRight(t), t.item = -1, NEW n, RespText(t, n),
         NEW u, u = Responses!closeTools(t), NEW e, e.event \notin {"added", "delta", "done"},
         NEW v, v = Append(u.wire, e), Responses!ItemByItem(v)
  PROVE  WireText(v, n) /\ AllDone(v)
<1> DEFINE l == Len(t.wire)
           m == Len(t.toolOrder)
           S == RespEvent \union {e}
<1>1. /\ t.wire \in Seq(RespEvent) /\ l \in Nat /\ DOMAIN t.wire = 1 .. l
      /\ t.toolOrder \in Seq(Tools) /\ m \in Nat /\ DOMAIN t.toolOrder = 1 .. m
      /\ DOMAIN t.toolStream = {t.toolOrder[k] : k \in DOMAIN t.toolOrder}
  BY DEF RespRight, RespTyped
<1>2. /\ u.wire \in Seq(RespEvent) /\ Len(u.wire) = l + m
      /\ \A i \in 1 .. l : u.wire[i] = t.wire[i]
      /\ \A k \in 1 .. m : /\ u.wire[l + k].event = "done"
                           /\ u.wire[l + k].id = t.toolStream[t.toolOrder[k]].id
                           /\ u.wire[l + k].text = t.toolStream[t.toolOrder[k]].text
  BY ToolsDone
<1>3. u.wire \in Seq(S) /\ e \in S
  BY <1>2
<1> HIDE DEF S, l, m
<1>4. /\ v \in Seq(S) /\ DOMAIN v = 1 .. l + m + 1 /\ Len(v) = l + m + 1
      /\ \A i \in 1 .. l + m : v[i] = u.wire[i]
      /\ v[l + m + 1] = e
  <2>1. PICK w \in Seq(S) : w = u.wire
    BY <1>3
  <2>2. v = Append(w, e)
    BY <2>1
  <2>3. Len(w) = l + m /\ DOMAIN w = 1 .. l + m
    BY <1>2, <2>1
  <2>4. /\ Append(w, e) \in Seq(S) /\ DOMAIN Append(w, e) = DOMAIN w \union {Len(w) + 1}
        /\ Append(w, e)[Len(w) + 1] = e /\ \A i \in DOMAIN w : Append(w, e)[i] = w[i]
    BY <1>3, Appending
  <2>5. v \in Seq(S) /\ Len(v) = l + m + 1 /\ DOMAIN v = 1 .. l + m + 1
    <3>1. v \in Seq(S) /\ Len(v) = Len(w) + 1
      BY <1>3, <2>2
    <3> QED BY <2>3, <3>1
  <2> QED BY <2>1, <2>2, <2>3, <2>4, <2>5
<1>5. /\ \A i \in 1 .. l : v[i] = t.wire[i]
      /\ \A i \in l + 1 .. l + m + 1 : i = l + m + 1 \/ \E k \in 1 .. m : i = l + k
      /\ \A k \in 1 .. m : v[l + k] = u.wire[l + k] /\ l + k \in 1 .. l + m + 1
  <2>1. \A i \in 1 .. l : i \in 1 .. l + m
    BY <1>1
  <2>2. \A k \in 1 .. m : l + k \in 1 .. l + m /\ l + k \in 1 .. l + m + 1
    BY <1>1
  <2>3. ASSUME NEW i \in l + 1 .. l + m + 1
        PROVE  i = l + m + 1 \/ \E k \in 1 .. m : i = l + k
    <3>1. i # l + m + 1 => i - l \in 1 .. m /\ i = l + (i - l)
      BY <1>1
    <3> QED BY <3>1
  <2> QED BY <1>2, <1>4, <2>1, <2>2, <2>3
<1>6. \A k \in 1 .. m : t.toolOrder[k] \in DOMAIN t.toolStream
  BY <1>1
<1>7. \A x \in DOMAIN t.toolStream :
        Lists(t.toolStream[x].text, StreamedNow(t.wire, t.toolStream[x].id))
  BY DEF RespText
<1>8. WireText(v, n)
  <2>1. ASSUME NEW i \in l + 1 .. l + m + 1
        PROVE  /\ v[i].event # "delta"
               /\ v[i].event = "done" => Lists(v[i].text, StreamedNow(t.wire, v[i].id))
    <3>1. CASE i = l + m + 1
      BY <1>4, <3>1
    <3>2. ASSUME NEW k \in 1 .. m, i = l + k
          PROVE  /\ v[i].event # "delta" /\ Lists(v[i].text, StreamedNow(t.wire, v[i].id))
      <4>1. v[i] = u.wire[l + k]
        BY <1>5, <3>2
      <4>2. PICK x \in DOMAIN t.toolStream : x = t.toolOrder[k]
        BY <1>6
      <4>3. /\ v[i].event = "done" /\ v[i].id = t.toolStream[x].id
            /\ v[i].text = t.toolStream[x].text
        BY <1>2, <4>1, <4>2
      <4> QED BY <1>7, <4>3
    <3> QED BY <1>5, <3>1, <3>2
  <2>2. PICK w \in Seq(RespEvent) : w = t.wire
    BY <1>1
  <2>3. Len(w) <= Len(v) /\ Len(w) = l /\ DOMAIN w = 1 .. l
    BY <1>1, <1>4, <2>2 DEF l
  <2>4. \A j \in DOMAIN w : v[j] = w[j]
    BY <1>5, <2>2, <2>3
  <2>7. PICK x \in Seq(S) : x = v
    BY <1>4
  <2>8. Len(w) <= Len(x) /\ \A j \in DOMAIN w : x[j] = w[j]
    BY <2>3, <2>4, <2>7
  <2>5. WireText(w, n)
    BY <2>2 DEF RespText
  <2>6. \A i \in Len(w) + 1 .. Len(v) :
          /\ v[i].event # "delta"
          /\ v[i].event = "done" => Lists(v[i].text, StreamedNow(w, v[i].id))
    BY <1>4, <2>1, <2>2, <2>3
  <2>9. \A i \in Len(w) + 1 .. Len(x) :
          /\ x[i].event # "delta"
          /\ x[i].event = "done" => Lists(x[i].text, StreamedNow(w, x[i].id))
    BY <2>6, <2>7
  <2>10. WireText(x, n)
    BY <2>5, <2>8, <2>9, TextKept
  <2> QED BY <2>7, <2>10
<1>9. ASSUME NEW i \in DOMAIN v, v[i].event = "added"
      PROVE  \E j \in DOMAIN v : Responses!Is(v, j, "done", v[i].id)
  <2> DEFINE id == v[i].id
  <2>1. i \in 1 .. l
    <3>1. i \in 1 .. l \/ i \in l + 1 .. l + m + 1
      BY <1>1, <1>4
    <3>2. i # l + m + 1
      BY <1>4, <1>9
    <3>3. \A k \in 1 .. m : i # l + k
      BY <1>2, <1>5, <1>9
    <3> QED BY <1>5, <3>1, <3>2, <3>3
  <2>2. Responses!Is(t.wire, i, "added", id) /\ (Len(t.wire) + 1) - 1 = l
    BY <1>1, <1>5, <1>9, <2>1 DEF Responses!Is, l
  <2>3. (\E j \in 1 .. l : Responses!Is(t.wire, j, "done", id)) \/ OpenNow(t.wire, id)
    BY <2>1, <2>2 DEF OpenNow, Responses!Open
  <2>4. ASSUME NEW j \in 1 .. l, Responses!Is(t.wire, j, "done", id)
        PROVE  \E k \in DOMAIN v : Responses!Is(v, k, "done", id)
    <3>1. j \in DOMAIN v
      BY <1>1, <1>4
    <3> QED BY <1>5, <2>4, <3>1 DEF Responses!Is
  <2>5. ASSUME OpenNow(t.wire, id)
        PROVE  \E k \in DOMAIN v : Responses!Is(v, k, "done", id)
    <3>1. PICK x \in DOMAIN t.toolStream : id = t.toolStream[x].id
      BY <2>5 DEF RespText, Accounted, Ids
    <3>2. PICK k \in 1 .. m : x = t.toolOrder[k]
      BY <1>1
    <3> HIDE DEF id
    <3>3. v[l + k].event = "done" /\ v[l + k].id = id /\ l + k \in DOMAIN v
      BY <1>2, <1>4, <1>5, <3>1, <3>2
    <3> QED BY <3>3 DEF Responses!Is
  <2> QED BY <2>3, <2>4, <2>5
<1>10. ASSUME NEW i \in DOMAIN v, v[i].event = "added"
       PROVE  \E j \in DOMAIN v : \A k \in DOMAIN v :
                Responses!Is(v, k, "done", v[i].id) <=> k = j
  <2>1. PICK j \in DOMAIN v : Responses!Is(v, j, "done", v[i].id)
    BY <1>9, <1>10
  <2>2. ASSUME NEW k \in DOMAIN v, Responses!Is(v, k, "done", v[i].id) PROVE k = j
    <3>1. /\ DOMAIN v \subseteq Nat /\ 1 <= j /\ 1 <= k /\ j \in Nat /\ k \in Nat
      BY <1>1, <1>4
    <3>2. ~(j < k) /\ ~(k < j)
      BY <2>1, <2>2, <3>1, DoneOnce
    <3> QED BY <3>1, <3>2
  <2>3. \A k \in DOMAIN v : Responses!Is(v, k, "done", v[i].id) => k = j
    BY <2>2
  <2>4. \A k \in DOMAIN v : k = j => Responses!Is(v, k, "done", v[i].id)
    BY <2>1
  <2> QED BY <2>3, <2>4
<1> QED BY <1>8, <1>10 DEF AllDone

\* The items of a type in a reply object are one, with what is at those positions, or none.
ShowsAll(out, type, positions) ==
  LET items == {k \in DOMAIN out : out[k].type = type}
  IN IF positions = {} THEN items = {}
     ELSE \E k \in items : items = {k} /\ Lists(out[k].text, positions)

HasAll(out) ==
  /\ ShowsAll(out, "message", Positions("text"))
  /\ ShowsAll(out, "reasoning", Positions("reasoning"))
  /\ ListsCalls([k \in {i \in DOMAIN out : out[i].type = "function_call"} |-> out[k].text])

\* The reply object shows all that the handler has gathered.
LEMMA OutputHasAll ==
  ASSUME StreamTypeOK, NEW u, NEW out, out = Responses!responseObject(u).output,
         u.collected.message \in Seq(Nat), u.collected.reasoning \in Seq(Nat),
         u.toolOrder \in Seq(Tools), InOrderOfArrival(u.toolOrder), RespGathered(u),
         DOMAIN u.toolStream = {u.toolOrder[k] : k \in DOMAIN u.toolOrder},
         \A i \in DOMAIN u.toolStream : u.toolStream[i].text \in Seq(Nat)
  PROVE  HasAll(out)
<1> DEFINE l == Len(u.toolOrder)
<1>1. PICK a : a = IF u.collected.reasoning = <<>> THEN 0 ELSE 1
  OBVIOUS
<1>2. PICK b : b = IF u.collected.message = <<>> THEN 0 ELSE 1
  OBVIOUS
<1>3. /\ DOMAIN out = 1 .. a + b + l
      /\ a = 1 => out[1].type = "reasoning" /\ out[1].text = u.collected.reasoning
      /\ b = 1 => out[a + 1].type = "message" /\ out[a + 1].text = u.collected.message
      /\ \A k \in 1 .. l : /\ out[a + b + k].type = "function_call"
                           /\ out[a + b + k].text = u.toolStream[u.toolOrder[k]].text
  <2>1. OutputIs(out, u, a, b)
    BY <1>1, <1>2, Output
  <2> QED BY <2>1 DEF OutputIs
<1>4. l \in Nat /\ DOMAIN u.toolOrder = 1 .. l
  OBVIOUS
<1>5. a \in {0, 1} /\ b \in {0, 1}
  BY <1>1, <1>2
<1> HIDE DEF l
<1>6. /\ a = 1 => 1 \in DOMAIN out
      /\ b = 1 => a + 1 \in DOMAIN out
      /\ \A k \in 1 .. l : a + b + k \in DOMAIN out
      /\ \A i \in DOMAIN out : \/ a = 1 /\ i = 1
                               \/ b = 1 /\ i = a + 1
                               \/ \E k \in 1 .. l : i = a + b + k
  <2>1. ASSUME NEW i \in 1 .. a + b + l
        PROVE  (a = 1 /\ i = 1) \/ (b = 1 /\ i = a + 1) \/ \E k \in 1 .. l : i = a + b + k
    <3>1. CASE i > a + b
      <4>1. i - (a + b) \in 1 .. l /\ i = a + b + (i - (a + b))
        BY <1>4, <1>5, <3>1
      <4> QED BY <4>1
    <3>2. CASE i <= a + b
      BY <1>4, <1>5, <3>2
    <3> QED BY <1>4, <1>5, <3>1, <3>2
  <2>2. /\ a = 1 => 1 \in 1 .. a + b + l
        /\ b = 1 => a + 1 \in 1 .. a + b + l
        /\ \A k \in 1 .. l : a + b + k \in 1 .. a + b + l
    BY <1>4, <1>5
  <2> QED BY <1>3, <2>1, <2>2
<1>7. {k \in DOMAIN out : out[k].type = "reasoning"} = IF a = 1 THEN {1} ELSE {}
  BY <1>3, <1>6
<1>8. {k \in DOMAIN out : out[k].type = "message"} = IF b = 1 THEN {a + 1} ELSE {}
  BY <1>3, <1>6
<1>9. {k \in DOMAIN out : out[k].type = "function_call"} = {a + b + k : k \in 1 .. l}
  BY <1>3, <1>6
<1>10. /\ Lists(u.collected.message, Positions("text"))
       /\ Lists(u.collected.reasoning, Positions("reasoning"))
       /\ \A i \in DOMAIN u.toolStream : Lists(u.toolStream[i].text, ToolPositions(i))
  BY DEF RespGathered
<1>11. ShowsAll(out, "reasoning", Positions("reasoning"))
  <2>1. Positions("reasoning") = {} <=> a # 1
    <3>1. u.collected.reasoning = <<>> <=> Positions("reasoning") = {}
      BY <1>10, ListsEmpty
    <3> QED BY <1>1, <3>1
  <2>2. a = 1 => Lists(out[1].text, Positions("reasoning"))
    BY <1>3, <1>10
  <2> QED BY <1>7, <2>1, <2>2 DEF ShowsAll
<1>12. ShowsAll(out, "message", Positions("text"))
  <2>1. Positions("text") = {} <=> b # 1
    <3>1. u.collected.message = <<>> <=> Positions("text") = {}
      BY <1>10, ListsEmpty
    <3> QED BY <1>2, <3>1
  <2>2. b = 1 => Lists(out[a + 1].text, Positions("text"))
    BY <1>3, <1>10
  <2> QED BY <1>8, <2>1, <2>2 DEF ShowsAll
<1>13. ListsCalls([k \in {i \in DOMAIN out : out[i].type = "function_call"} |-> out[k].text])
  <2> DEFINE place == [k \in 1 .. l |-> a + b + k]
             texts == [k \in {i \in DOMAIN out : out[i].type = "function_call"} |-> out[k].text]
  <2>1. /\ \A k \in 1 .. l : place[k] = a + b + k /\ place[k] \in Nat
        /\ \A j, k \in 1 .. l : j < k => place[j] < place[k]
    BY <1>4, <1>5
  <2>2. DOMAIN texts = {place[k] : k \in 1 .. l}
    BY <1>9
  <2>3. \A k \in 1 .. l : texts[place[k]] = u.toolStream[u.toolOrder[k]].text
    BY <1>3, <1>9
  <2>4. \A k \in 1 .. l : u.toolOrder[k] \in DOMAIN u.toolStream
    BY <1>4
  <2> HIDE DEF place, texts
  <2>5. \A k \in 1 .. l : /\ texts[place[k]] \in Seq(Nat)
                          /\ Lists(texts[place[k]], ToolPositions(u.toolOrder[k]))
    BY <1>10, <2>3, <2>4
  <2>6. PICK order \in Seq(Tools) : order = u.toolOrder
    OBVIOUS
  <2>7. ListsCalls(texts)
    <3>1. InOrderOfArrival(order) /\ DOMAIN order = 1 .. l
      BY <1>4, <2>6
    <3>2. \A k \in DOMAIN order : place[k] \in Nat
      BY <2>1, <3>1
    <3>3. \A j, k \in DOMAIN order : j < k => place[j] < place[k]
      BY <2>1, <3>1
    <3>4. DOMAIN texts = {place[k] : k \in DOMAIN order}
      BY <2>2, <3>1
    <3>5. \A k \in DOMAIN order : /\ texts[place[k]] \in Seq(Nat)
                                  /\ Lists(texts[place[k]], ToolPositions(order[k]))
      BY <2>5, <2>6, <3>1
    <3> QED BY <3>1, <3>2, <3>3, <3>4, <3>5, ListingCalls
  <2> QED BY <2>7 DEF texts
<1> QED BY <1>11, <1>12, <1>13 DEF HasAll

\* The end of the stream shows all that was streamed, ...
LEMMA TextEnded ==
  ASSUME RespInv, RespInv', RespTextInv, End, Responses!Ended PROVE RespTextInv'
<1> DEFINE t == responses
           c == Responses!closeItem(t)
           u == Responses!closeTools(c)
           e == Responses!responseObject(u)
<1>1. phase = "streaming" /\ phase' = "ended" /\ UNCHANGED <<channel, sent>> /\ StreamTypeOK
  BY SameTools DEF End, RespInv, Responses!TypeOK
<1>2. RespRight(t) /\ RespText(t, Len(sent)) /\ RespGathered(t)
  BY <1>1 DEF RespInv, RespStreaming, RespTextInv
<1>3. RespRight(c) /\ c.item = -1 /\ KeepsCalls(t, c)
  BY <1>2, RespCloses
<1>4. RespText(c, Len(sent)) /\ c.collected = t.collected /\ c.toolStream = t.toolStream
  BY <1>2, TextCloses
<1>5. responses' = [u EXCEPT !.wire = Append(@, e)]
  BY DEF Responses!Ended, Responses!Write
<1>6. e.event \notin {"added", "delta", "done"}
  BY DEF Responses!responseObject
<1>7. RespShaped(u)
  <2> HIDE DEF c
  <2> QED BY <1>3, RespClosesTools
<1>8. u.collected = t.collected /\ u.toolStream = t.toolStream /\ u.toolOrder = t.toolOrder
  <2> HIDE DEF c
  <2>1. u.collected = c.collected /\ u.toolStream = c.toolStream /\ u.toolOrder = c.toolOrder
    BY <1>3, ToolsDone
  <2> QED BY <1>3, <1>4, <2>1 DEF KeepsCalls
<1> HIDE DEF c, u, e
<1>9. PICK v : v = Append(u.wire, e)
  OBVIOUS
<1>10. PICK r : r = responses'
  OBVIOUS
<1>11. r.wire = v
  BY <1>5, <1>7, <1>9, <1>10 DEF RespShaped
<1>12. Responses!ItemByItem(v)
  <2>1. Responses!Framed'
    BY DEF RespInv
  <2> QED BY <1>10, <1>11, <2>1 DEF Responses!Framed, Responses!wire
<1>13. WireText(v, Len(sent)) /\ AllDone(v)
  <2>1. u = Responses!closeTools(c)
    BY DEF u
  <2>2. PICK w : w = u
    OBVIOUS
  <2>3. PICK x : x = c
    OBVIOUS
  <2>4. PICK f : f = e
    OBVIOUS
  <2>5. RespRight(x) /\ x.item = -1 /\ RespText(x, Len(sent)) /\ w = Responses!closeTools(x)
    BY <1>3, <1>4, <2>1, <2>2, <2>3
  <2>6. f.event \notin {"added", "delta", "done"} /\ v = Append(w.wire, f)
    BY <1>6, <1>9, <2>2, <2>4
  <2> QED BY <1>12, <2>5, <2>6, TextEnds
<1>14. Responses!DoneIsWhatWasStreamed'
  <2>1. \A i \in DOMAIN r.wire : r.wire[i].event = "done" =>
          Lists(r.wire[i].text,
                {r.wire[j].text[1] :
                   j \in {k \in 1 .. i - 1 : Responses!Is(r.wire, k, "delta", r.wire[i].id)}})
    BY <1>11, <1>13 DEF WireText, Streamed
  <2>2. \A i, j \in DOMAIN r.wire :
          r.wire[i].event = "delta" /\ r.wire[j].event = "delta" /\ i < j
            => r.wire[i].text[1] < r.wire[j].text[1]
    BY <1>11, <1>13 DEF WireText
  <2>3. \A i \in DOMAIN r.wire : r.wire[i].event = "added" =>
          \E j \in DOMAIN r.wire : \A k \in DOMAIN r.wire :
            Responses!Is(r.wire, k, "done", r.wire[i].id) <=> k = j
    BY <1>11, <1>13 DEF AllDone
  <2>4. \A i \in DOMAIN responses'.wire : responses'.wire[i].event = "done" =>
          Responses!Lists(responses'.wire[i].text,
            {responses'.wire[j].text[1] :
               j \in {k \in 1 .. i - 1 : Responses!Is(responses'.wire, k, "delta", responses'.wire[i].id)}})
    BY <1>10, <2>1, SameLists
  <2>5. \A i, j \in DOMAIN responses'.wire :
          responses'.wire[i].event = "delta" /\ responses'.wire[j].event = "delta" /\ i < j
            => responses'.wire[i].text[1] < responses'.wire[j].text[1]
    BY <1>10, <2>2
  <2>6. \A i \in DOMAIN responses'.wire : responses'.wire[i].event = "added" =>
          \E j \in DOMAIN responses'.wire : \A k \in DOMAIN responses'.wire :
            Responses!Is(responses'.wire, k, "done", responses'.wire[i].id) <=> k = j
    BY <1>10, <2>3
  <2> QED BY <2>4, <2>5, <2>6, Zenon DEF Responses!DoneIsWhatWasStreamed, Responses!wire
<1>15. HasAll(e.output)
  <2>1. /\ u.collected.message \in Seq(Nat) /\ u.collected.reasoning \in Seq(Nat)
        /\ u.toolOrder \in Seq(Tools)
        /\ DOMAIN u.toolStream = {u.toolOrder[k] : k \in DOMAIN u.toolOrder}
    BY <1>2, <1>8 DEF RespRight, RespTyped
  <2>2. InOrderOfArrival(u.toolOrder)
    BY <1>8, SameTools DEF RespInv, Responses!TypeOK
  <2>3. RespGathered(u)
    BY <1>2, <1>8 DEF RespGathered
  <2>4. \A i \in DOMAIN u.toolStream : u.toolStream[i].text \in Seq(Nat)
    BY <1>2, <1>8, RespCallTyped
  <2>5. PICK out : out = e.output
    OBVIOUS
  <2>6. out = Responses!responseObject(u).output
    BY <2>5 DEF e
  <2>7. HasAll(out)
    BY <1>1, <2>1, <2>2, <2>3, <2>4, <2>6, OutputHasAll
  <2> QED BY <2>5, <2>7
<1>16. Last(r.wire) = e
  <2>1. PICK w \in Seq(RespEvent) : w = u.wire
    <3>1. u.wire \in Seq(RespEvent)
      BY <1>3, ToolsDone DEF u
    <3> QED BY <3>1
  <2>2. v = Append(w, e) /\ w \in Seq(RespEvent \union {e}) /\ e \in RespEvent \union {e}
    BY <1>9, <2>1
  <2>3. Len(v) = Len(w) + 1 /\ v[Len(w) + 1] = e
    BY <2>2
  <2> QED BY <1>11, <2>3 DEF Last
<1>17. PICK out : out = e.output
  OBVIOUS
<1>18. /\ ShowsAll(out, "message", Positions("text"))
       /\ ShowsAll(out, "reasoning", Positions("reasoning"))
       /\ ListsCalls([k \in {i \in DOMAIN out : out[i].type = "function_call"} |-> out[k].text])
  BY <1>15, <1>17 DEF HasAll
<1>19. /\ ShowsAll(out, "message", Responses!Positions("text")')
       /\ ShowsAll(out, "reasoning", Responses!Positions("reasoning")')
       /\ Responses!ListsCalls([k \in {i \in DOMAIN out : out[i].type = "function_call"}
                                  |-> out[k].text])'
  <2>1. \A type : Responses!Positions(type)' = Positions(type)
    BY <1>1, SameTools DEF Positions
  <2>2. \A i : Responses!ToolPositions(i)' = ToolPositions(i)
    BY <1>1, SameTools DEF ToolPositions, Positions
  <2>3. PICK texts : texts = [k \in {i \in DOMAIN out : out[i].type = "function_call"}
                                |-> out[k].text]
    OBVIOUS
  <2>4. ListsCalls(texts)
    BY <1>18, <2>3
  <2>5. Responses!ListsCalls(texts)'
    BY <2>2, <2>4, SameLists DEF ListsCalls, Responses!ListsCalls
  <2> QED BY <1>18, <2>1, <2>3, <2>5
<1>20. Responses!NothingLost'
  <2>1. Last(responses'.wire).output = out /\ Responses!Last(responses'.wire).output = out
    BY <1>10, <1>16, <1>17 DEF Last, Responses!Last
  <2> QED BY <1>19, <2>1, SameLists DEF Responses!NothingLost, ShowsAll, Responses!wire
<1> QED BY <1>1, <1>14, <1>20 DEF RespTextInv

\* ... and a stutter nothing else, ...
LEMMA TextUnchanged == RespTextInv /\ UNCHANGED vars => RespTextInv'
<1> SUFFICES ASSUME RespTextInv, UNCHANGED vars PROVE RespTextInv'
  OBVIOUS
<1>1. UNCHANGED <<channel, sent, phase, responses>>
  BY DEF vars, streamVars
<1>2. /\ \A type : /\ Responses!Positions(type)' = Responses!Positions(type)
                   /\ Positions(type)' = Positions(type)
      /\ \A i : /\ Responses!ToolPositions(i)' = Responses!ToolPositions(i)
                /\ ToolPositions(i)' = ToolPositions(i)
  BY <1>1 DEF Responses!Positions, Positions, Responses!ToolPositions, ToolPositions
<1>3. \A texts : Responses!ListsCalls(texts)' <=> Responses!ListsCalls(texts)
  BY <1>2 DEF Responses!ListsCalls
<1>4. Responses!NothingLost'
  BY <1>1, <1>2, <1>3 DEF RespTextInv, Responses!NothingLost, Responses!wire
<1>5. Responses!DoneIsWhatWasStreamed'
  <2>1. Responses!DoneIsWhatWasStreamed
    BY DEF RespTextInv
  <2>2. PICK w : w = responses.wire
    OBVIOUS
  <2>3. \A i \in DOMAIN w : w[i].event = "done" =>
          Responses!Lists(w[i].text,
            {w[j].text[1] : j \in {k \in 1 .. i - 1 : Responses!Is(w, k, "delta", w[i].id)}})
    BY <2>1, <2>2 DEF Responses!DoneIsWhatWasStreamed, Responses!wire
  <2>4. \A i, j \in DOMAIN w :
          w[i].event = "delta" /\ w[j].event = "delta" /\ i < j => w[i].text[1] < w[j].text[1]
    BY <2>1, <2>2 DEF Responses!DoneIsWhatWasStreamed, Responses!wire
  <2>5. phase = "ended" => AllDone(w)
    BY <2>1, <2>2 DEF Responses!DoneIsWhatWasStreamed, Responses!wire, AllDone
  <2>6. w = responses'.wire /\ phase' = phase
    BY <1>1, <2>2
  <2>7. \A i \in DOMAIN responses'.wire : responses'.wire[i].event = "done" =>
          Responses!Lists(responses'.wire[i].text,
            {responses'.wire[j].text[1] :
               j \in {k \in 1 .. i - 1 : Responses!Is(responses'.wire, k, "delta", responses'.wire[i].id)}})
    BY <2>3, <2>6
  <2>8. \A i, j \in DOMAIN responses'.wire :
          responses'.wire[i].event = "delta" /\ responses'.wire[j].event = "delta" /\ i < j
            => responses'.wire[i].text[1] < responses'.wire[j].text[1]
    BY <2>4, <2>6
  <2>9. phase' = "ended" => AllDone(responses'.wire)
    BY <2>5, <2>6
  <2>10. phase' = "ended" =>
           \A i \in DOMAIN responses'.wire : responses'.wire[i].event = "added" =>
             \E j \in DOMAIN responses'.wire : \A k \in DOMAIN responses'.wire :
               Responses!Is(responses'.wire, k, "done", responses'.wire[i].id) <=> k = j
    BY <2>9 DEF AllDone
  <2> QED BY <2>7, <2>8, <2>10, Zenon DEF Responses!DoneIsWhatWasStreamed, Responses!wire
<1>6. phase' = "streaming" => RespText(responses, Len(sent))' /\ RespGathered(responses)'
  BY <1>1, <1>2 DEF RespTextInv, RespText, RespGathered
<1> QED BY <1>4, <1>5, <1>6 DEF RespTextInv

\* ... so that the Responses handler never loses a text.
LEMMA TextNext == RespInv /\ RespTextInv /\ [Next]_vars => RespTextInv'
<1> SUFFICES ASSUME RespInv, RespTextInv, [Next]_vars PROVE RespTextInv'
  OBVIOUS
<1>1. RespInv'
  BY RespNext
<1>2. CASE Callback
  <2>1. PICK evt \in StreamEvent : Deliver(evt) /\ Responses!Callback(evt, Len(sent'))
    BY <1>2 DEF Callback
  <2> QED BY <2>1, TextCallback
<1>3. CASE Failed
  BY <1>3, TextFailed DEF Failed
<1>4. CASE Ended
  BY <1>1, <1>4, TextEnded DEF Ended
<1>5. CASE UNCHANGED vars
  BY <1>5, TextUnchanged
<1> QED BY <1>2, <1>3, <1>4, <1>5 DEF Next

\* Wire w of the Anthropic handler carries these positions as increments of a type.
Carries(w, type, positions) ==
  /\ \A i \in DOMAIN w : w[i].event = "delta" /\ w[i].type = type =>
       \E at \in positions : w[i].payload = <<at>>
  /\ \A at \in positions : \E i \in DOMAIN w :
       w[i].event = "delta" /\ w[i].type = type /\ w[i].payload = <<at>>
  /\ \A i, j \in DOMAIN w :
       /\ w[i].event = "delta" /\ w[i].type = type
       /\ w[j].event = "delta" /\ w[j].type = type
       /\ i < j
       => w[i].payload[1] < w[j].payload[1]

\* Events of other kinds or types may follow.
LEMMA CarriesKept ==
  ASSUME NEW S, NEW w \in Seq(S), NEW R, NEW v \in Seq(R), Len(w) <= Len(v),
         \A j \in DOMAIN w : v[j] = w[j], NEW type, NEW positions, Carries(w, type, positions),
         \A i \in Len(w) + 1 .. Len(v) : ~(v[i].event = "delta" /\ v[i].type = type)
  PROVE  Carries(v, type, positions)
<1>1. ASSUME NEW i \in DOMAIN v, v[i].event = "delta", v[i].type = type
      PROVE  i \in DOMAIN w
  <2>1. Len(w) \in Nat /\ Len(v) \in Nat /\ DOMAIN w = 1 .. Len(w) /\ DOMAIN v = 1 .. Len(v)
    OBVIOUS
  <2>2. i \in 1 .. Len(w) \/ i \in Len(w) + 1 .. Len(v)
    BY <2>1
  <2> QED BY <1>1, <2>1, <2>2
<1>2. DOMAIN w \subseteq DOMAIN v
  OBVIOUS
<1>3. \A i \in DOMAIN v : v[i].event = "delta" /\ v[i].type = type =>
        \E at \in positions : v[i].payload = <<at>>
  BY <1>1 DEF Carries
<1>4. \A at \in positions : \E i \in DOMAIN v :
        v[i].event = "delta" /\ v[i].type = type /\ v[i].payload = <<at>>
  BY <1>2 DEF Carries
<1>5. ASSUME NEW i \in DOMAIN v, NEW j \in DOMAIN v, i < j,
             v[i].event = "delta", v[i].type = type, v[j].event = "delta", v[j].type = type
      PROVE  v[i].payload[1] < v[j].payload[1]
  <2>1. i \in DOMAIN w /\ j \in DOMAIN w /\ v[i] = w[i] /\ v[j] = w[j]
    BY <1>1, <1>5
  <2> QED BY <1>5, <2>1 DEF Carries
<1> QED BY <1>3, <1>4, <1>5 DEF Carries

\* An increment that is carried adds its position.
LEMMA CarriesMore ==
  ASSUME NEW S, NEW w \in Seq(S), NEW type, NEW n \in Nat, NEW positions \in SUBSET (1 .. n),
         Carries(w, type, positions), NEW e \in S, e.event = "delta", e.type = type,
         NEW at \in Nat, at > n, e.payload = <<at>>
  PROVE  Carries(Append(w, e), type, positions \union {at})
<1> DEFINE l == Len(w)
           v == Append(w, e)
<1>1. /\ l \in Nat /\ DOMAIN w = 1 .. l /\ DOMAIN v = DOMAIN w \union {l + 1}
      /\ v[l + 1] = e /\ \A i \in DOMAIN w : v[i] = w[i]
  BY Appending
<1>2. e.payload[1] = at
  OBVIOUS
<1> HIDE DEF l, v
<1>3. \A i \in DOMAIN v : v[i].event = "delta" /\ v[i].type = type =>
        \E x \in positions \union {at} : v[i].payload = <<x>>
  BY <1>1 DEF Carries
<1>4. \A x \in positions \union {at} : \E i \in DOMAIN v :
        v[i].event = "delta" /\ v[i].type = type /\ v[i].payload = <<x>>
  <2>1. \A x \in positions : \E i \in DOMAIN w :
          w[i].event = "delta" /\ w[i].type = type /\ w[i].payload = <<x>>
    BY DEF Carries
  <2>2. l + 1 \in DOMAIN v
    BY <1>1
  <2> QED BY <1>1, <2>1, <2>2
<1>5. ASSUME NEW i \in DOMAIN v, NEW j \in DOMAIN v, i < j,
             v[i].event = "delta", v[i].type = type, v[j].event = "delta", v[j].type = type
      PROVE  v[i].payload[1] < v[j].payload[1]
  <2>1. i \in DOMAIN w /\ v[i] = w[i]
    BY <1>1, <1>5
  <2>2. CASE j \in DOMAIN w
    BY <1>1, <1>5, <2>1, <2>2 DEF Carries
  <2>3. CASE j = l + 1
    <3>1. PICK x \in positions : w[i].payload = <<x>>
      BY <1>5, <2>1 DEF Carries
    <3>2. w[i].payload[1] = x /\ x \in Nat /\ x < at
      BY <3>1
    <3> QED BY <1>1, <1>2, <2>1, <2>3, <3>2
  <2> QED BY <1>1, <2>2, <2>3
<1> QED BY <1>3, <1>4, <1>5 DEF Carries, v

\* Between increments the handler only stops and starts blocks of text or reasoning.
Blocks(w, v) ==
  /\ w \in Seq(AnthEvent) /\ v \in Seq(AnthEvent) /\ Len(w) <= Len(v)
  /\ \A i \in DOMAIN w : v[i] = w[i]
  /\ \A i \in Len(w) + 1 .. Len(v) :
       /\ v[i].event # "delta"
       /\ v[i].event = "start" => v[i].type # "tool_use"

\* closeBlock stops the block that is open.
LEMMA TextStops ==
  ASSUME NEW t, AnthRight(t)
  PROVE  Blocks(t.wire, Anthropic!closeBlock(t).wire)
<1> DEFINE e == [event |-> "stop", index |-> t.blockIndex]
           u == Anthropic!closeBlock(t)
<1>1. AnthShaped(t) /\ t.wire \in Seq(AnthEvent) /\ AnthRight(u)
  BY AnthCloses DEF AnthRight, AnthTyped
<1>2. CASE ~t.blockOpen
  <2>1. u = t
    BY <1>2 DEF Anthropic!closeBlock
  <2>2. PICK w \in Seq(AnthEvent) : w = t.wire
    BY <1>1
  <2>3. \A i \in Len(w) + 1 .. Len(w) : FALSE
    OBVIOUS
  <2>4. Blocks(w, w)
    BY <2>3 DEF Blocks
  <2> QED BY <2>1, <2>2, <2>4
<1>3. CASE t.blockOpen
  <2>1. u = [[t EXCEPT !.blockOpen = FALSE] EXCEPT !.wire = Append(@, e)]
    BY <1>3 DEF Anthropic!closeBlock, Anthropic!Write
  <2>2. e.event = "stop"
    OBVIOUS
  <2> HIDE DEF e, u
  <2>3. u.wire = Append(t.wire, e)
    BY <1>1, <2>1 DEF AnthShaped
  <2>4. u.wire \in Seq(AnthEvent)
    BY <1>1 DEF AnthRight, AnthTyped
  <2>5. PICK w \in Seq(AnthEvent) : w = t.wire
    BY <1>1
  <2>6. PICK v \in Seq(AnthEvent) : v = u.wire
    BY <2>4
  <2>7. /\ Len(v) = Len(w) + 1 /\ v[Len(w) + 1] = e /\ \A i \in DOMAIN w : v[i] = w[i]
        /\ Len(w) \in Nat
    <3>1. v = Append(w, e) /\ w \in Seq(AnthEvent \union {e}) /\ e \in AnthEvent \union {e}
      BY <2>3, <2>5, <2>6
    <3>2. /\ Append(w, e)[Len(w) + 1] = e /\ \A i \in DOMAIN w : Append(w, e)[i] = w[i]
      BY <3>1, Appending
    <3> QED BY <3>1, <3>2
  <2>8. \A i \in Len(w) + 1 .. Len(v) : v[i] = e
    BY <2>7
  <2>9. Blocks(w, v)
    BY <2>2, <2>7, <2>8 DEF Blocks
  <2> QED BY <2>5, <2>6, <2>9 DEF u
<1> QED BY <1>2, <1>3

\* openBlock starts one.
LEMMA TextStarts ==
  ASSUME NEW t, AnthRight(t), ~t.blockOpen, NEW type \in {"thinking", "text"}
  PROVE  LET u == Anthropic!openBlock(t, type, FALSE)
         IN Blocks(t.wire, u.wire) /\ u.blockType = type
<1> DEFINE e == [event |-> "start", index |-> t.blockIndex + 1, type |-> type, id |-> FALSE]
           u == Anthropic!openBlock(t, type, FALSE)
<1>1. AnthShaped(t) /\ t.wire \in Seq(AnthEvent)
  BY DEF AnthRight, AnthTyped
<1>2. AnthRight(u)
  <2>1. type \in BlockTypes /\ FALSE \in BOOLEAN
    BY DEF BlockTypes
  <2> QED BY <2>1, AnthOpens
<1>3. u = [[t EXCEPT !.blockIndex = @ + 1, !.blockOpen = TRUE, !.blockType = type]
             EXCEPT !.wire = Append(@, e)]
  BY DEF Anthropic!openBlock, Anthropic!Write
<1>4. e.event = "start" /\ e.type = type /\ type # "tool_use"
  OBVIOUS
<1> HIDE DEF e, u
<1>5. u.wire = Append(t.wire, e) /\ u.blockType = type
  BY <1>1, <1>3 DEF AnthShaped
<1>6. u.wire \in Seq(AnthEvent)
  BY <1>2 DEF AnthRight, AnthTyped
<1>7. PICK w \in Seq(AnthEvent) : w = t.wire
  BY <1>1
<1>8. PICK v \in Seq(AnthEvent) : v = u.wire
  BY <1>6
<1>9. /\ Len(v) = Len(w) + 1 /\ v[Len(w) + 1] = e /\ \A i \in DOMAIN w : v[i] = w[i]
      /\ Len(w) \in Nat
  <2>1. v = Append(w, e) /\ w \in Seq(AnthEvent \union {e}) /\ e \in AnthEvent \union {e}
    BY <1>5, <1>7, <1>8
  <2>2. /\ Append(w, e)[Len(w) + 1] = e /\ \A i \in DOMAIN w : Append(w, e)[i] = w[i]
    BY <2>1, Appending
  <2> QED BY <2>1, <2>2
<1>10. \A i \in Len(w) + 1 .. Len(v) : v[i] = e
  BY <1>9
<1>11. Blocks(w, v)
  BY <1>4, <1>9, <1>10 DEF Blocks
<1> QED BY <1>5, <1>7, <1>8, <1>11 DEF u

\* One after the other.
LEMMA BlocksOn ==
  ASSUME NEW w, NEW v, NEW x, Blocks(w, v), Blocks(v, x) PROVE Blocks(w, x)
<1>1. /\ Len(w) \in Nat /\ Len(v) \in Nat /\ Len(x) \in Nat /\ Len(w) <= Len(v)
      /\ DOMAIN w = 1 .. Len(w) /\ DOMAIN v = 1 .. Len(v) /\ Len(v) <= Len(x)
  BY DEF Blocks
<1>2. \A i \in DOMAIN w : i \in DOMAIN v /\ x[i] = w[i]
  BY <1>1 DEF Blocks
<1>3. \A i \in Len(w) + 1 .. Len(x) :
        i \in Len(v) + 1 .. Len(x) \/ (i \in Len(w) + 1 .. Len(v) /\ x[i] = v[i])
  <2>1. \A i \in Len(w) + 1 .. Len(v) : i \in DOMAIN v
    BY <1>1
  <2> QED BY <1>1, <2>1 DEF Blocks
<1>4. \A i \in Len(w) + 1 .. Len(x) :
        /\ x[i].event # "delta"
        /\ x[i].event = "start" => x[i].type # "tool_use"
  BY <1>3 DEF Blocks
<1>5. Len(w) <= Len(x)
  BY <1>1
<1> QED BY <1>2, <1>4, <1>5 DEF Blocks

\* Wire w shows text at the positions P and reasoning at Q, and no tool call so far.
Shown(w, P, Q) ==
  /\ Carries(w, "text", P) /\ Carries(w, "thinking", Q)
  /\ \A i \in DOMAIN w : w[i].event \in {"start", "delta"} => w[i].type # "tool_use"

\* Blocks that are stopped and started show nothing, ...
LEMMA ShownKept ==
  ASSUME NEW w, NEW v, Blocks(w, v), NEW P, NEW Q, Shown(w, P, Q)
  PROVE  Shown(v, P, Q)
<1>1. /\ w \in Seq(AnthEvent) /\ v \in Seq(AnthEvent) /\ Len(w) <= Len(v)
      /\ \A i \in DOMAIN w : v[i] = w[i]
      /\ \A i \in Len(w) + 1 .. Len(v) :
           /\ v[i].event # "delta"
           /\ v[i].event = "start" => v[i].type # "tool_use"
  BY DEF Blocks
<1>2. \A type : \A i \in Len(w) + 1 .. Len(v) : ~(v[i].event = "delta" /\ v[i].type = type)
  BY <1>1
<1>3. Carries(v, "text", P)
  <2>1. Carries(w, "text", P)
    BY DEF Shown
  <2> QED BY <1>1, <1>2, <2>1, CarriesKept
<1>4. Carries(v, "thinking", Q)
  <2>1. Carries(w, "thinking", Q)
    BY DEF Shown
  <2> QED BY <1>1, <1>2, <2>1, CarriesKept
<1>5. ASSUME NEW i \in DOMAIN v, v[i].event \in {"start", "delta"} PROVE v[i].type # "tool_use"
  <2>1. /\ Len(w) \in Nat /\ Len(v) \in Nat /\ DOMAIN w = 1 .. Len(w) /\ DOMAIN v = 1 .. Len(v)
    BY <1>1
  <2>2. i \in DOMAIN w \/ i \in Len(w) + 1 .. Len(v)
    BY <2>1
  <2> QED BY <1>1, <1>5, <2>2 DEF Shown
<1> QED BY <1>3, <1>4, <1>5 DEF Shown

\* ... an increment what it carries.
LEMMA ShownMore ==
  ASSUME NEW w \in Seq(AnthEvent), NEW n \in Nat, NEW P \in SUBSET (1 .. n),
         NEW Q \in SUBSET (1 .. n), Shown(w, P, Q), NEW e \in AnthEvent, e.event = "delta",
         NEW at \in Nat, at > n, e.payload = <<at>>
  PROVE  /\ e.type = "text" => Shown(Append(w, e), P \union {at}, Q)
         /\ e.type = "thinking" => Shown(Append(w, e), P, Q \union {at})
<1> DEFINE v == Append(w, e)
<1>1. /\ v \in Seq(AnthEvent) /\ Len(v) = Len(w) + 1 /\ Len(w) \in Nat
      /\ DOMAIN v = DOMAIN w \union {Len(w) + 1}
      /\ v[Len(w) + 1] = e /\ \A i \in DOMAIN w : v[i] = w[i]
  BY Appending
<1>2. /\ e.type = "text" => Carries(v, "text", P \union {at})
      /\ e.type = "thinking" => Carries(v, "thinking", Q \union {at})
  <2>1. Carries(w, "text", P) /\ Carries(w, "thinking", Q)
    BY DEF Shown
  <2>2. ASSUME e.type = "text" PROVE Carries(v, "text", P \union {at})
    BY <2>1, <2>2, CarriesMore
  <2>3. ASSUME e.type = "thinking" PROVE Carries(v, "thinking", Q \union {at})
    BY <2>1, <2>3, CarriesMore
  <2> QED BY <2>2, <2>3
<1> HIDE DEF v
<1>3. /\ e.type # "text" => Carries(v, "text", P)
      /\ e.type # "thinking" => Carries(v, "thinking", Q)
  <2>1. Len(w) <= Len(v) /\ \A i \in Len(w) + 1 .. Len(v) : v[i] = e
    BY <1>1
  <2>2. Carries(w, "text", P) /\ Carries(w, "thinking", Q)
    BY DEF Shown
  <2>3. ASSUME e.type # "text" PROVE Carries(v, "text", P)
    <3>1. \A i \in Len(w) + 1 .. Len(v) : ~(v[i].event = "delta" /\ v[i].type = "text")
      BY <2>1, <2>3
    <3> QED BY <1>1, <2>1, <2>2, <3>1, CarriesKept
  <2>4. ASSUME e.type # "thinking" PROVE Carries(v, "thinking", Q)
    <3>1. \A i \in Len(w) + 1 .. Len(v) : ~(v[i].event = "delta" /\ v[i].type = "thinking")
      BY <2>1, <2>4
    <3> QED BY <1>1, <2>1, <2>2, <3>1, CarriesKept
  <2> QED BY <2>3, <2>4
<1>4. e.type # "tool_use" =>
        \A i \in DOMAIN v : v[i].event \in {"start", "delta"} => v[i].type # "tool_use"
  BY <1>1 DEF Shown
<1>5. e.type = "text" => Shown(v, P \union {at}, Q)
  BY <1>2, <1>3, <1>4 DEF Shown
<1>6. e.type = "thinking" => Shown(v, P, Q \union {at})
  BY <1>2, <1>3, <1>4 DEF Shown
<1> QED BY <1>5, <1>6 DEF v

\* A text or reasoning increment is shown as what it is.
LEMMA TextFills ==
  ASSUME NEW t, AnthRight(t), NEW type \in {"thinking", "text"}, NEW n \in Nat,
         NEW P \in SUBSET (1 .. n), NEW Q \in SUBSET (1 .. n), Shown(t.wire, P, Q),
         NEW at \in Nat, at > n
  PROVE  LET u == Anthropic!Increment(t, type, at) IN
         /\ type = "text" => Shown(u.wire, P \union {at}, Q)
         /\ type = "thinking" => Shown(u.wire, P, Q \union {at})
<1> DEFINE c == Anthropic!closeBlock(t)
           o == Anthropic!openBlock(c, type, FALSE)
           v == IF t.blockOpen /\ t.blockType = type THEN t ELSE o
           u == Anthropic!Increment(t, type, at)
<1>1. AnthRight(c) /\ ~c.blockOpen /\ Blocks(t.wire, c.wire)
  BY AnthCloses, TextStops
<1>2. u = Anthropic!delta(v, <<at>>)
  BY DEF Anthropic!Increment
<1> HIDE DEF c
<1>3. AnthRight(o) /\ o.blockOpen /\ Blocks(c.wire, o.wire) /\ o.blockType = type
  <2>1. type \in BlockTypes /\ FALSE \in BOOLEAN
    BY DEF BlockTypes
  <2>2. AnthRight(o) /\ o.blockOpen
    BY <1>1, <2>1, AnthOpens
  <2> QED BY <1>1, <2>2, TextStarts
<1>4. Shown(c.wire, P, Q)
  BY <1>1, ShownKept
<1>5. Shown(o.wire, P, Q)
  BY <1>3, <1>4, ShownKept
<1> HIDE DEF o
<1>6. AnthRight(v) /\ v.blockOpen /\ v.blockType = type /\ Shown(v.wire, P, Q)
  BY <1>3, <1>5
<1> HIDE DEF u, v
<1> DEFINE e == [event |-> "delta", index |-> v.blockIndex, type |-> v.blockType,
                 payload |-> <<at>>]
<1>7. e.event = "delta" /\ e.type = type /\ e.payload = <<at>>
  BY <1>6
<1>8. u = [v EXCEPT !.wire = Append(@, e)]
  BY <1>2 DEF Anthropic!delta, Anthropic!Write
<1> HIDE DEF e
<1>9. AnthRight(u)
  <2>1. <<at>> \in Seq(Nat)
    OBVIOUS
  <2> QED BY <1>2, <1>6, <2>1, AnthFills
<1>10. u.wire = Append(v.wire, e)
  BY <1>6, <1>8 DEF AnthRight, AnthShaped
<1>11. v.wire \in Seq(AnthEvent) /\ u.wire \in Seq(AnthEvent)
  BY <1>6, <1>9 DEF AnthRight, AnthTyped
<1>12. e \in AnthEvent
  <2>1. /\ u.wire[Len(v.wire) + 1] = e /\ Len(v.wire) + 1 \in DOMAIN u.wire
    <3>1. PICK w \in Seq(AnthEvent) : w = v.wire
      BY <1>11
    <3>2. u.wire = Append(w, e) /\ w \in Seq(AnthEvent \union {e}) /\ e \in AnthEvent \union {e}
      BY <1>10, <3>1
    <3>3. /\ Append(w, e)[Len(w) + 1] = e
          /\ DOMAIN Append(w, e) = DOMAIN w \union {Len(w) + 1}
      BY <3>2, Appending
    <3> QED BY <3>1, <3>2, <3>3
  <2> QED BY <1>11, <2>1
<1>13. PICK w \in Seq(AnthEvent) : w = v.wire
  BY <1>11
<1>14. /\ e.type = "text" => Shown(Append(w, e), P \union {at}, Q)
       /\ e.type = "thinking" => Shown(Append(w, e), P, Q \union {at})
  BY <1>6, <1>7, <1>12, <1>13, ShownMore
<1> QED BY <1>7, <1>10, <1>13, <1>14 DEF u

\* An increment of a tool call is accumulated.
LEMMA TextAccumulates ==
  ASSUME NEW t, AnthRight(t), NEW evt, evt.index \in Tools, evt.id \in BOOLEAN, NEW at \in Nat
  PROVE  LET u == Anthropic!Accumulate(t, evt, at)
             known == evt.index \in DOMAIN t.toolAccMap
         IN /\ u.wire = t.wire
            /\ DOMAIN u.toolAccMap = DOMAIN t.toolAccMap \union {evt.index}
            /\ \A j \in DOMAIN t.toolAccMap : j # evt.index => u.toolAccMap[j] = t.toolAccMap[j]
            /\ u.toolAccMap[evt.index].arguments
                 = Append(IF known THEN t.toolAccMap[evt.index].arguments ELSE <<>>, at)
            /\ u.toolAccMap[evt.index].id
                 <=> (known /\ t.toolAccMap[evt.index].id) \/ evt.id
<1> DEFINE u == Anthropic!Accumulate(t, evt, at)
           i == evt.index
           known == i \in DOMAIN t.toolAccMap
           acc == IF known THEN t.toolAccMap[i] ELSE [id |-> FALSE, arguments |-> <<>>]
           new == [id |-> acc.id \/ evt.id, arguments |-> Append(acc.arguments, at)]
           more == [j \in DOMAIN t.toolAccMap \union {i} |->
                      IF j # i THEN t.toolAccMap[j] ELSE new]
           order == IF known THEN t.toolOrder ELSE Append(t.toolOrder, i)
<1>1. AnthShaped(t)
  BY DEF AnthRight
<1>2. u = [t EXCEPT !.toolAccMap = more, !.toolOrder = order]
  BY DEF Anthropic!Accumulate
<1>3. new.arguments = Append(IF known THEN t.toolAccMap[i].arguments ELSE <<>>, at)
  OBVIOUS
<1>4. new.id <=> (known /\ t.toolAccMap[i].id) \/ evt.id
  <2>1. acc.id <=> known /\ t.toolAccMap[i].id
    OBVIOUS
  <2>2. new.id <=> acc.id \/ evt.id
    OBVIOUS
  <2> QED BY <2>1, <2>2
<1> HIDE DEF new
<1>5. /\ DOMAIN more = DOMAIN t.toolAccMap \union {i} /\ more[i] = new
      /\ \A j \in DOMAIN t.toolAccMap : j # i => more[j] = t.toolAccMap[j]
  OBVIOUS
<1> HIDE DEF u, more, order
<1>6. u.wire = t.wire /\ u.toolAccMap = more
  BY <1>1, <1>2 DEF AnthShaped
<1> QED BY <1>3, <1>4, <1>5, <1>6 DEF u

\* The upstream has named tool call i.
Named(i) == \E at \in ToolPositions(i) : sent[at].id

\* What has been accumulated of the tool calls is what was delivered, ...
Accumulated(accs) ==
  \A i \in DOMAIN accs : /\ Lists(accs[i].arguments, ToolPositions(i))
                         /\ accs[i].id <=> Named(i)

\* ... and what is on the wire is the rest.
AnthTextInv ==
  /\ Anthropic!NothingLost
  /\ phase = "streaming" =>
       /\ Shown(anthropic.wire, Positions("text"), Positions("reasoning"))
       /\ Accumulated(anthropic.toolAccMap)

\* At the start nothing has been shown and nothing accumulated.
LEMMA ShownInit == Init => AnthTextInv
<1> SUFFICES ASSUME Init PROVE AnthTextInv
  OBVIOUS
<1>1. PICK t : t = anthropic
  OBVIOUS
<1>2. t.toolAccMap = <<>> /\ t.wire = <<>> /\ phase = "streaming" /\ sent = <<>>
  BY <1>1 DEF Init, StreamInit, Anthropic!Init
<1>3. /\ DOMAIN t.wire = {} /\ DOMAIN t.toolAccMap = {}
      /\ Positions("text") = {} /\ Positions("reasoning") = {}
  BY <1>2 DEF Positions
<1>4. Anthropic!NothingLost
  BY <1>2 DEF Anthropic!NothingLost
<1>5. Shown(t.wire, {}, {})
  BY <1>3 DEF Shown, Carries
<1>6. Accumulated(t.toolAccMap)
  BY <1>3 DEF Accumulated
<1> QED BY <1>1, <1>3, <1>4, <1>5, <1>6 DEF AnthTextInv

\* A call is named by the increment that has its id.
LEMMA Naming ==
  ASSUME StreamTypeOK, NEW evt \in StreamEvent, Deliver(evt), NEW i
  PROVE  Named(i)' <=> Named(i) \/ (evt.type = "tool" /\ evt.index = i /\ evt.id)
<1>1. /\ ToolPositions(i)' = ToolPositions(i) \union
           (IF evt.type = "tool" /\ evt.index = i THEN {Len(sent')} ELSE {})
      /\ ToolPositions(i) \subseteq 1 .. Len(sent)
  BY CallDelivery
<1>2. sent'[Len(sent')] = evt /\ \A k \in 1 .. Len(sent) : sent'[k] = sent[k]
  BY Delivery
<1>3. \A at \in ToolPositions(i) : sent'[at] = sent[at]
  BY <1>1, <1>2
<1>4. CASE evt.type = "tool" /\ evt.index = i
  <2>1. ToolPositions(i)' = ToolPositions(i) \union {Len(sent')}
    BY <1>1, <1>4
  <2> QED BY <1>2, <1>3, <1>4, <2>1 DEF Named
<1>5. CASE ~(evt.type = "tool" /\ evt.index = i)
  <2>1. ToolPositions(i)' = ToolPositions(i)
    BY <1>1, <1>5
  <2> QED BY <1>3, <1>5, <2>1 DEF Named
<1> QED BY <1>4, <1>5

\* The callback shows text and reasoning and accumulates the tool calls.
LEMMA ShownCallback ==
  ASSUME AnthInv, AnthTextInv, NEW evt \in StreamEvent, Deliver(evt),
         Anthropic!Callback(evt, Len(sent'))
  PROVE  AnthTextInv'
<1> DEFINE n == Len(sent)
           at == Len(sent')
<1>1. StreamTypeOK /\ phase = "streaming"
  BY SameTools DEF AnthInv, Anthropic!TypeOK, Deliver, DeliverRaw, DeliverAgent, Delivered
<1>2. /\ phase' = "streaming" /\ n \in Nat /\ at = n + 1 /\ at \in Nat /\ at > n
      /\ \A x : Positions(x) \subseteq 1 .. n
      /\ \A x : Positions(x)' = Positions(x) \union (IF evt.type = x THEN {at} ELSE {})
  BY <1>1, Delivery
<1>3. /\ \A i : ToolPositions(i)' = ToolPositions(i) \union
                  (IF evt.type = "tool" /\ evt.index = i THEN {at} ELSE {})
      /\ \A i : ToolPositions(i) \subseteq 1 .. n
  BY <1>1, CallDelivery
<1>4. PICK t : t = anthropic
  OBVIOUS
<1>5. PICK u : u = anthropic'
  OBVIOUS
<1>6. /\ AnthRight(t) /\ Shown(t.wire, Positions("text"), Positions("reasoning"))
      /\ Accumulated(t.toolAccMap)
  BY <1>1, <1>4 DEF AnthInv, AnthStreaming, AnthTextInv
<1>7. DOMAIN t.toolAccMap = {i \in Tools : ToolPositions(i) # {}}
  <2>1. DOMAIN t.toolAccMap = {t.toolOrder[k] : k \in DOMAIN t.toolOrder}
    BY <1>6 DEF AnthRight
  <2>2. InOrderOfArrival(t.toolOrder)
    BY <1>4, SameTools DEF AnthInv, Anthropic!TypeOK
  <2> QED BY <2>1, <2>2 DEF InOrderOfArrival, ToSet
<1>8. \/ evt.type = "reasoning" /\ u = Anthropic!Increment(t, "thinking", at)
      \/ evt.type = "text" /\ u = Anthropic!Increment(t, "text", at)
      \/ evt.type = "tool" /\ u = Anthropic!Accumulate(t, evt, at)
      \/ evt.type \in {"finish", "usage"} /\ u.wire = t.wire /\ u.toolAccMap = t.toolAccMap
  <2>1. AnthShaped(t)
    BY <1>6 DEF AnthRight
  <2> QED BY <1>4, <1>5, <2>1 DEF Anthropic!Callback, AnthShaped
<1> HIDE DEF n, at
<1>9. \A i \in DOMAIN t.toolAccMap :
        /\ Lists(t.toolAccMap[i].arguments, ToolPositions(i))
        /\ t.toolAccMap[i].id <=> Named(i)
        /\ t.toolAccMap[i].arguments \in Seq(Nat)
  BY <1>6, AnthCallsTyped DEF Accumulated
<1>10. evt.type # "tool" => \A i : ToolPositions(i)' = ToolPositions(i) /\ (Named(i)' <=> Named(i))
  BY <1>1, <1>3, Naming
<1> DEFINE Gathers == \A i \in DOMAIN u.toolAccMap :
             /\ Lists(u.toolAccMap[i].arguments, ToolPositions(i)')
             /\ u.toolAccMap[i].id <=> Named(i)'
           Shows == Shown(u.wire, Positions("text")', Positions("reasoning")')
<1>11. ASSUME evt.type # "tool", u.toolAccMap = t.toolAccMap PROVE Gathers
  BY <1>9, <1>10, <1>11
<1>12. ASSUME NEW type \in {"thinking", "text"}, u = Anthropic!Increment(t, type, at)
       PROVE  /\ u.toolAccMap = t.toolAccMap
              /\ type = "text" => Shown(u.wire, Positions("text") \union {at}, Positions("reasoning"))
              /\ type = "thinking" => Shown(u.wire, Positions("text"), Positions("reasoning") \union {at})
  <2>1. PICK P \in SUBSET (1 .. n) : P = Positions("text")
    BY <1>2
  <2>2. PICK Q \in SUBSET (1 .. n) : Q = Positions("reasoning")
    BY <1>2
  <2>3. /\ type = "text" => Shown(u.wire, P \union {at}, Q)
        /\ type = "thinking" => Shown(u.wire, P, Q \union {at})
    BY <1>2, <1>6, <1>12, <2>1, <2>2, TextFills
  <2>4. u.toolAccMap = t.toolAccMap
    BY <1>2, <1>6, <1>12, AnthIncrement DEF KeepsAcc
  <2> QED BY <2>1, <2>2, <2>3, <2>4
<1>13. ASSUME evt.type = "reasoning", u = Anthropic!Increment(t, "thinking", at) PROVE Shows /\ Gathers
  <2>1. /\ u.toolAccMap = t.toolAccMap
        /\ Shown(u.wire, Positions("text"), Positions("reasoning") \union {at})
    BY <1>12, <1>13
  <2>2. Shows
    BY <1>2, <1>13, <2>1
  <2> QED BY <1>11, <1>13, <2>1, <2>2
<1>14. ASSUME evt.type = "text", u = Anthropic!Increment(t, "text", at) PROVE Shows /\ Gathers
  <2>1. /\ u.toolAccMap = t.toolAccMap
        /\ Shown(u.wire, Positions("text") \union {at}, Positions("reasoning"))
    BY <1>12, <1>14
  <2>2. Shows
    BY <1>2, <1>14, <2>1
  <2> QED BY <1>11, <1>14, <2>1, <2>2
<1>15. ASSUME evt.type = "tool", u = Anthropic!Accumulate(t, evt, at) PROVE Shows /\ Gathers
  <2> DEFINE i == evt.index
             known == i \in DOMAIN t.toolAccMap
  <2>1. i \in Tools /\ evt.id \in BOOLEAN
    BY <1>15 DEF StreamEvent
  <2>2. /\ u.wire = t.wire
        /\ DOMAIN u.toolAccMap = DOMAIN t.toolAccMap \union {i}
        /\ \A j \in DOMAIN t.toolAccMap : j # i => u.toolAccMap[j] = t.toolAccMap[j]
        /\ u.toolAccMap[i].arguments
             = Append(IF known THEN t.toolAccMap[i].arguments ELSE <<>>, at)
        /\ u.toolAccMap[i].id <=> (known /\ t.toolAccMap[i].id) \/ evt.id
    BY <1>2, <1>6, <1>15, <2>1, TextAccumulates
  <2> HIDE DEF i
  <2>3. Shows
    BY <1>2, <1>6, <1>15, <2>2
  <2>4. Lists(u.toolAccMap[i].arguments, ToolPositions(i)')
    <3>1. ToolPositions(i)' = ToolPositions(i) \union {at}
      BY <1>3, <1>15 DEF i
    <3>2. CASE known
      <4>1. PICK seq \in Seq(Nat) : seq = t.toolAccMap[i].arguments
        BY <1>9, <3>2
      <4>2. PICK P \in SUBSET (1 .. n) : P = ToolPositions(i)
        BY <1>3
      <4>3. Lists(Append(seq, n + 1), P \union {n + 1})
        BY <1>2, <1>9, <3>2, <4>1, <4>2, ListsDelivered
      <4> QED BY <1>2, <2>2, <3>1, <3>2, <4>1, <4>2, <4>3
    <3>3. CASE ~known
      <4>1. ToolPositions(i) = {}
        BY <1>7, <2>1, <3>3 DEF i
      <4>2. {} \in SUBSET (1 .. n) /\ <<>> \in Seq(Nat)
        OBVIOUS
      <4>3. Lists(Append(<<>>, at), {} \union {at})
        BY <1>2, <4>2, ListsNothing, ListsDelivered
      <4> QED BY <2>2, <3>1, <3>3, <4>1, <4>3
    <3> QED BY <3>2, <3>3
  <2>5. u.toolAccMap[i].id <=> Named(i)'
    <3>1. Named(i)' <=> Named(i) \/ evt.id
      BY <1>1, <1>15, Naming DEF i
    <3>2. known => (t.toolAccMap[i].id <=> Named(i))
      BY <1>9
    <3>3. ~known => ~Named(i)
      BY <1>7, <2>1 DEF i, Named
    <3> QED BY <2>2, <3>1, <3>2, <3>3
  <2>6. ASSUME NEW j \in DOMAIN u.toolAccMap, j # i
        PROVE  /\ Lists(u.toolAccMap[j].arguments, ToolPositions(j)')
               /\ u.toolAccMap[j].id <=> Named(j)'
    <3>1. j \in DOMAIN t.toolAccMap /\ u.toolAccMap[j] = t.toolAccMap[j]
      BY <2>2, <2>6
    <3>2. ToolPositions(j)' = ToolPositions(j)
      BY <1>3, <2>6 DEF i
    <3>3. Named(j)' <=> Named(j)
      BY <1>1, <2>6, Naming DEF i
    <3> QED BY <1>9, <3>1, <3>2, <3>3
  <2>7. Gathers
    BY <2>4, <2>5, <2>6
  <2> QED BY <2>3, <2>7
<1>16. ASSUME evt.type \in {"finish", "usage"}, u.wire = t.wire, u.toolAccMap = t.toolAccMap
       PROVE  Shows /\ Gathers
  <2>1. Shows
    BY <1>2, <1>6, <1>16
  <2> QED BY <1>11, <1>16, <2>1
<1>17. Shows /\ Gathers
  BY <1>8, <1>13, <1>14, <1>15, <1>16
<1>18. Anthropic!NothingLost'
  BY <1>2 DEF Anthropic!NothingLost
<1>19. Shown(anthropic.wire, Positions("text"), Positions("reasoning"))'
  BY <1>5, <1>17
<1>20. Accumulated(anthropic.toolAccMap)'
  BY <1>5, <1>17 DEF Accumulated
<1> QED BY <1>18, <1>19, <1>20 DEF AnthTextInv

\* A failed stream keeps the handler as it is, ...
LEMMA ShownFailed ==
  ASSUME Fail PROVE AnthTextInv'
  BY DEF Fail, AnthTextInv, Anthropic!NothingLost

\* On wire w there is exactly what was delivered: text and reasoning, ...
CarriedOn(w, type, positions) ==
  LET deltas == {i \in DOMAIN w : w[i].event = "delta" /\ w[i].type = type}
  IN /\ {w[i].payload : i \in deltas} = {<<at>> : at \in positions}
     /\ \A i, j \in deltas : i < j => w[i].payload[1] < w[j].payload[1]

CallStarts(w) == {i \in DOMAIN w : w[i].event = "start" /\ w[i].type = "tool_use"}

\* ... and the tool calls.
CallsOn(w) ==
  /\ {i \in DOMAIN w : w[i].event = "delta" /\ w[i].type = "tool_use"}
       = {i + 1 : i \in CallStarts(w)}
  /\ ListsCalls([i \in CallStarts(w) |-> w[i + 1].payload])
  /\ \A i \in CallStarts(w) : w[i].id = \E at \in ToSet(w[i + 1].payload) : sent[at].id

AllShown(w) ==
  /\ CarriedOn(w, "text", Positions("text")) /\ CarriedOn(w, "thinking", Positions("reasoning"))
  /\ CallsOn(w)

\* That is what the Anthropic handler promises.
LEMMA AllIsShown ==
  /\ Anthropic!NothingLost <=> (phase = "ended" => AllShown(anthropic.wire))
  /\ Anthropic!NothingLost' <=> (phase' = "ended" => AllShown(anthropic.wire)')
<1>1. \A texts : /\ Anthropic!ListsCalls(texts) <=> ListsCalls(texts)
                 /\ Anthropic!ListsCalls(texts)' <=> ListsCalls(texts)'
  BY SameTools, SameLists DEF Anthropic!ListsCalls, ListsCalls
<1>2. \A seq : Anthropic!ToSet(seq) = ToSet(seq)
  BY DEF Anthropic!ToSet, ToSet
<1>3. Anthropic!NothingLost <=> (phase = "ended" => AllShown(anthropic.wire))
  BY <1>1, <1>2, SameTools
     DEF Anthropic!NothingLost, Anthropic!wire, AllShown, CarriedOn, CallsOn, CallStarts
<1>4. Anthropic!NothingLost' <=> (phase' = "ended" => AllShown(anthropic.wire)')
  BY <1>1, <1>2, SameTools
     DEF Anthropic!NothingLost, Anthropic!wire, AllShown, CarriedOn, CallsOn, CallStarts
<1> QED BY <1>3, <1>4

\* ... and so does a stutter.
LEMMA ShownUnchanged == AnthTextInv /\ UNCHANGED vars => AnthTextInv'
<1> SUFFICES ASSUME AnthTextInv, UNCHANGED vars PROVE AnthTextInv'
  OBVIOUS
<1>1. UNCHANGED <<channel, sent, phase, anthropic>>
  BY DEF vars, streamVars
<1>2. /\ \A type : Positions(type)' = Positions(type)
      /\ \A i : ToolPositions(i)' = ToolPositions(i)
  BY <1>1 DEF Positions, ToolPositions
<1>3. \A texts : ListsCalls(texts)' <=> ListsCalls(texts)
  BY <1>2 DEF ListsCalls
<1>4. Anthropic!NothingLost'
  <2>1. PICK w : w = anthropic.wire
    OBVIOUS
  <2>2. phase = "ended" => AllShown(w)
    BY <2>1, AllIsShown DEF AnthTextInv
  <2>3. CallsOn(w)' <=> CallsOn(w)
    BY <1>1, <1>3 DEF CallsOn
  <2>4. AllShown(w)' <=> AllShown(w)
    BY <1>2, <2>3 DEF AllShown
  <2>5. AllShown(anthropic.wire)' <=> AllShown(w)'
    BY <1>1, <2>1 DEF AllShown, CallsOn
  <2> QED BY <1>1, <2>2, <2>4, <2>5, AllIsShown
<1>5. phase' = "streaming" =>
        /\ Shown(anthropic.wire, Positions("text"), Positions("reasoning"))'
        /\ Accumulated(anthropic.toolAccMap)'
  <2>1. \A i : Named(i)' <=> Named(i)
    BY <1>1, <1>2 DEF Named
  <2> QED BY <1>1, <1>2, <2>1 DEF AnthTextInv, Accumulated
<1> QED BY <1>4, <1>5 DEF AnthTextInv

\* What an event adds to a wire.
LEMMA Grown ==
  ASSUME NEW S, NEW w \in Seq(S), NEW e, NEW v, v = Append(w, e)
  PROVE  /\ v \in Seq(S \union {e}) /\ Len(v) = Len(w) + 1 /\ DOMAIN v = 1 .. Len(w) + 1
         /\ v[Len(w) + 1] = e /\ \A i \in 1 .. Len(w) : v[i] = w[i]
<1>1. w \in Seq(S \union {e}) /\ e \in S \union {e}
  OBVIOUS
<1>2. /\ v \in Seq(S \union {e}) /\ Len(v) = Len(w) + 1 /\ Len(w) \in Nat /\ DOMAIN w = 1 .. Len(w)
      /\ v[Len(w) + 1] = e /\ \A i \in DOMAIN w : v[i] = w[i]
  <2>1. /\ Append(w, e) \in Seq(S \union {e}) /\ Len(Append(w, e)) = Len(w) + 1 /\ Len(w) \in Nat
        /\ DOMAIN w = 1 .. Len(w)
        /\ Append(w, e)[Len(w) + 1] = e /\ \A i \in DOMAIN w : Append(w, e)[i] = w[i]
    BY <1>1, Appending
  <2> QED BY <2>1
<1> QED BY <1>2

\* After place l wire w has a tool call: its block is started, filled and stopped.
Rendered(w, l, call) ==
  /\ w[l + 1].event = "start" /\ w[l + 1].type = "tool_use" /\ w[l + 1].id = call.id
  /\ w[l + 2].event = "delta" /\ w[l + 2].type = "tool_use" /\ w[l + 2].payload = call.arguments
  /\ w[l + 3].event = "stop"

\* render, in flushToolCalls, renders a call.
LEMMA CallRendered ==
  ASSUME NEW u, AnthRight(u), ~u.blockOpen, NEW i \in DOMAIN u.toolAccMap
  PROVE  LET v == Render(u, i) IN
         /\ v.wire \in Seq(AnthEvent) /\ Len(v.wire) = Len(u.wire) + 3
         /\ \A j \in 1 .. Len(u.wire) : v.wire[j] = u.wire[j]
         /\ Rendered(v.wire, Len(u.wire), u.toolAccMap[i])
<1> DEFINE o == Anthropic!openBlock(u, "tool_use", u.toolAccMap[i].id)
           d == Anthropic!delta(o, u.toolAccMap[i].arguments)
           c == Anthropic!closeBlock(d)
           begin == [event |-> "start", index |-> u.blockIndex + 1, type |-> "tool_use",
                     id |-> u.toolAccMap[i].id]
           fill == [event |-> "delta", index |-> o.blockIndex, type |-> o.blockType,
                    payload |-> u.toolAccMap[i].arguments]
           end == [event |-> "stop", index |-> d.blockIndex]
<1>1. u.toolAccMap[i].id \in BOOLEAN /\ u.toolAccMap[i].arguments \in Seq(Nat)
  BY AnthCallsTyped
<1>2. "tool_use" \in BlockTypes
  BY DEF BlockTypes
<1>3. AnthRight(o) /\ o.blockOpen
  BY <1>1, <1>2, AnthOpens
<1>4. AnthRight(d) /\ d.blockOpen
  <2> HIDE DEF o
  <2> QED BY <1>1, <1>3, AnthFills
<1>5. AnthRight(c)
  <2> HIDE DEF d
  <2> QED BY <1>4, AnthCloses
<1>6. c = Render(u, i)
  BY DEF Render
<1>7. o.wire = Append(u.wire, begin) /\ o.blockType = "tool_use"
  <2>1. AnthShaped(u)
    BY DEF AnthRight
  <2>2. o = [[u EXCEPT !.blockIndex = @ + 1, !.blockOpen = TRUE, !.blockType = "tool_use"]
               EXCEPT !.wire = Append(@, begin)]
    BY DEF Anthropic!openBlock, Anthropic!Write
  <2> HIDE DEF o, begin
  <2> QED BY <2>1, <2>2 DEF AnthShaped
<1>8. d.wire = Append(o.wire, fill)
  <2> HIDE DEF o
  <2>1. AnthShaped(o)
    BY <1>3 DEF AnthRight
  <2>2. d = [o EXCEPT !.wire = Append(@, fill)]
    BY DEF Anthropic!delta, Anthropic!Write
  <2> HIDE DEF d, fill
  <2> QED BY <2>1, <2>2 DEF AnthShaped
<1>9. c.wire = Append(d.wire, end)
  <2> HIDE DEF o, d
  <2>1. AnthShaped(d)
    BY <1>4 DEF AnthRight
  <2>2. c = [[d EXCEPT !.blockOpen = FALSE] EXCEPT !.wire = Append(@, end)]
    BY <1>4 DEF Anthropic!closeBlock, Anthropic!Write
  <2> HIDE DEF c, end
  <2> QED BY <2>1, <2>2 DEF AnthShaped
<1>10. /\ begin.event = "start" /\ begin.type = "tool_use" /\ begin.id = u.toolAccMap[i].id
  OBVIOUS
<1>11. /\ fill.event = "delta" /\ fill.type = o.blockType
       /\ fill.payload = u.toolAccMap[i].arguments /\ end.event = "stop"
  <2> HIDE DEF o, d
  <2> QED OBVIOUS
<1> HIDE DEF o, d, c, begin, fill, end
<1>12. /\ u.wire \in Seq(AnthEvent) /\ o.wire \in Seq(AnthEvent) /\ d.wire \in Seq(AnthEvent)
       /\ c.wire \in Seq(AnthEvent)
  BY <1>3, <1>4, <1>5 DEF AnthRight, AnthTyped
<1>13. PICK l \in Nat : l = Len(u.wire)
  BY <1>12
<1>14. /\ Len(o.wire) = l + 1 /\ o.wire[l + 1] = begin
       /\ \A j \in 1 .. l : o.wire[j] = u.wire[j]
  BY <1>7, <1>12, <1>13, Grown
<1>15. /\ Len(d.wire) = l + 2 /\ d.wire[l + 2] = fill
       /\ \A j \in 1 .. l + 1 : d.wire[j] = o.wire[j]
  <2>1. /\ Len(d.wire) = Len(o.wire) + 1 /\ d.wire[Len(o.wire) + 1] = fill
        /\ \A j \in 1 .. Len(o.wire) : d.wire[j] = o.wire[j]
    BY <1>8, <1>12, Grown
  <2> QED BY <1>14, <2>1
<1>16. /\ Len(c.wire) = l + 3 /\ c.wire[l + 3] = end
       /\ \A j \in 1 .. l + 2 : c.wire[j] = d.wire[j]
  <2>1. /\ Len(c.wire) = Len(d.wire) + 1 /\ c.wire[Len(d.wire) + 1] = end
        /\ \A j \in 1 .. Len(d.wire) : c.wire[j] = d.wire[j]
    BY <1>9, <1>12, Grown
  <2> QED BY <1>15, <2>1
<1>17. c.wire[l + 1] = begin /\ c.wire[l + 2] = fill /\ c.wire[l + 3] = end
  <2>1. l + 1 \in 1 .. l + 1 /\ l + 1 \in 1 .. l + 2 /\ l + 2 \in 1 .. l + 2
    BY <1>13
  <2> QED BY <1>14, <1>15, <1>16, <2>1
<1>18. \A j \in 1 .. l : c.wire[j] = u.wire[j]
  <2>1. \A j \in 1 .. l : j \in 1 .. l + 1 /\ j \in 1 .. l + 2
    BY <1>13
  <2> QED BY <1>14, <1>15, <1>16, <2>1
<1>19. Rendered(c.wire, l, u.toolAccMap[i])
  BY <1>7, <1>10, <1>11, <1>17 DEF Rendered
<1> QED BY <1>6, <1>12, <1>13, <1>16, <1>18, <1>19

\* What is rendered stays so.
LEMMA RenderedStays ==
  ASSUME NEW w, NEW v, NEW n \in Nat, NEW l \in Nat, l + 3 <= n,
         \A i \in 1 .. n : v[i] = w[i], NEW call, Rendered(w, l, call)
  PROVE  Rendered(v, l, call)
<1>1. l + 1 \in 1 .. n /\ l + 2 \in 1 .. n /\ l + 3 \in 1 .. n
  OBVIOUS
<1> QED BY <1>1 DEF Rendered

\* The length of n rendered calls.
Thrice(n) == n + n + n

\* Where a call is among rendered ones.
LEMMA Thirds ==
  ASSUME NEW l \in Nat, NEW k \in Nat
  PROVE  /\ l + Thrice(k) \in Nat /\ l <= l + Thrice(k) /\ l + Thrice(0) = l
         /\ l + Thrice(k) + 3 = l + Thrice(k + 1) /\ l + Thrice((k + 1) - 1) = l + Thrice(k)
         /\ \A m \in 1 .. k : /\ l + Thrice(m - 1) \in Nat
                              /\ l + Thrice(m - 1) + 3 <= l + Thrice(k)
  BY DEF Thrice

\* flushToolCalls renders the calls one after the other, after what was there.
LEMMA CallsRendered ==
  ASSUME NEW t, AnthRight(t), NEW l \in Nat, l = Len(Anthropic!closeBlock(t).wire)
  PROVE  LET u == Anthropic!flushToolCalls(t) IN
         /\ u.wire \in Seq(AnthEvent) /\ Len(u.wire) = l + Thrice(Len(t.toolOrder))
         /\ \A i \in 1 .. l : u.wire[i] = Anthropic!closeBlock(t).wire[i]
         /\ \A m \in 1 .. Len(t.toolOrder) :
              Rendered(u.wire, l + Thrice(m - 1), t.toolAccMap[t.toolOrder[m]])
<1> DEFINE order == t.toolOrder
           N == Len(order)
           b == Anthropic!closeBlock(t).wire
<1>1. PICK f : /\ Anthropic!flushToolCalls(t) = f[1 .. N]
               /\ f[{}] = Anthropic!closeBlock(t)
               /\ \A k \in 1 .. N : f[1 .. k] = Render(f[1 .. k - 1], order[k])
  BY FlushFolds
<1>2. /\ order \in Seq(Tools) /\ N \in Nat /\ DOMAIN order = 1 .. N
      /\ \A k \in 1 .. N : order[k] \in DOMAIN t.toolAccMap
  BY DEF AnthRight, AnthTyped
<1> DEFINE Right(k) == /\ AnthRight(f[1 .. k]) /\ ~f[1 .. k].blockOpen /\ KeepsAcc(t, f[1 .. k])
                       /\ Len(f[1 .. k].wire) = l + Thrice(k)
                       /\ \A i \in 1 .. l : f[1 .. k].wire[i] = b[i]
                       /\ \A m \in 1 .. k :
                            Rendered(f[1 .. k].wire, l + Thrice(m - 1), t.toolAccMap[order[m]])
           T == {k \in 0 .. N : Right(k)}
<1>3. Right(0)
  <2>1. 1 .. 0 = {}
    OBVIOUS
  <2>2. f[1 .. 0] = Anthropic!closeBlock(t)
    BY <1>1, <2>1
  <2>3. /\ AnthRight(f[1 .. 0]) /\ ~f[1 .. 0].blockOpen /\ KeepsAcc(t, f[1 .. 0])
    BY <2>2, AnthCloses
  <2>4. /\ Len(f[1 .. 0].wire) = l + Thrice(0) /\ \A i \in 1 .. l : f[1 .. 0].wire[i] = b[i]
    BY <2>2 DEF Thrice
  <2>5. \A m \in 1 .. 0 : FALSE
    OBVIOUS
  <2> QED BY <2>3, <2>4, <2>5
<1>4. ASSUME NEW k \in 0 .. N - 1, Right(k) PROVE Right(k + 1)
  <2>1. k + 1 \in 1 .. N /\ (k + 1) - 1 = k /\ k \in Nat
    BY <1>2
  <2>2. f[1 .. k + 1] = Render(f[1 .. k], order[k + 1])
    BY <1>1, <2>1
  <2>3. order[k + 1] \in DOMAIN f[1 .. k].toolAccMap
    BY <1>2, <1>4, <2>1 DEF KeepsAcc
  <2> HIDE DEF N, order, b
  <2>4. /\ AnthRight(f[1 .. k + 1]) /\ ~f[1 .. k + 1].blockOpen
        /\ KeepsAcc(f[1 .. k], f[1 .. k + 1])
    BY <1>4, <2>2, <2>3, AnthRenders
  <2>5. KeepsAcc(t, f[1 .. k + 1]) /\ f[1 .. k].toolAccMap = t.toolAccMap
    BY <1>4, <2>4 DEF KeepsAcc
  <2>6. PICK w : w = f[1 .. k].wire
    OBVIOUS
  <2>7. PICK v : v = f[1 .. k + 1].wire
    OBVIOUS
  <2>8. /\ Len(v) = Len(w) + 3 /\ \A j \in 1 .. Len(w) : v[j] = w[j]
        /\ Rendered(v, Len(w), t.toolAccMap[order[k + 1]])
    BY <1>4, <2>2, <2>3, <2>5, <2>6, <2>7, CallRendered
  <2>9. Len(w) = l + Thrice(k) /\ Len(w) \in Nat /\ l <= Len(w)
    <3>1. Len(w) = l + Thrice(k)
      BY <1>4, <2>6
    <3>2. l + Thrice(k) \in Nat /\ l <= l + Thrice(k)
      BY <2>1, Thirds
    <3> QED BY <3>1, <3>2
  <2>10. Len(v) = l + Thrice(k + 1)
    <3>1. l + Thrice(k) + 3 = l + Thrice(k + 1)
      BY <2>1, Thirds
    <3> QED BY <2>8, <2>9, <3>1
  <2>11. \A i \in 1 .. l : v[i] = b[i]
    <3>1. \A i \in 1 .. l : i \in 1 .. Len(w)
      <4> HIDE DEF Right
      <4> QED BY <2>9
    <3> QED BY <1>4, <2>6, <2>8, <3>1
  <2>12. ASSUME NEW m \in 1 .. k + 1
         PROVE  Rendered(v, l + Thrice(m - 1), t.toolAccMap[order[m]])
    <3>1. CASE m = k + 1
      <4>1. l + Thrice(m - 1) = Len(w)
        BY <2>1, <2>9, <3>1
      <4> QED BY <2>8, <3>1, <4>1
    <3>2. CASE m \in 1 .. k
      <4>1. Rendered(w, l + Thrice(m - 1), t.toolAccMap[order[m]])
        BY <1>4, <2>6, <3>2
      <4>2. PICK p \in Nat : p = l + Thrice(m - 1) /\ p + 3 <= Len(w)
        <5>1. l + Thrice(m - 1) \in Nat /\ l + Thrice(m - 1) + 3 <= l + Thrice(k)
          BY <2>1, <3>2, Thirds
        <5> QED BY <2>9, <5>1
      <4>3. Rendered(w, p, t.toolAccMap[order[m]])
        BY <4>1, <4>2
      <4>4. Rendered(v, p, t.toolAccMap[order[m]])
        <5>1. PICK n \in Nat : n = Len(w)
          BY <2>9
        <5>2. p + 3 <= n /\ \A i \in 1 .. n : v[i] = w[i]
          BY <2>8, <4>2, <5>1
        <5> QED BY <4>3, <5>2, RenderedStays
      <4> QED BY <4>2, <4>4
    <3> QED BY <2>1, <3>1, <3>2
  <2> QED BY <2>4, <2>5, <2>7, <2>10, <2>11, <2>12
<1>5. 0 .. N \subseteq T
  <2> HIDE DEF N, Right
  <2>1. 0 \in T
    BY <1>2, <1>3
  <2>2. ASSUME NEW k \in 0 .. N - 1, k \in T PROVE k + 1 \in T
    <3>1. k + 1 \in 0 .. N
      BY <1>2
    <3> QED BY <1>4, <2>2, <3>1
  <2> HIDE DEF T
  <2> QED BY <1>2, <2>1, <2>2, UpTo
<1>6. Right(N)
  <2> HIDE DEF N, Right
  <2> QED BY <1>2, <1>5
<1>7. f[1 .. N].wire \in Seq(AnthEvent)
  <2> HIDE DEF N
  <2> QED BY <1>6 DEF AnthRight, AnthTyped
<1> HIDE DEF b
<1> QED BY <1>1, <1>6, <1>7 DEF b

\* What carries positions on a wire is what is on it.
LEMMA CarriedIsOn ==
  ASSUME NEW w, NEW type, NEW positions, Carries(w, type, positions)
  PROVE  CarriedOn(w, type, positions)
<1> DEFINE deltas == {i \in DOMAIN w : w[i].event = "delta" /\ w[i].type = type}
<1>1. {w[i].payload : i \in deltas} \subseteq {<<at>> : at \in positions}
  BY DEF Carries
<1>2. {<<at>> : at \in positions} \subseteq {w[i].payload : i \in deltas}
  BY DEF Carries
<1>3. \A i, j \in deltas : i < j => w[i].payload[1] < w[j].payload[1]
  BY DEF Carries
<1>4. {w[i].payload : i \in deltas} = {<<at>> : at \in positions}
  BY <1>1, <1>2
<1> QED BY <1>3, <1>4 DEF CarriedOn

\* Every place among n rendered calls is in one of them.
LEMMA InACall ==
  ASSUME NEW l \in Nat, NEW n \in Nat, NEW i \in l + 1 .. l + Thrice(n)
  PROVE  \E m \in 1 .. n : i - (l + Thrice(m - 1)) \in {1, 2, 3}
<1> DEFINE Within(k) == \A j \in l + 1 .. l + Thrice(k) :
                          \E m \in 1 .. k : j - (l + Thrice(m - 1)) \in {1, 2, 3}
           T == {k \in 0 .. n : Within(k)}
<1>1. Within(0)
  <2>1. \A j \in l + 1 .. l : FALSE
    OBVIOUS
  <2>2. l + Thrice(0) = l
    BY Thirds
  <2> QED BY <2>1, <2>2
<1>2. ASSUME NEW k \in 0 .. n - 1, Within(k) PROVE Within(k + 1)
  <2> SUFFICES ASSUME NEW j \in l + 1 .. l + Thrice(k + 1)
               PROVE  \E m \in 1 .. k + 1 : j - (l + Thrice(m - 1)) \in {1, 2, 3}
    OBVIOUS
  <2>1. k \in Nat /\ k + 1 \in 1 .. k + 1
    OBVIOUS
  <2>2. PICK p \in Nat : p = l + Thrice(k) /\ l <= p
    BY <2>1, Thirds
  <2>3. l + Thrice(k + 1) = p + 3 /\ l + Thrice((k + 1) - 1) = p
    BY <2>1, <2>2, Thirds
  <2>4. j \in l + 1 .. p + 3
    BY <2>3
  <2>5. CASE j <= p
    <3>1. j \in l + 1 .. l + Thrice(k)
      BY <2>2, <2>4, <2>5
    <3>2. PICK m \in 1 .. k : j - (l + Thrice(m - 1)) \in {1, 2, 3}
      BY <1>2, <3>1
    <3>3. m \in 1 .. k + 1
      BY <2>1
    <3> QED BY <3>2, <3>3
  <2>6. CASE j > p
    <3>1. j - p \in {1, 2, 3}
      BY <2>2, <2>4, <2>6
    <3> QED BY <2>1, <2>3, <3>1
  <2>7. j \in Nat
    BY <2>4
  <2> QED BY <2>2, <2>5, <2>6, <2>7
<1>3. 0 .. n \subseteq T
  <2> HIDE DEF Within
  <2>1. 0 \in T
    BY <1>1
  <2>2. ASSUME NEW k \in 0 .. n - 1, k \in T PROVE k + 1 \in T
    <3>1. k + 1 \in 0 .. n
      OBVIOUS
    <3> QED BY <1>2, <2>2, <3>1
  <2> HIDE DEF T
  <2> QED BY <2>1, <2>2, UpTo
<1>4. Within(n)
  <2> HIDE DEF Within
  <2> QED BY <1>3
<1> QED BY <1>4

\* The wire of a reply that has ended: w, n calls from call, and the event that closes it.
Closed(v, w, n, call) ==
  /\ Len(v) = Len(w) + Thrice(n) + 1 /\ DOMAIN v = 1 .. Len(w) + Thrice(n) + 1
  /\ \A i \in 1 .. Len(w) : v[i] = w[i]
  /\ \A m \in 1 .. n : Rendered(v, Len(w) + Thrice(m - 1), call[m])
  /\ v[Len(w) + Thrice(n) + 1].event = "message_delta"

\* The calls start and are filled where they were rendered.
LEMMA CallPlacing ==
  ASSUME NEW S, NEW w \in Seq(S), NEW P, NEW Q, Shown(w, P, Q), NEW n \in Nat, NEW call,
         NEW v, Closed(v, w, n, call)
  PROVE  /\ CallStarts(v) = {Len(w) + Thrice(m - 1) + 1 : m \in 1 .. n}
         /\ {i \in DOMAIN v : v[i].event = "delta" /\ v[i].type = "tool_use"}
              = {Len(w) + Thrice(m - 1) + 2 : m \in 1 .. n}
         /\ \A i \in Len(w) + 1 .. Len(v) : v[i].event = "delta" => v[i].type = "tool_use"
<1>1. PICK l \in Nat : l = Len(w)
  OBVIOUS
<1>2. PICK z \in Nat : z = l + Thrice(n) /\ l <= z
  BY Thirds
<1>3. /\ DOMAIN v = 1 .. z + 1 /\ Len(v) = z + 1 /\ \A i \in 1 .. l : v[i] = w[i]
      /\ \A m \in 1 .. n : Rendered(v, l + Thrice(m - 1), call[m])
      /\ v[z + 1].event = "message_delta"
  BY <1>1, <1>2 DEF Closed
<1>4. \A m \in 1 .. n : /\ l + Thrice(m - 1) \in Nat /\ l + Thrice(m - 1) + 3 <= z
  BY <1>2, Thirds
<1>5. \A i \in 1 .. l : v[i].event \in {"start", "delta"} => v[i].type # "tool_use"
  BY <1>1, <1>3 DEF Shown
<1>6. ASSUME NEW i \in l + 1 .. z
      PROVE  \E m \in 1 .. n : i \in {l + Thrice(m - 1) + 1, l + Thrice(m - 1) + 2, l + Thrice(m - 1) + 3}
  <2>1. PICK m \in 1 .. n : i - (l + Thrice(m - 1)) \in {1, 2, 3}
    BY <1>2, InACall
  <2>2. PICK p \in Nat : p = l + Thrice(m - 1)
    BY <1>4
  <2>3. i \in {p + 1, p + 2, p + 3}
    BY <2>1, <2>2
  <2> QED BY <2>2, <2>3
<1>7. ASSUME NEW m \in 1 .. n
      PROVE  /\ l + Thrice(m - 1) + 1 \in DOMAIN v /\ l + Thrice(m - 1) + 2 \in DOMAIN v
             /\ v[l + Thrice(m - 1) + 1].event = "start" /\ v[l + Thrice(m - 1) + 1].type = "tool_use"
             /\ v[l + Thrice(m - 1) + 2].event = "delta" /\ v[l + Thrice(m - 1) + 2].type = "tool_use"
             /\ v[l + Thrice(m - 1) + 3].event = "stop"
  <2>1. PICK p \in Nat : p = l + Thrice(m - 1) /\ p + 3 <= z
    BY <1>4
  <2>2. p + 1 \in DOMAIN v /\ p + 2 \in DOMAIN v
    BY <1>3, <2>1
  <2> QED BY <1>3, <2>1, <2>2 DEF Rendered
<1>8. \A i \in DOMAIN v : i \in 1 .. l \/ i \in l + 1 .. z \/ i = z + 1
  BY <1>2, <1>3
<1>9. ASSUME NEW i \in DOMAIN v, v[i].event = "start", v[i].type = "tool_use"
      PROVE  \E m \in 1 .. n : i = l + Thrice(m - 1) + 1
  <2>1. i \in l + 1 .. z
    BY <1>3, <1>5, <1>8, <1>9
  <2>2. PICK m \in 1 .. n :
          i \in {l + Thrice(m - 1) + 1, l + Thrice(m - 1) + 2, l + Thrice(m - 1) + 3}
    BY <1>6, <2>1
  <2> QED BY <1>7, <1>9, <2>2
<1>10. ASSUME NEW i \in DOMAIN v, v[i].event = "delta", i \notin 1 .. l
       PROVE  v[i].type = "tool_use" /\ \E m \in 1 .. n : i = l + Thrice(m - 1) + 2
  <2>1. i \in l + 1 .. z
    BY <1>3, <1>8, <1>10
  <2>2. PICK m \in 1 .. n :
          i \in {l + Thrice(m - 1) + 1, l + Thrice(m - 1) + 2, l + Thrice(m - 1) + 3}
    BY <1>6, <2>1
  <2> QED BY <1>7, <1>10, <2>2
<1>11. CallStarts(v) = {l + Thrice(m - 1) + 1 : m \in 1 .. n}
  BY <1>7, <1>9 DEF CallStarts
<1>12. {i \in DOMAIN v : v[i].event = "delta" /\ v[i].type = "tool_use"}
         = {l + Thrice(m - 1) + 2 : m \in 1 .. n}
  BY <1>5, <1>7, <1>10
<1>13. \A i \in l + 1 .. Len(v) : v[i].event = "delta" => v[i].type = "tool_use"
  <2>1. \A i \in l + 1 .. Len(v) : i \in DOMAIN v /\ i \notin 1 .. l
    BY <1>2, <1>3
  <2> QED BY <1>10, <2>1
<1> QED BY <1>1, <1>11, <1>12, <1>13

\* Places among rendered calls are in their order.
LEMMA ThirdsGrow ==
  ASSUME NEW l \in Nat, NEW j \in Nat, NEW k \in Nat, j < k
  PROVE  l + Thrice(j - 1) + 1 < l + Thrice(k - 1) + 1
  BY DEF Thrice

\* The calls that are rendered are those accumulated.
LEMMA CallsAreOn ==
  ASSUME StreamTypeOK, NEW t, AnthRight(t), InOrderOfArrival(t.toolOrder),
         Accumulated(t.toolAccMap), NEW S, NEW w \in Seq(S), NEW P, NEW Q, Shown(w, P, Q),
         NEW v, NEW call, Closed(v, w, Len(t.toolOrder), call),
         \A m \in 1 .. Len(t.toolOrder) : call[m] = t.toolAccMap[t.toolOrder[m]]
  PROVE  CallsOn(v)
<1>1. PICK order \in Seq(Tools) : order = t.toolOrder
  BY DEF AnthRight, AnthTyped
<1>2. PICK n \in Nat : n = Len(order) /\ DOMAIN order = 1 .. n
  OBVIOUS
<1>3. PICK l \in Nat : l = Len(w)
  OBVIOUS
<1>4. Closed(v, w, n, call)
  BY <1>1, <1>2
<1>5. /\ CallStarts(v) = {l + Thrice(m - 1) + 1 : m \in 1 .. n}
      /\ {i \in DOMAIN v : v[i].event = "delta" /\ v[i].type = "tool_use"}
           = {l + Thrice(m - 1) + 2 : m \in 1 .. n}
  BY <1>3, <1>4, CallPlacing
<1> DEFINE place == [m \in 1 .. n |-> l + Thrice(m - 1) + 1]
           texts == [i \in CallStarts(v) |-> v[i + 1].payload]
<1>6. \A m \in 1 .. n : /\ place[m] = l + Thrice(m - 1) + 1 /\ place[m] \in Nat
                        /\ place[m] + 1 = l + Thrice(m - 1) + 2
  <2>1. \A m \in 1 .. n : l + Thrice(m - 1) \in Nat
    BY Thirds
  <2> QED BY <2>1
<1>7. \A j, k \in 1 .. n : j < k => place[j] < place[k]
  <2>1. \A j, k \in 1 .. n : j < k => l + Thrice(j - 1) + 1 < l + Thrice(k - 1) + 1
    <3> SUFFICES ASSUME NEW j \in 1 .. n, NEW k \in 1 .. n, j < k
                 PROVE  l + Thrice(j - 1) + 1 < l + Thrice(k - 1) + 1
      OBVIOUS
    <3>1. j \in Nat /\ k \in Nat
      OBVIOUS
    <3> QED BY <3>1, ThirdsGrow
  <2> QED BY <2>1
<1>8. CallStarts(v) = {place[m] : m \in 1 .. n}
  BY <1>5
<1>9. {i \in DOMAIN v : v[i].event = "delta" /\ v[i].type = "tool_use"}
        = {i + 1 : i \in CallStarts(v)}
  <2> DEFINE fill == [m \in 1 .. n |-> l + Thrice(m - 1) + 2]
  <2>1. {i \in DOMAIN v : v[i].event = "delta" /\ v[i].type = "tool_use"} = {fill[m] : m \in 1 .. n}
    BY <1>5
  <2>2. \A m \in 1 .. n : fill[m] = place[m] + 1
    <3>1. \A m \in 1 .. n : fill[m] = l + Thrice(m - 1) + 2
      OBVIOUS
    <3> HIDE DEF fill, place
    <3> QED BY <1>6, <3>1
  <2> HIDE DEF fill, place
  <2>3. {fill[m] : m \in 1 .. n} = {i + 1 : i \in {place[m] : m \in 1 .. n}}
    <3>1. PICK p : p = place
      OBVIOUS
    <3>2. PICK f : f = fill
      OBVIOUS
    <3>3. \A m \in 1 .. n : f[m] = p[m] + 1
      BY <2>2, <3>1, <3>2
    <3>4. \A m \in 1 .. n : p[m] + 1 \in {i + 1 : i \in {p[k] : k \in 1 .. n}}
      OBVIOUS
    <3>5. ASSUME NEW j \in {i + 1 : i \in {p[k] : k \in 1 .. n}} PROVE \E m \in 1 .. n : j = p[m] + 1
      OBVIOUS
    <3>6. {f[m] : m \in 1 .. n} = {i + 1 : i \in {p[k] : k \in 1 .. n}}
      BY <3>3, <3>4, <3>5
    <3> QED BY <3>1, <3>2, <3>6
  <2> QED BY <1>8, <2>1, <2>3
<1>10. \A i \in CallStarts(v) : texts[i] = v[i + 1].payload
  OBVIOUS
<1>11. DOMAIN texts = CallStarts(v)
  OBVIOUS
<1> HIDE DEF place, texts
<1>12. ASSUME NEW m \in 1 .. n
       PROVE  /\ order[m] \in DOMAIN t.toolAccMap /\ place[m] \in CallStarts(v)
              /\ v[place[m]].id = t.toolAccMap[order[m]].id
              /\ v[place[m] + 1].payload = t.toolAccMap[order[m]].arguments
  <2>1. order[m] \in DOMAIN t.toolAccMap
    BY <1>1, <1>2 DEF AnthRight
  <2>2. Rendered(v, l + Thrice(m - 1), call[m])
    BY <1>3, <1>4 DEF Closed
  <2>3. call[m] = t.toolAccMap[order[m]]
    BY <1>1, <1>2
  <2>4. v[l + Thrice(m - 1) + 1].id = call[m].id /\ v[l + Thrice(m - 1) + 2].payload = call[m].arguments
    BY <2>2 DEF Rendered
  <2> QED BY <1>6, <1>8, <2>1, <2>3, <2>4
<1>13. ASSUME NEW m \in 1 .. n
       PROVE  /\ texts[place[m]] \in Seq(Nat) /\ Lists(texts[place[m]], ToolPositions(order[m]))
              /\ v[place[m]].id \in BOOLEAN /\ (v[place[m]].id <=> Named(order[m]))
  <2>1. PICK i \in DOMAIN t.toolAccMap : i = order[m]
    BY <1>12
  <2>2. t.toolAccMap[i].id \in BOOLEAN /\ t.toolAccMap[i].arguments \in Seq(Nat)
    BY AnthCallsTyped
  <2>3. Lists(t.toolAccMap[i].arguments, ToolPositions(i)) /\ (t.toolAccMap[i].id <=> Named(i))
    BY DEF Accumulated
  <2>4. texts[place[m]] = t.toolAccMap[i].arguments /\ v[place[m]].id = t.toolAccMap[i].id
    BY <1>10, <1>12, <2>1
  <2>5. texts[place[m]] \in Seq(Nat) /\ Lists(texts[place[m]], ToolPositions(order[m]))
    BY <2>1, <2>2, <2>3, <2>4
  <2>6. v[place[m]].id \in BOOLEAN /\ (v[place[m]].id <=> Named(order[m]))
    BY <2>1, <2>2, <2>3, <2>4
  <2> QED BY <2>5, <2>6
<1>14. ListsCalls(texts)
  <2>1. InOrderOfArrival(order)
    BY <1>1
  <2>2. \A k \in DOMAIN order : place[k] \in Nat
    BY <1>2, <1>6
  <2>3. \A j, k \in DOMAIN order : j < k => place[j] < place[k]
    BY <1>2, <1>7
  <2>4. DOMAIN texts = {place[k] : k \in DOMAIN order}
    BY <1>2, <1>8, <1>11
  <2>5. \A k \in DOMAIN order : /\ texts[place[k]] \in Seq(Nat)
                                /\ Lists(texts[place[k]], ToolPositions(order[k]))
    BY <1>2, <1>13
  <2> QED BY <2>1, <2>2, <2>3, <2>4, <2>5, ListingCalls
<1>15. ASSUME NEW i \in CallStarts(v)
       PROVE  v[i].id = \E at \in ToSet(v[i + 1].payload) : sent[at].id
  <2>1. PICK m \in 1 .. n : i = place[m]
    BY <1>8
  <2>2. ToSet(v[i + 1].payload) = ToolPositions(order[m])
    BY <1>10, <1>13, <2>1 DEF Lists
  <2>3. v[i].id \in BOOLEAN /\ (v[i].id <=> Named(order[m]))
    BY <1>13, <2>1
  <2>4. Named(order[m]) <=> \E at \in ToSet(v[i + 1].payload) : sent[at].id
    BY <2>2 DEF Named
  <2> QED BY <2>3, <2>4
<1> QED BY <1>9, <1>14, <1>15 DEF CallsOn, texts

\* When the stream has ended, the handler has shown all of it.
LEMMA EndShowsAll ==
  ASSUME StreamTypeOK, NEW t, AnthRight(t), InOrderOfArrival(t.toolOrder),
         Accumulated(t.toolAccMap), Shown(t.wire, Positions("text"), Positions("reasoning")),
         NEW r, r = Anthropic!flushToolCalls(t).wire, NEW R, NEW v \in Seq(R),
         DOMAIN v = 1 .. Len(r) + 1, Len(v) = Len(r) + 1, \A i \in 1 .. Len(r) : v[i] = r[i],
         v[Len(r) + 1].event = "message_delta"
  PROVE  AllShown(v)
<1>1. PICK n : n = Len(t.toolOrder)
  OBVIOUS
<1>2. PICK w \in Seq(AnthEvent) :
        /\ w = Anthropic!closeBlock(t).wire
        /\ Shown(w, Positions("text"), Positions("reasoning"))
  <2>1. Blocks(t.wire, Anthropic!closeBlock(t).wire)
    BY TextStops
  <2>2. Shown(Anthropic!closeBlock(t).wire, Positions("text"), Positions("reasoning"))
    BY <2>1, ShownKept
  <2>3. Anthropic!closeBlock(t).wire \in Seq(AnthEvent)
    BY <2>1 DEF Blocks
  <2> QED BY <2>2, <2>3
<1>3. PICK l \in Nat : l = Len(w)
  OBVIOUS
<1>4. /\ Len(r) = l + Thrice(n) /\ \A i \in 1 .. l : r[i] = w[i]
      /\ \A m \in 1 .. n : Rendered(r, l + Thrice(m - 1), t.toolAccMap[t.toolOrder[m]])
  BY <1>1, <1>2, <1>3, CallsRendered
<1>5. n \in Nat
  BY <1>1 DEF AnthRight, AnthTyped
<1>6. PICK z \in Nat : z = l + Thrice(n) /\ l <= z
  BY <1>5, Thirds
<1>7. /\ Len(v) = z + 1 /\ DOMAIN v = 1 .. z + 1
      /\ v[z + 1].event = "message_delta" /\ \A i \in 1 .. z : v[i] = r[i]
  BY <1>4, <1>6
<1>8. \A i \in 1 .. l : v[i] = w[i]
  <2>1. \A i \in 1 .. l : i \in 1 .. z
    BY <1>6
  <2> QED BY <1>4, <1>7, <2>1
<1> DEFINE call == [m \in 1 .. n |-> t.toolAccMap[t.toolOrder[m]]]
<1>9. \A m \in 1 .. n : call[m] = t.toolAccMap[t.toolOrder[m]]
  OBVIOUS
<1> HIDE DEF call
<1>10. ASSUME NEW m \in 1 .. n PROVE Rendered(v, l + Thrice(m - 1), call[m])
  <2>1. PICK p \in Nat : p = l + Thrice(m - 1) /\ p + 3 <= z
    BY <1>5, <1>6, Thirds
  <2>2. Rendered(r, p, call[m])
    BY <1>4, <1>9, <2>1
  <2>3. Rendered(v, p, call[m])
    <3>1. p + 3 <= z /\ \A i \in 1 .. z : v[i] = r[i]
      BY <1>7, <2>1
    <3> QED BY <2>2, <3>1, RenderedStays
  <2> QED BY <2>1, <2>3
<1>11. Closed(v, w, n, call)
  BY <1>3, <1>6, <1>7, <1>8, <1>10 DEF Closed
<1>12. PICK P : P = Positions("text")
  OBVIOUS
<1>13. PICK Q : Q = Positions("reasoning")
  OBVIOUS
<1>14. PICK calls : calls = call
  OBVIOUS
<1>15. w \in Seq(AnthEvent) /\ Shown(w, P, Q)
  BY <1>2, <1>12, <1>13
<1>16. Closed(v, w, n, calls)
  BY <1>11, <1>14
<1>17. CallsOn(v)
  <2>1. Closed(v, w, Len(t.toolOrder), calls)
    BY <1>1, <1>16
  <2>2. \A m \in 1 .. Len(t.toolOrder) : calls[m] = t.toolAccMap[t.toolOrder[m]]
    BY <1>1, <1>9, <1>14
  <2> QED BY <1>15, <2>1, <2>2, CallsAreOn
<1>18. \A i \in Len(w) + 1 .. Len(v) : v[i].event = "delta" => v[i].type = "tool_use"
  BY <1>5, <1>15, <1>16, CallPlacing
<1>19. /\ Len(w) <= Len(v) /\ \A j \in DOMAIN w : v[j] = w[j]
  BY <1>3, <1>6, <1>7, <1>8
<1>20. ASSUME NEW type \in {"text", "thinking"}, NEW positions, Carries(w, type, positions)
       PROVE  CarriedOn(v, type, positions)
  <2>1. \A i \in Len(w) + 1 .. Len(v) : ~(v[i].event = "delta" /\ v[i].type = type)
    BY <1>18
  <2>2. Carries(v, type, positions)
    BY <1>19, <1>20, <2>1, CarriesKept
  <2> QED BY <2>2, CarriedIsOn
<1>21. Carries(w, "text", Positions("text")) /\ Carries(w, "thinking", Positions("reasoning"))
  BY <1>2 DEF Shown
<1> QED BY <1>17, <1>20, <1>21 DEF AllShown

\* The end of the stream leaves nothing out.
LEMMA ShownEnded ==
  ASSUME AnthInv, AnthTextInv, End, Anthropic!Ended PROVE AnthTextInv'
<1> DEFINE t == anthropic
           r == Anthropic!flushToolCalls(t)
           e == [event |-> "message_delta",
                 stop_reason |-> Anthropic!mapStopReason(t.finishReason, t.toolOrder # <<>>)]
<1>1. phase = "streaming" /\ phase' = "ended" /\ UNCHANGED <<channel, sent>>
  BY DEF End
<1>2. /\ AnthRight(t) /\ Shown(t.wire, Positions("text"), Positions("reasoning"))
      /\ Accumulated(t.toolAccMap)
  BY <1>1 DEF AnthInv, AnthStreaming, AnthTextInv
<1>3. StreamTypeOK /\ InOrderOfArrival(t.toolOrder)
  BY SameTools DEF AnthInv, Anthropic!TypeOK
<1>4. AnthRight(r) /\ ~r.blockOpen
  BY <1>2, AnthFlushes
<1>5. anthropic' = [Anthropic!closeBlock(r) EXCEPT !.wire = Append(@, e)]
  BY DEF Anthropic!Ended, Anthropic!Finish, Anthropic!Write
<1>6. e.event = "message_delta"
  OBVIOUS
<1> HIDE DEF r, e
<1>7. Anthropic!closeBlock(r) = r
  BY <1>4 DEF Anthropic!closeBlock
<1>8. PICK u : u = anthropic'
  OBVIOUS
<1>9. u.wire = Append(r.wire, e)
  <2>1. AnthShaped(r)
    BY <1>4 DEF AnthRight
  <2>2. u = [r EXCEPT !.wire = Append(@, e)]
    BY <1>5, <1>7, <1>8
  <2> QED BY <2>1, <2>2 DEF AnthShaped
<1>10. PICK v : v = Append(r.wire, e)
  OBVIOUS
<1>11. AllShown(v)
  <2>1. PICK x \in Seq(AnthEvent) : x = r.wire
    <3>1. r.wire \in Seq(AnthEvent)
      BY <1>4 DEF AnthRight, AnthTyped
    <3> QED BY <3>1
  <2>2. /\ v \in Seq(AnthEvent \union {e}) /\ Len(v) = Len(x) + 1 /\ DOMAIN v = 1 .. Len(x) + 1
        /\ v[Len(x) + 1] = e /\ \A i \in 1 .. Len(x) : v[i] = x[i]
    BY <1>10, <2>1, Grown
  <2>3. x = Anthropic!flushToolCalls(t).wire
    BY <2>1 DEF r
  <2> QED BY <1>2, <1>3, <1>6, <2>2, <2>3, EndShowsAll
<1>12. AllShown(v)'
  <2>1. /\ \A type : Positions(type)' = Positions(type)
        /\ \A i : ToolPositions(i)' = ToolPositions(i)
    BY <1>1 DEF Positions, ToolPositions
  <2>2. \A texts : ListsCalls(texts)' <=> ListsCalls(texts)
    BY <2>1 DEF ListsCalls
  <2>3. CallsOn(v)' <=> CallsOn(v)
    BY <1>1, <2>2 DEF CallsOn
  <2> QED BY <1>11, <2>1, <2>3 DEF AllShown
<1>13. AllShown(anthropic.wire)' <=> AllShown(v)'
  BY <1>8, <1>9, <1>10 DEF AllShown, CallsOn
<1>14. Anthropic!NothingLost'
  BY <1>12, <1>13, AllIsShown
<1> QED BY <1>1, <1>14 DEF AnthTextInv

\* ... so that the Anthropic handler never loses one.
LEMMA ShownNext == AnthInv /\ AnthTextInv /\ [Next]_vars => AnthTextInv'
<1> SUFFICES ASSUME AnthInv, AnthTextInv, [Next]_vars PROVE AnthTextInv'
  OBVIOUS
<1>1. CASE Callback
  <2>1. PICK evt \in StreamEvent : Deliver(evt) /\ Anthropic!Callback(evt, Len(sent'))
    BY <1>1 DEF Callback
  <2> QED BY <2>1, ShownCallback
<1>2. CASE Failed
  BY <1>2, ShownFailed DEF Failed
<1>3. CASE Ended
  BY <1>3, ShownEnded DEF Ended
<1>4. CASE UNCHANGED vars
  BY <1>4, ShownUnchanged
<1> QED BY <1>1, <1>2, <1>3, <1>4 DEF Next

\* The three handlers are right, and what they hold and have written is what was delivered.
KeepingInv == AdaptersInv /\ RespTextInv /\ AnthTextInv

\* No step of the stream takes any of it away.
LEMMA Keeping == Spec => []KeepingInv
<1>1. Init => KeepingInv
  BY ChatInit, RespInit, AnthInit, TextInit, ShownInit DEF KeepingInv, AdaptersInv
<1>2. KeepingInv /\ [Next]_vars => KeepingInv'
  BY ChatNext, RespNext, AnthNext, TextNext, ShownNext DEF KeepingInv, AdaptersInv
<1> QED BY <1>1, <1>2, PTL DEF Spec

\* Nothing the upstream sends is lost, doubled, reordered or shown as another type: the
\* chat handler has forwarded every increment so far (chat.go), and a finished reply has
\* all text, reasoning and tool calls, each call whole, once and in the order of its
\* arrival, in the object of the Responses handler (responses.go) and in the blocks of the
\* Anthropic one (anthropic.go).
THEOREM NothingIsLost == Spec => []NothingLost
<1>1. KeepingInv => NothingLost
  BY DEF KeepingInv, AdaptersInv, ChatInv, RespTextInv, AnthTextInv, NothingLost
<1> QED BY <1>1, Keeping, PTL
=============================================================================
