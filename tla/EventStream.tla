---------------------------- MODULE EventStream -----------------------------
(***************************************************************************)
(* The normalized stream that TraeProxy.ChatCompletion feeds to a protocol *)
(* adapter's callback: what streamEvents (internal/proxy/proxy.go) and     *)
(* streamAgentTaskEvents (internal/proxy/agent_task.go) can deliver and    *)
(* how they can end.  The upstream may send any events in any order.       *)
(*                                                                         *)
(* Data: the payload of an event (text, arguments, usage numbers) is its   *)
(* position in the stream.                                                 *)
(***************************************************************************)
EXTENDS Naturals, FiniteSetsExt, SequencesExt

CONSTANTS
  Tools,     (* indices of tool calls *)
  Malformed, (* those whose arguments, put together, are not JSON *)
  Reasons,   (* finish reasons the upstream gives; none is empty *)
  MaxEvents  (* bound: length of the stream *)

NoReason == "none"  \* what a chat chunk has that does not finish the reply

ASSUME StreamAssumption ==
  MaxEvents \in Nat /\ NoReason \notin Reasons /\ Malformed \subseteq Tools

VARIABLES
  channel,  (* llm_raw_chat ("raw") or agent_task ("agent") *)
  sent,     (* the events delivered so far *)
  phase     (* "streaming", then "ended" or "failed" *)

streamVars == <<channel, sent, phase>>

\* A tool increment may carry the upstream's id of the call, or not.  It carries
\* a piece of the arguments: one that only names the call is left out, and so is
\* a call without any arguments.
StreamEvent ==
  {[type |-> t] : t \in {"text", "reasoning", "usage"}}
    \cup [type : {"tool"}, index : Tools, id : BOOLEAN]
    \cup [type : {"finish"}, reason : Reasons]

StreamInit == channel \in {"raw", "agent"} /\ sent = <<>> /\ phase = "streaming"

\* The positions of the events of one type.
Positions(type) == {i \in DOMAIN sent : sent[i].type = type}

finished == Positions("finish") # {}
hasOutput == \E type \in {"text", "reasoning", "tool"} : Positions(type) # {}

\* The callback is called with evt; it never asks to abort.
Delivered(evt) ==
  /\ phase = "streaming" /\ Len(sent) < MaxEvents
  /\ sent' = Append(sent, evt)
  /\ UNCHANGED <<channel, phase>>

\* streamEvents takes whatever parseUpstreamEvent makes of a line.
DeliverRaw(evt) == channel = "raw" /\ Delivered(evt)

\* streamAgentTaskEvents makes an event of a thought, a token_usage and a
\* turn_completion, and of a line without a name what parseUpstreamData does.
DeliverAgent(evt) == channel = "agent" /\ Delivered(evt)

Deliver(evt) == DeliverRaw(evt) \/ DeliverAgent(evt)

\* An upstream error event, which the callback turns into an error; a request
\* that failed; or a stream that stopped short.
Fail ==
  /\ phase = "streaming"
  /\ phase' = "failed"
  /\ UNCHANGED <<channel, sent>>

\* The end of the stream counts as a success on the raw channel if it has
\* finished or given nothing at all, ...
EndRaw == channel = "raw" /\ (hasOutput => finished)

\* ... on the agent channel if it has finished.
EndAgent == channel = "agent" /\ finished

End ==
  /\ phase = "streaming"
  /\ EndRaw \/ EndAgent
  /\ phase' = "ended"
  /\ UNCHANGED <<channel, sent>>

StreamTypeOK ==
  /\ channel \in {"raw", "agent"}
  /\ sent \in Seq(StreamEvent) /\ Len(sent) <= MaxEvents
  /\ phase \in {"streaming", "ended", "failed"}

-----------------------------------------------------------------------------
(* For the properties of the adapters. *)

InOrder(positions) == SetToSortSeq(positions, <)

\* seq has the positions, each once, in order.
Lists(seq, positions) ==
  /\ ToSet(seq) = positions
  /\ \A j, k \in DOMAIN seq : j < k => seq[j] < seq[k]

\* The upstream has cut the reply at its length limit, and has said nothing but
\* "stop" since, as it does with its closing [DONE].
cut == \E i \in Positions("finish") :
  /\ sent[i].reason = "length"
  /\ \A j \in Positions("finish") : j > i => sent[j].reason = "stop"

\* The increments of tool call i.
ToolPositions(i) == {n \in Positions("tool") : sent[n].index = i}

\* order has the tool calls seen, by first increment.
InOrderOfArrival(order) ==
  /\ ToSet(order) = {i \in Tools : ToolPositions(i) # {}}
  /\ \A j, k \in DOMAIN order : j < k =>
       \E n \in ToolPositions(order[j]) : \A m \in ToolPositions(order[k]) : n < m

\* The texts, which are numbered, are the increments of the tool calls, one text
\* for each call that was seen, by first increment.
ListsCalls(texts) ==
  /\ \A i \in Tools : ToolPositions(i) # {} =>
       \E k \in DOMAIN texts : Lists(texts[k], ToolPositions(i))
  /\ \A k \in DOMAIN texts :
       \E i \in Tools : ToolPositions(i) # {} /\ Lists(texts[k], ToolPositions(i))
  /\ \A j, k \in DOMAIN texts : j < k => texts[j][1] < texts[k][1]

\* How many events of a kind are on wire w before place i.
Before(kind, w, i) == Cardinality({j \in 1 .. i - 1 : w[j].event = kind})
=============================================================================
