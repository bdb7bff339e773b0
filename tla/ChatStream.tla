----------------------------- MODULE ChatStream -----------------------------
(***************************************************************************)
(* ChatHandler.handleStreaming (internal/openai/handlers/chat.go): the     *)
(* normalized stream rendered as chunks of the OpenAI chat API, and the    *)
(* request logged when it is over.                                         *)
(*                                                                         *)
(* wire is what the client has been sent: chunks with the position of the  *)
(* event they carry, or 0; the finish reason they announce, or NoReason;   *)
(* and the usage known when they were sent, as a position, or 0.  The      *)
(* chunk that opens every reply with the role is left out.                 *)
(***************************************************************************)
EXTENDS EventStream

VARIABLES
  finishWhy,   (* state.finishWhy *)
  usage,       (* state.usage, 0 when nil *)
  finishSent,
  wire,
  logged       (* the requests recorded in the log: <<status, usage>> *)

stateVars == <<finishWhy, usage, finishSent, wire, logged>>

Init ==
  /\ finishWhy = "stop" /\ usage = 0 /\ finishSent = FALSE
  /\ wire = <<>> /\ logged = <<>>

chunk(at, finish, use) ==
  [event |-> "chunk", at |-> at, finish |-> finish, usage |-> use]

sendChunk(at, finish, use) ==
  /\ wire' = Append(wire, chunk(at, finish, use))
  /\ finishSent' = (finishSent \/ finish # NoReason)

sendNothing == UNCHANGED <<wire, finishSent>>

\* Text, reasoning and tool increments.
Content(evt, at) ==
  /\ evt.type \in {"text", "reasoning", "tool"}
  /\ sendChunk(at, NoReason, usage)
  /\ UNCHANGED <<finishWhy, usage>>

FinishEvent(evt) ==
  /\ evt.type = "finish"
  /\ finishWhy' = evt.reason
  /\ IF finishSent THEN sendNothing ELSE sendChunk(0, evt.reason, usage)
  /\ UNCHANGED usage

\* Usage travels with the next chunk; after the finish reason it gets one of
\* its own.  (A finish event that was not announced does not exist.)
UsageEvent(evt, at) ==
  /\ evt.type = "usage"
  /\ usage' = at
  /\ IF finishSent THEN sendChunk(0, NoReason, at) ELSE sendNothing
  /\ UNCHANGED finishWhy

\* The callback, given the event at position at.
Callback(evt, at) ==
  /\ Content(evt, at) \/ FinishEvent(evt) \/ UsageEvent(evt, at)
  /\ UNCHANGED logged

recordCompletion(status) == logged' = Append(logged, <<status, usage>>)

Done == [event |-> "[DONE]"]

\* 400: the request was refused before anything was sent upstream.
Failed ==
  /\ \E status \in {400, 502} :
       /\ status = 400 => sent = <<>>
       /\ recordCompletion(status)
  /\ wire' = wire \o <<[event |-> "error"], Done>>
  /\ UNCHANGED <<finishWhy, usage, finishSent>>

Ended ==
  /\ recordCompletion(200)
  /\ wire' = wire \o (IF finishSent THEN <<>> ELSE <<chunk(0, finishWhy, usage)>>)
                  \o <<Done>>
  /\ finishSent' = TRUE
  /\ UNCHANGED <<finishWhy, usage>>


\* handleNonStreaming, which gathers as collect does and keeps finishWhy and
\* usage as the streaming handler does.
NonStreaming(c, calls) ==
  [content |-> c.content, reasoning |-> c.reasoning, toolCalls |-> calls,
   finish_reason |-> IF calls # <<>> /\ finishWhy = "stop" THEN "tool_calls"
                     ELSE finishWhy,
   usage |-> usage]
-----------------------------------------------------------------------------
Chunks(w) == SelectSeq(w, LAMBDA e : e.event = "chunk")

\* The chunks that announce a finish reason, and those that carry an increment.
Finishing == {i \in DOMAIN wire : wire[i].event = "chunk" /\ wire[i].finish # NoReason}
Carrying == {i \in DOMAIN wire : wire[i].event = "chunk" /\ wire[i].at # 0}

\* Types, and finishSent says what the client has seen.
TypeOK ==
  /\ StreamTypeOK
  /\ finishWhy \in Reasons \cup {"stop"}
  /\ usage \in 0 .. Len(sent)
  /\ finishSent = (Finishing # {})

\* A client sees one finish reason, the first the upstream gave or "stop", and
\* never one in a reply that fails before the upstream gave any.
OneFinishReason ==
  /\ \A i, j \in Finishing : i = j
  /\ phase = "ended" => Finishing # {}
  /\ \A i \in Finishing : wire[i].finish =
       IF finished THEN sent[Min(Positions("finish"))].reason ELSE "stop"
  /\ phase = "failed" /\ ~finished => Finishing = {}

\* Every reply, a failed one too, is closed by one [DONE], after everything
\* else.
Framed == \A i \in DOMAIN wire :
  wire[i] = Done <=> (phase # "streaming" /\ i = Len(wire))

\* Every increment has been sent, once and in order, whatever the stream's end.
NothingLost ==
  /\ {wire[i].at : i \in Carrying}
       = UNION {Positions(type) : type \in {"text", "reasoning", "tool"}}
  /\ \A i, j \in Carrying : i < j => wire[i].at < wire[j].at

\* What the client has been sent of one type.
Sent(type) ==
  LET mine == SelectSeq(Chunks(wire), LAMBDA c : c.at \in Positions(type))
  IN [k \in DOMAIN mine |-> mine[k].at]

\* The client of a reply that succeeded gets the last usage, whenever it came:
\* the last chunk carries it, and so does the log.
UsageReported == phase = "ended" =>
  /\ wire[Len(wire) - 1].event = "chunk" /\ wire[Len(wire) - 1].usage = usage
  /\ logged = << <<200, Max(Positions("usage") \cup {0})>> >>
=============================================================================
