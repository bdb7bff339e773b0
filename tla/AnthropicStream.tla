-------------------------- MODULE AnthropicStream ---------------------------
(***************************************************************************)
(* AnthropicHandler.handleStreaming (internal/protocol/anthropic.go): the  *)
(* normalized stream rendered as content blocks of the Anthropic Messages  *)
(* API.  Text and reasoning are rendered as they come, tool calls are      *)
(* accumulated and rendered when the stream has ended.                     *)
(*                                                                         *)
(* s is the state of the handler, with wire, the events it has written to  *)
(* the client.  message_start is left out: it opens every reply.           *)
(***************************************************************************)
EXTENDS EventStream, Integers

VARIABLE s

Init ==
  s = [blockOpen |-> FALSE, blockIndex |-> -1, blockType |-> "",
       toolAccMap |-> <<>>, toolOrder |-> <<>>,
       finishReason |-> "stop", wire |-> <<>>]

Write(t, e) == [t EXCEPT !.wire = Append(@, e)]

\* Slip: the next block is opened with the last one still open.
CloseNothing(t) == t

closeBlock(t) ==
  IF t.blockOpen
  THEN Write([t EXCEPT !.blockOpen = FALSE],
             [event |-> "stop", index |-> t.blockIndex])
  ELSE t

openBlock(t, type, id) ==
  Write([t EXCEPT !.blockIndex = @ + 1, !.blockOpen = TRUE, !.blockType = type],
        [event |-> "start", index |-> t.blockIndex + 1, type |-> type,
         id |-> id])

delta(t, payload) ==
  Write(t, [event |-> "delta", index |-> t.blockIndex, type |-> t.blockType,
            payload |-> payload])

\* A text or reasoning increment: into the open block if it has the type.
Increment(t, type, at) ==
  delta(IF t.blockOpen /\ t.blockType = type THEN t
        ELSE openBlock(closeBlock(t), type, FALSE), <<at>>)

\* A tool increment; id: the upstream has named the call.  One that it has not
\* named is given an id made up here.
Accumulate(t, evt, at) ==
  LET known == evt.index \in DOMAIN t.toolAccMap
      acc == IF known THEN t.toolAccMap[evt.index]
             ELSE [id |-> FALSE, arguments |-> <<>>]
  IN [t EXCEPT
        !.toolAccMap = [i \in DOMAIN @ \union {evt.index} |->
                          IF i # evt.index THEN @[i]
                          ELSE [id |-> acc.id \/ evt.id,
                                arguments |-> Append(acc.arguments, at)]],
        !.toolOrder = IF known THEN @ ELSE Append(@, evt.index)]

\* Arguments that are empty would not be written; no call is without.  The
\* accumulators are dropped after it, which nothing looks at any more.
flushToolCalls(t) ==
  LET render(u, i) == closeBlock(delta(openBlock(u, "tool_use", u.toolAccMap[i].id),
                                       u.toolAccMap[i].arguments))
  IN FoldLeft(render, closeBlock(t), t.toolOrder)

mapStopReason(finish, hasToolCalls) ==
  IF hasToolCalls \/ finish = "tool_calls" THEN "tool_use"
  ELSE CASE finish = "length"      -> "max_tokens"
         [] finish \in {"stop", ""} -> "end_turn"
         [] OTHER                  -> finish

Finish(t) ==
  Write(closeBlock(flushToolCalls(t)),
        [event |-> "message_delta",
         stop_reason |-> mapStopReason(t.finishReason, t.toolOrder # <<>>)])

\* The callback, given the event at position at.
Callback(evt, at) ==
  \/ evt.type = "reasoning" /\ s' = Increment(s, "thinking", at)
  \/ evt.type = "text" /\ s' = Increment(s, "text", at)
  \/ evt.type = "tool" /\ s' = Accumulate(s, evt, at)
  \/ evt.type = "finish" /\ s' = [s EXCEPT !.finishReason = evt.reason]
  \/ evt.type = "usage" /\ UNCHANGED s

Failed == s' = Write(s, [event |-> "error"])

Ended == s' = Finish(s)

\* handleNonStreaming, given what collect has gathered: one block of each type
\* that is not empty, and one for each tool call, with {} (here <<>>) for
\* arguments that are not JSON, and without an id if the upstream gave none.
NonStreaming(c, calls) ==
  LET one(type, text) ==
        IF text = <<>> THEN <<>> ELSE << [type |-> type, payload |-> text] >>
  IN [content |-> one("thinking", c.reasoning) \o one("text", c.content)
                    \o [k \in DOMAIN calls |->
                          [type |-> "tool_use", id |-> calls[k].id,
                           payload |-> IF c.toolOrder[k] \in Malformed THEN <<>>
                                       ELSE calls[k].args]],
      stop_reason |-> mapStopReason(c.finishReason, c.toolOrder # <<>>)]
-----------------------------------------------------------------------------
wire == s.wire

\* Types; the accumulators are those of the calls in toolOrder, each there
\* once.
TypeOK ==
  /\ StreamTypeOK
  /\ s.blockOpen \in BOOLEAN
  /\ s.blockType \in {"", "thinking", "text", "tool_use"}
  /\ s.blockIndex \in -1 .. MaxEvents
  /\ ToSet(s.toolOrder) = DOMAIN s.toolAccMap
  /\ InOrderOfArrival(s.toolOrder)

\* Every block is started, filled and stopped before the next, with the next
\* index; no increment reaches a stopped block, and none is open when the reply
\* is closed (protocol_test.go:642-643).
BlockByBlock(w) == \A i \in DOMAIN w :
  LET started == Before("start", w, i)
      open == started - Before("stop", w, i)
  IN CASE w[i].event = "start" -> open = 0 /\ w[i].index = started
       [] w[i].event \in {"delta", "stop"} ->
            open = 1 /\ w[i].index = started - 1
       [] w[i].event = "message_delta" -> open = 0
       [] OTHER -> i = Len(w)

Framed == BlockByBlock(wire)

\* What the client reads as one type, in the order of the wire.
ReadAs(type) ==
  FlattenSeq([i \in DOMAIN wire |->
                IF wire[i].event = "delta" /\ wire[i].type = type
                THEN wire[i].payload ELSE <<>>])

\* Where the blocks of the tool calls start.
ToolBlocks ==
  InOrder({i \in DOMAIN wire :
             wire[i].event = "start" /\ wire[i].type = "tool_use"})

\* The tool calls the client reads: id and arguments.
ToolsRead ==
  [k \in DOMAIN ToolBlocks |->
     <<wire[ToolBlocks[k]].id, wire[ToolBlocks[k] + 1].payload>>]

\* A finished reply has every increment once, in order and as its own type;
\* interleaved tool calls each have a block with their own arguments, in the
\* order they began, under the id the upstream gave at any time
\* (TestAnthropic_InterleavedToolCalls_StrictOrdering).
NothingLost == phase = "ended" =>
  LET Deltas(type) == {i \in DOMAIN wire : wire[i].event = "delta" /\ wire[i].type = type}
      Carry(deltas, positions) ==
        /\ {wire[i].payload : i \in deltas} = {<<at>> : at \in positions}
        /\ \A i, j \in deltas : i < j => wire[i].payload[1] < wire[j].payload[1]
      starts == {i \in DOMAIN wire : wire[i].event = "start" /\ wire[i].type = "tool_use"}
  IN /\ Carry(Deltas("text"), Positions("text"))
     /\ Carry(Deltas("thinking"), Positions("reasoning"))
     /\ Deltas("tool_use") = {i + 1 : i \in starts}
     /\ ListsCalls([i \in starts |-> wire[i + 1].payload])
     /\ \A i \in starts : wire[i].id = \E at \in ToSet(wire[i + 1].payload) : sent[at].id

\* A client that has got a tool call is told to run tools; one that has got none
\* is told so only if that is what the upstream said last, who may be wrong: it
\* is passed on unchecked (anthropic.go:206-209).
ToolUseAnnounced == phase = "ended" =>
  (Last(wire).stop_reason = "tool_use"
     <=> Positions("tool") # {} \/ s.finishReason \in {"tool_calls", "tool_use"})
=============================================================================
