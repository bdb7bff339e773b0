--------------------------- MODULE StreamAdapters ---------------------------
(***************************************************************************)
(* The three protocol adapters on the same stream, each rendering it as a  *)
(* stream and gathering it as one reply.  A request has one of the six;    *)
(* here all follow each stream side by side, so that what they promise     *)
(* alike is stated once, replies can be compared, and every stream is      *)
(* explored once.                                                          *)
(***************************************************************************)
EXTENDS EventStream

VARIABLES
  anthropic,  (* the Anthropic handler, with what it has written *)
  responses,  (* the Responses handler, with what it has written *)
  finishWhy, usage, finishSent, wire, logged,  (* the chat handler *)
  collected,  (* what the non-streaming handlers have gathered *)
  replies     (* the replies they have written, by protocol *)

Anthropic == INSTANCE AnthropicStream WITH s <- anthropic
Responses == INSTANCE ResponsesStream WITH s <- responses
Chat == INSTANCE ChatStream
Collector == INSTANCE ReplyCollector

vars == <<streamVars, anthropic, responses, Chat!stateVars, collected, replies>>

Init ==
  /\ StreamInit
  /\ Anthropic!Init /\ Responses!Init /\ Chat!Init
  /\ Collector!Init
  /\ replies = [protocol \in {"anthropic", "responses", "chat"} |-> <<>>]

\* The callback runs to its end for each event before the next is read.
Callback == \E evt \in StreamEvent :
  /\ Deliver(evt)
  /\ Anthropic!Callback(evt, Len(sent'))
  /\ Responses!Callback(evt, Len(sent'))
  /\ Chat!Callback(evt, Len(sent'))
  /\ Collector!Callback(evt, Len(sent'))
  /\ UNCHANGED replies

\* A client that did not ask for a stream gets an error and nothing else.
Failed ==
  /\ Fail
  /\ Anthropic!Failed /\ Responses!Failed /\ Chat!Failed
  /\ replies' = [protocol \in DOMAIN replies |-> <<"error">>]
  /\ UNCHANGED collected

Ended ==
  /\ End
  /\ Anthropic!Ended /\ Responses!Ended /\ Chat!Ended
  /\ replies' = [anthropic |-> Anthropic!NonStreaming(collected, Collector!Calls),
                 responses |-> Responses!NonStreaming(collected),
                 chat |-> Chat!NonStreaming(collected, Collector!Calls)]
  /\ UNCHANGED collected

Next == Callback \/ Failed \/ Ended

Spec == Init /\ [][Next]_vars
-----------------------------------------------------------------------------
\* Types; what each adapter has accumulated is what it has been sent.
TypeOK ==
  StreamTypeOK /\ Anthropic!TypeOK /\ Responses!TypeOK /\ Chat!TypeOK

\* Whatever follows what, a client sees well-formed replies: Anthropic blocks
\* one after the other, Responses items added before and done after their
\* increments, chat chunks closed by one [DONE], after failures too.
Framed ==
  TypeOK /\ Anthropic!Framed /\ Responses!Framed /\ Chat!Framed

\* However text, reasoning and increments of several tool calls interleave, a
\* client of any protocol gets each of them once, in order, as what it is, and a
\* Responses item is done with exactly what was streamed of it.
NothingLost ==
  /\ Anthropic!NothingLost /\ Responses!NothingLost /\ Chat!NothingLost
  /\ Responses!DoneIsWhatWasStreamed

\* In whatever order the finish, usage and tool events came: an Anthropic client
\* that has got tool calls is told to run them, and one that has got none only if
\* the upstream's last finish reason says so; a Responses reply is not called
\* completed if the upstream gave "length" and after it no reason but "stop" (a
\* "tool_calls" after it makes it completed); a chat client gets one finish
\* reason, the first the upstream gave or "stop", and the last usage, which the
\* log has too.
EndingReported ==
  /\ Anthropic!ToolUseAnnounced
  /\ Responses!CutReplyReported
  /\ Chat!OneFinishReason /\ Chat!UsageReported

\* A client gets the same with stream true or false: the same text, reasoning
\* and tool calls in the same order, a call under the upstream's id in one if in
\* the other and with the same arguments if they are JSON, and the same stop
\* reason (Anthropic) and usage (chat).  These do differ and are left out:
\* arguments that are no JSON, which the gathered Anthropic reply replaces by {}
\* (anthropic.go:299-302); the id of a call the upstream has not named, which only
\* the streaming handler makes up (anthropic.go:442-445); the status of a
\* Responses reply; and the chat finish reason.
SameReplyEitherWay == phase = "ended" =>
  LET textOf(items, type) ==
        FlattenSeq([k \in DOMAIN items |->
                      IF items[k].type = type THEN items[k].payload ELSE <<>>])
      reply == replies.anthropic
      tools == SelectSeq(reply.content, LAMBDA block : block.type = "tool_use")
      items(object) == [k \in DOMAIN object.output |->
                          <<object.output[k].type, object.output[k].text>>]
  IN /\ \A type \in {"thinking", "text"} :
          textOf(reply.content, type) = Anthropic!ReadAs(type)
     /\ Len(tools) = Len(Anthropic!ToolsRead)
     /\ \A k \in DOMAIN tools :
          /\ tools[k].id = Anthropic!ToolsRead[k][1]
          /\ collected.toolOrder[k] \notin Malformed =>
               tools[k].payload = Anthropic!ToolsRead[k][2]
     /\ reply.stop_reason = Last(anthropic.wire).stop_reason
     /\ items(replies.responses) = items(Last(responses.wire))
     /\ replies.chat.content = Chat!Sent("text")
     /\ replies.chat.reasoning = Chat!Sent("reasoning")
     /\ replies.chat.usage = Last(Chat!Chunks(wire)).usage
=============================================================================
