--------------------------- MODULE ReplyCollector ---------------------------
(***************************************************************************)
(* collect (internal/protocol/common.go): the normalized stream gathered   *)
(* into one reply, for clients that do not ask for a stream.  The chat     *)
(* handler's own loop (internal/openai/handlers/chat.go) gathers alike.    *)
(***************************************************************************)
EXTENDS EventStream, TLC

VARIABLE collected

Init ==
  collected = [content |-> <<>>, reasoning |-> <<>>, toolCalls |-> <<>>,
               toolOrder |-> <<>>, finishReason |-> "", usage |-> 0]

\* Slip: the call keeps the id of its last increment, which may have none.
AddToolCallLastID(c, evt, at) ==
  LET known == evt.index \in DOMAIN c.toolCalls
      args == IF known THEN c.toolCalls[evt.index].args ELSE <<>>
  IN [c EXCEPT
        !.toolCalls =
          (evt.index :> [id |-> evt.id, args |-> Append(args, at)]) @@ @,
        !.toolOrder = IF known THEN @ ELSE Append(@, evt.index)]

\* A tool increment: the upstream's id may come with any of them.
AddToolCall(c, evt, at) ==
  LET known == evt.index \in DOMAIN c.toolCalls
      acc == IF known THEN c.toolCalls[evt.index]
             ELSE [id |-> FALSE, args |-> <<>>]
  IN [c EXCEPT
        !.toolCalls = (evt.index :> [id |-> acc.id \/ evt.id,
                                     args |-> Append(acc.args, at)]) @@ @,
        !.toolOrder = IF known THEN @ ELSE Append(@, evt.index)]

\* The callback, given the event at position at.
Callback(evt, at) ==
  \/ evt.type = "text" /\ collected' = [collected EXCEPT !.content = Append(@, at)]
  \/ /\ evt.type = "reasoning"
     /\ collected' = [collected EXCEPT !.reasoning = Append(@, at)]
  \/ evt.type = "tool" /\ collected' = AddToolCall(collected, evt, at)
  \/ /\ evt.type = "finish"
     /\ collected' = [collected EXCEPT !.finishReason = evt.reason]
  \/ evt.type = "usage" /\ collected' = [collected EXCEPT !.usage = at]

\* The tool calls of the reply.
Calls == [k \in DOMAIN collected.toolOrder |->
            collected.toolCalls[collected.toolOrder[k]]]
=============================================================================
