-------------------------- MODULE ResponsesStream ---------------------------
(***************************************************************************)
(* ResponsesHandler.handleStreaming (internal/protocol/responses.go): the  *)
(* normalized stream rendered as items of the OpenAI Responses API.  At    *)
(* most one text or reasoning item is open at a time; tool calls stay open *)
(* beside each other until the stream has ended.                           *)
(*                                                                         *)
(* s is the state of the handler, with wire, the events it has written to  *)
(* the client.  An item's id is its output index: both are new when the    *)
(* item is added.  response.created, which opens every reply, and the      *)
(* content part, which opens and closes with its message, are left out; so *)
(* are call ids, names and usage.                                          *)
(***************************************************************************)
EXTENDS EventStream, Integers

VARIABLE s

None == -1

Init ==
  s = [itemIndex |-> -1, item |-> None, text |-> <<>>, type |-> "",
       toolStream |-> <<>>, toolOrder |-> <<>>,
       stableIDs |-> [message |-> None, reasoning |-> None],
       collected |-> [message |-> <<>>, reasoning |-> <<>>],
       finishReason |-> "", wire |-> <<>>]

Write(t, e) == [t EXCEPT !.wire = Append(@, e)]

\* responseObject, closeItem: the status of a reply and of its items.
Status(reason) ==
  IF reason \in {"length", "max_tokens", "content_filter", "incomplete"}
  THEN "incomplete" ELSE "completed"

closeItem(t) ==
  IF t.item = None THEN t
  ELSE Write([t EXCEPT !.item = None],
             [event |-> "done", id |-> t.item, type |-> t.type,
              text |-> t.text, status |-> Status(t.finishReason)])

\* Slip: the next item of a type goes on with the text of the last.
OpenWithText(t, type) ==
  Write([t EXCEPT !.itemIndex = @ + 1, !.item = t.itemIndex + 1,
                  !.type = type, !.stableIDs[type] = t.itemIndex + 1],
        [event |-> "added", id |-> t.itemIndex + 1, type |-> type])

\* openTextItem, openReasoningItem
openItem(t, type) ==
  Write([t EXCEPT !.itemIndex = @ + 1, !.item = t.itemIndex + 1,
                  !.type = type, !.text = <<>>,
                  !.stableIDs[type] = t.itemIndex + 1],
        [event |-> "added", id |-> t.itemIndex + 1, type |-> type])

\* A text or reasoning increment: into the open item if it has the type.
Increment(t, type, at) ==
  LET u == IF t.item # None /\ t.type = type THEN t
           ELSE openItem(closeItem(t), type)
  IN Write([u EXCEPT !.text = Append(@, at), !.collected[type] = Append(@, at)],
           [event |-> "delta", id |-> u.item, text |-> <<at>>])

AddTool(t, i) ==
  Write([t EXCEPT !.itemIndex = @ + 1,
                  !.toolStream = [j \in DOMAIN @ \union {i} |->
                                    IF j # i THEN @[j]
                                    ELSE [id |-> t.itemIndex + 1, text |-> <<>>]],
                  !.toolOrder = Append(@, i)],
        [event |-> "added", id |-> t.itemIndex + 1, type |-> "function_call"])

\* A tool increment: an open text or reasoning item is closed, tool calls stay.
ToolIncrement(t, i, at) ==
  LET closed == closeItem(t)
      u == IF i \in DOMAIN t.toolStream THEN closed ELSE AddTool(closed, i)
  IN Write([u EXCEPT !.toolStream[i].text = Append(@, at)],
           [event |-> "delta", id |-> u.toolStream[i].id, text |-> <<at>>])

\* Slip: the last reason counts, as in collect() of common.go.
LastReason(old, new) == new

\* A reason is overwritten, but not by "stop".  (Nor by an empty one, which
\* EventStream never delivers.)
KeepReason(old, new) == IF old = "" \/ new # "stop" THEN new ELSE old

\* Tool items are closed in the order they were added.
closeTools(t) ==
  LET status == IF t.finishReason \in {"length", "max_tokens", "incomplete"}
                THEN "incomplete" ELSE "completed"
      done(call) == [event |-> "done", id |-> call.id, type |-> "function_call",
                     text |-> call.text, status |-> status]
  IN [t EXCEPT !.wire =
        @ \o [k \in DOMAIN t.toolOrder |-> done(t.toolStream[t.toolOrder[k]])]]

\* The reply as a whole: all reasoning as one item, all text as one, and the
\* tool calls.
responseObject(t) ==
  LET one(type) == IF t.collected[type] = <<>> THEN <<>>
                   ELSE << [id |-> t.stableIDs[type], type |-> type,
                            text |-> t.collected[type]] >>
  IN [event |-> "response", status |-> Status(t.finishReason),
      output |-> one("reasoning") \o one("message")
                   \o [k \in DOMAIN t.toolOrder |->
                         [id |-> t.toolStream[t.toolOrder[k]].id,
                          type |-> "function_call",
                          text |-> t.toolStream[t.toolOrder[k]].text]]]

\* The callback, given the event at position at.
Callback(evt, at) ==
  \/ evt.type = "reasoning" /\ s' = Increment(s, "reasoning", at)
  \/ evt.type = "text" /\ s' = Increment(s, "message", at)
  \/ evt.type = "tool" /\ s' = ToolIncrement(s, evt.index, at)
  \/ /\ evt.type = "finish"
     /\ s' = [s EXCEPT !.finishReason = KeepReason(@, evt.reason)]
  \/ evt.type = "usage" /\ UNCHANGED s

Failed == s' = Write(s, [event |-> "failed"])

\* response.done and response.completed or .incomplete carry the same object.
Ended ==
  LET t == closeTools(closeItem(s)) IN s' = Write(t, responseObject(t))

\* handleNonStreaming, given what collect has gathered; the ids are new.
NonStreaming(c) ==
  responseObject(
    [finishReason |-> c.finishReason,
     collected |-> [message |-> c.content, reasoning |-> c.reasoning],
     stableIDs |-> [message |-> None, reasoning |-> None],
     toolOrder |-> c.toolOrder,
     toolStream |-> [i \in DOMAIN c.toolCalls |->
                       [id |-> None, text |-> c.toolCalls[i].args]]])
-----------------------------------------------------------------------------
wire == s.wire

\* Place i of wire w has an event of that kind, of item id.
Is(w, i, kind, id) == w[i].event = kind /\ w[i].id = id

\* Before place i of wire w, item id is added and not done.
Open(w, i, id) ==
  /\ \E j \in 1 .. i - 1 : Is(w, j, "added", id)
  /\ \A j \in 1 .. i - 1 : ~Is(w, j, "done", id)

\* Types; the tool calls are in the order they began, each there once.
TypeOK ==
  /\ StreamTypeOK
  /\ s.itemIndex \in -1 .. MaxEvents
  /\ s.item \in {None} \cup 0 .. s.itemIndex
  /\ \A type \in {"message", "reasoning"} : s.stableIDs[type] \in -1 .. s.itemIndex
  /\ InOrderOfArrival(s.toolOrder)
  /\ DOMAIN s.toolStream = ToSet(s.toolOrder)

\* Items are added with consecutive indices; an item gets increments only
\* between its being added and done; beside tool calls at most one item is open
\* (responses_adversarial_test.go:106-137).
ItemByItem(w) == \A i \in DOMAIN w :
  CASE w[i].event = "added" ->
         /\ w[i].id = Before("added", w, i)
         /\ \A j \in 1 .. i - 1 :
              w[j].event = "added" /\ Open(w, i, w[j].id)
                => w[j].type = "function_call"
    [] w[i].event \in {"delta", "done"} -> Open(w, i, w[i].id)
    [] OTHER -> i = Len(w)

Framed == ItemByItem(wire)

\* When an item is done, it carries exactly its increments; when the reply is
\* done every item is (responses_adversarial_test.go:133-167).
DoneIsWhatWasStreamed ==
  /\ \A i \in DOMAIN wire : wire[i].event = "done" =>
       LET deltas == {j \in 1 .. i - 1 : Is(wire, j, "delta", wire[i].id)}
       IN Lists(wire[i].text, {wire[j].text[1] : j \in deltas})
  /\ \A i, j \in DOMAIN wire :
       wire[i].event = "delta" /\ wire[j].event = "delta" /\ i < j
         => wire[i].text[1] < wire[j].text[1]
  /\ phase = "ended" => \A i \in DOMAIN wire : wire[i].event = "added" =>
       \E j \in DOMAIN wire : \A k \in DOMAIN wire :
         Is(wire, k, "done", wire[i].id) <=> k = j

\* The reply object has every increment of the stream, once, in order, as what
\* it was, whatever interleaved with it.
NothingLost == phase = "ended" =>
  LET output == Last(wire).output
      Items(type) == {k \in DOMAIN output : output[k].type = type}
      AllIn(items, positions) ==
        IF positions = {} THEN items = {}
        ELSE \E k \in items : items = {k} /\ Lists(output[k].text, positions)
  IN /\ AllIn(Items("message"), Positions("text"))
     /\ AllIn(Items("reasoning"), Positions("reasoning"))
     /\ ListsCalls([k \in Items("function_call") |-> output[k].text])

\* A reply that was cut, and of which the upstream has said nothing but "stop"
\* since, is never reported as completed, in spite of the closing [DONE] (responses.go:639, responses_test.go:131,
\* responses_adversarial_test.go:174-178).
CutReplyReported ==
  phase = "ended" /\ cut => Last(wire).status = "incomplete"
=============================================================================
