------------------------------ MODULE MCLimiter -----------------------------
(* The limiter, and the projector that a request's messages pass before it. *)
EXTENDS UpstreamLimiter, Projector

\* "w" is a rune of two bytes.
MCBytes == [rune \in {"a", "w", "t", "m", "n"} |-> IF rune = "w" THEN 2 ELSE 1]
MCMarker == <<"m">>
MCNote == <<"n", "n">>
MCShrinks == <<6, 4>>

TextsUpTo(runes, n) == UNION {[1 .. k -> runes] : k \in 0 .. n}

\* A truncated text fits its budget, and unless the budget is too small to hold
\* the marker it is the marker between whole runes of the text's two ends, as
\* many as fit.
ASSUME TruncationFits ==
  \A text \in TextsUpTo({"a", "w"}, 6), budget \in 1 .. 8 :
    LET short == TruncateHeadTail(text, budget)
        at == SelectInSeq(short, LAMBDA rune : rune = "m")
        head == SubSeq(short, 1, at - 1)
        tail == SubSeq(short, at + 1, Len(short))
    IN  /\ Length(short) <= budget
        /\ short # text => Length(text) > budget
        /\ at = 0 => IsPrefix(short, text)
        /\ at # 0 =>
             /\ IsPrefix(head, text) /\ IsSuffix(tail, text)
             /\ Length(tail) \in {budget \div 4, budget \div 4 - 1}
             /\ Length(short) >= budget - 2

MCTexts ==
  {<<"a">>, <<"a", "w", "a">>, <<"t", "a", "a", "t", "a">>,
   <<"a", "a", "w", "a", "w", "w", "a">>, <<"t", "a", "t", "t", "a", "t", "t">>}

MCMessages ==
  LET all == [role : {"system", "user"}, text : MCTexts]
      recent == [role : {"user"}, text : {<<"a">>, <<"a", "w", "a", "w", "w", "a">>}]
  IN  {<<m>> : m \in all}
        \union {<<a, b, c, d>> : a \in all, b \in all, c \in recent, d \in recent}

\* However long the messages are, none is dropped and none over its cap; system
\* messages and the last two are only capped; the whole fits the budget, or all
\* that may be shrunk is as short as the last pass makes it; and an older
\* message is no longer than the pass that a younger one has been through.
ASSUME ProjectionFits ==
  \A messages \in MCMessages, maxMessage \in {0, 5, 7}, maxPayload \in {0, 12, 18, 24} :
    LET out == Project(messages, maxMessage, maxPayload)
        capped == [i \in DOMAIN messages |-> Capped(messages[i], maxMessage)]
        old == {i \in DOMAIN messages :
                  i <= Len(messages) - 2 /\ messages[i].role # "system"}
    IN  /\ DOMAIN out = DOMAIN messages
        /\ \A i \in DOMAIN out :
             /\ out[i].role = messages[i].role
             /\ maxMessage > 0 => Length(out[i].text) <= maxMessage
             /\ i \notin old \/ maxPayload = 0 => out[i] = capped[i]
        /\ \/ maxPayload = 0 \/ totalLen(out) <= maxPayload
           \/ \A i \in old : Length(out[i].text) <= Last(Shrinks)
        /\ \A i, j \in old, k \in DOMAIN Shrinks :
             i < j /\ out[j] # capped[j] /\ Length(out[j].text) <= Shrinks[k]
               /\ Length(capped[j].text) > Shrinks[k] =>
               Length(out[i].text) <= Shrinks[k]
=============================================================================
