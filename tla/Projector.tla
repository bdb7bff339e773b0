------------------------------- MODULE Projector ----------------------------
(***************************************************************************)
(* protect.Projector (internal/protect/protect.go), which every chat       *)
(* request's messages pass before they are sent (applyProtection in        *)
(* internal/proxy/proxy.go): pure functions on texts.                      *)
(*                                                                         *)
(* Data: a text is a sequence of runes; lengths count its bytes.  "t" is a *)
(* line of a stack trace and "n" the note that replaces all of them.  The  *)
(* sizes the code fixes are constants, so that they can be small.          *)
(***************************************************************************)
EXTENDS Integers, SequencesExt

CONSTANTS
  Bytes,           (* the length of each rune *)
  Marker, Note,    (* truncationMarker; the note of StripStackTraces *)
  LongText,        (* texts longer than this are stripped: 4096 *)
  Shrinks,         (* the passes: 2048, 1024, 512, 256 *)
  Framing          (* what a message takes beside its text: 32 *)

ASSUME ProjectorAssumption ==
  /\ \A rune \in DOMAIN Bytes : Bytes[rune] \in Nat \ {0}
  /\ \A rune \in ToSet(Marker) \union ToSet(Note) : Bytes[rune] = 1
  /\ LongText \in Nat /\ Framing \in Nat /\ Shrinks \in Seq(Nat)

Length(text) == FoldLeft(LAMBDA n, rune : n + Bytes[rune], 0, text)

\* text[:n] without the start of a rune, and the last n bytes without the end of
\* one.
trimToRuneEdge(text, n) ==
  SubSeq(text, 1, Max({k \in 0 .. Len(text) : Length(SubSeq(text, 1, k)) <= n}))

skipToRuneEdge(text, n) ==
  LET Rest(k) == SubSeq(text, k, Len(text))
  IN  Rest(Min({k \in 1 .. Len(text) + 1 : Length(Rest(k)) <= n}))

TruncateHeadTail(text, budget) ==
  LET tail == budget \div 4
      head == budget - tail - Len(Marker)
  IN  IF budget <= 0 \/ Length(text) <= budget THEN text
      ELSE IF head <= 0 THEN trimToRuneEdge(text, budget)
      ELSE trimToRuneEdge(text, head) \o Marker \o skipToRuneEdge(text, tail)

StripStackTraces(text) ==
  IF "t" \in ToSet(text) THEN SelectSeq(text, LAMBDA rune : rune # "t") \o Note
                         ELSE text

\* The first two steps, for one message.
Capped(message, maxMessage) ==
  [message EXCEPT !.text =
     TruncateHeadTail(IF Length(@) > LongText THEN StripStackTraces(@) ELSE @,
                      maxMessage)]

totalLen(messages) ==
  FoldLeft(LAMBDA n, m : n + Length(m.text) + Framing, 0, messages)

\* One pass over all messages but the last two, oldest first, until they fit.
ShrinkPass(messages, shrink, maxPayload) ==
  FoldLeft(LAMBDA out, i :
             IF totalLen(out) > maxPayload /\ out[i].role # "system"
             THEN [out EXCEPT ![i].text = TruncateHeadTail(@, shrink)] ELSE out,
           messages, [i \in 1 .. Len(messages) - 2 |-> i])

\* A budget of 0 is none.
Project(messages, maxMessage, maxPayload) ==
  LET capped == [i \in DOMAIN messages |-> Capped(messages[i], maxMessage)]
  IN  IF maxPayload = 0 THEN capped
      ELSE FoldLeft(LAMBDA out, shrink : ShrinkPass(out, shrink, maxPayload),
                    capped, Shrinks)
=============================================================================
