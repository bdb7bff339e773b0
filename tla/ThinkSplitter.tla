---------------------------- MODULE ThinkSplitter ---------------------------
(***************************************************************************)
(* proxy.ThinkSplitter (internal/proxy/think.go): the stream classifier    *)
(* that takes <think>...</think> blocks out of the text of a reply.  The   *)
(* text arrives in chunks cut anywhere, inside a tag too.                  *)
(* WrapStreamHandler puts it before the callback of every stream: text     *)
(* goes through the splitter, a finish or an error flushes it first, and   *)
(* any other event passes at once, before text that is held back.  Neither *)
(* ends the stream: it is read to its end (proxy.go:245-281), and more     *)
(* text, or a second finish for "[DONE]", may follow.                      *)
(*                                                                         *)
(* Data: a character is "<", "/", "t" (which stands for "think>") or "x"   *)
(* (any other), so the tags have two and three characters.  As in the real *)
(* tags only the first one is "<", and "<" begins both.  A segment is the  *)
(* sequence of its characters, each with its class.  Of the other events   *)
(* there is only the kind.                                                 *)
(*                                                                         *)
(* input is history: the text, and in it "finish" where there was one.     *)
(***************************************************************************)
EXTENDS Naturals, FiniteSetsExt, SequencesExt

CONSTANT MaxInput  (* bound: length of the text, each finish counting one *)

Char == {"<", "/", "t", "x"}
thinkOpenTag == <<"<", "t">>
thinkCloseTag == <<"<", "/", "t">>

VARIABLES
  buf,      (* s.buf *)
  inThink,  (* s.inThink *)
  out,      (* what the callback has been given *)
  input,    (* what has been fed *)
  flushed   (* the stream is at its end *)

vars == <<buf, inThink, out, input, flushed>>

Init == buf = <<>> /\ inThink = FALSE /\ out = <<>> /\ input = <<>>
        /\ flushed = FALSE

Classified(text, thinking) ==
  [i \in DOMAIN text |-> [char |-> text[i], thinking |-> thinking]]

\* Where tag occurs in data.
Occurrences(data, tag) ==
  {i \in DOMAIN data : IsPrefix(tag, SubSeq(data, i, Len(data)))}

PartialSuffixes(data, tag) ==
  {n \in 0 .. Len(tag) - 1 :
     n <= Len(data) /\ IsSuffix(SubSeq(tag, 1, n), data)}

\* Slip: the loop over n stops one too early, as if a tag were split off
\* after its first character only.
ShortPartialTagSuffix(data, tag) ==
  Max(PartialSuffixes(data, tag) \intersect (0 .. Len(tag) - 2))

\* The length of the longest suffix of data that may be the start of tag.
partialTagSuffix(data, tag) == Max(PartialSuffixes(data, tag))

\* drain(flush) on splitter s = [buf, inThink, out].
RECURSIVE drain(_, _)
drain(s, flush) ==
  LET tag  == IF s.inThink THEN thinkCloseTag ELSE thinkOpenTag
      idx  == Occurrences(s.buf, tag)
      cut  == IF idx # {} THEN Min(idx) - 1
              ELSE Len(s.buf) - (IF flush THEN 0
                                 ELSE partialTagSuffix(s.buf, tag))
      skip == IF idx # {} THEN Len(tag) ELSE 0
      next == [buf |-> SubSeq(s.buf, cut + skip + 1, Len(s.buf)),
               inThink |-> IF idx # {} THEN ~s.inThink ELSE s.inThink,
               out |-> s.out \o Classified(SubSeq(s.buf, 1, cut), s.inThink)]
  IN IF idx # {} THEN drain(next, flush) ELSE next

Feed(s, text) == drain([s EXCEPT !.buf = @ \o text], FALSE)
Flush(s) == drain(s, TRUE)

\* The variant for a whole text.
SplitThinking(text) ==
  LET done == Flush(Feed([buf |-> <<>>, inThink |-> FALSE, out |-> <<>>], text)).out
      Of(class) == SelectSeq(done, LAMBDA c : c.thinking = class)
  IN [content |-> Of(FALSE), reasoning |-> Of(TRUE)]
-----------------------------------------------------------------------------
(* WrapStreamHandler. *)

sp == [buf |-> buf, inThink |-> inThink, out |-> out]

Becomes(s) == buf' = s.buf /\ inThink' = s.inThink /\ out' = s.out

\* An event that is not text, as the callback sees it.
Event(kind) == [char |-> kind, thinking |-> FALSE]

Passed(kind) == \E i \in DOMAIN out : out[i] = Event(kind)

TextEvent(text) ==
  /\ ~flushed
  /\ Becomes(Feed(sp, text))
  /\ input' = input \o text
  /\ UNCHANGED flushed

\* A tool call, reasoning of its own, usage or a place in the queue: one is
\* enough to show where such an event ends up.
OtherEvent ==
  /\ ~flushed /\ ~Passed("other")
  /\ out' = Append(out, Event("other"))
  /\ UNCHANGED <<buf, inThink, input, flushed>>

\* Slip: the event is handed on first and the text after it.
FinishFirst ==
  /\ ~flushed /\ Len(input) < MaxInput
  /\ Becomes(Flush([sp EXCEPT !.out = Append(@, Event("finish"))]))
  /\ input' = Append(input, "finish")
  /\ UNCHANGED flushed

\* A finish or an error.
FinishEvent ==
  /\ ~flushed /\ Len(input) < MaxInput
  /\ LET done == Flush(sp)
     IN  Becomes([done EXCEPT !.out = Append(@, Event("finish"))])
  /\ input' = Append(input, "finish")
  /\ UNCHANGED flushed

\* The stream ends, and its reader calls flush.
EndOfStream ==
  /\ ~flushed
  /\ Becomes(Flush(sp))
  /\ flushed' = TRUE
  /\ UNCHANGED input

Next ==
  \/ \E n \in 1 .. MaxInput - Len(input) : \E text \in [1 .. n -> Char] : TextEvent(text)
  \/ OtherEvent
  \/ FinishEvent \/ EndOfStream

Spec == Init /\ [][Next]_vars
-----------------------------------------------------------------------------
(* The classification of a whole text, defined without buffer or chunks: a *)
(* tag counts where it is the one that ends the class of its place.  A     *)
(* finish keeps its place, and no tag reaches across it.                   *)

StartsTag(text, i, thinking) ==
  i \in Occurrences(text, IF thinking THEN thinkCloseTag ELSE thinkOpenTag)

\* thinking[i]: the class in force before character i.
Thinking(text) ==
  LET thinking[i \in 1 .. Len(text) + 1] ==
        IF i = 1 THEN FALSE
        ELSE LET before == thinking[i - 1]
             IN before # StartsTag(text, i - 1, before)
  IN thinking

Reference(text) ==
  LET thinking == Thinking(text)
      Markup(i) == \E j \in 1 .. i :
        /\ StartsTag(text, j, thinking[j])
        /\ i < j + Len(IF thinking[j] THEN thinkCloseTag ELSE thinkOpenTag)
      plain == SelectSeq([i \in DOMAIN text |-> i], LAMBDA i : ~Markup(i))
  IN [k \in DOMAIN plain |-> [char |-> text[plain[k]],
                              thinking |-> /\ thinking[plain[k]]
                                           /\ text[plain[k]] \in Char]]

Read == SelectSeq(out, LAMBDA c : c.char # "other")

\* Wherever the text was cut and whatever came in between, the pieces emitted,
\* with what is held back, are at any time those of the whole text so far: no
\* character is lost, doubled, moved - not across a finish either - or put in
\* the wrong class (think.go:17-20, 163-168).  At most an unfinished tag is held
\* back: the reader never waits for more than the last characters, and another
\* event overtakes no more than these.  At the end nothing is, and if there was
\* no finish the pieces are those SplitThinking gives at once (think.go:113).
ChunkingInvisible ==
  /\ Read \o Classified(buf, inThink) = Reference(input)
  /\ Len(buf) < Len(thinkCloseTag)
  /\ flushed =>
       /\ buf = <<>>
       /\ LET Of(class) == SelectSeq(Read, LAMBDA c : c.thinking = class)
          IN  ToSet(input) \subseteq Char =>
                SplitThinking(input) = [content |-> Of(FALSE), reasoning |-> Of(TRUE)]
=============================================================================
