---- MODULE ModelFacingText ----
(***************************************************************************)
(* The conversions that text goes through, each on all short texts: what   *)
(* the shell wrote, what is selected of it, what stands in a message, what *)
(* an answer says and what the configuration file holds.  A text grows by  *)
(* one token in a step.                                                    *)
(***************************************************************************)
EXTENDS TerminalRenderer, SelectedText, MessageTags, ProseMarkup, TomlText

CONSTANTS MaxStream, MaxOutput, MaxMessage, MaxProse, MaxSetting  \* bounds: tokens in a text

ASSUME TextAssumption ==
  {MaxStream, MaxOutput, MaxMessage, MaxProse, MaxSetting} \subseteq Nat

VARIABLES kind, text

vars == <<kind, text>>

Tokens ==
  [stream |-> StreamTokens, output |-> OutputTokens, message |-> MessageTokens,
   prose |-> ProseTokens, setting |-> Characters]

MaxTokens ==
  [stream |-> MaxStream, output |-> MaxOutput, message |-> MaxMessage,
   prose |-> MaxProse, setting |-> MaxSetting]

Init == kind \in DOMAIN Tokens /\ text = <<>>

Grow ==
  /\ Len(text) < MaxTokens[kind]
  /\ \E token \in Tokens[kind] : text' = Append(text, token)
  /\ UNCHANGED kind

Next == Grow

Spec == Init /\ [][Next]_vars

----------------------------------------------------------------------------

\* The lines that are rendered are those on the screen, margins apart.  A single
\* empty line before the last may be lost.
Renders(stream) ==
  LET rendered == Lines(RenderTerminalStream(stream))
      lines == [i \in DOMAIN rendered |-> WithoutMargin(rendered[i])]
      screen == ScreenLines(stream)
  IN  lines = screen \/ (Len(screen) = 2 /\ screen = <<<<>>>> \o lines)

\* What is rendered is what a terminal would show ("the text an operator saw",
\* render_terminal_stream) of text with strings, colours, line editing, movements
\* within the line and erasing to its end.  The rest is exempt: the code erases
\* the beginning of a line or all of it differently, writes a tab as one
\* character, drops the row of H and f, and skips the other movements, erasures,
\* insertions and deletions.
RendersScreen ==
  kind = "stream" /\ ToSet(text) \cap {"K1", "K2", "H2", "tab", "skipped"} = {} =>
    Renders(text)

\* Where one request ends and the next begins does not matter at a line end
\* outside of OSC strings: the two slices render to the lines that they render
\* to together, empty ones apart.
BoundaryAtLineEnd ==
  LET lines(stream) == Lines(RenderTerminalStream(stream))
      said(stream) == FlattenSeq([i \in DOMAIN lines(stream) |->
        IF lines(stream)[i] = <<>> THEN <<>> ELSE <<lines(stream)[i]>>])
  IN  kind = "stream" =>
        \A k \in DOMAIN text : text[k] = "lf" /\ ~InString(text)[k] =>
          said(text) = said(SubSeq(text, 1, k)) \o said(SubSeq(text, k + 1, Len(text)))

\* What the operator can select of an output, and how it can have been captured.
Selections(output) ==
  LET seen == RenderTerminalStream(Raw(output))
  IN  {SubSeq(seen, i, j) : i, j \in DOMAIN seen} \ {<<>>}

Captures(output) ==
  LET raw == Raw(output)
      cuts == {cut \in (0..Len(raw)) \X (0..Len(raw)) : cut[1] <= cut[2]}
  IN  {<<SubSeq(raw, 1, cut[1]), SubSeq(raw, cut[1] + 1, cut[2]),
         SubSeq(raw, cut[2] + 1, Len(raw))>> : cut \in cuts}

\* Whether an output has a selection in one go: no colour, no movement of the
\* line editor and no line end, which has a carriage return, after its first
\* character.
InOneGo(output, selection) ==
  \E i \in DOMAIN output :
    \A j \in DOMAIN selection :
      /\ i + j - 1 \in DOMAIN output
      /\ \/ output[i + j - 1] = selection[j]
         \/ j = 1 /\ selection[j] = "lf" /\ output[i] = "crlf"

\* A selection is found, however it was captured, exactly if the shell has
\* written it in one go: one across a line end or a colour stays in the transcript
\* ("TroubleShell removes it from the local transcript", README.md).  One occurrence goes, whole, and nothing moves from one
\* event to another: each keeps its characters outside of the occurrence, in
\* order.
SelectionIsRedacted ==
  kind = "output" =>
    \A selection \in Selections(text), events \in Captures(text) :
      LET result == RedactText(events, selection)
          Before(n) == Len(FlattenSeq(SubSeq(events, 1, n - 1)))
          Kept(n, taken) == FlattenSeq([i \in DOMAIN events[n] |->
            IF Before(n) + i \in taken THEN <<>> ELSE <<events[n][i]>>])
      IN  /\ result.redacted <=> InOneGo(text, selection)
          /\ result.redacted =>
               \E first \in Starts(Raw(text), selection) :
                 \A n \in DOMAIN events :
                   result.events[n] = Kept(n, first..(first + Len(selection) - 1))

\* Compaction takes the terminal text of a message out, all of it and nothing
\* else, exactly when no line of that text begins with the closing tag and the
\* question holds no block of its own.
ScrubIsExact ==
  kind = "message" =>
    \A k \in 0..Len(text) :
      LET context == SubSeq(text, 1, k)
          question == SubSeq(text, k + 1, Len(text))
      IN  (Scrub(BuildRequest(context, question)) = BuildRequest(Marker, question)) <=>
            /\ ~\E i \in 1..(k - 1) : context[i] = "lf" /\ context[i + 1] = "</terminal_context>"
            /\ \A i \in DOMAIN question : BlockEnds(question \o <<"lf">>, i) = {}

\* Under the same condition on the terminal text redaction takes every
\* occurrence out of it and leaves a question without blocks as it was.
RedactionIsExact ==
  kind = "message" =>
    \A k \in 1..Len(text) :
      LET context == SubSeq(text, 1, k)
          question == SubSeq(text, k + 1, Len(text))
      IN  /\ ~\E i \in 1..(k - 1) : context[i] = "lf" /\ context[i + 1] = "</terminal_context>"
          /\ \A i \in DOMAIN question : BlockEnds(question, i) = {}
          => RedactTerminalContext(BuildRequest(context, question), "secret")
               = Block(Without(context, "secret"))
                   \o SubSeq(BuildRequest(context, question), k + 5,
                             Len(BuildRequest(context, question)))

\* Markup with one kind of emphasis nests, also together with headings.  Signs
\* count as they stand when the tags of the language model's own are removed.
OneKindNests ==
  LET escaped == Escaped(text)
      double == \E i \in DOMAIN escaped : Is(escaped, i, "*") /\ Is(escaped, i + 1, "*")
  IN  kind = "prose" /\ ~double /\ ~({"*", "tick"} \subseteq ToSet(text))
        => Parses(ProseToPango(text))

\* "A small Pango-safe formatting subset" (architecture.md): every answer can be
\* shown.
MarkupIsSafe == kind = "prose" => Parses(ProseToPango(text))

\* "Config should round-trip through save/load" (test_config.py): a text reads
\* back as it was exactly when it has no control character, no carriage return
\* and no line end at its beginning.
TextRoundTrips ==
  kind = "setting" =>
    LET back == TomlRead(TomlValue(text))
    IN  (back.ok /\ back.text = text) <=> Savable(text)

====
