---- MODULE FenceParser ----
(***************************************************************************)
(* chat/parser.py: the segments of an answer.  A line is what it says and  *)
(* the line end it has, "none" at the end of the answer.  It says nothing, *)
(* or it is a fence: bare, with an info string that begins with no word    *)
(* ("fence {}" is ```{python}), with the word of a shell ("fence bash" is  *)
(* ```sh and ```shell-session as well), or with any other.  The rest (four *)
(* backticks, a fence indented by four spaces, inline code) is a word, and *)
(* so are the one or two backticks that an unfinished line may begin with. *)
(***************************************************************************)
EXTENDS Integers, Sequences, SequencesExt

CONSTANTS
  Prose,  \* lines that say something
  None    \* no language, no open block

Bare == "fence"
Unlabelled == {Bare, "fence {}"}
Labelled == {"fence bash", "fence python"}
Fences == Unlabelled \cup Labelled
Ticks == "ticks"

Texts == Prose \cup Fences \cup {Ticks, ""}
Ends == {"none", "lf", "crlf", "cr"}
Lines == [says : Texts, end : Ends]

ASSUME ParserAssumption ==
  Prose \cap (Fences \cup {Ticks, ""}) = {} /\ None \notin Texts

Language(fence) == IF fence \in Unlabelled THEN None ELSE fence

TextSegment(lines) ==
  [kind |-> "text", language |-> None, lines |-> lines, insertable |-> FALSE]

\* Mutant: any fence with a language is taken for a command.
CodeSegment_AnyLanguage(language, lines) ==
  [kind |-> "code", language |-> language, lines |-> lines, insertable |-> TRUE]

CodeSegment(language, lines) ==
  [kind |-> "code", language |-> language, lines |-> lines,
   insertable |-> language \in {None, "fence bash"}]

IsBlank(lines) == \A i \in DOMAIN lines : lines[i].says = ""

\* rstrip("\n") stops at a carriage return.
Chopped(line) ==
  [line EXCEPT !.end = CASE @ = "lf" -> "none" [] @ = "crlf" -> "cr" [] OTHER -> @]

Newlines(line) == line.says = "" /\ line.end \notin {"crlf", "cr"}

RStrip(lines) ==
  LET kept == {i \in DOMAIN lines : ~Newlines(lines[i])}
  IN  IF kept = {} THEN <<>>
      ELSE [SubSeq(lines, 1, Max(kept)) EXCEPT ![Max(kept)] = Chopped(@)]

\* While lines are read: the segments so far, the lines of the current one, and
\* the fence that opened it, None in prose.
Start == [segments |-> <<>>, lines |-> <<>>, open |-> None]

\* Mutant: prose before a fence is lost.
EndProse_Forgets(s) == s.segments

EndProse(s) ==
  IF IsBlank(s.lines) THEN s.segments ELSE Append(s.segments, TextSegment(s.lines))

EndCode(s) == Append(s.segments, CodeSegment(Language(s.open), RStrip(s.lines)))

\* A block is closed by a fence without a language only.
Closes(line) == line.says = Bare

Read(s, line) ==
  CASE s.open = None /\ line.says \in Fences ->
         [segments |-> EndProse(s), lines |-> <<>>, open |-> line.says]
    [] s.open # None /\ Closes(line) ->
         [segments |-> EndCode(s), lines |-> <<>>, open |-> None]
    [] OTHER -> [s EXCEPT !.lines = Append(@, line)]

\* What the first lines have been read as, and all of them.
Parsing(markdown) ==
  LET read[k \in 0..Len(markdown)] ==
        IF k = 0 THEN Start ELSE Read(read[k - 1], markdown[k])
  IN  read

Parsed(markdown) == Parsing(markdown)[Len(markdown)]

\* Mutant: the language of a block that is never closed is forgotten.
ParseResponse_Unlabelled(markdown) ==
  LET s == Parsed(markdown)
  IN  IF s.open = None THEN EndProse(s)
      ELSE Append(s.segments, CodeSegment(None, RStrip(s.lines)))

\* A block that is never closed ends with the answer.
ParseResponse(markdown) ==
  LET s == Parsed(markdown)
      segments == IF s.open = None THEN EndProse(s) ELSE EndCode(s)
  IN  IF segments = <<>> THEN <<TextSegment(<<>>)>> ELSE segments

Commands(markdown) ==
  LET segments == ParseResponse(markdown)
  IN  FlattenSeq([i \in DOMAIN segments |->
        IF segments[i].insertable THEN <<segments[i]>> ELSE <<>>])

====
