---- MODULE TerminalRenderer ----
(***************************************************************************)
(* terminal/transcript.py, render_terminal_stream: the text an operator    *)
(* saw, from what the shell wrote.  A CSI sequence is one token, its final *)
(* byte and parameter: "H2" is H or f with column 2 and any row, "m" stands *)
(* for colours, and "skipped" for the finals that change a terminal's      *)
(* screen and that the code skips: @ A B J P X and their like.  Strings    *)
(* stand between an introducer, OSC or DCS, and their terminator, which    *)
(* may be a bell for OSC.  Negative parameters are left out.               *)
(***************************************************************************)
EXTENDS Integers, Sequences, SequencesExt

Letters == {"a", "b"}
Blank == "blank"
Printed == Letters \cup {Blank, "tab"}
EraseModes == [K0 |-> 0, K1 |-> 1, K2 |-> 2]
StreamTokens ==
  Letters \cup DOMAIN EraseModes \cup {"C2", "D2", "G2", "H2", "m", "skipped"}
    \cup {"tab", "lf", "cr", "bs", "bel", "osc", "dcs", "st"}

\* The lines that are complete, the one being written, the column of the next
\* character, and the kind of string that the text is inside of.
Screen == [completed |-> <<>>, line |-> <<>>, cursor |-> 0, string |-> "no"]

Padded(line, width) ==
  line \o [i \in 1..Max({0, width - Len(line)}) |-> Blank]

\* Mutant: what is written replaces the rest of the line.
Write_Truncates(s, character) ==
  [s EXCEPT !.line = SubSeq(Padded(s.line, s.cursor), 1, s.cursor) \o <<character>>,
            !.cursor = @ + 1]

Write(s, character) ==
  LET line == Padded(s.line, s.cursor)
  IN  [s EXCEPT !.line = IF s.cursor = Len(line) THEN Append(line, character)
                         ELSE [line EXCEPT ![s.cursor + 1] = character],
                !.cursor = @ + 1]

\* Erasing the beginning of a line deletes it: the rest moves to the left.
EraseLine(s, mode) ==
  CASE mode = 1 -> [s EXCEPT !.line = SubSeq(@, Min({s.cursor + 1, Len(@)}) + 1, Len(@)),
                             !.cursor = 0]
    [] mode = 2 -> [s EXCEPT !.line = <<>>, !.cursor = 0]
    [] OTHER    -> [s EXCEPT !.line = SubSeq(@, 1, Min({s.cursor, Len(@)}))]

Column(cursor, token) ==
  CASE token = "cr" -> 0
    [] token = "bs" -> Max({0, cursor - 1})
    [] token = "C2" -> cursor + 2
    [] token = "D2" -> Max({0, cursor - 2})
    [] token \in {"G2", "H2"} -> 2 - 1
    [] OTHER -> cursor

\* Mutant: the next line begins below the end of this one.
NewLine_KeepsColumn(s) ==
  [s EXCEPT !.completed = Append(@, s.line), !.line = <<>>]

NewLine(s) == [s EXCEPT !.completed = Append(@, s.line), !.line = <<>>, !.cursor = 0]

\* The kind of string after a token.
Inside(string, token) ==
  CASE string = "no" -> IF token \in {"osc", "dcs"} THEN token ELSE "no"
    [] string # "no" /\ (token = "st" \/ (token = "bel" /\ string = "osc")) -> "no"
    [] OTHER -> string

Interpret(s, token) ==
  IF s.string # "no" \/ token \in {"osc", "dcs"} THEN [s EXCEPT !.string = Inside(@, token)]
  ELSE CASE token = "lf" -> NewLine(s)
         [] token \in Printed -> Write(s, token)
         [] token \in DOMAIN EraseModes -> EraseLine(s, EraseModes[token])
         [] OTHER -> [s EXCEPT !.cursor = Column(@, token)]

Joined(lines) ==
  FlattenSeq([i \in DOMAIN lines |-> IF i = 1 THEN lines[i] ELSE <<"lf">> \o lines[i]])

\* The screen after all of a text.
Interpreted(text) ==
  LET s[k \in 0..Len(text)] == IF k = 0 THEN Screen ELSE Interpret(s[k - 1], text[k])
  IN  s[Len(text)]

\* A single empty line before the last is lost: the code takes the joined lines
\* for empty.
RenderTerminalStream(text) ==
  LET s == Interpreted(text)
      rendered == Joined(s.completed)
  IN  IF s.line # <<>>
      THEN (IF rendered # <<>> THEN rendered \o <<"lf">> ELSE <<>>) \o s.line
      ELSE IF s.completed # <<>> THEN rendered \o <<"lf">> ELSE <<>>

----------------------------------------------------------------------------
(* A terminal, cell by cell: a cell shows what was written there last,     *)
(* unless it was erased afterwards.  Erasing leaves the cursor where it is. *)
(* Tabs, rows and what "skipped" stands for are not described.             *)

\* Whether the text is inside a string after its first k tokens.
InString(text) ==
  LET kind[k \in 0..Len(text)] == IF k = 0 THEN "no" ELSE Inside(kind[k - 1], text[k])
  IN  [k \in 0..Len(text) |-> kind[k] # "no"]

WithoutStrings(text) ==
  FlattenSeq([k \in DOMAIN text |->
    IF InString(text)[k] \/ InString(text)[k - 1] THEN <<>> ELSE <<text[k]>>])

Lines(text) ==
  LET lines[k \in 0..Len(text)] ==
        IF k = 0 THEN <<<<>>>>
        ELSE IF text[k] = "lf" THEN Append(lines[k - 1], <<>>)
        ELSE Append(Front(lines[k - 1]), Append(Last(lines[k - 1]), text[k]))
  IN  lines[Len(text)]

Columns(line) ==
  LET at[k \in 0..Len(line)] ==
        IF k = 0 THEN 0
        ELSE IF line[k] \in Letters THEN at[k - 1] + 1 ELSE Column(at[k - 1], line[k])
  IN  at

Cell(line, column) ==
  LET at == Columns(line)
      written == {k \in DOMAIN line : line[k] \in Letters /\ at[k - 1] = column}
      erased == {k \in DOMAIN line :
                   \/ line[k] = "K0" /\ at[k - 1] <= column
                   \/ line[k] = "K1" /\ column <= at[k - 1]
                   \/ line[k] = "K2"}
  IN  IF written = {} \/ \E k \in erased : k > Max(written) THEN Blank
      ELSE line[Max(written)]

WithoutMargin(line) ==
  LET said == {i \in DOMAIN line : line[i] # Blank}
  IN  IF said = {} THEN <<>> ELSE SubSeq(line, 1, Max(said))

ScreenLine(line) ==
  WithoutMargin([c \in 1..(Max({Columns(line)[k] : k \in DOMAIN line \cup {0}}) + 1) |->
                   Cell(line, c - 1)])

ScreenLines(text) ==
  LET lines == Lines(WithoutStrings(text)) IN [i \in DOMAIN lines |-> ScreenLine(lines[i])]

====
