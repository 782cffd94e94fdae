---- MODULE SuggestedCommands ----
(***************************************************************************)
(* From an answer to the shell's prompt: an answer arrives in fragments    *)
(* that are cut anywhere, window.py shows each command of it as a card     *)
(* with Insert and Execute, and terminal/pane.py feeds the text of the     *)
(* card to the terminal, where every newline submits what stands on the    *)
(* prompt.                                                                 *)
(***************************************************************************)
EXTENDS FenceParser

CONSTANTS
  LineEnds,  \* the line ends of the provider
  MaxLines,  \* bound: lines of an answer
  MaxInputs  \* bound: clicks and keys of the operator

ASSUME SuggestionAssumption ==
  LineEnds \subseteq Ends \ {"none"} /\ MaxLines \in Nat /\ MaxInputs \in Nat

VARIABLES
  answer,     \* the lines of the answer, as far as they have arrived
  cards,      \* the code of each suggested command, as lines
  prompt,     \* what stands on the shell's prompt, piece by piece
  submitted,  \* the lines submitted to the shell
  inputs,     \* clicks and keys of the operator so far
  ordered     \* remembers: the lines that Enter and Execute were to submit

vars == <<answer, cards, prompt, submitted, inputs, ordered>>

Init ==
  /\ answer = <<>>
  /\ cards = <<>>
  /\ prompt = <<>>
  /\ submitted = <<>>
  /\ inputs = 0
  /\ ordered = 0

\* What a line that has no end yet can become: a fence begins as one or two
\* backticks and has any label later, or a backtick that makes it a word.
Becomes(says) ==
  CASE says = Ticks -> Texts \ {""}
    [] says = Bare -> Texts \ {Ticks, ""}
    [] says \in Labelled -> Labelled \cup Prose
    [] OTHER -> Prose \cup {says}

LineBegins(line) ==
  /\ answer # <<>> => Last(answer).end # "none"
  /\ Len(answer) < MaxLines
  /\ answer' = Append(answer, line)

LineGoesOn(line) ==
  /\ answer # <<>>
  /\ Last(answer).end = "none"
  /\ line.says \in Becomes(Last(answer).says)
  /\ answer' = Append(Front(answer), line)

\* The newline after a carriage return.
LineEndGoesOn ==
  /\ answer # <<>>
  /\ Last(answer).end = "cr"
  /\ "crlf" \in LineEnds
  /\ answer' = Append(Front(answer), [Last(answer) EXCEPT !.end = "crlf"])

AfterReturn(line) ==
  answer # <<>> /\ Last(answer).end = "cr" /\ line.says = "" /\ line.end = "lf"

\* A fragment that holds more arrives piece by piece.
FragmentArrives ==
  /\ cards = <<>>
  /\ \/ \E line \in [says : Texts, end : LineEnds \cup {"none"}] :
          /\ line.says # "" \/ line.end # "none"
          /\ ~AfterReturn(line)
          /\ LineBegins(line) \/ LineGoesOn(line)
     \/ LineEndGoesOn
  /\ UNCHANGED <<cards, prompt, submitted, inputs, ordered>>

\* _append_response, once the answer is committed.
Cards == [i \in DOMAIN Commands(answer) |-> Commands(answer)[i].lines]

AppendResponse ==
  /\ cards = <<>>
  /\ cards' = Cards
  /\ UNCHANGED <<answer, prompt, submitted, inputs, ordered>>

----------------------------------------------------------------------------
(* The terminal.                                                           *)

\* Every line end becomes a newline: the texts between them.
InsertableText(code) ==
  LET texts == [i \in DOMAIN code |-> code[i].says]
  IN  IF code # <<>> /\ Last(code).end # "none" THEN Append(texts, "") ELSE texts

Piece(text) == IF text = "" THEN <<>> ELSE <<text>>

\* What is submitted and what is left on the prompt when texts are fed that
\* are separated by newlines.
FeedChild(texts) ==
  LET whole == [i \in 1..(Len(texts) - 1) |->
                  IF i = 1 THEN prompt \o Piece(texts[1]) ELSE Piece(texts[i])]
  IN  CASE texts = <<>> -> [submits |-> <<>>, leaves |-> prompt]
        [] Len(texts) = 1 -> [submits |-> <<>>, leaves |-> prompt \o Piece(texts[1])]
        [] OTHER -> [submits |-> whole, leaves |-> Piece(Last(texts))]

Input(lines) ==
  /\ inputs < MaxInputs
  /\ inputs' = inputs + 1
  /\ ordered' = ordered + lines
  /\ UNCHANGED <<answer, cards>>

\* Mutant: Insert ends with a newline.
Insert_Enter(code) ==
  LET fed == FeedChild(InsertableText(code))
  IN  /\ Input(0)
      /\ submitted' = submitted \o Append(fed.submits, fed.leaves)
      /\ prompt' = <<>>

Insert(code) ==
  LET fed == FeedChild(InsertableText(code))
  IN  /\ Input(0)
      /\ submitted' = submitted \o fed.submits
      /\ prompt' = fed.leaves

Execute(code) ==
  LET texts == InsertableText(code)
      fed == FeedChild(texts)
  IN  /\ Input(Max({1, Len(texts)}))
      /\ submitted' = submitted \o Append(fed.submits, fed.leaves)
      /\ prompt' = <<>>

PressEnter ==
  /\ Input(1)
  /\ submitted' = Append(submitted, prompt)
  /\ prompt' = <<>>

Operator ==
  \/ \E i \in DOMAIN cards : Insert(cards[i]) \/ Execute(cards[i])
  \/ PressEnter

Next ==
  \/ FragmentArrives
  \/ AppendResponse
  \/ Operator

Spec == Init /\ [][Next]_vars

----------------------------------------------------------------------------
(* What the answer's reader may rely on.                                   *)

Flat(segments) == FlattenSeq([i \in DOMAIN segments |-> segments[i].lines])

\* The texts of lines, one after the other, without those that are silent.
Telling(lines, silent) ==
  FlattenSeq([i \in DOMAIN lines |->
    IF lines[i].says \in silent THEN <<>> ELSE <<lines[i].says>>])

Saying(lines) == Telling(lines, Fences \cup {""})
Text(code) == Telling(code, {""})

\* Every line of an answer is shown once and in order, whether it stands in
\* prose, in a block or in a block that is never closed (parse_response).
NothingIsLost == Saying(Flat(ParseResponse(answer))) = Saying(answer)

\* A suggested command is what stands between a fence that is labelled as a
\* shell's or begins with no label at all and the next bare fence, or the end of
\* the answer, without the newlines at its end (parse_response).
CommandsAreFenced ==
  LET commands == Commands(answer)
  IN  \A n \in DOMAIN commands :
        \E from \in DOMAIN answer, to \in 1..(Len(answer) + 1) :
          /\ from < to
          /\ answer[from].says \in Unlabelled \cup {"fence bash"}
          /\ \A i \in (from + 1)..(to - 1) : answer[i].says # Bare
          /\ to <= Len(answer) => answer[to].says = Bare
          /\ commands[n].lines = RStrip(SubSeq(answer, from + 1, to - 1))

\* The last line that has arrived has no line end: it may become another one.
IsCut == answer # <<>> /\ Last(answer).end = "none"

\* While an answer arrives the commands it has completed stay as they are.  The
\* last one gets longer, and while its last line was whole it keeps all its
\* lines.  A line that was cut may leave it, and an unfinished line that looked
\* like a fence may have opened a command that is none, without any text.
CommandsOnlyGrow ==
  [][answer' # answer =>
       LET old == Commands(answer)
           new == Commands(answer')
           text == Text(old[Len(old)].lines)
       IN  old # <<>> =>
             /\ \A i \in 1..(Len(old) - 1) : i <= Len(new) /\ new[i] = old[i]
             /\ IF Len(new) < Len(old) THEN IsCut /\ text = <<>>
                ELSE \/ IsPrefix(text, Text(new[Len(old)].lines))
                     \/ IsCut /\ IsPrefix(Front(text), Text(new[Len(old)].lines))]_vars

\* Only Enter and Execute submit lines to the shell.
InsertOnlyInserts == Len(submitted) <= ordered

OneLine == \A i \in DOMAIN cards : Len(cards[i]) <= 1

\* With commands of one line, as the system prompt asks for, and newlines as the
\* only line ends, that is so (insertable_text, TerminalPane.insert).
OneLineCommandsWait ==
  OneLine /\ (\A i \in DOMAIN answer : answer[i].end \in {"none", "lf"}) =>
    InsertOnlyInserts

\* An answer that labels none of its blocks makes Insert submit nothing, for two
\* reasons: "untagged and non-shell fences remain non-insertable code"
\* (architecture.md), and "Insert writes text into the terminal input without
\* submitting it" (threat-model.md).  Both fail at once.
UntaggedIsInert ==
  (\A n \in DOMAIN Commands(answer) : Commands(answer)[n].language = None) =>
    InsertOnlyInserts

====
