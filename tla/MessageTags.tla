---- MODULE MessageTags ----
(***************************************************************************)
(* The text of a user message (llm/prompt.py) and how context_session.py   *)
(* finds the terminal text in it again, by its tags.  Terminal text and    *)
(* question may hold such tags themselves.                                 *)
(***************************************************************************)
EXTENDS Integers, Sequences, SequencesExt

MessageTokens == {"word", "secret", "lf", "<terminal_context>", "</terminal_context>"}

Marker == <<"marker">>

Block(context) ==
  <<"<terminal_context>", "lf">> \o context \o <<"lf", "</terminal_context>">>

BuildRequest(context, question) ==
  Block(IF context = <<>> THEN <<"no context">> ELSE context)
    \o <<"lf", "lf", "<user_question>", "lf">> \o question \o <<"lf", "</user_question>">>

\* Where a match of the pattern that begins at i may end, at its last token.
BlockEnds(text, i) ==
  {j \in (i + 3)..Len(text) :
     /\ text[i] = "<terminal_context>" /\ text[i + 1] = "lf"
     /\ text[j - 1] = "lf" /\ text[j] = "</terminal_context>"}

\* Mutant: the pattern is greedy.
MatchEnd_Greedy(ends) == Max(ends)

MatchEnd(ends) == Min(ends)

\* re.sub: the matches from left to right, each replaced by a block of Body(its text).
SubBlocks(text, Body(_)) ==
  LET rest[i \in 1..(Len(text) + 1)] ==
        IF i > Len(text) THEN <<>>
        ELSE IF BlockEnds(text, i) = {} THEN <<text[i]>> \o rest[i + 1]
        ELSE LET j == MatchEnd(BlockEnds(text, i))
             IN  Block(Body(SubSeq(text, i + 2, j - 2))) \o rest[j + 1]
  IN  rest[1]

Scrub(text) == SubBlocks(text, LAMBDA body : Marker)

Without(text, word) == SelectSeq(text, LAMBDA token : token # word)

\* Mutant: the word is taken out of the whole message.
RedactTerminalContext_Everywhere(text, word) == Without(text, word)

RedactTerminalContext(text, word) == SubBlocks(text, LAMBDA body : Without(body, word))

====
