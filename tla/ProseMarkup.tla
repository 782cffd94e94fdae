---- MODULE ProseMarkup ----
(***************************************************************************)
(* chat/rendering.py: prose in Markdown as the markup of a Pango label.    *)
(* "head" is the sign of a heading with its blank, "own <b>" and "own <tt>" *)
(* are tags that the language model wrote itself.                          *)
(***************************************************************************)
EXTENDS Integers, Sequences, SequencesExt

ProseTokens == {"word", "*", "tick", "head", "lf", "own <tt>", "own <b>"}

\* Provider tags go when one of them is <tt>; otherwise they are escaped.
Escaped(text) ==
  IF "own <tt>" \in ToSet(text)
  THEN FlattenSeq([i \in DOMAIN text |->
         IF text[i] \in {"own <tt>", "own <b>"} THEN <<>> ELSE <<text[i]>>])
  ELSE [i \in DOMAIN text |-> IF text[i] = "own <b>" THEN "&lt;b&gt;" ELSE text[i]]

\* re.sub of spans whose delimiters at both ends, of width tokens, become tags; a
\* span from i ends with the first token j for which Span(i, j) holds.
SubSpans(text, open, close, width, Span(_, _)) ==
  LET ends(i) == {j \in i..Len(text) : Span(i, j)}
      rest[i \in 1..(Len(text) + 1)] ==
        IF i > Len(text) THEN <<>>
        ELSE IF ends(i) = {} THEN <<text[i]>> \o rest[i + 1]
        ELSE LET j == Min(ends(i))
             IN  <<open>> \o SubSeq(text, i + width, j - width)
                   \o <<close>> \o rest[j + 1]
  IN  rest[1]

Is(text, i, token) == i \in DOMAIN text /\ text[i] = token

Headings(text) ==
  LET starts == {i \in DOMAIN text :
                   /\ text[i] = "head" /\ (i = 1 \/ text[i - 1] = "lf")
                   /\ i < Len(text) /\ text[i + 1] # "lf"}
      end(i) == Min({j \in i..Len(text) : j = Len(text) \/ text[j + 1] = "lf"})
      closes == {end(i) : i \in starts}
  IN  FlattenSeq([k \in DOMAIN text |->
        (IF k \in starts THEN <<"<b>">> ELSE <<text[k]>>)
          \o (IF k \in closes THEN <<"</b>">> ELSE <<>>)])

Bold(text) ==
  SubSpans(text, "<b>", "</b>", 2, LAMBDA i, j :
    /\ j >= i + 4
    /\ text[i] = "*" /\ text[i + 1] = "*" /\ text[j - 1] = "*" /\ text[j] = "*")

\* A span on one line between two signs with no such sign in it.
Enclosed(text, i, j, sign) ==
  /\ j >= i + 2
  /\ text[i] = sign /\ text[j] = sign
  /\ \A k \in (i + 1)..(j - 1) : text[k] \notin {sign, "lf"}

\* Mutant: emphasis may go on over the end of the line.
Italic_OverLines(text) ==
  SubSpans(text, "<i>", "</i>", 1, LAMBDA i, j :
    /\ j >= i + 2
    /\ text[i] = "*" /\ text[j] = "*"
    /\ \A k \in (i + 1)..(j - 1) : text[k] # "*"
    /\ ~Is(text, i - 1, "*") /\ ~Is(text, j + 1, "*"))

Italic(text) ==
  SubSpans(text, "<i>", "</i>", 1, LAMBDA i, j :
    Enclosed(text, i, j, "*") /\ ~Is(text, i - 1, "*") /\ ~Is(text, j + 1, "*"))

Code(text) == SubSpans(text, "<tt>", "</tt>", 1, LAMBDA i, j : Enclosed(text, i, j, "tick"))

ProseToPango(markdown) == Code(Italic(Bold(Headings(Escaped(markdown)))))

----------------------------------------------------------------------------
(* Pango, external: the tags of a label must nest, or it shows nothing.    *)

EndTag == [tag \in {"<b>", "<i>", "<tt>"} |->
  CASE tag = "<b>" -> "</b>" [] tag = "<i>" -> "</i>" [] tag = "<tt>" -> "</tt>"]

\* The end tags that are to come, innermost last.
Nest(due, token) ==
  CASE token \in DOMAIN EndTag -> Append(due, EndTag[token])
    [] token \in Range(EndTag) -> IF due # <<>> /\ Last(due) = token THEN Front(due)
                                  ELSE <<"never">> \o due
    [] OTHER -> due

\* Those after the first k tokens.
Nesting(markup) ==
  LET due[k \in 0..Len(markup)] == IF k = 0 THEN <<>> ELSE Nest(due[k - 1], markup[k])
  IN  due

Parses(markup) == Nesting(markup)[Len(markup)] = <<>>

====
