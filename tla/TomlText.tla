---- MODULE TomlText ----
(***************************************************************************)
(* How config.py writes a string into its TOML file, and what tomllib      *)
(* reads there.  A text is a sequence of characters of the kinds that TOML *)
(* tells apart.                                                            *)
(***************************************************************************)
EXTENDS Integers, Sequences, SequencesExt

Characters == {"letter", "quote", "backslash", "newline", "return", "control"}

Replace(text, character, by) ==
  FlattenSeq([i \in DOMAIN text |-> IF text[i] = character THEN by ELSE <<text[i]>>])

\* Mutant: the backslashes that escape quotes are escaped themselves.
Escape_QuotesFirst(text) ==
  Replace(Replace(text, "quote", <<"backslash", "quote">>),
          "backslash", <<"backslash", "backslash">>)

Escape(text) ==
  Replace(Replace(text, "backslash", <<"backslash", "backslash">>),
          "quote", <<"backslash", "quote">>)

\* _toml_value: a text with a line end stands in three quotes.
TomlValue(text) ==
  [quotes |-> IF "newline" \in ToSet(text) THEN 3 ELSE 1, body |-> Escape(text)]

----------------------------------------------------------------------------
(* tomllib, external.  Line ends are normalised in the whole file, and one *)
(* right after three quotes is no part of the text.                        *)

Unreadable == [ok |-> FALSE]

NormaliseLineEnds(body) ==
  LET dropped == {i \in DOMAIN body : body[i] = "return"
                    /\ i < Len(body) /\ body[i + 1] = "newline"}
  IN  FlattenSeq([i \in DOMAIN body |-> IF i \in dropped THEN <<>> ELSE <<body[i]>>])

Trim(quotes, body) ==
  IF quotes = 3 /\ body # <<>> /\ Head(body) = "newline" THEN Tail(body) ELSE body

Unescape(s, character) ==
  IF s.escape
  THEN [text |-> Append(s.text, character), escape |-> FALSE,
        ok |-> s.ok /\ character \in {"quote", "backslash"}]
  ELSE CASE character = "backslash" -> [s EXCEPT !.escape = TRUE]
         [] character \in {"quote", "return", "control"} -> [s EXCEPT !.ok = FALSE]
         [] OTHER -> [s EXCEPT !.text = Append(@, character)]

\* What the first characters of a string have been read as.
Reading(body) ==
  LET read[k \in 0..Len(body)] ==
        IF k = 0 THEN [text |-> <<>>, escape |-> FALSE, ok |-> TRUE]
                 ELSE Unescape(read[k - 1], body[k])
  IN  read

TomlRead(value) ==
  LET body == Trim(value.quotes, NormaliseLineEnds(value.body))
      s == Reading(body)[Len(body)]
  IN  IF s.ok /\ ~s.escape THEN [ok |-> TRUE, text |-> s.text] ELSE Unreadable

\* TOML has no way to write other texts without escapes.
Savable(text) ==
  /\ \A i \in DOMAIN text : text[i] \notin {"return", "control"}
  /\ text # <<>> => Head(text) # "newline"

====
