---- MODULE SelectedText ----
(***************************************************************************)
(* terminal/transcript_store.py, redact_text: taking what the operator has *)
(* selected on the screen out of the raw output.  Events are sequences of  *)
(* characters here.  The terminal driver writes a carriage return before   *)
(* each line feed; a selection has line feeds only.  Besides characters    *)
(* and line ends the shell writes colours, "m", and its line editor moves  *)
(* back with "bs" to write over what stands there.                         *)
(***************************************************************************)
EXTENDS Integers, Sequences, SequencesExt

OutputTokens == {"a", "b", "crlf", "m", "bs"}

\* What the shell's terminal passes on.
Raw(output) ==
  FlattenSeq([i \in DOMAIN output |->
    IF output[i] = "crlf" THEN <<"cr", "lf">> ELSE <<output[i]>>])

\* Both kinds of line end become line feeds.
Normalized(text) ==
  FlattenSeq([i \in DOMAIN text |->
    CASE text[i] # "cr" -> <<text[i]>>
      [] text[i] = "cr" /\ i < Len(text) /\ text[i + 1] = "lf" -> <<>>
      [] OTHER -> <<"lf">>])

Starts(raw, target) ==
  {i \in 1..(Len(raw) - Len(target) + 1) : SubSeq(raw, i, i + Len(target) - 1) = target}

\* Event n without what it shares with the range of combined output that begins
\* after start and goes to end.
CutEvent(events, n, start, end) ==
  LET offset == Len(FlattenSeq(SubSeq(events, 1, n - 1)))
      from == Max({0, start - offset})
      to == Min({Len(events[n]), end - offset})
  IN  IF from < to
      THEN SubSeq(events[n], 1, from) \o SubSeq(events[n], to + 1, Len(events[n]))
      ELSE events[n]

Unredacted(events) == [redacted |-> FALSE, events |-> events]

\* Mutant: the rest of an occurrence in the following events stays.
Redacted_FirstEvent(events, start, end) ==
  [redacted |-> TRUE,
   events |-> [n \in DOMAIN events |->
     IF start < Len(FlattenSeq(SubSeq(events, 1, n - 1))) THEN events[n]
     ELSE CutEvent(events, n, start, end)]]

Redacted(events, start, end) ==
  [redacted |-> TRUE, events |-> [n \in DOMAIN events |-> CutEvent(events, n, start, end)]]

\* The first occurrence in the combined output goes.
RedactText(events, selection) ==
  LET target == Normalized(selection)
      starts == Starts(FlattenSeq(events), target)
      start == Min(starts) - 1
  IN  IF target = <<>> \/ starts = {} THEN Unredacted(events)
      ELSE Redacted(events, start, start + Len(target))

====
