---- MODULE ContextSession ----
(***************************************************************************)
(* llm/context_session.py: which events the model has seen, the request    *)
(* being prepared or in flight, and the conversation so far.               *)
(*                                                                         *)
(* A message keeps the terminal text inside its <terminal_context> block   *)
(* (context), whether a compaction marker stands in the block (marked) and *)
(* the rest of its text.                                                   *)
(***************************************************************************)
EXTENDS TranscriptStore, Sequences

CONSTANT None

VARIABLES
  acknowledged_sequence,
  transcript_start_sequence,
  pending_slice,
  pending_user_message,
  history,
  compaction_passes

baseline == <<acknowledged_sequence, transcript_start_sequence>>
pending == <<pending_slice, pending_user_message, compaction_passes>>
session == <<baseline, pending, history>>

\* The n-th piece of the answer to a request; piece 0 is its question.
Said == [request : Nat, n : Nat]
Message == [role : {"user", "assistant"}, context : Text, marked : BOOLEAN,
            text : Seq(Said)]

ASSUME NoneAssumption ==
  None \notin Slice /\ None \notin Message /\ None \notin Nat /\ None \notin Seq(Said)

SessionInit ==
  /\ acknowledged_sequence = 0
  /\ transcript_start_sequence = 0
  /\ pending_slice = None
  /\ pending_user_message = None
  /\ history = <<>>
  /\ compaction_passes = 0

----------------------------------------------------------------------------
(* One request.                                                            *)

RequestSlice ==
  /\ pending_slice' = SnapshotSlice(acknowledged_sequence)
  /\ compaction_passes' = 0
  /\ UNCHANGED <<baseline, pending_user_message, history>>

Payload(slice) ==
  [context |-> RenderTerminalStream(slice.text), marked |-> slice.marked]

UserMessage(slice, question) ==
  [role |-> "user", context |-> Payload(slice).context,
   marked |-> slice.marked, text |-> question]

SnapshotForSend(message) ==
  /\ pending_user_message' = message
  /\ UNCHANGED <<baseline, pending_slice, compaction_passes, history>>

Clear ==
  /\ pending_slice' = None
  /\ pending_user_message' = None
  /\ compaction_passes' = 0

\* Mutant: acknowledges all that is captured now, not the end of the request.
CommitOnSuccess_Now(answer) ==
  LET reply == [role |-> "assistant", context |-> {}, marked |-> FALSE, text |-> answer]
  IN  /\ history' = history \o <<pending_user_message, reply>>
      /\ acknowledged_sequence' = next_sequence
      /\ Clear
      /\ UNCHANGED transcript_start_sequence

CommitOnSuccess(answer) ==
  LET asked == IF pending_user_message = None THEN <<>> ELSE <<pending_user_message>>
      reply == [role |-> "assistant", context |-> {}, marked |-> FALSE, text |-> answer]
  IN  /\ history' = history \o asked \o <<reply>>
      /\ acknowledged_sequence' = IF pending_slice = None THEN acknowledged_sequence
                                  ELSE pending_slice.end
      /\ Clear
      /\ UNCHANGED transcript_start_sequence

\* Mutant: a failed request counts as delivered.
RollbackOnFailure_Consumes ==
  /\ Clear
  /\ acknowledged_sequence' = pending_slice.end
  /\ UNCHANGED <<transcript_start_sequence, history>>

RollbackOnFailure ==
  /\ Clear
  /\ UNCHANGED <<baseline, history>>

----------------------------------------------------------------------------
(* Compaction.  It reads next_sequence again, so it sees output captured   *)
(* after the pending slice was taken; the slice keeps its end.             *)

NewStart ==
  transcript_start_sequence + ((next_sequence - transcript_start_sequence) * 2) \div 3

Advanced == NewStart > transcript_start_sequence

\* Mutant: the history keeps the terminal text that compaction sends again.
Scrub_Keeps(message) == [message EXCEPT !.marked = TRUE]

Scrub(message) ==
  IF message.role = "user" THEN [message EXCEPT !.context = {}, !.marked = TRUE]
                           ELSE message

\* The cursor and the history move even when the request is then given up.
CompactBaseline ==
  \/ /\ Advanced
     /\ transcript_start_sequence' = NewStart
     /\ acknowledged_sequence' = NewStart
     /\ history' = [i \in DOMAIN history |-> Scrub(history[i])]
  \/ /\ ~Advanced
     /\ UNCHANGED <<baseline, history>>

\* Mutant: rebasing takes another snapshot.
RebasedSlice_Grows ==
  SnapshotSlice(IF Advanced THEN NewStart ELSE acknowledged_sequence)

RebasedSlice ==
  GetSlice(IF Advanced THEN NewStart ELSE acknowledged_sequence, pending_slice.end)

\* The first pass that moves the baseline leaves the text alone; any other
\* pass keeps the newest third (the first) or half of the rebased text.
Retained(text) ==
  LET size == Cardinality(text)
  IN  IF compaction_passes > 0 THEN Newest(text, Max({1, size \div 2}))
      ELSE IF ~Advanced THEN Newest(text, Max({1, size \div 3}))
      ELSE {}

CompactedSlice ==
  LET kept == Retained(RebasedSlice.text)
  IN  IF kept = {} THEN RebasedSlice
      ELSE [RebasedSlice EXCEPT !.text = kept, !.marked = TRUE]

Compact ==
  /\ CompactBaseline
  /\ compaction_passes' = compaction_passes + 1
  /\ pending_slice' = CompactedSlice
  /\ UNCHANGED pending_user_message

----------------------------------------------------------------------------
(* Redaction: every occurrence goes from the slice and from the history,   *)
(* but the message of a request in flight is not touched.                  *)

RedactContext(word) ==
  /\ pending_slice' = IF pending_slice = None THEN None
       ELSE [pending_slice EXCEPT !.text = Remove(@, word)]
  /\ history' = [i \in DOMAIN history |->
       [history[i] EXCEPT !.context = Remove(@, word)]]
  /\ UNCHANGED <<baseline, pending_user_message, compaction_passes>>

====
