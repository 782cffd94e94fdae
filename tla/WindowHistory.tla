---- MODULE WindowHistory ----
(***************************************************************************)
(* TroubleWindow with variables that only remember: what requests have     *)
(* asked to deliver, what compaction gave up and what the user took out.   *)
(***************************************************************************)
EXTENDS TroubleWindow

VARIABLES
  owed,      \* fragments some request has snapshot since the last answer
  boundary,  \* the end of the latest snapshot
  trimmed,   \* fragments of submitted slices that compaction cut away
  removed    \* fragments that redaction took out of the store

hvars == <<vars, owed, boundary, trimmed, removed>>

Snapshot == pending_slice = None /\ pending_slice' # None
Answered == Len(history') > Len(history)
Sent == request_id' # request_id

HInit ==
  /\ Init
  /\ owed = {} /\ boundary = 0 /\ trimmed = {} /\ removed = {}

Remember ==
  /\ owed' = IF Snapshot THEN owed \cup pending_slice'.text
             ELSE IF Answered THEN {} ELSE owed
  /\ boundary' = IF Snapshot THEN pending_slice'.end ELSE boundary
  /\ trimmed' = IF Sent
       THEN trimmed \cup (GetSlice(pending_slice.start, pending_slice.end).text
                            \ pending_slice.text)
       ELSE trimmed
  /\ removed' = removed \cup (fragments \ fragments')

HNext == Next /\ Remember

HSpec == HInit /\ [][HNext]_hvars /\ Fairness

----------------------------------------------------------------------------

\* Every visible fragment between the baseline and the cursor is in the
\* conversation, unless compaction cut it out of its request or the user has
\* redacted such text: acknowledging never runs ahead of delivering.
NothingSkipped ==
  \A p \in RenderTerminalStream(fragments) :
    transcript_start_sequence <= p.seq /\ p.seq < acknowledged_sequence =>
      \/ \E i \in DOMAIN history : p \in history[i].context
      \/ p \in trimmed
      \/ \E q \in removed : q.val = p.val

\* "A failed, cancelled, or rejected model request does not consume context"
\* (terminal-context-blueprint.md): the turn that gets an answer carries all that
\* it and the unsuccessful requests before it had asked for.
NothingConsumed ==
  [][Answered =>
       RenderTerminalStream(owed \cap fragments) \subseteq history'[Len(history) + 1].context]_hvars

\* That is so but for what compaction cut away or left behind the baseline.
OwedIsDelivered ==
  [][Answered =>
       \A p \in RenderTerminalStream(owed \cap fragments) :
         \/ p \in history'[Len(history) + 1].context
         \/ p \in trimmed
         \/ p.seq < transcript_start_sequence]_hvars

\* With no request in flight the cursor stands past the last request's end only
\* where compaction has put the baseline: nothing else skips output that no
\* request has asked for (TranscriptStore.snapshot_slice: "Events appended after
\* the lock is released belong to the next request").
UnseenOnlyByBaseline ==
  pending_slice = None /\ acknowledged_sequence > boundary =>
    acknowledged_sequence = transcript_start_sequence

\* "Selected text removed from future context" (_remove_selected_from_context):
\* no request submitted later holds a fragment the user took out.
RedactedStaysOut ==
  [][Sent => \A i \in DOMAIN Request : Request[i].context \cap removed = {}]_hvars

WholeTurns == INSTANCE Conversation WITH captured <- next_sequence, messages <- history

\* An observer of the store's length and the session's history sees whole turns
\* with new text only, whatever retries, cancellations and compactions do.
ImplementsConversation == WholeTurns!Spec

====
