---- MODULE HistoryProofs ----
(***************************************************************************)
(* What holds of the conversation over time for all bounds, limits and     *)
(* texts: acknowledging never runs ahead of delivering, an answered turn   *)
(* carries what failed requests had asked for, the window implements the   *)
(* conversation of module Conversation, and the temporary label is the     *)
(* answer as far as it has been handled.                                   *)
(***************************************************************************)
EXTENDS WindowHistory, TroubleWindowProofs, SequenceTheorems, WellFoundedInduction

----------------------------------------------------------------------------
(* Steps, by what they do to the session and the store.                    *)

\* Send, as the session sees it.
Snapshots ==
  /\ Idle
  /\ pending_slice' = SnapshotSlice(acknowledged_sequence)
  /\ UNCHANGED <<store, baseline, pending_user_message, history, request_id>>

\* A compaction pass, or the one that gives the request up.
Compacts ==
  /\ Composing
  /\ CompactBaseline
  /\ pending_slice' \in {CompactedSlice, None}
  /\ UNCHANGED <<store, pending_user_message, request_id>>

\* The request in flight is gone without an answer.
RollsBack ==
  /\ pending_slice' = None /\ pending_user_message' = None
  /\ UNCHANGED <<store, baseline, history, request_id>>

\* A step of threads, label and queue.
Rests == UNCHANGED <<store, baseline, pending_slice, pending_user_message, history, request_id>>

\* Every step of the window is one of these.
LEMMA StepKinds ==
  ASSUME TypeInv, PhaseInv, [Next]_vars
  PROVE  \/ Snapshots
         \/ Submit
         \/ Compacts
         \/ FinishResponse
         \/ RollsBack
         \/ \E word \in Words : RemoveSelectedFromContext(word)
         \/ \E chunk \in Chunks : RecordOutput(chunk)
         \/ Rests
<1>1. CASE Send
  <2>1. Idle
    BY <1>1 DEF PhaseInv, Composing, Idle, InFlight, Send
  <2>. QED
    BY <1>1, <2>1 DEF Send, RequestSlice, Snapshots
<1>2. CASE FirstCompaction \/ CompactAgain \/ Reject
  <2>1. Composing
    BY <1>2 DEF PhaseInv, Composing, Idle, InFlight, FirstCompaction, CompactAgain, Reject
  <2>. QED
    BY <1>2, <2>1 DEF FirstCompaction, CompactAgain, Reject, Compact, Clear, Composing, Compacts, ui
<1>3. CASE FinishError \/ CancelRequest
  BY <1>3 DEF FinishError, CancelRequest, RollbackOnFailure, Clear, RollsBack
<1>4. CASE AppendStreamDelta \/ IgnoreFinish
  BY <1>4 DEF AppendStreamDelta, IgnoreFinish, session, pending, ui, Rests
<1>5. ASSUME NEW r \in Requests, ChunkArrives(r) \/ StreamEnds(r) PROVE Rests
  BY <1>5 DEF ChunkArrives, StreamEnds, session, pending, ui, Rests
<1>6. CASE UNCHANGED vars
  BY <1>6 DEF vars, session, pending, ui, Rests
<1>. QED
  BY <1>1, <1>2, <1>3, <1>4, <1>5, <1>6 DEF Next, MainThread, User

\* The history variables follow every step, a stuttering one too.
LEMMA AlwaysRemembers ==
  ASSUME TypeInv, [HNext]_hvars
  PROVE  [Next]_vars /\ Remember
<1>1. CASE HNext
  BY <1>1 DEF HNext
<1>2. CASE UNCHANGED hvars
  <2>1. UNCHANGED <<vars, owed, boundary, trimmed, removed>>
    BY <1>2 DEF hvars
  <2>2. UNCHANGED <<history, pending_slice, request_id, fragments>>
    BY <2>1 DEF vars, session, pending, ui, store
  <2>3. Len(history) \in Nat
    BY DEF TypeInv, TypeOK
  <2>. QED
    BY <2>1, <2>2, <2>3 DEF Remember, Snapshot, Answered, Sent
<1>. QED
  BY <1>1, <1>2

----------------------------------------------------------------------------
(* Delivery over time.                                                     *)

\* Where the request ends and begins.
BoundaryInv ==
  /\ boundary \in Nat /\ boundary <= next_sequence
  /\ pending_slice # None =>
       boundary = pending_slice.end /\ pending_slice.start = acknowledged_sequence
  /\ acknowledged_sequence > boundary => acknowledged_sequence = transcript_start_sequence

\* What requests have asked for is below the last request's end, and not
\* below the cursor unless it is below the baseline.
OwedInv ==
  /\ owed \in Text
  /\ \A p \in owed :
       /\ p.seq < boundary
       /\ acknowledged_sequence <= p.seq \/ p.seq < transcript_start_sequence

\* The message in flight carries what its slice covers, but for what
\* compaction cut away.
CarriedInv ==
  pending_user_message # None =>
    \A p \in RenderTerminalStream(fragments) :
      acknowledged_sequence <= p.seq /\ p.seq < pending_slice.end =>
        p \in pending_user_message.context \/ p \in trimmed

HistoryInv == BoundaryInv /\ OwedInv /\ CarriedInv /\ NothingSkipped

\* The numbers that these invariants compare.
SeqNumbers ==
  /\ next_sequence \in Nat /\ acknowledged_sequence \in Nat /\ transcript_start_sequence \in Nat
  /\ fragments \in Text /\ \A p \in fragments : p.seq \in Nat
  /\ pending_slice # None => /\ pending_slice.end \in Nat /\ pending_slice.text \in Text
                             /\ \A p \in pending_slice.text : p.seq \in Nat

\* They are natural numbers.
LEMMA Numbers == TypeInv => SeqNumbers
<1>. SUFFICES ASSUME TypeInv PROVE SeqNumbers
  OBVIOUS
<1>1. \A text \in Text : \A p \in text : p.seq \in Nat
  BY DEF Text, Fragment
<1>2. pending_slice # None => pending_slice.end \in Nat /\ pending_slice.text \in Text
  BY DEF TypeInv, TypeOK, Slice
<1>. QED
  BY <1>1, <1>2 DEF TypeInv, TypeOK, SeqNumbers

\* Nothing is owed at the start.
LEMMA HistoryInit == HInit => HistoryInv
<1>. SUFFICES ASSUME HInit PROVE HistoryInv
  OBVIOUS
<1>1. /\ pending_slice = None /\ pending_user_message = None /\ acknowledged_sequence = 0
      /\ fragments = {} /\ next_sequence = 0 /\ boundary = 0 /\ owed = {}
  BY DEF HInit, Init, SessionInit, StoreInit
<1>2. BoundaryInv /\ OwedInv /\ CarriedInv
  BY <1>1 DEF BoundaryInv, OwedInv, CarriedInv, Text
<1>3. NothingSkipped
  BY <1>1 DEF NothingSkipped, RenderTerminalStream
<1>. QED
  BY <1>2, <1>3 DEF HistoryInv

\* No other step than a snapshot, an answer or a new request changes what is
\* owed, the boundary or what is trimmed.
LEMMA OtherwiseKept ==
  ASSUME Remember, ~Snapshot, ~Answered, ~Sent
  PROVE  UNCHANGED <<owed, boundary, trimmed>>
BY DEF Remember

\* A snapshot adds text between the cursor and the store's end.
LEMMA HistorySnapshot ==
  ASSUME TypeInv, TypeInv', OnceInv, HistoryInv, Snapshots, Remember
  PROVE  HistoryInv'
<1>1. /\ pending_slice = None /\ pending_user_message = None
      /\ pending_slice' = SnapshotSlice(acknowledged_sequence)
      /\ UNCHANGED <<store, baseline, pending_user_message, history, request_id>>
  BY DEF Snapshots, Idle
<1>2. SeqNumbers
  BY Numbers
<1>3. pending_slice' \in Slice /\ pending_slice' # None
  BY <1>1, <1>2, GetSliceType, NotNone DEF SnapshotSlice, SeqNumbers
<1>4. /\ owed' = owed \cup pending_slice'.text /\ boundary' = pending_slice'.end
      /\ trimmed' = trimmed /\ removed' = removed \cup (fragments \ fragments')
  BY <1>1, <1>3 DEF Remember, Snapshot, Sent
<1>5. /\ pending_slice'.end = next_sequence /\ pending_slice'.start = acknowledged_sequence
      /\ \A p \in pending_slice'.text :
           acknowledged_sequence <= p.seq /\ p.seq < next_sequence /\ p \in fragments
      /\ pending_slice'.text \in Text
  BY <1>1, <1>3 DEF SnapshotSlice, GetSlice, Slice
<1>6. BoundaryInv'
  <2>1. acknowledged_sequence <= next_sequence
    BY DEF OnceInv, DeliveryInv
  <2>. QED
    BY <1>1, <1>2, <1>4, <1>5, <2>1 DEF BoundaryInv, SeqNumbers, store, baseline
<1>7. OwedInv'
  <2>1. \A p \in owed : p.seq < next_sequence
    <3>1. \A p \in owed : p.seq \in Nat
      BY DEF HistoryInv, OwedInv, Text, Fragment
    <3>. QED
      BY <1>2, <3>1 DEF HistoryInv, OwedInv, BoundaryInv, SeqNumbers
  <2>2. owed' \in Text
    BY <1>4, <1>5 DEF HistoryInv, OwedInv, Text
  <2>. QED
    BY <1>1, <1>4, <1>5, <2>1, <2>2 DEF HistoryInv, OwedInv, store, baseline
<1>8. CarriedInv'
  BY <1>1 DEF CarriedInv
<1>9. NothingSkipped'
  BY <1>1, <1>4 DEF HistoryInv, NothingSkipped, store, baseline
<1>. QED
  BY <1>6, <1>7, <1>8, <1>9 DEF HistoryInv

\* A submitted message carries its slice; the rest of what the slice covers
\* was cut away.
LEMMA HistorySubmit ==
  ASSUME TypeInv, OnceInv, PhaseInv, HistoryInv, Submit, Remember
  PROVE  HistoryInv'
<1>1. /\ pending_slice # None /\ pending_user_message' = Turn
      /\ UNCHANGED <<store, baseline, pending_slice, history>>
      /\ request_id' = request_id + 1 /\ request_id \in Nat
  BY WindowAssumption DEF Submit, SnapshotForSend, PhaseInv, Composing, Idle, InFlight, TypeInv, TypeOK
<1>2. SeqNumbers
  BY Numbers
<1>3. ~Snapshot /\ ~Answered /\ Sent
  BY <1>1, HistoryDomain DEF Snapshot, Answered, Sent, TypeInv
<1>4. /\ UNCHANGED <<owed, boundary>> /\ removed' = removed \cup (fragments \ fragments')
      /\ trimmed' = trimmed \cup (GetSlice(pending_slice.start, pending_slice.end).text
                                   \ pending_slice.text)
  BY <1>3 DEF Remember
<1>5. BoundaryInv' /\ OwedInv'
  BY <1>1, <1>4 DEF HistoryInv, BoundaryInv, OwedInv, store, baseline
<1>6. CarriedInv'
  <2>1. Turn.context = RenderTerminalStream(pending_slice.text)
    BY DEF Turn, UserMessage, Payload
  <2>2. ASSUME NEW p \in RenderTerminalStream(fragments),
               acknowledged_sequence <= p.seq, p.seq < pending_slice.end
        PROVE  p \in Turn.context \/ p \in trimmed'
    <3>1. p \in GetSlice(pending_slice.start, pending_slice.end).text
      BY <1>1, <2>2 DEF GetSlice, RenderTerminalStream, HistoryInv, BoundaryInv
    <3>. QED
      BY <1>4, <2>1, <2>2, <3>1 DEF RenderTerminalStream
  <2>. QED
    BY <1>1, <2>2 DEF CarriedInv, store, baseline
<1>7. NothingSkipped'
  BY <1>1, <1>4 DEF HistoryInv, NothingSkipped, store, baseline
<1>. QED
  BY <1>5, <1>6, <1>7 DEF HistoryInv

\* Compaction puts cursor and baseline at the same place, or leaves them.
LEMMA HistoryCompact ==
  ASSUME TypeInv, TypeInv', OnceInv, HistoryInv, Compacts, Remember
  PROVE  HistoryInv'
<1>1. /\ pending_slice # None /\ pending_user_message' = None /\ CompactBaseline
      /\ pending_slice' \in {CompactedSlice, None}
      /\ UNCHANGED <<store, request_id>>
  BY DEF Compacts, Composing
<1>2. SeqNumbers /\ NewStart \in Nat /\ NewStart <= next_sequence
  BY Numbers, NewStartType DEF TypeInv, SeqNumbers
<1>3. Len(history') = Len(history) /\ Len(history) \in Nat
  BY <1>1, CompactKeepsTurns, HistoryDomain DEF SameTurns, TypeInv
<1>4. /\ UNCHANGED <<owed, boundary, trimmed>> /\ removed' = removed \cup (fragments \ fragments')
  <2>1. ~Snapshot /\ ~Answered /\ ~Sent
    BY <1>1, <1>3 DEF Snapshot, Answered, Sent
  <2>. QED
    BY <2>1, OtherwiseKept DEF Remember
<1>5. pending_slice' # None =>
        pending_slice'.end = pending_slice.end /\ pending_slice'.start = acknowledged_sequence'
  <2>1. RebasedSlice.end = pending_slice.end /\ RebasedSlice.start = acknowledged_sequence'
    BY <1>1 DEF RebasedSlice, GetSlice, CompactBaseline, baseline
  <2>2. CompactedSlice.end = RebasedSlice.end /\ CompactedSlice.start = RebasedSlice.start
    <3>1. RebasedSlice \in Slice
      BY <1>1, <1>2, GetSliceType DEF RebasedSlice, SeqNumbers
    <3>. QED
      BY <3>1 DEF CompactedSlice, Slice
  <2>. QED
    BY <1>1, <2>1, <2>2
<1>6. CASE acknowledged_sequence' = NewStart /\ transcript_start_sequence' = NewStart
  <2>1. BoundaryInv'
    BY <1>1, <1>4, <1>5, <1>6 DEF HistoryInv, BoundaryInv, store
  <2>2. OwedInv'
    <3>1. \A p \in owed : p.seq \in Nat
      BY DEF HistoryInv, OwedInv, Text, Fragment
    <3>. QED
      BY <1>2, <1>4, <1>6, <3>1 DEF HistoryInv, OwedInv
  <2>3. NothingSkipped'
    <3>1. \A p \in RenderTerminalStream(fragments) : ~(NewStart <= p.seq /\ p.seq < NewStart)
      BY <1>2 DEF RenderTerminalStream, SeqNumbers
    <3>. QED
      BY <1>1, <1>6, <3>1 DEF NothingSkipped, store
  <2>. QED
    BY <1>1, <2>1, <2>2, <2>3 DEF HistoryInv, CarriedInv
<1>7. CASE UNCHANGED <<baseline, history>>
  <2>1. BoundaryInv' /\ OwedInv'
    BY <1>1, <1>4, <1>5, <1>7 DEF HistoryInv, BoundaryInv, OwedInv, store, baseline
  <2>2. NothingSkipped'
    BY <1>1, <1>4, <1>7 DEF HistoryInv, NothingSkipped, store, baseline
  <2>. QED
    BY <1>1, <2>1, <2>2 DEF HistoryInv, CarriedInv
<1>. QED
  BY <1>1, <1>6, <1>7 DEF CompactBaseline

\* What an answer does to the session: the message in flight joins the
\* conversation and the cursor goes to the end of its slice.
LEMMA CommitSession ==
  ASSUME TypeInv, PhaseInv, FinishInv, FinishResponse
  PROVE  /\ InFlight
         /\ acknowledged_sequence' = pending_slice.end
         /\ pending_slice' = None /\ pending_user_message' = None
         /\ UNCHANGED <<store, transcript_start_sequence, request_id>>
<1>1. InFlight
  BY CommitInFlight
<1>2. \E answer : CommitOnSuccess(answer)
  BY DEF FinishResponse
<1>. QED
  BY <1>1, <1>2 DEF FinishResponse, CommitOnSuccess, Clear, InFlight

\* An answered turn delivers all that lies below the new cursor.
LEMMA HistoryCommit ==
  ASSUME TypeInv, PhaseInv, FinishInv, HistoryInv, FinishResponse, Remember
  PROVE  HistoryInv'
<1>1. /\ pending_slice # None /\ pending_user_message # None
      /\ acknowledged_sequence' = pending_slice.end
      /\ pending_slice' = None /\ pending_user_message' = None
      /\ UNCHANGED <<store, transcript_start_sequence, request_id>>
  BY CommitSession DEF InFlight
<1>2. /\ Len(history') = Len(history) + 2 /\ Len(history) \in Nat
      /\ \A i \in 1..Len(history) : history'[i] = history[i]
      /\ history'[Len(history) + 1] = pending_user_message
      /\ DOMAIN history = 1..Len(history)
  BY CommitTurn, HistoryDomain DEF TypeInv
<1>3. DOMAIN history' = 1..Len(history')
  BY TypeNext, HistoryDomain DEF TypeInv, FinishResponse, CommitOnSuccess
<1>4. SeqNumbers
  BY Numbers
<1>5. /\ owed' = {} /\ UNCHANGED <<boundary, trimmed>>
      /\ removed' = removed \cup (fragments \ fragments')
  BY <1>1, <1>2 DEF Remember, Snapshot, Answered, Sent
<1>6. BoundaryInv'
  BY <1>1, <1>4, <1>5 DEF HistoryInv, BoundaryInv, store, SeqNumbers
<1>7. OwedInv' /\ CarriedInv'
  BY <1>1, <1>5 DEF OwedInv, CarriedInv, Text
<1>8. ASSUME NEW p \in RenderTerminalStream(fragments),
             transcript_start_sequence <= p.seq, p.seq < pending_slice.end
      PROVE  \/ \E i \in DOMAIN history' : p \in history'[i].context
             \/ p \in trimmed'
             \/ \E q \in removed' : q.val = p.val
  <2>1. CASE p.seq < acknowledged_sequence
    <3>1. \/ \E i \in DOMAIN history : p \in history[i].context
          \/ p \in trimmed
          \/ \E q \in removed : q.val = p.val
      BY <1>8, <2>1 DEF HistoryInv, NothingSkipped
    <3>2. \A i \in DOMAIN history : i \in DOMAIN history' /\ history'[i] = history[i]
      BY <1>2, <1>3
    <3>. QED
      BY <1>5, <3>1, <3>2
  <2>2. CASE acknowledged_sequence <= p.seq
    <3>1. p \in pending_user_message.context \/ p \in trimmed
      BY <1>1, <1>8, <2>2 DEF HistoryInv, CarriedInv
    <3>2. Len(history) + 1 \in DOMAIN history'
      BY <1>2, <1>3
    <3>. QED
      BY <1>2, <1>5, <3>1, <3>2
  <2>3. p.seq \in Nat /\ acknowledged_sequence \in Nat
    BY <1>4 DEF SeqNumbers, RenderTerminalStream
  <2>. QED
    BY <2>1, <2>2, <2>3
<1>9. NothingSkipped'
  BY <1>1, <1>8 DEF NothingSkipped, store
<1>. QED
  BY <1>6, <1>7, <1>9 DEF HistoryInv

\* A request that fails leaves what it had asked for owed.
LEMMA HistoryRollback ==
  ASSUME TypeInv, HistoryInv, RollsBack, Remember
  PROVE  HistoryInv'
<1>1. /\ pending_slice' = None /\ pending_user_message' = None
      /\ UNCHANGED <<store, baseline, history, request_id>>
  BY DEF RollsBack
<1>2. /\ UNCHANGED <<owed, boundary, trimmed>> /\ removed' = removed \cup (fragments \ fragments')
  <2>1. ~Snapshot /\ ~Answered /\ ~Sent
    BY <1>1, HistoryDomain DEF Snapshot, Answered, Sent, TypeInv
  <2>. QED
    BY <2>1, OtherwiseKept DEF Remember
<1>. QED
  BY <1>1, <1>2 DEF HistoryInv, BoundaryInv, OwedInv, CarriedInv, NothingSkipped, store, baseline

\* Some number is the least.
LEMMA LeastNatural ==
  ASSUME NEW T, T \subseteq Nat, T # {}
  PROVE  \E n \in T : \A m \in T : n <= m
<1>1. PICK n \in T : \A m \in T : ~(<<m, n>> \in OpToRel(<, Nat))
  BY WFMin, NatLessThanWellFounded
<1>2. \A m \in T : ~(m < n)
  BY <1>1 DEF OpToRel
<1>. QED
  BY <1>2

\* Some fragment of a text is the first.
LEMMA FirstFragment ==
  ASSUME NEW text \in Text, text # {}
  PROVE  \E q \in text : \A r \in text : ~Before(r, q)
<1>1. \A p \in text : p.seq \in Nat /\ p.pos \in Nat
  BY DEF Text, Fragment
<1>2. PICK p \in text : \A r \in text : p.seq <= r.seq
  <2>1. PICK n \in {r.seq : r \in text} : \A m \in {r.seq : r \in text} : n <= m
    BY <1>1, LeastNatural
  <2>. QED
    BY <2>1
<1>. DEFINE event == {r \in text : r.seq = p.seq}
<1>3. PICK q \in event : \A r \in event : q.pos <= r.pos
  <2>1. PICK n \in {r.pos : r \in event} : \A m \in {r.pos : r \in event} : n <= m
    BY <1>1, LeastNatural
  <2>. QED
    BY <2>1
<1>. QED
  BY <1>1, <1>2, <1>3 DEF Before

\* Redaction takes a fragment that reads like the word out of the store.
LEMMA RedactRemoves ==
  ASSUME TypeOK, NEW word \in Words, RedactText(word)
  PROVE  /\ fragments' \subseteq fragments /\ next_sequence' = next_sequence
         /\ \E q \in fragments \ fragments' : q.val = word
<1>1. Occurrences(word) \in Text /\ Occurrences(word) # {}
  BY DEF RedactText, Occurrences, TypeOK, Text
<1>2. PICK q \in Occurrences(word) : \A r \in Occurrences(word) : ~Before(r, q)
  BY <1>1, FirstFragment
<1>. QED
  BY <1>2 DEF RedactText, Occurrences

\* Redaction takes out of messages only what reads like a fragment it takes
\* out of the store.
LEMMA HistoryRedact ==
  ASSUME TypeInv, OnceInv, HistoryInv, NEW word \in Words, RemoveSelectedFromContext(word),
         Remember
  PROVE  HistoryInv'
<1>1. /\ RedactText(word) /\ RedactContext(word) /\ TypeOK /\ request_id' = request_id
  BY DEF RemoveSelectedFromContext, TypeInv, ui
<1>2. /\ UNCHANGED <<baseline, pending_user_message, next_sequence>>
      /\ pending_slice' = IF pending_slice = None THEN None
           ELSE [pending_slice EXCEPT !.text = Remove(@, word)]
      /\ history' = [i \in DOMAIN history |-> [history[i] EXCEPT !.context = Remove(@, word)]]
      /\ fragments' \subseteq fragments
      /\ \E q \in fragments \ fragments' : q.val = word
  BY <1>1, RedactRemoves DEF RedactContext
<1>3. Len(history') = Len(history) /\ Len(history) \in Nat
  BY <1>1, RedactKeepsTurns, HistoryDomain DEF SameTurns
<1>4. pending_slice # None => /\ pending_slice' # None
                             /\ pending_slice'.end = pending_slice.end
                             /\ pending_slice'.start = pending_slice.start
  <2>1. pending_slice # None => pending_slice \in Slice
    BY <1>1 DEF TypeOK
  <2>2. pending_slice # None => pending_slice' # None
    BY <1>1, RedactType
  <2>. QED
    BY <1>2, <2>1, <2>2 DEF Slice
<1>5. UNCHANGED <<owed, boundary, trimmed>> /\ removed' = removed \cup (fragments \ fragments')
  <2>1. ~Snapshot /\ ~Answered /\ ~Sent
    BY <1>1, <1>2, <1>3, <1>4 DEF Snapshot, Answered, Sent
  <2>. QED
    BY <2>1, OtherwiseKept DEF Remember
<1>6. BoundaryInv' /\ OwedInv'
  BY <1>2, <1>4, <1>5 DEF HistoryInv, BoundaryInv, OwedInv, baseline
<1>7. CarriedInv'
  <2>1. pending_user_message # None => pending_slice # None
    BY DEF OnceInv, DeliveryInv
  <2>. QED
    BY <1>2, <1>4, <1>5, <2>1 DEF HistoryInv, CarriedInv, RenderTerminalStream, baseline
<1>8. ASSUME NEW p \in RenderTerminalStream(fragments'),
             transcript_start_sequence <= p.seq, p.seq < acknowledged_sequence
      PROVE  \/ \E i \in DOMAIN history' : p \in history'[i].context
             \/ p \in trimmed'
             \/ \E q \in removed' : q.val = p.val
  <2>1. CASE p.val = word
    BY <1>2, <1>5, <2>1
  <2>2. CASE p.val # word
    <3>1. \/ \E i \in DOMAIN history : p \in history[i].context
          \/ p \in trimmed
          \/ \E q \in removed : q.val = p.val
      BY <1>2, <1>8 DEF HistoryInv, NothingSkipped, RenderTerminalStream
    <3>2. \A i \in DOMAIN history : p \in history[i].context => p \in history'[i].context
      <4>1. \A i \in DOMAIN history : history[i] \in Message
        BY <1>1, HistoryDomain
      <4>. QED
        BY <1>2, <2>2, <4>1 DEF Remove, Message
    <3>3. DOMAIN history' = DOMAIN history
      BY <1>2
    <3>. QED
      BY <1>5, <3>1, <3>2, <3>3
  <2>. QED
    BY <2>1, <2>2
<1>9. NothingSkipped'
  BY <1>2, <1>8 DEF NothingSkipped, baseline
<1>. QED
  BY <1>6, <1>7, <1>9 DEF HistoryInv

\* New output is past the cursor and past the end of the request.
LEMMA HistoryRecord ==
  ASSUME TypeInv, OnceInv, HistoryInv, NEW chunk \in Chunks, RecordOutput(chunk), Remember
  PROVE  HistoryInv'
<1>1. /\ UNCHANGED <<baseline, pending_slice, pending_user_message, history, request_id>>
      /\ next_sequence' = next_sequence + 1
      /\ \A p \in fragments' : p \in fragments \/ p.seq = next_sequence
  BY DEF RecordOutput, TranscriptAppend, session, pending, ui
<1>2. SeqNumbers
  BY Numbers
<1>3. UNCHANGED <<owed, boundary, trimmed>> /\ removed \subseteq removed'
  <2>1. ~Snapshot /\ ~Answered /\ ~Sent
    BY <1>1, HistoryDomain DEF Snapshot, Answered, Sent, TypeInv
  <2>. QED
    BY <2>1, OtherwiseKept DEF Remember
<1>4. BoundaryInv' /\ OwedInv'
  BY <1>1, <1>2, <1>3 DEF HistoryInv, BoundaryInv, OwedInv, SeqNumbers, baseline
<1>5. CarriedInv'
  <2>1. pending_user_message # None => pending_slice # None /\ pending_slice.end <= next_sequence
    BY DEF OnceInv, DeliveryInv
  <2>2. pending_user_message # None =>
          \A p \in RenderTerminalStream(fragments)' : p.seq < pending_slice.end =>
            p \in RenderTerminalStream(fragments)
    BY <1>1, <1>2, <2>1 DEF RenderTerminalStream, SeqNumbers
  <2>. QED
    BY <1>1, <1>3, <2>2 DEF HistoryInv, CarriedInv, baseline
<1>6. NothingSkipped'
  <2>1. acknowledged_sequence <= next_sequence
    BY DEF OnceInv, DeliveryInv
  <2>2. \A p \in RenderTerminalStream(fragments)' : p.seq < acknowledged_sequence =>
          p \in RenderTerminalStream(fragments)
    BY <1>1, <1>2, <2>1 DEF RenderTerminalStream, SeqNumbers
  <2>. QED
    BY <1>1, <1>3, <2>2 DEF HistoryInv, NothingSkipped, baseline
<1>. QED
  BY <1>4, <1>5, <1>6 DEF HistoryInv

\* Threads, label and queue do not touch the session.
LEMMA HistoryRests ==
  ASSUME TypeInv, HistoryInv, Rests, Remember
  PROVE  HistoryInv'
<1>1. UNCHANGED <<store, baseline, pending_slice, pending_user_message, history, request_id>>
  BY DEF Rests
<1>2. UNCHANGED <<owed, boundary, trimmed>> /\ removed \subseteq removed'
  <2>1. ~Snapshot /\ ~Answered /\ ~Sent
    BY <1>1, HistoryDomain DEF Snapshot, Answered, Sent, TypeInv
  <2>. QED
    BY <2>1, OtherwiseKept DEF Remember
<1>. QED
  BY <1>1, <1>2 DEF HistoryInv, BoundaryInv, OwedInv, CarriedInv, NothingSkipped, store, baseline

\* What the window's own invariants are.
WindowInv == TypeInv /\ PhaseInv /\ FinishInv /\ OnceInv /\ TurnsInv

\* They hold of the window with its history variables.
LEMMA WindowHolds ==
  /\ HInit => WindowInv
  /\ WindowInv /\ [Next]_vars => WindowInv'
<1>1. HInit => WindowInv
  BY TypeInit, PhaseInit, FinishInit, OnceInit, TurnsInit DEF HInit, WindowInv
<1>2. WindowInv /\ [Next]_vars => WindowInv'
  BY TypeNext, PhaseNext, FinishNext, OnceNext, TurnsNext DEF WindowInv
<1>. QED
  BY <1>1, <1>2

\* Every step keeps delivery over time.
LEMMA HistoryNext == WindowInv /\ HistoryInv /\ [HNext]_hvars => WindowInv' /\ HistoryInv'
<1>. SUFFICES ASSUME WindowInv, HistoryInv, [HNext]_hvars PROVE WindowInv' /\ HistoryInv'
  OBVIOUS
<1>1. [Next]_vars /\ Remember /\ TypeInv /\ PhaseInv /\ FinishInv /\ OnceInv
  BY AlwaysRemembers DEF WindowInv
<1>2. WindowInv' /\ TypeInv'
  BY <1>1, WindowHolds DEF WindowInv
<1>3. HistoryInv'
  BY <1>1, <1>2, StepKinds, HistorySnapshot, HistorySubmit, HistoryCompact, HistoryCommit,
     HistoryRollback, HistoryRedact, HistoryRecord, HistoryRests
<1>. QED
  BY <1>2, <1>3

\* Both hold in every behaviour.
LEMMA HistoryHolds == HSpec => [](WindowInv /\ HistoryInv)
<1>1. HInit => WindowInv /\ HistoryInv
  BY WindowHolds, HistoryInit
<1>. QED
  BY <1>1, HistoryNext, PTL DEF HSpec

\* Acknowledging never runs ahead of delivering: what lies between baseline
\* and cursor is in the conversation, was cut away by compaction or reads like
\* what the user took out (ContextSession.commit_on_success, compact).
THEOREM NoneSkipped == HSpec => []NothingSkipped
<1>1. HistoryInv => NothingSkipped
  BY DEF HistoryInv
<1>. QED
  BY <1>1, HistoryHolds, PTL

\* Only compaction moves the cursor past the end of the last request
\* (TranscriptStore.snapshot_slice, ContextSession.compact).
THEOREM OnlyBaselineSkips == HSpec => []UnseenOnlyByBaseline
<1>1. HistoryInv => UnseenOnlyByBaseline
  BY DEF HistoryInv, BoundaryInv, UnseenOnlyByBaseline
<1>. QED
  BY <1>1, HistoryHolds, PTL

\* A failed, cancelled or rejected request consumes nothing: the next answered
\* turn carries what it had asked for, but for what compaction gave up
\* (ContextSession.rollback_on_failure).
THEOREM FailuresConsumeNothing == HSpec => OwedIsDelivered
<1>1. ASSUME WindowInv, HistoryInv, [HNext]_hvars, Answered,
             NEW p \in RenderTerminalStream(owed \cap fragments)
      PROVE  \/ p \in history'[Len(history) + 1].context
             \/ p \in trimmed
             \/ p.seq < transcript_start_sequence
  <2>1. [Next]_vars /\ TypeInv /\ PhaseInv /\ FinishInv
    BY <1>1, AlwaysRemembers DEF WindowInv
  <2>2. FinishResponse
    <3>1. ~FinishResponse => Len(history') = Len(history)
      BY <2>1, StepKeepsTurns DEF SameTurns
    <3>. QED
      BY <1>1, <2>1, <3>1, HistoryDomain DEF Answered, TypeInv
  <2>3. /\ history'[Len(history) + 1] = pending_user_message
        /\ pending_user_message # None /\ pending_slice # None
    BY <2>1, <2>2, CommitTurn, CommitInFlight DEF InFlight
  <2>4. /\ p \in RenderTerminalStream(fragments) /\ p.seq < pending_slice.end
        /\ acknowledged_sequence <= p.seq \/ p.seq < transcript_start_sequence
    BY <1>1, <2>3 DEF HistoryInv, OwedInv, BoundaryInv, RenderTerminalStream
  <2>. QED
    BY <1>1, <2>3, <2>4 DEF HistoryInv, CarriedInv
<1>2. WindowInv /\ HistoryInv /\ [HNext]_hvars =>
        [Answered =>
           \A p \in RenderTerminalStream(owed \cap fragments) :
             \/ p \in history'[Len(history) + 1].context
             \/ p \in trimmed
             \/ p.seq < transcript_start_sequence]_hvars
  BY <1>1
<1>. QED
  BY <1>2, HistoryHolds, PTL DEF HSpec, OwedIsDelivered

----------------------------------------------------------------------------
(* The window implements Conversation: each step appends a whole turn,     *)
(* captures an event, takes terminal text out of turns or changes nothing. *)

\* A question has one piece.
AskedInv == pending_user_message # None => Len(pending_user_message.text) = 1

\* No question is pending at the start.
LEMMA AskedInit == Init => AskedInv
BY DEF Init, SessionInit, AskedInv

\* Only Submit sets the pending message.
LEMMA AskedNext == TypeInv /\ PhaseInv /\ AskedInv /\ [Next]_vars => AskedInv'
<1>. SUFFICES ASSUME TypeInv, PhaseInv, AskedInv, [Next]_vars PROVE AskedInv'
  OBVIOUS
<1>1. CASE Submit
  <2>1. pending_user_message' = Turn /\ Turn.text = Question
    BY <1>1 DEF Submit, SnapshotForSend, Turn, UserMessage
  <2>. QED
    BY <2>1 DEF AskedInv, Question
<1>2. CASE UNCHANGED pending_user_message
  BY <1>2 DEF AskedInv
<1>3. CASE FinishResponse \/ RollsBack
  BY <1>3 DEF FinishResponse, CommitOnSuccess, Clear, RollsBack, AskedInv
<1>4. CASE Snapshots \/ Compacts \/ Rests
  BY <1>2, <1>4 DEF Snapshots, Compacts, Rests
<1>5. ASSUME NEW word \in Words, RemoveSelectedFromContext(word) PROVE AskedInv'
  BY <1>2, <1>5 DEF RemoveSelectedFromContext, RedactContext
<1>6. ASSUME NEW chunk \in Chunks, RecordOutput(chunk) PROVE AskedInv'
  BY <1>2, <1>6 DEF RecordOutput, session, pending
<1>. QED
  BY <1>1, <1>3, <1>4, <1>5, <1>6, StepKinds

\* Two messages more make a sequence with those two at its end.
LEMMA TwoMore ==
  ASSUME NEW S, NEW s \in Seq(S), NEW t \in Seq(S), Len(t) = Len(s) + 2,
         \A i \in 1..Len(s) : t[i] = s[i]
  PROVE  t = s \o <<t[Len(s) + 1], t[Len(s) + 2]>>
<1>. DEFINE n == Len(s)  two == <<t[n + 1], t[n + 2]>>
<1>1. n \in Nat /\ DOMAIN t = 1..n + 2 /\ t[n + 1] \in S /\ t[n + 2] \in S
  OBVIOUS
<1>2. two \in Seq(S) /\ Len(two) = 2 /\ two[1] = t[n + 1] /\ two[2] = t[n + 2]
  BY <1>1
<1>. HIDE DEF two
<1>3. /\ s \o two \in Seq(S) /\ Len(s \o two) = n + 2
      /\ \A i \in 1..n + 2 : (s \o two)[i] = IF i <= n THEN s[i] ELSE two[i - n]
  <2>1. /\ s \o two \in Seq(S) /\ Len(s \o two) = Len(s) + Len(two)
        /\ \A i \in 1..Len(s) + Len(two) :
             (s \o two)[i] = IF i <= Len(s) THEN s[i] ELSE two[i - Len(s)]
    BY <1>2, ConcatProperties, Zenon
  <2>. QED
    BY <1>2, <2>1
<1>4. ASSUME NEW i \in 1..n + 2 PROVE (s \o two)[i] = t[i]
  <2>1. \/ i \in 1..n /\ i <= n
        \/ i = n + 1 /\ ~(i <= n) /\ i - n = 1
        \/ i = n + 2 /\ ~(i <= n) /\ i - n = 2
    BY <1>1
  <2>. QED
    BY <1>2, <1>3, <2>1
<1>. QED
  BY <1>1, <1>3, <1>4, SeqEqual DEF two

\* What the conversation holds is in Conversation's terms older than what a
\* message in flight carries.
LEMMA DeliveredIsOlder ==
  ASSUME TypeInv, OnceInv, pending_user_message # None, NEW p \in pending_user_message.context
  PROVE  p.seq < next_sequence /\ \A q \in WholeTurns!Delivered : q.seq < p.seq
<1>1. /\ acknowledged_sequence <= p.seq /\ p.seq < pending_slice.end
      /\ pending_slice.end <= next_sequence
      /\ \A i \in DOMAIN history : \A q \in history[i].context : q.seq < acknowledged_sequence
  BY DEF OnceInv, DeliveryInv
<1>2. /\ p.seq \in Nat /\ pending_slice.end \in Nat /\ next_sequence \in Nat
      /\ acknowledged_sequence \in Nat
      /\ \A i \in DOMAIN history : \A q \in history[i].context : q.seq \in Nat
  <2>1. pending_user_message \in Message /\ \A i \in DOMAIN history : history[i] \in Message
    BY HistoryDomain DEF TypeInv, TypeOK
  <2>2. \A m \in Message : \A q \in m.context : q.seq \in Nat
    BY DEF Message, Text, Fragment
  <2>. QED
    BY <2>1, <2>2, Numbers DEF SeqNumbers, OnceInv, DeliveryInv
<1>. QED
  BY <1>1, <1>2 DEF WholeTurns!Delivered

\* An earlier message is no question of the request in flight.
LEMMA QuestionIsNew ==
  ASSUME TypeInv, InFlight, TurnsInv, AskedInv, NEW i \in DOMAIN history
  PROVE  history[i].text # pending_user_message.text
<1>. DEFINE asked == pending_user_message.text
<1>1. Len(asked) = 1 /\ asked[1].request = cancel_event
  BY DEF InFlight, AskedInv
<1>2. DOMAIN history = 1..Len(history) /\ Len(history) \in Nat /\ Len(history) % 2 = 0
  BY HistoryDomain DEF TypeInv, TurnsInv
<1>3. CASE i % 2 = 1
  BY <1>1, <1>2, <1>3 DEF TurnsInv, TurnAt
<1>4. CASE i % 2 = 0
  <2>1. i - 1 \in 1..Len(history) /\ (i - 1) % 2 = 1 /\ (i - 1) + 1 = i
    BY <1>2, <1>4
  <2>. DEFINE r == history[i - 1].text[1].request
  <2>2. r # cancel_event /\ history[i].text = Answer(r, Len(history[i].text))
    BY <2>1 DEF TurnsInv, TurnAt
  <2>3. Len(history[i].text) = 1 => history[i].text[1].request = r
    BY <2>2 DEF Answer
  <2>. QED
    BY <1>1, <2>2, <2>3
<1>. QED
  BY <1>2, <1>3, <1>4

\* An answer is a whole turn.
LEMMA FinishIsTurn ==
  ASSUME WindowInv, WindowInv', AskedInv, FinishResponse
  PROVE  WholeTurns!Turn
<1>0. TypeInv /\ PhaseInv /\ FinishInv /\ OnceInv /\ TurnsInv /\ OnceInv' /\ TypeInv'
  BY DEF WindowInv
<1>. DEFINE n == Len(history)
<1>1. /\ InFlight /\ pending_user_message # None /\ request_id = cancel_event
      /\ UNCHANGED store
  BY <1>0, CommitSession DEF InFlight
<1>2. /\ Len(history') = n + 2 /\ \A i \in 1..n : history'[i] = history[i]
      /\ history'[n + 1] = pending_user_message
      /\ history'[n + 2].role = "assistant"
      /\ history'[n + 2].text = Answer(request_id, idle_queue[1].n)
  BY <1>0, CommitTurn
<1>3. history \in Seq(Message) /\ history' \in Seq(Message)
  BY <1>0 DEF TypeInv, TypeOK
<1>4. history' = history \o <<history'[n + 1], history'[n + 2]>>
  BY <1>2, <1>3, TwoMore
<1>5. history'[n + 1].role = "user"
  BY <1>0, <1>1, <1>2 DEF TurnsInv
<1>6. history'[n + 2].context = {}
  <2>1. n + 2 \in DOMAIN history'
    BY <1>2, <1>3
  <2>. QED
    BY <1>0, <1>2, <2>1 DEF OnceInv, OnlyUsersCarry
<1>7. \A p \in history'[n + 1].context :
        p.seq < next_sequence /\ \A q \in WholeTurns!Delivered : q.seq < p.seq
  BY <1>0, <1>1, <1>2, DeliveredIsOlder
<1>8. \A i \in DOMAIN history'[n + 2].text :
        history'[n + 2].text[i].request = history'[n + 1].text[1].request
  BY <1>1, <1>2 DEF Answer, InFlight
<1>9. \A i \in DOMAIN history : history[i].text # history'[n + 1].text
  BY <1>0, <1>1, <1>2, QuestionIsNew
<1>. QED
  BY <1>1, <1>2, <1>4, <1>5, <1>6, <1>7, <1>8, <1>9 DEF WholeTurns!Turn, store

\* Compaction and redaction withdraw terminal text.
LEMMA PartsAreWithdrawn ==
  ASSUME TypeInv, TypeInv', SameTurns, UNCHANGED next_sequence,
         \A i \in DOMAIN history : history'[i].context \subseteq history[i].context
  PROVE  WholeTurns!Withdraw
<1>1. DOMAIN history = 1..Len(history) /\ DOMAIN history' = 1..Len(history')
  BY HistoryDomain DEF TypeInv, TypeOK
<1>. QED
  BY <1>1 DEF SameTurns, WholeTurns!Withdraw

\* Compaction is a withdrawal.
LEMMA CompactWithdraws ==
  ASSUME TypeInv, TypeInv', Compacts
  PROVE  WholeTurns!Withdraw
<1>1. CompactBaseline /\ pending_slice # None /\ UNCHANGED next_sequence
  BY DEF Compacts, Composing, store
<1>2. SameTurns
  BY <1>1, CompactKeepsTurns
<1>3. ASSUME NEW i \in DOMAIN history PROVE history'[i].context \subseteq history[i].context
  <2>1. history[i] \in Message
    BY HistoryDomain DEF TypeInv
  <2>2. history'[i] = history[i] \/ history'[i] = Scrub(history[i])
    BY <1>1, <1>3 DEF CompactBaseline
  <2>. QED
    BY <2>1, <2>2 DEF Scrub, Message
<1>. QED
  BY <1>1, <1>2, <1>3, PartsAreWithdrawn

\* So is redaction.
LEMMA RedactWithdraws ==
  ASSUME TypeInv, TypeInv', NEW word \in Words, RemoveSelectedFromContext(word)
  PROVE  WholeTurns!Withdraw
<1>1. RedactContext(word) /\ UNCHANGED next_sequence
  BY DEF RemoveSelectedFromContext, RedactText
<1>2. SameTurns
  BY <1>1, RedactKeepsTurns
<1>3. ASSUME NEW i \in DOMAIN history PROVE history'[i].context \subseteq history[i].context
  <2>1. history[i] \in Message
    BY HistoryDomain DEF TypeInv
  <2>2. history'[i] = [history[i] EXCEPT !.context = Remove(@, word)]
    BY <1>1, <1>3 DEF RedactContext
  <2>. QED
    BY <2>1, <2>2 DEF Remove, Message
<1>. QED
  BY <1>1, <1>2, <1>3, PartsAreWithdrawn

\* Every step of the window is one of the conversation, or a stutter.
LEMMA ConversationStep ==
  WindowInv /\ WindowInv' /\ AskedInv /\ [Next]_vars
    => [WholeTurns!Next]_<<next_sequence, history>>
<1>. SUFFICES ASSUME WindowInv, WindowInv', AskedInv, [Next]_vars
              PROVE  WholeTurns!Next \/ UNCHANGED <<next_sequence, history>>
  OBVIOUS
<1>0. TypeInv /\ TypeInv' /\ PhaseInv
  BY DEF WindowInv
<1>1. CASE Snapshots \/ Submit \/ RollsBack \/ Rests
  BY <1>1 DEF Snapshots, Submit, SnapshotForSend, RollsBack, Rests, store
<1>2. CASE FinishResponse
  BY <1>2, FinishIsTurn DEF WholeTurns!Next
<1>3. CASE Compacts
  BY <1>0, <1>3, CompactWithdraws DEF WholeTurns!Next
<1>4. ASSUME NEW word \in Words, RemoveSelectedFromContext(word) PROVE WholeTurns!Next
  BY <1>0, <1>4, RedactWithdraws DEF WholeTurns!Next
<1>5. ASSUME NEW chunk \in Chunks, RecordOutput(chunk) PROVE WholeTurns!Next
  BY <1>5 DEF RecordOutput, TranscriptAppend, session, WholeTurns!Next, WholeTurns!Capture
<1>. QED
  BY <1>0, <1>1, <1>2, <1>3, <1>4, <1>5, StepKinds

\* An observer of the store's length and the conversation sees events captured
\* one by one and whole turns that carry new text only, whatever threads,
\* failures, cancellations, redactions and compaction passes lie between
\* (TroubleWindow, ContextSession).
THEOREM WindowImplementsConversation == HSpec => ImplementsConversation
<1>1. HInit => WholeTurns!Init /\ WindowInv /\ AskedInv
  <2>1. HInit => WholeTurns!Init
    BY DEF HInit, Init, StoreInit, SessionInit, WholeTurns!Init
  <2>. QED
    BY <2>1, WindowHolds, AskedInit DEF HInit
<1>2. WindowInv /\ AskedInv /\ [HNext]_hvars =>
        WindowInv' /\ AskedInv' /\ [WholeTurns!Next]_<<next_sequence, history>>
  <2>. SUFFICES ASSUME WindowInv, AskedInv, [HNext]_hvars
                PROVE  WindowInv' /\ AskedInv' /\ [WholeTurns!Next]_<<next_sequence, history>>
    OBVIOUS
  <2>1. [Next]_vars
    BY AlwaysRemembers DEF WindowInv
  <2>2. WindowInv' /\ AskedInv'
    BY <2>1, WindowHolds, AskedNext DEF WindowInv
  <2>. QED
    BY <2>1, <2>2, ConversationStep
<1>. QED
  BY <1>1, <1>2, PTL DEF HSpec, ImplementsConversation, WholeTurns!Spec

----------------------------------------------------------------------------
(* The temporary response label: it and the queued callbacks make up the   *)
(* answer, however the threads of cancelled and current requests           *)
(* interleave.                                                             *)

\* The queued fragments of a request.
Deltas(r) ==
  {k \in DOMAIN idle_queue : idle_queue[k].request = r /\ idle_queue[k].kind = "delta"}

\* StreamIsLive, fragment by fragment.
LabelInv ==
  stream # None =>
    /\ stream = Answer(request_id, Len(stream))
    /\ Len(stream) <= received[request_id]
    /\ \A k \in Deltas(request_id) :
         idle_queue[k].n \in (Len(stream) + 1)..received[request_id]
    /\ \A i \in (Len(stream) + 1)..received[request_id] :
         \E k \in Deltas(request_id) : idle_queue[k].n = i
    /\ \A j, k \in Deltas(request_id) : j < k => idle_queue[j].n < idle_queue[k].n

\* The label of a new request starts with nothing queued and nothing received.
LiveInv ==
  /\ \A r \in Requests : r > request_id => received[r] = 0
  /\ LabelInv

\* There is no label and nothing is received.
LEMMA LiveInit == Init => LiveInv
BY DEF Init, LiveInv, LabelInv

\* The numbers that LabelInv counts with.
LEMMA LabelNumbers ==
  ASSUME TypeOK, PhaseInv, stream # None
  PROVE  /\ request_id \in Requests /\ received[request_id] \in Nat /\ Len(stream) \in Nat
         /\ stream \in Seq(Said) /\ cancel_event = request_id /\ request_id \notin cancelled
         /\ composing = FALSE
         /\ \A k \in DOMAIN idle_queue : k \in Nat \ {0} /\ idle_queue[k].n \in Nat
<1>1. InFlight
  BY DEF PhaseInv, Composing, Idle
<1>2. cancel_event = request_id /\ request_id \notin cancelled /\ cancel_event # None
      /\ composing = FALSE
  BY <1>1 DEF InFlight
<1>3. request_id \in Requests /\ stream \in Seq(Said)
  BY <1>2 DEF TypeOK
<1>4. received[request_id] \in Nat
  BY <1>3, WindowAssumption DEF TypeOK
<1>5. \A k \in DOMAIN idle_queue : k \in Nat \ {0} /\ idle_queue[k] \in Callback
  BY DEF TypeOK
<1>. QED
  BY <1>2, <1>3, <1>4, <1>5 DEF Callback

\* The first queued fragment of the request in flight is the label's next one.
LEMMA HeadIsNextFragment ==
  ASSUME TypeOK, PhaseInv, LabelInv, stream # None, 1 \in Deltas(request_id)
  PROVE  idle_queue[1].n = Len(stream) + 1 /\ Len(stream) + 1 <= received[request_id]
<1>1. idle_queue[1].n \in (Len(stream) + 1)..received[request_id]
  BY DEF LabelInv
<1>2. Len(stream) + 1 \in (Len(stream) + 1)..received[request_id]
  BY <1>1, LabelNumbers
<1>3. PICK k \in Deltas(request_id) : idle_queue[k].n = Len(stream) + 1
  BY <1>2 DEF LabelInv
<1>4. k \in Nat \ {0} /\ (k = 1 \/ idle_queue[1].n < idle_queue[k].n)
  BY LabelNumbers DEF LabelInv, Deltas
<1>. QED
  BY <1>1, <1>3, <1>4, LabelNumbers

\* A callback of another request, or one that brings no fragment, leaves the
\* label's fragments in place.
LEMMA LabelTakes ==
  ASSUME TypeOK, LabelInv, NEW kind, TakeCallback(kind), 1 \notin Deltas(request_id),
         UNCHANGED <<stream, request_id, received>>
  PROVE  LabelInv'
<1>1. \A k \in Deltas(request_id)' :
        k \in Nat /\ k + 1 \in Deltas(request_id) /\ idle_queue'[k] = idle_queue[k + 1]
  BY QueueShrinks DEF Deltas
<1>2. \A k \in Deltas(request_id) :
        k - 1 \in Deltas(request_id)' /\ idle_queue'[k - 1] = idle_queue[k]
  <2>1. ASSUME NEW k \in Deltas(request_id)
        PROVE  k - 1 \in DOMAIN idle_queue' /\ idle_queue'[k - 1] = idle_queue[k]
    <3>1. k \in 1..Len(idle_queue) /\ k # 1 /\ Len(idle_queue) \in Nat
      BY <2>1, QueueShrinks DEF Deltas
    <3>2. k - 1 \in DOMAIN idle_queue' /\ (k - 1) + 1 = k
      BY <3>1, QueueShrinks
    <3>. QED
      BY <3>2, QueueShrinks
  <2>. QED
    BY <2>1 DEF Deltas
<1>. QED
  BY <1>1, <1>2 DEF LabelInv, Answer

\* A callback that brings the next fragment puts it at the label's end.
LEMMA LabelGrows ==
  ASSUME TypeOK, PhaseInv, LabelInv, AppendStreamDelta, stream # None, 1 \in Deltas(request_id)
  PROVE  LabelInv'
<1>. DEFINE len == Len(stream)  last == received[request_id]
<1>1. idle_queue[1].n = len + 1 /\ len + 1 <= last /\ len \in Nat /\ last \in Nat
  BY HeadIsNextFragment, LabelNumbers
<1>2. TakeCallback("delta") /\ Head(idle_queue) = idle_queue[1]
  BY QueueShrinks DEF AppendStreamDelta
<1>. DEFINE piece == [request |-> request_id, n |-> len + 1]
<1>3. stream' = stream \o <<piece>> /\ UNCHANGED <<request_id, received>>
  BY <1>1, <1>2, LabelNumbers DEF AppendStreamDelta, Stale, Deltas, background
<1>4. piece \in Said /\ stream \in Seq(Said) /\ stream = Answer(request_id, len)
  BY <1>1, LabelNumbers DEF Said, LabelInv, Requests
<1>5. stream' = Answer(request_id, len + 1) /\ Len(stream') = len + 1
  <2>. HIDE DEF piece
  <2>1. /\ Len(stream') = len + 1 /\ stream' \in Seq(Said)
        /\ \A i \in 1..len : stream'[i] = stream[i]
        /\ stream'[len + 1] = piece
    BY <1>3, <1>4
  <2>2. \A i \in 1..len : stream[i] = [request |-> request_id, n |-> i]
    BY <1>4 DEF Answer
  <2>3. \A i \in 1..len + 1 : stream'[i] = [request |-> request_id, n |-> i]
    <3>1. stream'[len + 1] = [request |-> request_id, n |-> len + 1]
      BY <2>1 DEF piece
    <3>2. \A i \in 1..len + 1 : i \in 1..len \/ i = len + 1
      BY <1>1
    <3>. QED
      BY <2>1, <2>2, <3>1, <3>2
  <2>4. stream' = [i \in 1..len + 1 |-> stream'[i]]
    BY <2>1
  <2>. QED
    BY <2>1, <2>3, <2>4 DEF Answer
<1>6. \A k \in Deltas(request_id)' :
        k \in Nat \ {0} /\ k + 1 \in Deltas(request_id) /\ idle_queue'[k] = idle_queue[k + 1]
  BY <1>2, <1>3, QueueShrinks DEF Deltas
<1>7. \A k \in Deltas(request_id) \ {1} :
        k - 1 \in Deltas(request_id)' /\ idle_queue'[k - 1] = idle_queue[k]
  <2>1. ASSUME NEW k \in Deltas(request_id) \ {1}
        PROVE  k - 1 \in DOMAIN idle_queue' /\ idle_queue'[k - 1] = idle_queue[k]
    <3>1. k \in 1..Len(idle_queue) /\ k # 1 /\ Len(idle_queue) \in Nat
      BY <2>1, <1>2, QueueShrinks DEF Deltas
    <3>2. k - 1 \in DOMAIN idle_queue' /\ (k - 1) + 1 = k
      BY <1>2, <3>1, QueueShrinks
    <3>. QED
      BY <1>2, <3>2, QueueShrinks
  <2>. QED
    BY <1>3, <2>1 DEF Deltas
<1>8. ASSUME NEW k \in Deltas(request_id)' PROVE idle_queue'[k].n \in (len + 2)..last
  <2>1. k + 1 \in Deltas(request_id) /\ 1 < k + 1 /\ idle_queue'[k] = idle_queue[k + 1]
    BY <1>6, <1>8
  <2>2. idle_queue[1].n < idle_queue[k + 1].n /\ idle_queue[k + 1].n \in (len + 1)..last
    BY <2>1 DEF LabelInv
  <2>. QED
    BY <1>1, <2>1, <2>2
<1>9. ASSUME NEW i \in (len + 2)..last PROVE \E k \in Deltas(request_id)' : idle_queue'[k].n = i
  <2>1. PICK k \in Deltas(request_id) : idle_queue[k].n = i
    <3>1. i \in (len + 1)..last
      BY <1>1, <1>9
    <3>. QED
      BY <3>1 DEF LabelInv
  <2>2. k # 1
    BY <1>1, <1>9, <2>1
  <2>. QED
    BY <1>7, <2>1, <2>2
<1>10. ASSUME NEW j \in Deltas(request_id)', NEW k \in Deltas(request_id)', j < k
       PROVE  idle_queue'[j].n < idle_queue'[k].n
  <2>1. j + 1 \in Deltas(request_id) /\ k + 1 \in Deltas(request_id) /\ j + 1 < k + 1
    BY <1>6, <1>10
  <2>2. idle_queue[j + 1].n < idle_queue[k + 1].n
    BY <2>1 DEF LabelInv
  <2>. QED
    BY <1>6, <1>10, <2>2
<1>11. Len(stream') + 1 = len + 2 /\ Len(stream') <= last
  <2>1. Len(stream') = len + 1
    BY <1>5
  <2>. QED
    BY <1>1, <2>1
<1>12. received'[request_id'] = last
  BY <1>3
<1>13. stream' = Answer(request_id', Len(stream'))
  BY <1>3, <1>5 DEF Answer
<1>. HIDE DEF len, last
<1>. QED
  BY <1>8, <1>9, <1>10, <1>11, <1>12, <1>13 DEF LabelInv

\* What the thread of a request hands over does not disturb the label of
\* another, and completes its own.
LEMMA LabelHears ==
  ASSUME TypeInv, PhaseInv, LabelInv, NEW r \in Requests, ChunkArrives(r) \/ StreamEnds(r)
  PROVE  LabelInv'
<1>. SUFFICES ASSUME stream # None PROVE LabelInv'
  BY DEF ChunkArrives, StreamEnds, ui, LabelInv
<1>0. TypeOK /\ received[r] \in Nat /\ UNCHANGED <<stream, request_id>>
  BY WindowAssumption DEF ChunkArrives, StreamEnds, TypeInv, TypeOK, ui
<1>. DEFINE last == Len(idle_queue) + 1
<1>1. ASSUME NEW kind \in {"delta", "response", "error"}, NEW n \in Nat, IdleAdd(kind, r, n)
      PROVE  /\ \A k \in DOMAIN idle_queue : idle_queue'[k] = idle_queue[k] /\ k < last /\ k \in Nat
             /\ DOMAIN idle_queue' = DOMAIN idle_queue \cup {last} /\ last \in Nat
             /\ idle_queue'[last].kind = kind /\ idle_queue'[last].request = r
             /\ idle_queue'[last].n = n
  <2>1. /\ DOMAIN idle_queue = 1..Len(idle_queue) /\ Len(idle_queue) \in Nat
        /\ DOMAIN idle_queue' = 1..Len(idle_queue) + 1
        /\ \A k \in DOMAIN idle_queue : idle_queue'[k] = idle_queue[k]
        /\ idle_queue'[last] = [kind |-> kind, request |-> r, n |-> n]
    BY <1>0, <1>1, QueueGrows
  <2>2. /\ 1..Len(idle_queue) + 1 = 1..Len(idle_queue) \cup {last} /\ last \in Nat
        /\ \A k \in 1..Len(idle_queue) : k < last /\ k \in Nat
    BY <2>1
  <2>. QED
    BY <2>1, <2>2
<1>2. ASSUME NEW kind \in {"delta", "response", "error"}, NEW n \in Nat, IdleAdd(kind, r, n),
             kind # "delta" \/ r # request_id, received'[request_id] = received[request_id]
      PROVE  LabelInv'
  <2>1. Deltas(request_id)' = Deltas(request_id) /\ \A k \in Deltas(request_id) : idle_queue'[k] = idle_queue[k]
    BY <1>0, <1>1, <1>2 DEF Deltas
  <2>. QED
    BY <1>0, <1>2, <2>1 DEF LabelInv, Answer
<1>3. CASE ChunkArrives(r) /\ r \in cancelled
  BY <1>0, <1>2, <1>3 DEF ChunkArrives
<1>4. CASE StreamEnds(r)
  BY <1>0, <1>2, <1>4 DEF StreamEnds
<1>5. CASE ChunkArrives(r) /\ r \notin cancelled
  <2>1. /\ received' = [received EXCEPT ![r] = @ + 1] /\ received'[r] = received[r] + 1
        /\ IdleAdd("delta", r, received[r] + 1)
    BY <1>0, <1>5 DEF ChunkArrives, TypeOK
  <2>2. CASE r # request_id
    <3>1. received'[request_id] = received[request_id] /\ received[r] + 1 \in Nat
      BY <1>0, <2>1, <2>2, LabelNumbers DEF TypeOK
    <3>. QED
      BY <1>2, <2>1, <2>2, <3>1
  <2>3. CASE r = request_id
    <3>. DEFINE n == received[r] + 1
    <3>1. n \in Nat
      BY <1>0
    <3>2. /\ \A k \in DOMAIN idle_queue : idle_queue'[k] = idle_queue[k] /\ k < last /\ k \in Nat
          /\ DOMAIN idle_queue' = DOMAIN idle_queue \cup {last} /\ last \in Nat
          /\ idle_queue'[last].kind = "delta" /\ idle_queue'[last].request = r
          /\ idle_queue'[last].n = n
      BY <1>1, <2>1, <3>1
    <3>3. Deltas(request_id)' = Deltas(request_id) \cup {last}
      BY <1>0, <2>3, <3>2 DEF Deltas
    <3>4. \A k \in Deltas(request_id) :
            /\ idle_queue'[k] = idle_queue[k] /\ k < last /\ k \in Nat
            /\ idle_queue[k].n \in (Len(stream) + 1)..received[r]
      BY <2>3, <3>2 DEF Deltas, LabelInv
    <3>5. Len(stream) \in Nat /\ Len(stream) <= received[r] /\ received'[request_id] = n
      BY <1>0, <2>1, <2>3, LabelNumbers DEF LabelInv
    <3>6. \A k \in Deltas(request_id)' : idle_queue'[k].n \in (Len(stream) + 1)..n
      BY <1>0, <3>2, <3>3, <3>4, <3>5
    <3>7. ASSUME NEW i \in (Len(stream) + 1)..n PROVE \E k \in Deltas(request_id)' : idle_queue'[k].n = i
      <4>1. CASE i = n
        BY <3>2, <3>3, <4>1
      <4>2. CASE i # n
        <5>1. i \in (Len(stream) + 1)..received[r]
          BY <1>0, <3>5, <3>7, <4>2
        <5>2. PICK k \in Deltas(request_id) : idle_queue[k].n = i
          BY <2>3, <5>1 DEF LabelInv
        <5>. QED
          BY <3>3, <3>4, <5>2
      <4>. QED
        BY <4>1, <4>2
    <3>8. ASSUME NEW j \in Deltas(request_id)', NEW k \in Deltas(request_id)', j < k
          PROVE  idle_queue'[j].n < idle_queue'[k].n
      <4>1. CASE k = last
        BY <1>0, <3>2, <3>3, <3>4, <3>5, <3>8, <4>1
      <4>2. CASE k # last
        <5>1. j \in Deltas(request_id) /\ k \in Deltas(request_id)
          BY <3>2, <3>3, <3>4, <3>8, <4>2
        <5>. QED
          BY <3>4, <3>8, <5>1 DEF LabelInv
      <4>. QED
        BY <4>1, <4>2
    <3>9. /\ stream' = stream
          /\ received'[request_id'] = n /\ stream' = Answer(request_id', Len(stream'))
          /\ Len(stream) <= n
      BY <1>0, <2>1, <2>3, <3>5 DEF LabelInv, Answer
    <3>. QED
      BY <3>6, <3>7, <3>8, <3>9 DEF LabelInv
  <2>. QED
    BY <2>2, <2>3
<1>. QED
  BY <1>3, <1>4, <1>5

\* A step keeps the label and the queue in agreement.
LEMMA LiveNext == TypeInv /\ PhaseInv /\ FinishInv /\ LiveInv /\ [Next]_vars => LiveInv'
<1>. SUFFICES ASSUME TypeInv, PhaseInv, FinishInv, LiveInv, [Next]_vars PROVE LiveInv'
  OBVIOUS
<1>0. TypeOK /\ LabelInv /\ request_id \in Nat
  BY WindowAssumption DEF TypeInv, TypeOK, LiveInv
<1>1. CASE UNCHANGED <<received, request_id, idle_queue>> /\ (stream' = stream \/ stream' = None)
  BY <1>1 DEF LiveInv, LabelInv, Deltas, Answer
<1>2. CASE Submit
  <2>0. /\ request_id' = request_id + 1 /\ stream' = <<>>
        /\ UNCHANGED <<received, idle_queue>> /\ composing
    BY <1>2 DEF Submit, background
  <2>1. /\ request_id' = request_id + 1 /\ stream' = <<>>
        /\ UNCHANGED <<received, idle_queue>> /\ request_id + 1 \in Requests
    <3>1. request_id < MaxRequests
      BY <2>0 DEF TypeInv
    <3>2. request_id + 1 \in Requests
      BY <1>0, <3>1, WindowAssumption DEF Requests
    <3>. QED
      BY <2>0, <3>2
  <2>2. received[request_id + 1] = 0
    BY <1>0, <2>1 DEF LiveInv
  <2>3. Deltas(request_id)' = {}
    <3>1. \A k \in DOMAIN idle_queue : idle_queue[k].request # request_id + 1
      <4>1. \A k \in DOMAIN idle_queue : idle_queue[k].request <= request_id
        BY DEF FinishInv
      <4>. QED
        BY <1>0, <4>1
    <3>. QED
      BY <2>1, <3>1 DEF Deltas
  <2>4. Len(stream') = 0 /\ received'[request_id'] = 0 /\ (Len(stream') + 1)..received'[request_id'] = {}
    BY <2>1, <2>2
  <2>5. stream' = Answer(request_id', Len(stream'))
    <3>1. stream' \in Seq(Said) /\ DOMAIN stream' = {} /\ 1..Len(stream') = {}
      BY <2>1, <2>4
    <3>. QED
      BY <3>1 DEF Answer
  <2>6. LabelInv'
    BY <2>3, <2>4, <2>5 DEF LabelInv
  <2>7. \A r \in Requests : r > request_id' => received'[r] = 0
    BY <1>0, <2>1, WindowAssumption DEF LiveInv, Requests
  <2>. QED
    BY <2>6, <2>7 DEF LiveInv
<1>3. ASSUME NEW kind, TakeCallback(kind), UNCHANGED <<request_id, received>>, stream' = None
      PROVE  LiveInv'
  BY <1>3 DEF LiveInv, LabelInv
<1>4. ASSUME NEW kind, TakeCallback(kind), UNCHANGED <<request_id, received, stream>>,
             1 \notin Deltas(request_id)
      PROVE  LiveInv'
  BY <1>0, <1>4, LabelTakes DEF LiveInv
<1>5. CASE AppendStreamDelta
  <2>1. TakeCallback("delta") /\ Head(idle_queue) = idle_queue[1] /\ UNCHANGED <<request_id, received>>
        /\ 1 \in DOMAIN idle_queue /\ idle_queue[1].kind = "delta"
    BY <1>0, <1>5, QueueShrinks DEF AppendStreamDelta, background
  <2>2. CASE stream = None
    BY <1>3, <1>5, <2>1, <2>2 DEF AppendStreamDelta
  <2>3. CASE stream # None /\ 1 \in Deltas(request_id)
    BY <1>0, <1>5, <2>1, <2>3, LabelGrows DEF LiveInv
  <2>4. CASE stream # None /\ 1 \notin Deltas(request_id)
    <3>1. Stale(Head(idle_queue).request)
      BY <2>1, <2>4 DEF Deltas, Stale
    <3>2. stream' = stream
      BY <1>5, <3>1 DEF AppendStreamDelta
    <3>. QED
      BY <1>4, <2>1, <2>4, <3>2
  <2>. QED
    BY <2>2, <2>3, <2>4
<1>6. CASE IgnoreFinish
  <2>1. PICK kind \in {"response", "error"} : TakeCallback(kind)
    BY <1>6 DEF IgnoreFinish
  <2>2. 1 \notin Deltas(request_id)
    BY <1>0, <2>1, QueueShrinks DEF Deltas
  <2>. QED
    BY <1>4, <1>6, <2>1, <2>2 DEF IgnoreFinish, ui, background
<1>7. CASE FinishResponse \/ FinishError
  BY <1>3, <1>7 DEF FinishResponse, FinishError, background
<1>8. CASE CancelRequest
  BY <1>1, <1>8 DEF CancelRequest, background
<1>9. ASSUME NEW r \in Requests, ChunkArrives(r) \/ StreamEnds(r) PROVE LiveInv'
  <2>1. LabelInv'
    BY <1>0, <1>9, LabelHears
  <2>2. r \in 1..request_id /\ request_id' = request_id
    BY <1>9 DEF ChunkArrives, StreamEnds, FinishInv, ui
  <2>3. \A s \in Requests : s # r => received'[s] = received[s]
    BY <1>0, <1>9 DEF ChunkArrives, StreamEnds, TypeOK
  <2>. QED
    BY <1>0, <2>1, <2>2, <2>3 DEF LiveInv, Requests
<1>10. CASE Send \/ FirstCompaction \/ CompactAgain \/ Reject
  BY <1>1, <1>10 DEF Send, FirstCompaction, CompactAgain, Reject, ui, background
<1>11. ASSUME NEW word \in Words, RemoveSelectedFromContext(word) PROVE LiveInv'
  BY <1>1, <1>11 DEF RemoveSelectedFromContext, ui, background
<1>12. ASSUME NEW chunk \in Chunks, RecordOutput(chunk) PROVE LiveInv'
  BY <1>1, <1>12 DEF RecordOutput, ui, background
<1>13. CASE UNCHANGED vars
  BY <1>1, <1>13 DEF vars, ui, background
<1>. QED
  BY <1>2, <1>5, <1>6, <1>7, <1>8, <1>9, <1>10, <1>11, <1>12, <1>13 DEF Next, MainThread, User

\* The temporary response label and the queue make up what the thread of the
\* request in flight has read (_append_stream_delta, _stream_completion).
THEOREM LabelStaysLive == Spec => []StreamIsLive
<1>1. Init => TypeInv /\ PhaseInv /\ FinishInv /\ LiveInv
  BY TypeInit, PhaseInit, FinishInit, LiveInit
<1>2. TypeInv /\ PhaseInv /\ FinishInv /\ LiveInv /\ [Next]_vars
        => (TypeInv /\ PhaseInv /\ FinishInv /\ LiveInv)'
  BY TypeNext, PhaseNext, FinishNext, LiveNext
<1>3. LiveInv => StreamIsLive
  <2>. SUFFICES ASSUME LabelInv, stream # None
       PROVE  /\ stream = Answer(request_id, Len(stream))
              /\ Len(stream) <= received[request_id]
              /\ {idle_queue[k].n : k \in Deltas(request_id)} = (Len(stream) + 1)..received[request_id]
              /\ \A j, k \in Deltas(request_id) : j < k => idle_queue[j].n < idle_queue[k].n
    BY DEF LiveInv, StreamIsLive, Deltas
  <2>. QED
    BY DEF LabelInv
<1>. QED
  BY <1>1, <1>2, <1>3, PTL DEF Spec

====
