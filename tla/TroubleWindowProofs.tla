---- MODULE TroubleWindowProofs ----
(***************************************************************************)
(* What holds of TroubleWindow for all bounds, limits and texts: its type  *)
(* invariant, the agreement of widgets, session and cancel event, that no  *)
(* terminal event stands twice in a request, and that the conversation is  *)
(* a list of whole turns.                                                  *)
(***************************************************************************)
EXTENDS TroubleWindow, TLAPS

----------------------------------------------------------------------------
(* Operators of the store and the session return values of their types.    *)

\* get_slice returns a slice.
LEMMA GetSliceType ==
  ASSUME fragments \in Text, NEW start \in Nat, NEW end \in Nat
  PROVE  GetSlice(start, end) \in Slice
BY DEF GetSlice, Slice, Text

\* Rendering, cutting and redacting only take text away.
LEMMA TextParts ==
  ASSUME NEW text \in Text
  PROVE  /\ \A k : Newest(text, k) \in Text /\ Newest(text, k) \subseteq text
         /\ RenderTerminalStream(text) \in Text /\ RenderTerminalStream(text) \subseteq text
         /\ \A word : Remove(text, word) \in Text /\ Remove(text, word) \subseteq text
BY DEF Newest, RenderTerminalStream, Remove, Text

\* compact's new baseline lies between the old one and the store's end.
LEMMA NewStartType ==
  ASSUME transcript_start_sequence \in Nat, next_sequence \in Nat,
         transcript_start_sequence <= next_sequence
  PROVE  /\ NewStart \in Nat
         /\ transcript_start_sequence <= NewStart
         /\ NewStart <= next_sequence
BY DEF NewStart

\* A compaction pass keeps a part of the rebased text.
LEMMA RetainedPart ==
  ASSUME NEW text \in Text
  PROVE  Retained(text) \in Text /\ Retained(text) \subseteq text
<1>1. {} \in Text /\ {} \subseteq text
  BY DEF Text
<1>. QED
  BY <1>1, TextParts DEF Retained

----------------------------------------------------------------------------
(* Type correctness.  A slice's end and a baseline stay natural numbers    *)
(* because the baseline never passes the store's end.                      *)

TypeInv ==
  /\ TypeOK
  /\ transcript_start_sequence <= next_sequence
  /\ composing => pending_slice # None /\ request_id < MaxRequests

\* The window starts well typed.
LEMMA TypeInit == Init => TypeInv
<1>. SUFFICES ASSUME Init PROVE TypeInv
  OBVIOUS
<1>1. received \in [Requests -> 0..MaxFragments]
  BY WindowAssumption DEF Init
<1>2. request_id \in 0..MaxRequests
  BY WindowAssumption DEF Init
<1>3. <<>> \in Seq(Message) /\ <<>> \in Seq(Callback) /\ {} \in Text
  BY DEF Text
<1>4. /\ fragments \in Text /\ next_sequence = 0
      /\ acknowledged_sequence = 0 /\ transcript_start_sequence = 0
      /\ pending_slice = None /\ pending_user_message = None
      /\ history \in Seq(Message) /\ compaction_passes = 0
  BY <1>3 DEF Init, StoreInit, SessionInit
<1>5. /\ ~composing /\ composing \in BOOLEAN /\ sensitive \in BOOLEAN
      /\ cancel_event = None /\ cancelled = {} /\ streaming = {}
      /\ idle_queue \in Seq(Callback) /\ stream = None
  BY <1>3 DEF Init
<1>. QED
  BY <1>1, <1>2, <1>4, <1>5 DEF TypeInv, TypeOK

\* The message that _send_question builds is a message.
LEMMA TurnType ==
  ASSUME TypeOK, pending_slice # None
  PROVE  Turn \in Message
<1>1. pending_slice \in Slice
  BY DEF TypeOK
<1>2. Question \in Seq(Said)
  BY DEF TypeOK, Question, Said
<1>3. pending_slice.text \in Text /\ pending_slice.marked \in BOOLEAN
  BY <1>1 DEF Slice
<1>. QED
  BY <1>2, <1>3, TextParts DEF Turn, UserMessage, Payload, Message

\* Compaction keeps the session's types.
LEMMA CompactType ==
  ASSUME TypeInv, pending_slice # None
  PROVE  /\ CompactBaseline => acknowledged_sequence' \in Nat
                               /\ transcript_start_sequence' \in Nat
                               /\ transcript_start_sequence' <= next_sequence
                               /\ history' \in Seq(Message)
         /\ CompactedSlice \in Slice
<1>1. /\ NewStart \in Nat
      /\ transcript_start_sequence <= NewStart
      /\ NewStart <= next_sequence
  BY NewStartType DEF TypeInv, TypeOK
<1>2. ASSUME NEW i \in DOMAIN history
      PROVE  Scrub(history[i]) \in Message
  <2>1. history[i] \in Message
    BY DEF TypeInv, TypeOK
  <2>. QED
    BY <2>1 DEF Scrub, Message, Text
<1>3. CompactBaseline => history' \in Seq(Message)
  <2>1. CASE Advanced /\ history' = [i \in DOMAIN history |-> Scrub(history[i])]
    <3>1. DOMAIN history = 1..Len(history) /\ Len(history) \in Nat
      BY DEF TypeInv, TypeOK
    <3>2. history' \in [1..Len(history) -> Message]
      BY <2>1, <3>1, <1>2
    <3>. QED
      BY <3>1, <3>2
  <2>. QED
    BY <2>1 DEF CompactBaseline, TypeInv, TypeOK
<1>4. pending_slice.end \in Nat
  BY DEF TypeInv, TypeOK, Slice
<1>5. RebasedSlice \in Slice
  BY <1>1, <1>4, GetSliceType DEF RebasedSlice, TypeInv, TypeOK
<1>6. CompactedSlice \in Slice
  <2>1. RebasedSlice.text \in Text
    BY <1>5 DEF Slice
  <2>2. Retained(RebasedSlice.text) \in Text
    BY <2>1, RetainedPart
  <2>. QED
    BY <1>5, <2>2 DEF CompactedSlice, Slice
<1>. QED
  BY <1>1, <1>3, <1>6 DEF CompactBaseline, TypeInv, TypeOK, baseline

\* The oldest idle callback is one of a submitted request.
LEMMA QueueType ==
  ASSUME TypeOK, idle_queue # <<>>
  PROVE  /\ Head(idle_queue) \in Callback
         /\ Tail(idle_queue) \in Seq(Callback)
         /\ Head(idle_queue).request \in Requests
         /\ Head(idle_queue).n \in Nat
<1>1. Head(idle_queue) \in Callback /\ Tail(idle_queue) \in Seq(Callback)
  BY DEF TypeOK
<1>. QED
  BY <1>1 DEF Callback

\* An answer is a sequence of fragments.
LEMMA AnswerType ==
  ASSUME NEW r \in Requests, NEW n \in Nat
  PROVE  Answer(r, n) \in Seq(Said)
<1>1. \A i \in 1..n : [request |-> r, n |-> i] \in Said
  BY WindowAssumption DEF Said, Requests
<1>. QED
  BY <1>1 DEF Answer

\* Committing an answer keeps the session's types.
LEMMA CommitType ==
  ASSUME TypeOK, NEW answer \in Seq(Said), CommitOnSuccess(answer)
  PROVE  /\ history' \in Seq(Message) /\ acknowledged_sequence' \in Nat
         /\ transcript_start_sequence' = transcript_start_sequence
         /\ pending_slice' = None /\ pending_user_message' = None /\ compaction_passes' = 0
<1> DEFINE reply == [role |-> "assistant", context |-> {}, marked |-> FALSE, text |-> answer]
<1> DEFINE asked == IF pending_user_message = None THEN <<>> ELSE <<pending_user_message>>
<1>1. reply \in Message
  BY DEF Message, Text
<1>2. asked \in Seq(Message)
  BY DEF TypeOK
<1>3. history' = history \o asked \o <<reply>>
  BY DEF CommitOnSuccess
<1>4. history' \in Seq(Message)
  <2>1. <<reply>> \in Seq(Message) /\ history \in Seq(Message)
    BY <1>1 DEF TypeOK
  <2>. HIDE DEF reply, asked
  <2>. QED
    BY <1>2, <1>3, <2>1
<1>5. acknowledged_sequence' \in Nat
  BY DEF CommitOnSuccess, TypeOK, Slice
<1>. QED
  BY <1>4, <1>5 DEF CommitOnSuccess, Clear

\* Redacting keeps the session's types, and a slice stays a slice.
LEMMA RedactType ==
  ASSUME TypeOK, NEW word, RedactContext(word)
  PROVE  /\ pending_slice' \in Slice \cup {None} /\ history' \in Seq(Message)
         /\ pending_slice # None => pending_slice' # None
         /\ UNCHANGED <<baseline, pending_user_message, compaction_passes>>
<1>1. pending_slice # None => pending_slice' \in Slice
  <2>1. pending_slice # None => pending_slice \in Slice /\ pending_slice.text \in Text
    BY DEF TypeOK, Slice
  <2>. QED
    BY <2>1, TextParts DEF RedactContext, Slice
<1>2. ASSUME NEW i \in DOMAIN history
      PROVE  [history[i] EXCEPT !.context = Remove(@, word)] \in Message
  <2>1. history[i] \in Message
    BY DEF TypeOK
  <2>2. Remove(history[i].context, word) \in Text
    BY <2>1, TextParts DEF Message
  <2>. QED
    BY <2>1, <2>2 DEF Message
<1>3. history' \in Seq(Message)
  <2>1. DOMAIN history = 1..Len(history) /\ Len(history) \in Nat
    BY DEF TypeOK
  <2>2. history' \in [1..Len(history) -> Message]
    BY <1>2, <2>1 DEF RedactContext
  <2>. QED
    BY <2>1, <2>2
<1>. QED
  BY <1>1, <1>3, NoneAssumption DEF RedactContext

\* Appending an event keeps the store's types and only moves its end up.
LEMMA AppendType ==
  ASSUME TypeOK, NEW chunk \in Chunks, TranscriptAppend(chunk)
  PROVE  /\ fragments' \in Text /\ next_sequence' \in Nat
         /\ next_sequence <= next_sequence'
<1>1. PICK n \in 1..MaxPieces : chunk \in [1..n -> Words \cup {Control}]
  BY DEF Chunks
<1>2. \A i \in DOMAIN chunk :
        [seq |-> next_sequence, pos |-> i, val |-> chunk[i]] \in Fragment
  BY <1>1, StoreAssumption DEF Fragment, TypeOK
<1>. QED
  BY <1>2 DEF TranscriptAppend, TypeOK, Text

\* What a request's background thread does is well typed.
LEMMA ThreadType ==
  ASSUME TypeOK, NEW r \in Requests, ChunkArrives(r) \/ StreamEnds(r)
  PROVE  /\ received' \in [Requests -> 0..MaxFragments]
         /\ streaming' \subseteq Requests
         /\ idle_queue' \in Seq(Callback)
<1>1. received' \in [Requests -> 0..MaxFragments]
  BY WindowAssumption DEF ChunkArrives, StreamEnds, TypeOK
<1>2. streaming' \subseteq Requests
  BY DEF ChunkArrives, StreamEnds, TypeOK
<1>3. ASSUME NEW kind \in {"delta", "response", "error"}, NEW n \in Nat, IdleAdd(kind, r, n)
      PROVE  idle_queue' \in Seq(Callback)
  <2>1. [kind |-> kind, request |-> r, n |-> n] \in Callback
    BY DEF Callback
  <2>. QED
    BY <1>3, <2>1 DEF IdleAdd, TypeOK
<1>4. received[r] \in Nat /\ received'[r] \in Nat
  BY <1>1, WindowAssumption DEF TypeOK
<1>. QED
  BY <1>1, <1>2, <1>3, <1>4 DEF ChunkArrives, StreamEnds

\* Each step of the window keeps the type invariant.
LEMMA TypeNext == TypeInv /\ [Next]_vars => TypeInv'
<1>. SUFFICES ASSUME TypeInv, [Next]_vars PROVE TypeInv'
  OBVIOUS
<1>. USE DEF TypeInv
<1>1. CASE Submit
  <2>1. Turn \in Message
    BY <1>1, TurnType DEF Submit
  <2>2. request_id' \in Requests
    BY <1>1, WindowAssumption DEF Submit, TypeOK, Requests
  <2>3. stream' \in Seq(Said)
    BY <1>1 DEF Submit
  <2>4. pending_user_message' \in Message /\ cancel_event' \in Requests
    BY <1>1, <2>1, <2>2 DEF Submit, SnapshotForSend
  <2>5. streaming' \subseteq Requests
    BY <1>1, <2>2 DEF Submit, TypeOK
  <2>6. request_id' \in 0..MaxRequests
    BY <2>2, WindowAssumption DEF Requests
  <2>7. composing' = FALSE
    BY <1>1 DEF Submit
  <2>8. UNCHANGED <<store, baseline, pending_slice, compaction_passes, history,
                    cancelled, sensitive, received, idle_queue>>
    BY <1>1 DEF Submit, SnapshotForSend
  <2>. QED
    BY <2>3, <2>4, <2>5, <2>6, <2>7, <2>8 DEF TypeOK, store, baseline
<1>2. CASE FirstCompaction
  <2>1. /\ acknowledged_sequence' \in Nat /\ transcript_start_sequence' \in Nat
        /\ transcript_start_sequence' <= next_sequence
        /\ history' \in Seq(Message) /\ pending_slice' \in Slice
    BY <1>2, CompactType DEF FirstCompaction, Compact
  <2>. QED
    BY <1>2, <2>1, NoneAssumption
    DEF FirstCompaction, Compact, TypeOK, store, ui, background
<1>3. CASE CompactAgain
  <2>1. /\ acknowledged_sequence' \in Nat /\ transcript_start_sequence' \in Nat
        /\ transcript_start_sequence' <= next_sequence
        /\ history' \in Seq(Message) /\ pending_slice' \in Slice
    BY <1>3, CompactType DEF CompactAgain, Compact
  <2>. QED
    BY <1>3, <2>1, NoneAssumption
    DEF CompactAgain, Compact, TypeOK, store, ui, background
<1>4. CASE Reject
  <2>1. /\ acknowledged_sequence' \in Nat /\ transcript_start_sequence' \in Nat
        /\ transcript_start_sequence' <= next_sequence
        /\ history' \in Seq(Message)
    BY <1>4, CompactType DEF Reject
  <2>. QED
    BY <1>4, <2>1 DEF Reject, Clear, TypeOK, store, background
<1>5. CASE AppendStreamDelta
  <2>1. /\ idle_queue' \in Seq(Callback)
        /\ Head(idle_queue).request \in Requests /\ Head(idle_queue).n \in Nat
    BY <1>5, QueueType DEF AppendStreamDelta, TakeCallback
  <2>2. [request |-> Head(idle_queue).request, n |-> Head(idle_queue).n] \in Said
    BY <2>1, WindowAssumption DEF Said, Requests
  <2>3. stream' \in Seq(Said) \cup {None}
    BY <1>5, <2>2 DEF AppendStreamDelta, TypeOK
  <2>4. UNCHANGED <<store, session, composing, request_id, cancel_event, cancelled,
                    sensitive, background>>
    BY <1>5 DEF AppendStreamDelta
  <2>. QED
    BY <2>1, <2>3, <2>4 DEF TypeOK, store, session, baseline, pending, background
<1>6. CASE IgnoreFinish
  <2>1. idle_queue' \in Seq(Callback)
    BY <1>6, QueueType DEF IgnoreFinish, TakeCallback
  <2>2. UNCHANGED <<store, session, composing, ui, background>>
    BY <1>6 DEF IgnoreFinish
  <2>. QED
    BY <2>1, <2>2 DEF TypeOK, store, session, baseline, pending, ui, background
<1>7. CASE FinishResponse
  <2> DEFINE c == Head(idle_queue)
  <2>1. /\ idle_queue' \in Seq(Callback)
        /\ c.request \in Requests /\ c.n \in Nat
    BY <1>7, QueueType DEF FinishResponse, TakeCallback
  <2>2. CommitOnSuccess(Answer(c.request, c.n)) /\ stream' = None
        /\ sensitive' = TRUE /\ cancel_event' = None
        /\ UNCHANGED <<store, composing, request_id, cancelled, background>>
    BY <1>7 DEF FinishResponse, Enable
  <2>3. Answer(c.request, c.n) \in Seq(Said)
    BY <2>1, AnswerType
  <2>4. /\ history' \in Seq(Message) /\ acknowledged_sequence' \in Nat
        /\ transcript_start_sequence' = transcript_start_sequence
        /\ pending_slice' = None /\ pending_user_message' = None /\ compaction_passes' = 0
    BY <2>2, <2>3, CommitType
  <2>5. composing' = composing /\ ~composing
    BY <1>7 DEF FinishResponse, TakeCallback
  <2>. QED
    BY <2>1, <2>2, <2>4, <2>5 DEF TypeOK, store, background
<1>8. CASE FinishError
  <2>1. idle_queue' \in Seq(Callback) /\ ~composing
    BY <1>8, QueueType DEF FinishError, TakeCallback
  <2>. QED
    BY <1>8, <2>1 DEF FinishError, RollbackOnFailure, Clear, Enable, TypeOK, store,
                      baseline, background
<1>9. CASE Send
  <2>1. pending_slice' \in Slice /\ compaction_passes' = 0
        /\ UNCHANGED <<baseline, pending_user_message, history>>
    BY <1>9, GetSliceType DEF Send, RequestSlice, SnapshotSlice, TypeOK
  <2>2. /\ composing' = TRUE /\ sensitive' = FALSE /\ request_id < MaxRequests
        /\ UNCHANGED <<store, request_id, cancel_event, cancelled, stream, background,
                       idle_queue>>
    BY <1>9 DEF Send
  <2>. QED
    BY <2>1, <2>2, NoneAssumption DEF TypeOK, store, baseline, background
<1>10. CASE CancelRequest
  <2>1. cancelled' \subseteq Requests
    BY <1>10 DEF CancelRequest, TypeOK
  <2>. QED
    BY <1>10, <2>1 DEF CancelRequest, RollbackOnFailure, Clear, Enable, TypeOK, store,
                       baseline, background
<1>11. ASSUME NEW word \in Words, RemoveSelectedFromContext(word) PROVE TypeInv'
  <2>1. fragments' \in Text /\ next_sequence' = next_sequence
    BY <1>11 DEF RemoveSelectedFromContext, RedactText, TypeOK, Text
  <2>2. /\ pending_slice' \in Slice \cup {None} /\ history' \in Seq(Message)
        /\ pending_slice # None => pending_slice' # None
        /\ UNCHANGED <<baseline, pending_user_message, compaction_passes>>
    BY <1>11, RedactType DEF RemoveSelectedFromContext
  <2>3. UNCHANGED <<composing, ui, background, idle_queue>>
    BY <1>11 DEF RemoveSelectedFromContext
  <2>. QED
    BY <2>1, <2>2, <2>3 DEF TypeOK, baseline, ui, background
<1>12. ASSUME NEW r \in Requests, ChunkArrives(r) PROVE TypeInv'
  <2>1. /\ received' \in [Requests -> 0..MaxFragments]
        /\ streaming' \subseteq Requests
        /\ idle_queue' \in Seq(Callback)
    BY <1>12, ThreadType
  <2>2. UNCHANGED <<store, session, composing, ui>>
    BY <1>12 DEF ChunkArrives
  <2>. QED
    BY <2>1, <2>2 DEF TypeOK, store, session, baseline, pending, ui
<1>13. ASSUME NEW r \in Requests, StreamEnds(r) PROVE TypeInv'
  <2>1. /\ received' \in [Requests -> 0..MaxFragments]
        /\ streaming' \subseteq Requests
        /\ idle_queue' \in Seq(Callback)
    BY <1>13, ThreadType
  <2>2. UNCHANGED <<store, session, composing, ui>>
    BY <1>13 DEF StreamEnds
  <2>. QED
    BY <2>1, <2>2 DEF TypeOK, store, session, baseline, pending, ui
<1>14. ASSUME NEW chunk \in Chunks, RecordOutput(chunk) PROVE TypeInv'
  <2>1. /\ fragments' \in Text /\ next_sequence' \in Nat
        /\ next_sequence <= next_sequence'
    BY <1>14, AppendType DEF RecordOutput
  <2>2. UNCHANGED <<session, composing, ui, background, idle_queue>>
    BY <1>14 DEF RecordOutput
  <2>. QED
    BY <2>1, <2>2 DEF TypeOK, session, baseline, pending, ui, background
<1>15. CASE UNCHANGED vars
  BY <1>15 DEF vars, TypeOK, store, session, baseline, pending, ui, background
<1>. QED
  BY <1>1, <1>2, <1>3, <1>4, <1>5, <1>6, <1>7, <1>8, <1>9, <1>10, <1>11, <1>12,
     <1>13, <1>14, <1>15 DEF Next, MainThread, User

\* Every variable of the window, the session and the store keeps its type:
\* a slice's end, a cursor and a baseline are sequence numbers, a message is
\* what build_request makes, a callback belongs to a submitted request.
THEOREM TypeCorrect == Spec => []TypeOK
<1>1. TypeInv => TypeOK
  BY DEF TypeInv
<1>. QED
  BY TypeInit, TypeNext, <1>1, PTL DEF Spec

----------------------------------------------------------------------------
(* The window is always in one of three phases, and every widget, the      *)
(* session and the cancel event tell the same phase.                       *)

Composing ==
  /\ composing = TRUE /\ sensitive = FALSE
  /\ pending_slice # None
  /\ pending_user_message = None /\ cancel_event = None /\ stream = None

Idle ==
  /\ composing = FALSE /\ sensitive = TRUE
  /\ pending_slice = None
  /\ pending_user_message = None /\ cancel_event = None /\ stream = None

InFlight ==
  /\ composing = FALSE /\ sensitive = FALSE
  /\ pending_slice # None
  /\ pending_user_message # None /\ cancel_event # None /\ stream # None
  /\ cancel_event = request_id /\ cancel_event \notin cancelled
  /\ pending_user_message.text[1].request = cancel_event

\* Only requests that were submitted have been cancelled: without it a new
\* request could find its own event set.
PhaseInv ==
  /\ cancelled \subseteq 1..request_id
  /\ Composing \/ Idle \/ InFlight

\* The window starts idle.
LEMMA PhaseInit == Init => PhaseInv
BY DEF Init, SessionInit, PhaseInv, Idle

\* The values that a phase distinguishes from None.
LEMMA NotNone ==
  /\ \A m \in Message : m # None
  /\ \A s \in Slice : s # None
  /\ \A n \in Nat : n # None
  /\ \A t \in Seq(Said) : t # None
BY NoneAssumption

\* Finishing, cancelling or giving up a request leaves nothing of it.
LEMMA IdleAgain ==
  ASSUME PhaseInv, Clear, composing' = FALSE, stream' = None,
         sensitive' = TRUE, cancel_event' = None,
         cancelled' \subseteq 1..request_id, request_id' = request_id
  PROVE  PhaseInv'
BY DEF PhaseInv, Idle, Clear

\* Each step of the window leads from phase to phase.
LEMMA PhaseNext == TypeInv /\ PhaseInv /\ [Next]_vars => PhaseInv'
<1>. SUFFICES ASSUME TypeInv, PhaseInv, [Next]_vars PROVE PhaseInv'
  OBVIOUS
<1>. USE DEF TypeInv
<1>0. request_id \in Nat /\ cancelled \subseteq 1..request_id
  BY WindowAssumption DEF TypeOK, PhaseInv
<1>1. CASE Submit
  <2>1. Turn \in Message /\ Turn.text[1].request = request_id + 1
    BY <1>1, TurnType DEF Submit, Turn, UserMessage, Question
  <2>2. pending_user_message' = Turn /\ pending_slice' = pending_slice
    BY <1>1 DEF Submit, SnapshotForSend
  <2>3. /\ request_id' = request_id + 1 /\ cancel_event' = request_id + 1
        /\ cancelled' = cancelled /\ composing' = FALSE /\ sensitive' = sensitive
    BY <1>1 DEF Submit
  <2>4. stream' # None
    <3>1. <<>> \in Seq(Said)
      OBVIOUS
    <3>. QED
      BY <1>1, <3>1, NotNone DEF Submit
  <2>5. cancel_event' # None /\ pending_user_message' # None
    BY <1>0, <2>1, <2>2, <2>3, NotNone
  <2>6. sensitive = FALSE /\ pending_slice # None
    BY <1>1 DEF PhaseInv, Composing, Idle, InFlight, Submit
  <2>7. cancelled' \subseteq 1..request_id' /\ request_id + 1 \notin cancelled
    BY <1>0, <2>3
  <2>. QED
    BY <2>1, <2>2, <2>3, <2>4, <2>5, <2>6, <2>7 DEF PhaseInv, InFlight
<1>2. CASE FirstCompaction \/ CompactAgain
  <2>1. Composing
    BY <1>2 DEF PhaseInv, Composing, Idle, InFlight, FirstCompaction, CompactAgain
  <2>2. pending_slice' # None
    BY <1>2, <2>1, CompactType, NotNone
    DEF Composing, FirstCompaction, CompactAgain, Compact
  <2>3. UNCHANGED <<composing, ui, pending_user_message>>
    BY <1>2 DEF FirstCompaction, CompactAgain, Compact
  <2>. QED
    BY <1>0, <2>1, <2>2, <2>3 DEF PhaseInv, Composing, ui
<1>3. CASE Reject
  <2>1. Composing
    BY <1>3 DEF PhaseInv, Composing, Idle, InFlight, Reject
  <2>. QED
    BY <1>0, <1>3, <2>1, IdleAgain DEF Reject, Composing
<1>4. CASE AppendStreamDelta
  <2>1. stream # None => stream' # None
    <3>1. Head(idle_queue).request \in Requests /\ Head(idle_queue).n \in Nat
      BY <1>4, QueueType DEF AppendStreamDelta, TakeCallback
    <3>2. [request |-> Head(idle_queue).request, n |-> Head(idle_queue).n] \in Said
      BY <3>1, WindowAssumption DEF Said, Requests
    <3>3. stream # None => stream' \in Seq(Said)
      BY <1>4, <3>2 DEF AppendStreamDelta, TypeOK
    <3>. QED
      BY <3>3, NotNone
  <2>2. stream = None => stream' = None
    BY <1>4 DEF AppendStreamDelta
  <2>3. UNCHANGED <<session, composing, request_id, cancel_event, cancelled, sensitive>>
    BY <1>4 DEF AppendStreamDelta
  <2>. QED
    BY <1>0, <2>1, <2>2, <2>3
    DEF PhaseInv, Composing, Idle, InFlight, session, pending
<1>5. CASE IgnoreFinish
  <2>1. UNCHANGED <<session, composing, ui>>
    BY <1>5 DEF IgnoreFinish
  <2>. QED
    BY <2>1 DEF PhaseInv, Composing, Idle, InFlight, session, pending, ui
<1>6. CASE FinishResponse
  <2>1. Clear
    BY <1>6 DEF FinishResponse, CommitOnSuccess
  <2>2. composing' = FALSE
    BY <1>6 DEF FinishResponse, TakeCallback, PhaseInv, Composing, Idle, InFlight
  <2>. QED
    BY <1>0, <1>6, <2>1, <2>2, IdleAgain DEF FinishResponse, Enable
<1>7. CASE FinishError
  <2>1. Clear
    BY <1>7 DEF FinishError, RollbackOnFailure
  <2>2. composing' = FALSE
    BY <1>7 DEF FinishError, TakeCallback, PhaseInv, Composing, Idle, InFlight
  <2>. QED
    BY <1>0, <1>7, <2>1, <2>2, IdleAgain DEF FinishError, Enable
<1>8. CASE Send
  <2>1. Idle
    BY <1>8 DEF PhaseInv, Composing, Idle, InFlight, Send
  <2>2. pending_slice' # None
    BY <1>8, GetSliceType, NotNone DEF Send, RequestSlice, SnapshotSlice, TypeOK
  <2>. QED
    BY <1>0, <1>8, <2>1, <2>2 DEF PhaseInv, Composing, Idle, Send, RequestSlice
<1>9. CASE CancelRequest
  <2>1. InFlight
    BY <1>9 DEF PhaseInv, Composing, Idle, InFlight, CancelRequest
  <2>2. cancelled' \subseteq 1..request_id
    <3>1. request_id \in Requests
      BY <2>1 DEF InFlight, TypeOK
    <3>. QED
      BY <1>0, <1>9, <2>1, <3>1, WindowAssumption DEF InFlight, CancelRequest, Requests
  <2>. QED
    BY <1>9, <2>1, <2>2, IdleAgain DEF CancelRequest, InFlight, RollbackOnFailure, Enable
<1>10. ASSUME NEW word \in Words, RemoveSelectedFromContext(word) PROVE PhaseInv'
  <2>1. /\ pending_slice # None => pending_slice' # None
        /\ pending_slice = None => pending_slice' = None
        /\ pending_user_message' = pending_user_message
    BY <1>10, RedactType DEF RemoveSelectedFromContext, RedactContext
  <2>2. UNCHANGED <<composing, ui>>
    BY <1>10 DEF RemoveSelectedFromContext
  <2>. QED
    BY <1>0, <2>1, <2>2 DEF PhaseInv, Composing, Idle, InFlight, ui
<1>11. ASSUME NEW r \in Requests, ChunkArrives(r) \/ StreamEnds(r) PROVE PhaseInv'
  <2>1. UNCHANGED <<session, composing, ui>>
    BY <1>11 DEF ChunkArrives, StreamEnds
  <2>. QED
    BY <2>1 DEF PhaseInv, Composing, Idle, InFlight, session, pending, ui
<1>12. ASSUME NEW chunk \in Chunks, RecordOutput(chunk) PROVE PhaseInv'
  <2>1. UNCHANGED <<session, composing, ui>>
    BY <1>12 DEF RecordOutput
  <2>. QED
    BY <2>1 DEF PhaseInv, Composing, Idle, InFlight, session, pending, ui
<1>13. CASE UNCHANGED vars
  BY <1>13 DEF vars, PhaseInv, Composing, Idle, InFlight, session, pending, ui
<1>. QED
  BY <1>1, <1>2, <1>3, <1>4, <1>5, <1>6, <1>7, <1>8, <1>9, <1>10, <1>11, <1>12, <1>13
  DEF Next, MainThread, User

\* Between the handlers of the main thread the buttons, the pending slice, the
\* pending message, the response label and the cancel event agree on whether a
\* request is in flight and on which one (_send_question, _finish_request,
\* _cancel_request).
THEOREM WidgetsAgree == Spec => []InFlightAgrees
<1>1. PhaseInv => InFlightAgrees
  BY DEF PhaseInv, Composing, Idle, InFlight, InFlightAgrees
<1>2. TypeInv /\ PhaseInv /\ [Next]_vars => TypeInv' /\ PhaseInv'
  BY TypeNext, PhaseNext
<1>. QED
  BY TypeInit, PhaseInit, <1>1, <1>2, PTL DEF Spec

----------------------------------------------------------------------------
(* Delivery.  Compaction takes the terminal text out of user messages only *)
(* and moves the cursor backwards or forwards, so the induction also needs *)
(* that no other message holds terminal text.                              *)

OnlyUsersCarry ==
  /\ \A i \in DOMAIN history : history[i].role # "user" => history[i].context = {}
  /\ pending_user_message # None => pending_user_message.role = "user"

OnceInv == DeliveryInv /\ OnlyUsersCarry

\* Taking terminal text out of messages keeps their order.
LEMMA FewerPieces ==
  ASSUME NEW ms, NEW ns, DOMAIN ns = DOMAIN ms, InOrderOnce(ms),
         \A i \in DOMAIN ms : ns[i].context \subseteq ms[i].context
  PROVE  InOrderOnce(ns)
BY DEF InOrderOnce

\* A message with newer text than all others may follow them.
LEMMA OneMore ==
  ASSUME NEW ms \in Seq(Message), NEW m \in Message, InOrderOnce(ms),
         \A i \in DOMAIN ms : \A p \in ms[i].context, q \in m.context : p.seq < q.seq
  PROVE  InOrderOnce(ms \o <<m>>)
<1> DEFINE all == ms \o <<m>>
<1>1. /\ DOMAIN all = 1..Len(ms) + 1 /\ Len(ms) \in Nat
      /\ \A i \in 1..Len(ms) : all[i] = ms[i]
      /\ all[Len(ms) + 1] = m
      /\ DOMAIN ms = 1..Len(ms)
  OBVIOUS
<1>. HIDE DEF all
<1>2. ASSUME NEW i \in DOMAIN all, NEW j \in DOMAIN all, i < j,
             NEW p \in all[i].context, NEW q \in all[j].context
      PROVE  p.seq < q.seq
  <2>1. i \in 1..Len(ms) /\ all[i] = ms[i]
    BY <1>1, <1>2
  <2>2. CASE j = Len(ms) + 1
    BY <1>1, <1>2, <2>1, <2>2
  <2>3. CASE j \in 1..Len(ms)
    BY <1>1, <1>2, <2>1, <2>3 DEF InOrderOnce
  <2>. QED
    BY <1>1, <2>2, <2>3
<1>3. InOrderOnce(all)
  BY <1>2 DEF InOrderOnce
<1>. QED
  BY <1>3 DEF all

\* The new turn holds text of the pending slice only.
LEMMA TurnContext ==
  ASSUME TypeOK, pending_slice # None
  PROVE  Turn.role = "user" /\ Turn.context \subseteq pending_slice.text
<1>1. pending_slice.text \in Text
  BY DEF TypeOK, Slice
<1>. QED
  BY <1>1, TextParts DEF Turn, UserMessage, Payload

\* An empty session repeats nothing.
LEMMA OnceInit == Init => OnceInv
BY DEF Init, StoreInit, SessionInit, OnceInv, DeliveryInv, OnlyUsersCarry, InOrderOnce

\* Why one request never repeats text: DeliveryInv separates the conversation
\* from the slice at the cursor.
LEMMA OnceImplies == TypeInv /\ PhaseInv /\ OnceInv => AtMostOnce
<1>. SUFFICES ASSUME TypeInv, PhaseInv, OnceInv PROVE AtMostOnce
  OBVIOUS
<1>1. /\ history \in Seq(Message) /\ InOrderOnce(history) /\ acknowledged_sequence \in Nat
      /\ \A i \in DOMAIN history : \A p \in history[i].context :
           p.seq \in Nat /\ p.seq < acknowledged_sequence
  <2>1. history \in Seq(Message) /\ acknowledged_sequence \in Nat
    BY DEF TypeInv, TypeOK
  <2>2. \A i \in DOMAIN history : \A p \in history[i].context : p \in Fragment
    <3>1. \A i \in DOMAIN history : history[i] \in Message
      BY <2>1
    <3>2. \A m \in Message : \A p \in m.context : p \in Fragment
      BY DEF Message, Text
    <3>. QED
      BY <3>1, <3>2
  <2>. QED
    BY <2>1, <2>2 DEF OnceInv, DeliveryInv, Fragment
<1>2. composing => InOrderOnce(Request)
  <2>. SUFFICES ASSUME composing PROVE InOrderOnce(history \o <<Turn>>)
    BY DEF Request
  <2>1. pending_slice # None /\ pending_slice \in Slice
    BY DEF TypeInv, TypeOK
  <2>2. Turn \in Message /\ Turn.context \subseteq pending_slice.text
    BY <2>1, TurnType, TurnContext DEF TypeInv
  <2>3. \A q \in pending_slice.text : q.seq \in Nat /\ acknowledged_sequence <= q.seq
    BY <2>1 DEF OnceInv, DeliveryInv, Slice, Text, Fragment
  <2>4. \A i \in DOMAIN history :
          \A p \in history[i].context, q \in Turn.context : p.seq < q.seq
    BY <1>1, <2>2, <2>3
  <2>. QED
    BY <1>1, <2>2, <2>4, OneMore
<1>3. pending_user_message # None => InOrderOnce(history \o <<pending_user_message>>)
  <2>. SUFFICES ASSUME pending_user_message # None
                PROVE  InOrderOnce(history \o <<pending_user_message>>)
    OBVIOUS
  <2>1. pending_user_message \in Message
    BY DEF TypeInv, TypeOK
  <2>2. \A q \in pending_user_message.context :
          q.seq \in Nat /\ acknowledged_sequence <= q.seq
    BY <2>1 DEF OnceInv, DeliveryInv, Message, Text, Fragment
  <2>3. \A i \in DOMAIN history :
          \A p \in history[i].context, q \in pending_user_message.context : p.seq < q.seq
    BY <1>1, <2>2
  <2>. QED
    BY <1>1, <2>1, <2>3, OneMore
<1>. QED
  BY <1>1, <1>2, <1>3 DEF AtMostOnce

\* Compaction's first half: either the cursor restarts below the store's end
\* with no terminal text left in the conversation, or nothing moves.
LEMMA BaselineOnce ==
  ASSUME TypeInv, OnceInv, CompactBaseline, pending_slice # None
  PROVE  /\ transcript_start_sequence' <= next_sequence
         /\ acknowledged_sequence' <= next_sequence
         /\ InOrderOnce(history')
         /\ \A i \in DOMAIN history' : \A p \in history'[i].context :
              p.seq < acknowledged_sequence' /\ p.seq < pending_slice.end
         /\ \A i \in DOMAIN history' :
              history'[i].role # "user" => history'[i].context = {}
<1>1. /\ NewStart \in Nat
      /\ transcript_start_sequence <= NewStart
      /\ NewStart <= next_sequence
  BY NewStartType DEF TypeInv, TypeOK
<1>2. CASE /\ Advanced
           /\ transcript_start_sequence' = NewStart
           /\ acknowledged_sequence' = NewStart
           /\ history' = [i \in DOMAIN history |-> Scrub(history[i])]
  <2>1. DOMAIN history' = DOMAIN history
    BY <1>2
  <2>2. \A i \in DOMAIN history' : history'[i].context = {}
    <3>. SUFFICES ASSUME NEW i \in DOMAIN history PROVE Scrub(history[i]).context = {}
      BY <1>2
    <3>1. history[i] \in Message
      BY DEF TypeInv, TypeOK
    <3>2. history[i].role # "user" => history[i].context = {}
      BY DEF OnceInv, OnlyUsersCarry
    <3>. QED
      BY <3>1, <3>2 DEF Scrub, Message
  <2>3. InOrderOnce(history')
    BY <2>2 DEF InOrderOnce
  <2>. QED
    BY <1>1, <1>2, <2>2, <2>3
<1>3. CASE ~Advanced /\ UNCHANGED <<baseline, history>>
  BY <1>3 DEF OnceInv, DeliveryInv, OnlyUsersCarry, baseline
<1>. QED
  BY <1>2, <1>3 DEF CompactBaseline

\* Compaction's second half: what the slice keeps is at or past the new cursor.
LEMMA SliceOnce ==
  ASSUME TypeInv, OnceInv, CompactBaseline, pending_slice # None
  PROVE  /\ CompactedSlice.end = pending_slice.end
         /\ pending_slice.end <= next_sequence
         /\ \A p \in CompactedSlice.text :
              acknowledged_sequence' <= p.seq /\ p.seq < pending_slice.end
<1>1. NewStart \in Nat /\ pending_slice.end \in Nat
  BY NewStartType DEF TypeInv, TypeOK, Slice
<1>2. RebasedSlice \in Slice /\ RebasedSlice.end = pending_slice.end
  BY <1>1, GetSliceType DEF RebasedSlice, GetSlice, TypeInv, TypeOK
<1>3. \A p \in RebasedSlice.text :
        acknowledged_sequence' <= p.seq /\ p.seq < pending_slice.end
  <2>1. CASE Advanced /\ acknowledged_sequence' = NewStart
    BY <2>1 DEF RebasedSlice, GetSlice
  <2>2. CASE ~Advanced /\ acknowledged_sequence' = acknowledged_sequence
    BY <2>2 DEF RebasedSlice, GetSlice
  <2>. QED
    BY <2>1, <2>2 DEF CompactBaseline, baseline
<1>4. RebasedSlice.text \in Text
  BY <1>2 DEF Slice
<1>5. Retained(RebasedSlice.text) \subseteq RebasedSlice.text
  BY <1>4, RetainedPart
<1>6. /\ CompactedSlice.end = RebasedSlice.end
      /\ CompactedSlice.text \subseteq RebasedSlice.text
  BY <1>2, <1>5 DEF CompactedSlice, Slice
<1>. QED
  BY <1>2, <1>3, <1>6 DEF OnceInv, DeliveryInv

\* An answered turn: its text follows all earlier text and ends below the
\* end of its slice, where the cursor goes.
LEMMA CommitOnce ==
  ASSUME TypeInv, InFlight, OnceInv, UNCHANGED store,
         NEW answer \in Seq(Said), CommitOnSuccess(answer)
  PROVE  OnceInv'
<1> DEFINE reply == [role |-> "assistant", context |-> {}, marked |-> FALSE, text |-> answer]
<1> DEFINE asked == history \o <<pending_user_message>>
<1>1. /\ history \in Seq(Message) /\ pending_user_message \in Message /\ reply \in Message
      /\ pending_slice \in Slice /\ acknowledged_sequence \in Nat
  BY DEF TypeInv, TypeOK, InFlight, Message, Text
<1>2. history' = asked \o <<reply>> /\ acknowledged_sequence' = pending_slice.end
  BY <1>1 DEF CommitOnSuccess, InFlight
<1>3. \A m \in Message : \A p \in m.context : p.seq \in Nat
  BY DEF Message, Text, Fragment
<1>4. \A i \in DOMAIN history : history[i] \in Message
  BY <1>1
<1>5. \A i \in DOMAIN history :
        \A p \in history[i].context, q \in pending_user_message.context : p.seq < q.seq
  BY <1>1, <1>3, <1>4 DEF OnceInv, DeliveryInv, InFlight
<1>6. InOrderOnce(asked) /\ asked \in Seq(Message)
  BY <1>1, <1>5, OneMore DEF OnceInv, DeliveryInv
<1>7. InOrderOnce(history')
  <2>1. reply.context = {}
    OBVIOUS
  <2>. HIDE DEF asked, reply
  <2>. QED
    BY <1>1, <1>2, <1>6, <2>1, OneMore
<1>8. ASSUME NEW i \in DOMAIN history'
      PROVE  /\ \A p \in history'[i].context : p.seq < pending_slice.end
             /\ history'[i].role # "user" => history'[i].context = {}
  <2>1. /\ i \in DOMAIN history /\ history'[i] = history[i]
        \/ history'[i] = pending_user_message
        \/ history'[i] = reply
    <3>. HIDE DEF reply
    <3>. QED
      BY <1>1, <1>2, <1>8
  <2>2. CASE i \in DOMAIN history /\ history'[i] = history[i]
    BY <2>2 DEF OnceInv, DeliveryInv, OnlyUsersCarry, InFlight
  <2>3. CASE history'[i] = pending_user_message
    BY <2>3 DEF OnceInv, DeliveryInv, OnlyUsersCarry, InFlight
  <2>4. CASE history'[i] = reply
    BY <2>4
  <2>. QED
    BY <2>1, <2>2, <2>3, <2>4
<1>9. /\ pending_slice.end <= next_sequence /\ next_sequence' = next_sequence
      /\ transcript_start_sequence' <= next_sequence
      /\ pending_slice' = None /\ pending_user_message' = None
  BY DEF OnceInv, DeliveryInv, InFlight, CommitOnSuccess, Clear, store
<1>. HIDE DEF asked, reply
<1>. QED
  BY <1>2, <1>7, <1>8, <1>9 DEF OnceInv, DeliveryInv, OnlyUsersCarry

\* An answer without a question would bring no terminal text either.
LEMMA StrayAnswerOnce ==
  ASSUME TypeInv, Idle, OnceInv, UNCHANGED store,
         NEW answer \in Seq(Said), CommitOnSuccess(answer)
  PROVE  OnceInv'
<1> DEFINE reply == [role |-> "assistant", context |-> {}, marked |-> FALSE, text |-> answer]
<1>1. history \in Seq(Message) /\ reply \in Message /\ reply.context = {}
  BY DEF TypeInv, TypeOK, Message, Text
<1>2. /\ history' = history \o <<reply>> /\ acknowledged_sequence' = acknowledged_sequence
      /\ transcript_start_sequence' = transcript_start_sequence
      /\ pending_slice' = None /\ pending_user_message' = None
      /\ next_sequence' = next_sequence
  BY <1>1 DEF CommitOnSuccess, Clear, Idle, store
<1>. HIDE DEF reply
<1>3. InOrderOnce(history')
  BY <1>1, <1>2, OneMore DEF OnceInv, DeliveryInv
<1>4. ASSUME NEW i \in DOMAIN history'
      PROVE  /\ \A p \in history'[i].context : p.seq < acknowledged_sequence
             /\ history'[i].role # "user" => history'[i].context = {}
  <2>1. (i \in DOMAIN history /\ history'[i] = history[i]) \/ history'[i] = reply
    BY <1>1, <1>2, <1>4
  <2>. QED
    BY <1>1, <2>1 DEF OnceInv, DeliveryInv, OnlyUsersCarry
<1>. QED
  BY <1>2, <1>3, <1>4 DEF OnceInv, DeliveryInv, OnlyUsersCarry

\* A request that fails or is cancelled takes nothing with it.
LEMMA RollbackOnce ==
  ASSUME OnceInv, RollbackOnFailure, UNCHANGED store
  PROVE  OnceInv'
BY DEF OnceInv, DeliveryInv, OnlyUsersCarry, RollbackOnFailure, Clear, baseline, store

\* Redaction takes text out of the slice and the conversation, in place.
LEMMA RedactOnce ==
  ASSUME TypeInv, OnceInv, NEW word, RedactContext(word), next_sequence' = next_sequence
  PROVE  OnceInv'
<1>1. /\ UNCHANGED <<baseline, pending_user_message>>
      /\ pending_slice = None => pending_slice' = None
  BY DEF RedactContext
<1>2. pending_slice # None => /\ pending_slice' # None
                             /\ pending_slice'.end = pending_slice.end
                             /\ pending_slice'.text \subseteq pending_slice.text
  <2>1. pending_slice # None => pending_slice \in Slice /\ pending_slice.text \in Text
    BY DEF TypeInv, TypeOK, Slice
  <2>2. pending_slice # None => pending_slice' # None
    BY RedactType DEF TypeInv
  <2>. QED
    BY <2>1, <2>2, TextParts DEF RedactContext, Slice
<1>3. /\ DOMAIN history' = DOMAIN history
      /\ \A i \in DOMAIN history : /\ history'[i].role = history[i].role
                                   /\ history'[i].context \subseteq history[i].context
  <2>1. \A i \in DOMAIN history : history[i] \in Message /\ history[i].context \in Text
    <3>1. \A i \in DOMAIN history : history[i] \in Message
      BY DEF TypeInv, TypeOK
    <3>. QED
      BY <3>1 DEF Message
  <2>2. \A i \in DOMAIN history :
          Remove(history[i].context, word) \subseteq history[i].context
    BY <2>1, TextParts
  <2>. QED
    BY <2>1, <2>2 DEF RedactContext, Message
<1>4. InOrderOnce(history')
  BY <1>3, FewerPieces DEF OnceInv, DeliveryInv
<1>. QED
  BY <1>1, <1>2, <1>3, <1>4 DEF OnceInv, DeliveryInv, OnlyUsersCarry, baseline

\* Each step of the window keeps text apart.
LEMMA OnceNext == TypeInv /\ PhaseInv /\ OnceInv /\ [Next]_vars => OnceInv'
<1>. SUFFICES ASSUME TypeInv, PhaseInv, OnceInv, [Next]_vars PROVE OnceInv'
  OBVIOUS
<1>1. CASE Submit
  <2>1. Turn.role = "user" /\ Turn.context \subseteq pending_slice.text /\ pending_slice # None
    BY <1>1, TurnContext DEF Submit, TypeInv
  <2>2. /\ pending_user_message' = Turn
        /\ UNCHANGED <<store, baseline, pending_slice, history>>
    BY <1>1 DEF Submit, SnapshotForSend
  <2>. QED
    BY <2>1, <2>2 DEF OnceInv, DeliveryInv, OnlyUsersCarry, baseline, store
<1>2. CASE FirstCompaction \/ CompactAgain
  <2>1. Composing
    BY <1>2 DEF PhaseInv, Composing, Idle, InFlight, FirstCompaction, CompactAgain
  <2>2. /\ CompactBaseline /\ pending_slice' = CompactedSlice
        /\ UNCHANGED <<store, pending_user_message>>
    BY <1>2 DEF FirstCompaction, CompactAgain, Compact
  <2>3. pending_slice # None /\ pending_user_message' = None
    BY <2>1, <2>2 DEF Composing
  <2>. QED
    BY <2>2, <2>3, BaselineOnce, SliceOnce DEF OnceInv, DeliveryInv, OnlyUsersCarry, store
<1>3. CASE Reject
  <2>1. CompactBaseline /\ Clear /\ UNCHANGED store /\ pending_slice # None
    BY <1>3 DEF Reject, TypeInv
  <2>. QED
    BY <2>1, BaselineOnce DEF OnceInv, DeliveryInv, OnlyUsersCarry, store, Clear
<1>4. CASE AppendStreamDelta \/ IgnoreFinish
  <2>1. UNCHANGED <<store, session>>
    BY <1>4 DEF AppendStreamDelta, IgnoreFinish
  <2>. QED
    BY <2>1 DEF OnceInv, DeliveryInv, OnlyUsersCarry, store, session, baseline, pending
<1>5. CASE FinishResponse
  <2> DEFINE c == Head(idle_queue)
  <2>1. ~composing /\ UNCHANGED store /\ CommitOnSuccess(Answer(c.request, c.n))
        /\ c.request = request_id /\ c.request \notin cancelled
    BY <1>5 DEF FinishResponse, TakeCallback, Stale
  <2>2. Answer(c.request, c.n) \in Seq(Said)
    BY <1>5, QueueType, AnswerType DEF FinishResponse, TakeCallback, TypeInv
  <2>3. CASE InFlight
    BY <2>1, <2>2, <2>3, CommitOnce
  <2>4. CASE Idle
    BY <2>1, <2>2, <2>4, StrayAnswerOnce
  <2>. QED
    BY <2>1, <2>3, <2>4 DEF PhaseInv, Composing
<1>6. CASE FinishError \/ CancelRequest
  BY <1>6, RollbackOnce DEF FinishError, CancelRequest
<1>7. CASE Send
  <2>1. /\ pending_slice' = GetSlice(acknowledged_sequence, next_sequence)
        /\ UNCHANGED <<store, baseline, pending_user_message, history>>
    BY <1>7 DEF Send, RequestSlice, SnapshotSlice
  <2>2. pending_user_message = None
    BY <1>7 DEF PhaseInv, Composing, Idle, InFlight, Send
  <2>3. /\ pending_slice'.end = next_sequence
        /\ \A p \in pending_slice'.text :
             acknowledged_sequence <= p.seq /\ p.seq < next_sequence
    BY <2>1 DEF GetSlice
  <2>4. \A i \in DOMAIN history : \A p \in history[i].context : p.seq < next_sequence
    <3>1. acknowledged_sequence \in Nat /\ next_sequence \in Nat
          /\ acknowledged_sequence <= next_sequence
      BY DEF TypeInv, TypeOK, OnceInv, DeliveryInv
    <3>2. \A m \in Message : \A p \in m.context : p.seq \in Nat
      BY DEF Message, Text, Fragment
    <3>3. \A i \in DOMAIN history : history[i] \in Message
      BY DEF TypeInv, TypeOK
    <3>. QED
      BY <3>1, <3>2, <3>3 DEF OnceInv, DeliveryInv
  <2>. QED
    <3>1. /\ transcript_start_sequence' <= next_sequence'
          /\ acknowledged_sequence' <= next_sequence'
          /\ InOrderOnce(history') /\ OnlyUsersCarry'
      BY <2>1, <2>2 DEF OnceInv, DeliveryInv, OnlyUsersCarry, baseline, store
    <3>2. \A i \in DOMAIN history' : \A p \in history'[i].context :
            p.seq < acknowledged_sequence' /\ p.seq < pending_slice'.end
      BY <2>1, <2>3, <2>4 DEF OnceInv, DeliveryInv, baseline
    <3>3. /\ pending_slice'.end <= next_sequence'
          /\ \A p \in pending_slice'.text :
               acknowledged_sequence' <= p.seq /\ p.seq < pending_slice'.end
          /\ pending_user_message' = None
      <4>1. next_sequence \in Nat /\ next_sequence' = next_sequence
            /\ acknowledged_sequence' = acknowledged_sequence
        BY <2>1 DEF TypeInv, TypeOK, baseline, store
      <4>. QED
        BY <2>1, <2>2, <2>3, <4>1
    <3>. QED
      BY <3>1, <3>2, <3>3 DEF OnceInv, DeliveryInv
<1>8. ASSUME NEW word \in Words, RemoveSelectedFromContext(word) PROVE OnceInv'
  BY <1>8, RedactOnce DEF RemoveSelectedFromContext, RedactText
<1>9. ASSUME NEW r \in Requests, ChunkArrives(r) \/ StreamEnds(r) PROVE OnceInv'
  <2>1. UNCHANGED <<store, session>>
    BY <1>9 DEF ChunkArrives, StreamEnds
  <2>. QED
    BY <2>1 DEF OnceInv, DeliveryInv, OnlyUsersCarry, store, session, baseline, pending
<1>10. ASSUME NEW chunk \in Chunks, RecordOutput(chunk) PROVE OnceInv'
  <2>1. /\ UNCHANGED session
        /\ next_sequence \in Nat /\ next_sequence' \in Nat /\ next_sequence <= next_sequence'
    BY <1>10, AppendType DEF RecordOutput, TypeInv, TypeOK
  <2>2. /\ transcript_start_sequence' <= next_sequence'
        /\ acknowledged_sequence' <= next_sequence'
        /\ pending_slice # None => pending_slice.end <= next_sequence'
    BY <2>1 DEF OnceInv, DeliveryInv, TypeInv, TypeOK, Slice, session, baseline
  <2>. QED
    BY <2>1, <2>2 DEF OnceInv, DeliveryInv, OnlyUsersCarry, session, baseline, pending
<1>11. CASE UNCHANGED vars
  BY <1>11 DEF OnceInv, DeliveryInv, OnlyUsersCarry, vars, store, session, baseline, pending
<1>. QED
  BY <1>1, <1>2, <1>3, <1>4, <1>5, <1>6, <1>7, <1>8, <1>9, <1>10, <1>11
  DEF Next, MainThread, User

\* What the conversation holds is older than the cursor and than the end of the
\* request, and what the request holds is not, whatever is captured while
\* compaction moves the cursor (ContextSession.compact, commit_on_success).
THEOREM DeliveryIsSeparated == Spec => []DeliveryInv
<1>1. Init => TypeInv /\ PhaseInv /\ OnceInv
  BY TypeInit, PhaseInit, OnceInit
<1>2. TypeInv /\ PhaseInv /\ OnceInv /\ [Next]_vars => (TypeInv /\ PhaseInv /\ OnceInv)'
  BY TypeNext, PhaseNext, OnceNext
<1>3. OnceInv => DeliveryInv
  BY DEF OnceInv
<1>. QED
  BY <1>1, <1>2, <1>3, PTL DEF Spec

\* No terminal fragment stands twice in any request that is prepared or in
\* flight, nor in the conversation ("included in model context once").
THEOREM SentAtMostOnce == Spec => []AtMostOnce
<1>1. Init => TypeInv /\ PhaseInv /\ OnceInv
  BY TypeInit, PhaseInit, OnceInit
<1>2. TypeInv /\ PhaseInv /\ OnceInv /\ [Next]_vars => (TypeInv /\ PhaseInv /\ OnceInv)'
  BY TypeNext, PhaseNext, OnceNext
<1>3. TypeInv /\ PhaseInv /\ OnceInv => AtMostOnce
  BY OnceImplies
<1>. QED
  BY <1>1, <1>2, <1>3, PTL DEF Spec

----------------------------------------------------------------------------
(* The end of a request.                                                   *)

\* No step moves the end of a pending slice.
LEMMA SettledStep ==
  TypeInv /\ PhaseInv /\ [Next]_vars =>
    (pending_slice # None /\ pending_slice' # None => pending_slice'.end = pending_slice.end)
<1>. SUFFICES ASSUME TypeInv, PhaseInv, [Next]_vars,
                     pending_slice # None, pending_slice' # None
              PROVE  pending_slice'.end = pending_slice.end
  OBVIOUS
<1>1. CASE FirstCompaction \/ CompactAgain
  <2>1. pending_slice' = CompactedSlice
    BY <1>1 DEF FirstCompaction, CompactAgain, Compact
  <2>2. RebasedSlice \in Slice /\ RebasedSlice.end = pending_slice.end
    <3>1. NewStart \in Nat /\ pending_slice.end \in Nat
      BY NewStartType DEF TypeInv, TypeOK, Slice
    <3>. QED
      BY <3>1, GetSliceType DEF RebasedSlice, GetSlice, TypeInv, TypeOK
  <2>. QED
    BY <2>1, <2>2 DEF CompactedSlice, Slice
<1>2. CASE Send
  BY <1>2 DEF PhaseInv, Composing, Idle, InFlight, Send
<1>3. CASE Reject \/ FinishResponse \/ FinishError \/ CancelRequest
  BY <1>3 DEF Reject, FinishResponse, FinishError, CancelRequest, CommitOnSuccess,
              RollbackOnFailure, Clear
<1>4. ASSUME NEW word \in Words, RemoveSelectedFromContext(word)
      PROVE  pending_slice'.end = pending_slice.end
  <2>1. pending_slice \in Slice
    BY DEF TypeInv, TypeOK
  <2>. QED
    BY <1>4, <2>1 DEF RemoveSelectedFromContext, RedactContext, Slice
<1>5. CASE Submit \/ AppendStreamDelta \/ IgnoreFinish
  BY <1>5 DEF Submit, SnapshotForSend, AppendStreamDelta, IgnoreFinish, session, pending
<1>6. ASSUME NEW r \in Requests, ChunkArrives(r) \/ StreamEnds(r)
      PROVE  pending_slice'.end = pending_slice.end
  BY <1>6 DEF ChunkArrives, StreamEnds, session, pending
<1>7. ASSUME NEW chunk \in Chunks, RecordOutput(chunk)
      PROVE  pending_slice'.end = pending_slice.end
  BY <1>7 DEF RecordOutput, session, pending
<1>8. CASE UNCHANGED vars
  BY <1>8 DEF vars, session, pending
<1>. QED
  BY <1>1, <1>2, <1>3, <1>4, <1>5, <1>6, <1>7, <1>8 DEF Next, MainThread, User

\* Once a snapshot has fixed where a request ends, neither later output nor
\* compaction, which reads the store's end again, moves that end
\* (ContextSession.request_slice, rebase, compact).
THEOREM BoundarySettled == Spec => BoundaryIsSettled
<1>1. TypeInv /\ PhaseInv /\ [Next]_vars => TypeInv' /\ PhaseInv'
  BY TypeNext, PhaseNext
<1>2. TypeInv /\ PhaseInv /\ [Next]_vars =>
        [pending_slice # None /\ pending_slice' # None =>
           pending_slice'.end = pending_slice.end]_vars
  BY SettledStep
<1>. QED
  BY TypeInit, PhaseInit, <1>1, <1>2, PTL DEF Spec, BoundaryIsSettled

----------------------------------------------------------------------------
(* The conversation is a list of whole turns.  The argument: a request     *)
(* finishes once, so an answer that is not stale always finds the message  *)
(* it answers still pending.                                               *)

----------------------------------------------------------------------------
(* Every request finishes once: while its thread reads it has no callback  *)
(* that finishes it, afterwards one, and none when it is over.             *)

Finishes(k, r) == idle_queue[k].kind # "delta" /\ idle_queue[k].request = r

Over(r) == r \in cancelled \/ (r \notin streaming /\ \A k \in DOMAIN idle_queue : ~Finishes(k, r))

FinishInv ==
  /\ streaming \subseteq 1..request_id
  /\ \A k \in DOMAIN idle_queue : idle_queue[k].request <= request_id
  /\ \A r \in streaming : \A k \in DOMAIN idle_queue : ~Finishes(k, r)
  /\ \A j, k \in DOMAIN idle_queue :
       Finishes(j, idle_queue[k].request) /\ Finishes(k, idle_queue[k].request) => j = k
  /\ cancel_event = None => Over(request_id)

\* The queue starts empty, and request 0 is over.
LEMMA FinishInit == Init => FinishInv
BY DEF Init, FinishInv, Over

\* Handing over a callback leaves those before it in place.
LEMMA QueueGrows ==
  ASSUME TypeOK, NEW kind \in {"delta", "response", "error"}, NEW r \in Requests,
         NEW n \in Nat, IdleAdd(kind, r, n)
  PROVE  /\ DOMAIN idle_queue = 1..Len(idle_queue) /\ Len(idle_queue) \in Nat
         /\ DOMAIN idle_queue' = 1..Len(idle_queue) + 1
         /\ \A k \in DOMAIN idle_queue : idle_queue'[k] = idle_queue[k]
         /\ idle_queue'[Len(idle_queue) + 1] = [kind |-> kind, request |-> r, n |-> n]
<1> DEFINE c == [kind |-> kind, request |-> r, n |-> n]
<1>1. c \in Callback /\ idle_queue \in Seq(Callback) /\ idle_queue' = Append(idle_queue, c)
  BY DEF Callback, TypeOK, IdleAdd
<1>. HIDE DEF c
<1>2. /\ DOMAIN idle_queue = 1..Len(idle_queue) /\ Len(idle_queue) \in Nat
      /\ DOMAIN idle_queue' = 1..Len(idle_queue) + 1
      /\ \A k \in DOMAIN idle_queue : idle_queue'[k] = idle_queue[k]
      /\ idle_queue'[Len(idle_queue) + 1] = c
  BY <1>1
<1>. QED
  BY <1>2 DEF c

\* Taking a callback moves the others up.
LEMMA QueueShrinks ==
  ASSUME TypeOK, NEW kind, TakeCallback(kind)
  PROVE  /\ DOMAIN idle_queue = 1..Len(idle_queue) /\ Len(idle_queue) \in Nat \ {0}
         /\ Head(idle_queue) = idle_queue[1] /\ idle_queue[1].kind = kind
         /\ DOMAIN idle_queue' = 1..Len(idle_queue) - 1
         /\ \A k \in DOMAIN idle_queue' :
              k + 1 \in DOMAIN idle_queue /\ idle_queue'[k] = idle_queue[k + 1]
<1>1. idle_queue \in Seq(Callback) /\ idle_queue # <<>> /\ idle_queue' = Tail(idle_queue)
      /\ Head(idle_queue).kind = kind
  BY DEF TypeOK, TakeCallback
<1>. QED
  BY <1>1

\* A callback that is taken leaves what it says of the others true.
LEMMA FinishTaken ==
  ASSUME TypeOK, FinishInv, NEW kind, TakeCallback(kind), UNCHANGED <<background, request_id>>,
         cancelled \subseteq cancelled',
         cancel_event' = None => cancel_event = None \/ Over(request_id)'
  PROVE  FinishInv'
<1>1. /\ streaming' = streaming /\ request_id' = request_id
      /\ \A k \in DOMAIN idle_queue' :
           k \in Int /\ k + 1 \in DOMAIN idle_queue /\ idle_queue'[k] = idle_queue[k + 1]
  BY QueueShrinks DEF background
<1>2. \A k \in DOMAIN idle_queue' : \A r : Finishes(k, r)' => Finishes(k + 1, r)
  BY <1>1 DEF Finishes
<1>3. Over(request_id) => Over(request_id)'
  BY <1>1, <1>2 DEF Over
<1>4. \A k \in DOMAIN idle_queue' : idle_queue'[k].request <= request_id'
  BY <1>1 DEF FinishInv
<1>5. \A r \in streaming' : \A k \in DOMAIN idle_queue' : ~Finishes(k, r)'
  BY <1>1, <1>2 DEF FinishInv
<1>6. ASSUME NEW j \in DOMAIN idle_queue', NEW k \in DOMAIN idle_queue',
             Finishes(j, idle_queue[k].request)', Finishes(k, idle_queue[k].request)'
      PROVE  j = k
  <2>1. j + 1 = k + 1
    BY <1>1, <1>6 DEF FinishInv, Finishes
  <2>. QED
    BY <1>1, <2>1
<1>7. cancel_event' = None => Over(request_id)'
  BY <1>3 DEF FinishInv
<1>. QED
  BY <1>1, <1>4, <1>5, <1>6, <1>7 DEF FinishInv

\* The callback that was first is the only one to finish its request.
LEMMA FinishOver ==
  ASSUME TypeOK, FinishInv, NEW kind \in {"response", "error"}, TakeCallback(kind),
         UNCHANGED <<background, request_id>>, idle_queue[1].request = request_id
  PROVE  Over(request_id)'
<1>1. /\ streaming' = streaming /\ request_id' = request_id
      /\ 1 \in DOMAIN idle_queue /\ Finishes(1, request_id)
      /\ \A k \in DOMAIN idle_queue' :
           k \in 1..Len(idle_queue) - 1 /\ k + 1 \in DOMAIN idle_queue
           /\ idle_queue'[k] = idle_queue[k + 1]
  BY QueueShrinks DEF background, Finishes
<1>2. request_id \notin streaming
  BY <1>1 DEF FinishInv
<1>3. ASSUME NEW k \in DOMAIN idle_queue', Finishes(k, request_id)' PROVE FALSE
  <2>1. Finishes(k + 1, request_id) /\ k + 1 # 1 /\ k + 1 \in DOMAIN idle_queue
    BY <1>1, <1>3 DEF Finishes
  <2>. QED
    BY <1>1, <2>1 DEF FinishInv, Finishes
<1>. QED
  BY <1>1, <1>2, <1>3 DEF Over

\* A thread that reads or ends hands over at most one callback that finishes.
LEMMA FinishThread ==
  ASSUME TypeInv, FinishInv, NEW r \in Requests, ChunkArrives(r) \/ StreamEnds(r)
  PROVE  FinishInv'
<1>1. r \in streaming /\ received[r] \in Nat /\ TypeOK /\ r <= request_id
      /\ r \in Int /\ request_id \in Int
  BY WindowAssumption DEF ChunkArrives, StreamEnds, TypeInv, TypeOK, Requests, FinishInv
<1>2. PICK kind \in {"delta", "response", "error"}, n \in Nat :
        /\ IdleAdd(kind, r, n)
        /\ kind = "delta" => streaming' = streaming
        /\ kind # "delta" => streaming' = streaming \ {r}
  <2>1. CASE ChunkArrives(r) /\ r \in cancelled
    BY <1>1, <2>1 DEF ChunkArrives
  <2>2. CASE ChunkArrives(r) /\ r \notin cancelled
    <3>1. received'[r] \in Nat
      BY <1>1, <2>2 DEF ChunkArrives, TypeOK
    <3>. QED
      BY <2>2, <3>1 DEF ChunkArrives
  <2>3. CASE StreamEnds(r)
    BY <1>1, <2>3 DEF StreamEnds
  <2>. QED
    BY <2>1, <2>2, <2>3
<1>0. PICK last : last = Len(idle_queue) + 1
  OBVIOUS
<1>3. /\ DOMAIN idle_queue = 1..last - 1 /\ last \in Nat \ {0} /\ DOMAIN idle_queue' = 1..last
      /\ \A k \in DOMAIN idle_queue : k # last /\ idle_queue'[k] = idle_queue[k]
      /\ \A k \in DOMAIN idle_queue' : k = last \/ k \in DOMAIN idle_queue
      /\ idle_queue'[last].kind = kind /\ idle_queue'[last].request = r
  <2>1. /\ DOMAIN idle_queue = 1..Len(idle_queue) /\ Len(idle_queue) \in Nat
        /\ DOMAIN idle_queue' = 1..Len(idle_queue) + 1
        /\ \A k \in DOMAIN idle_queue : idle_queue'[k] = idle_queue[k]
        /\ idle_queue'[Len(idle_queue) + 1] = [kind |-> kind, request |-> r, n |-> n]
    BY <1>1, <1>2, QueueGrows
  <2>2. /\ last \in Nat \ {0} /\ 1..last - 1 = 1..Len(idle_queue)
        /\ \A k \in 1..Len(idle_queue) : k # last
        /\ \A k \in 1..last : k = last \/ k \in 1..Len(idle_queue)
    BY <1>0, <2>1
  <2>. QED
    BY <1>0, <2>1, <2>2
<1>4. /\ \A k \in DOMAIN idle_queue : \A s : Finishes(k, s)' <=> Finishes(k, s)
      /\ \A s : Finishes(last, s)' <=> kind # "delta" /\ s = r
  <2>1. ASSUME NEW k \in DOMAIN idle_queue, NEW s PROVE Finishes(k, s)' <=> Finishes(k, s)
    BY <1>3 DEF Finishes
  <2>2. ASSUME NEW s PROVE Finishes(last, s)' <=> kind # "delta" /\ s = r
    BY <1>3 DEF Finishes
  <2>. QED
    BY <2>1, <2>2
<1>5. \A k \in DOMAIN idle_queue : ~Finishes(k, r)
  BY <1>1 DEF FinishInv
<1>6. UNCHANGED <<request_id, cancelled, cancel_event>>
  BY DEF ChunkArrives, StreamEnds, ui
<1>7. streaming' \subseteq streaming /\ (kind # "delta" => r \notin streaming')
  BY <1>2
<1>8. ASSUME NEW s \in streaming', NEW k \in DOMAIN idle_queue' PROVE ~Finishes(k, s)'
  <2>1. CASE k = last
    BY <1>4, <1>7, <1>8, <2>1
  <2>2. CASE k \in DOMAIN idle_queue
    BY <1>4, <1>7, <1>8, <2>2 DEF FinishInv
  <2>. QED
    BY <1>3, <2>1, <2>2
<1>9. ASSUME NEW j \in DOMAIN idle_queue', NEW k \in DOMAIN idle_queue',
             Finishes(j, idle_queue[k].request)', Finishes(k, idle_queue[k].request)'
      PROVE  j = k
  <2>1. CASE j = last /\ k = last
    BY <2>1
  <2>2. CASE j = last /\ k \in DOMAIN idle_queue
    <3>1. idle_queue[k].kind # "delta" /\ idle_queue[k].request = r
      BY <1>3, <1>9, <2>2 DEF Finishes
    <3>. QED
      BY <1>5, <2>2, <3>1 DEF Finishes
  <2>3. CASE j \in DOMAIN idle_queue /\ k = last
    BY <1>3, <1>4, <1>5, <1>9, <2>3
  <2>4. CASE j \in DOMAIN idle_queue /\ k \in DOMAIN idle_queue
    BY <1>3, <1>4, <1>9, <2>4 DEF FinishInv
  <2>. QED
    BY <1>3, <2>1, <2>2, <2>3, <2>4
<1>10. Over(request_id) => Over(request_id)'
  <2>1. CASE request_id \in cancelled
    BY <1>6, <2>1 DEF Over
  <2>2. CASE /\ request_id \notin streaming
             /\ \A k \in DOMAIN idle_queue : ~Finishes(k, request_id)
    <3>1. request_id # r /\ request_id \notin streaming'
      BY <1>1, <1>7, <2>2
    <3>2. \A k \in DOMAIN idle_queue' : ~Finishes(k, request_id)'
      BY <1>3, <1>4, <1>6, <2>2, <3>1
    <3>. QED
      BY <1>6, <3>1, <3>2 DEF Over, Finishes
  <2>. QED
    BY <2>1, <2>2 DEF Over
<1>11. streaming' \subseteq 1..request_id'
  BY <1>6, <1>7 DEF FinishInv
<1>12. \A k \in DOMAIN idle_queue' : idle_queue'[k].request <= request_id'
  BY <1>1, <1>3, <1>6 DEF FinishInv
<1>. QED
  BY <1>6, <1>8, <1>9, <1>10, <1>11, <1>12 DEF FinishInv

\* No step makes a request finish twice.
LEMMA FinishNext == TypeInv /\ PhaseInv /\ FinishInv /\ [Next]_vars => FinishInv'
<1>. SUFFICES ASSUME TypeInv, PhaseInv, FinishInv, [Next]_vars PROVE FinishInv'
  OBVIOUS
<1>0. TypeOK /\ request_id \in Nat
  BY WindowAssumption DEF TypeInv, TypeOK
<1>1. CASE Submit
  <2>1. /\ request_id' = request_id + 1 /\ cancel_event' = request_id + 1
        /\ streaming' = streaming \cup {request_id + 1}
        /\ idle_queue' = idle_queue /\ cancelled' = cancelled
    BY <1>1 DEF Submit
  <2>2. request_id + 1 # None
    BY <1>0, NotNone
  <2>3. \A k, r : Finishes(k, r)' <=> Finishes(k, r)
    BY <2>1 DEF Finishes
  <2>4. \A k \in DOMAIN idle_queue : idle_queue[k].request \in Int
    <3>1. \A k \in DOMAIN idle_queue : idle_queue[k] \in Callback
      BY <1>0 DEF TypeOK
    <3>. QED
      BY <3>1, WindowAssumption DEF Callback, Requests
  <2>5. \A k \in DOMAIN idle_queue : ~Finishes(k, request_id + 1)
    BY <1>0, <2>4 DEF FinishInv, Finishes
  <2>6. streaming' \subseteq 1..request_id'
    <3>1. streaming \subseteq 1..request_id
      BY DEF FinishInv
    <3>2. 1..request_id \cup {request_id + 1} \subseteq 1..request_id + 1
      BY <1>0
    <3>. QED
      BY <2>1, <3>1, <3>2
  <2>7. \A k \in DOMAIN idle_queue' : idle_queue'[k].request <= request_id'
    BY <1>0, <2>1, <2>4 DEF FinishInv
  <2>. QED
    BY <2>1, <2>2, <2>3, <2>5, <2>6, <2>7 DEF FinishInv
<1>2. CASE /\ UNCHANGED <<background, idle_queue, request_id>>
           /\ cancelled \subseteq cancelled'
           /\ cancel_event' = None => cancel_event = None \/ request_id \in cancelled'
  BY <1>2 DEF FinishInv, Over, Finishes, background
<1>3. CASE AppendStreamDelta
  BY <1>0, <1>3, FinishTaken DEF AppendStreamDelta
<1>4. CASE IgnoreFinish
  BY <1>0, <1>4, FinishTaken DEF IgnoreFinish, ui
<1>5. CASE FinishResponse \/ FinishError
  <2>1. PICK kind \in {"response", "error"} : TakeCallback(kind)
    BY <1>5 DEF FinishResponse, FinishError
  <2>2. idle_queue[1].request = request_id
    BY <1>0, <1>5, <2>1, QueueShrinks DEF FinishResponse, FinishError, Stale
  <2>3. UNCHANGED <<background, request_id, cancelled>>
    BY <1>5 DEF FinishResponse, FinishError
  <2>4. Over(request_id)'
    BY <1>0, <2>1, <2>2, <2>3, FinishOver
  <2>. QED
    BY <1>0, <2>1, <2>3, <2>4, FinishTaken
<1>6. ASSUME NEW r \in Requests, ChunkArrives(r) \/ StreamEnds(r) PROVE FinishInv'
  BY <1>6, FinishThread
<1>7. CASE CancelRequest
  <2>1. request_id \in cancelled'
    BY <1>7 DEF CancelRequest, PhaseInv, Composing, Idle, InFlight
  <2>. QED
    BY <1>2, <1>7, <2>1 DEF CancelRequest
<1>8. CASE Send \/ FirstCompaction \/ CompactAgain \/ Reject
  BY <1>2, <1>8 DEF Send, FirstCompaction, CompactAgain, Reject, ui
<1>9. ASSUME NEW word \in Words, RemoveSelectedFromContext(word) PROVE FinishInv'
  BY <1>2, <1>9 DEF RemoveSelectedFromContext, ui
<1>10. ASSUME NEW chunk \in Chunks, RecordOutput(chunk) PROVE FinishInv'
  BY <1>2, <1>10 DEF RecordOutput, ui
<1>11. CASE UNCHANGED vars
  BY <1>2, <1>11 DEF vars, ui
<1>. QED
  BY <1>1, <1>3, <1>4, <1>5, <1>6, <1>7, <1>8, <1>9, <1>10, <1>11 DEF Next, MainThread, User

----------------------------------------------------------------------------
(* What a step does to roles and texts of the conversation: only a         *)
(* committed answer changes them, and it appends a question and its answer.*)

SameTurns ==
  /\ Len(history') = Len(history)
  /\ \A i \in 1..Len(history) :
       history'[i].role = history[i].role /\ history'[i].text = history[i].text

\* The history is a sequence of messages, numbered from 1.
LEMMA HistoryDomain ==
  ASSUME TypeOK
  PROVE  /\ DOMAIN history = 1..Len(history) /\ Len(history) \in Nat
         /\ \A i \in 1..Len(history) : history[i] \in Message
BY DEF TypeOK

\* compact takes the terminal context out of messages, and nothing else.
LEMMA CompactKeepsTurns ==
  ASSUME TypeInv, pending_slice # None, CompactBaseline
  PROVE  SameTurns
<1>1. history' \in Seq(Message) /\ TypeOK
  BY CompactType DEF TypeInv
<1>2. DOMAIN history' = DOMAIN history
  BY DEF CompactBaseline, baseline
<1>3. Len(history') = Len(history)
  BY <1>1, <1>2, HistoryDomain
<1>4. ASSUME NEW i \in 1..Len(history)
      PROVE  history'[i].role = history[i].role /\ history'[i].text = history[i].text
  BY <1>1, HistoryDomain DEF CompactBaseline, Scrub, Message, baseline
<1>. QED
  BY <1>3, <1>4 DEF SameTurns

\* So does redact_context.
LEMMA RedactKeepsTurns ==
  ASSUME TypeInv, NEW word, RedactContext(word)
  PROVE  SameTurns
<1>1. history' \in Seq(Message) /\ TypeOK
  BY RedactType DEF TypeInv
<1>2. history' = [i \in DOMAIN history |-> [history[i] EXCEPT !.context = Remove(@, word)]]
  BY DEF RedactContext
<1>3. Len(history') = Len(history)
  BY <1>1, <1>2, HistoryDomain
<1>4. ASSUME NEW i \in 1..Len(history)
      PROVE  history'[i].role = history[i].role /\ history'[i].text = history[i].text
  BY <1>1, <1>2, HistoryDomain DEF Message
<1>. QED
  BY <1>3, <1>4 DEF SameTurns

\* Every other step leaves the turns alone.
LEMMA StepKeepsTurns ==
  ASSUME TypeInv, PhaseInv, [Next]_vars, ~FinishResponse
  PROVE  SameTurns
<1>1. CASE history' = history
  BY <1>1 DEF SameTurns
<1>2. CASE FirstCompaction \/ CompactAgain \/ Reject
  <2>1. pending_slice # None /\ CompactBaseline
    BY <1>2 DEF FirstCompaction, CompactAgain, Reject, Compact, TypeInv
  <2>. QED
    BY <2>1, CompactKeepsTurns
<1>3. ASSUME NEW word \in Words, RemoveSelectedFromContext(word) PROVE SameTurns
  BY <1>3, RedactKeepsTurns DEF RemoveSelectedFromContext
<1>4. CASE Submit \/ Send \/ CancelRequest \/ FinishError
  BY <1>1, <1>4 DEF Submit, SnapshotForSend, Send, RequestSlice, CancelRequest,
                    FinishError, RollbackOnFailure
<1>5. CASE AppendStreamDelta \/ IgnoreFinish \/ UNCHANGED vars
  BY <1>1, <1>5 DEF AppendStreamDelta, IgnoreFinish, vars, session
<1>6. ASSUME NEW r \in Requests, ChunkArrives(r) \/ StreamEnds(r) PROVE SameTurns
  BY <1>1, <1>6 DEF ChunkArrives, StreamEnds, session
<1>7. ASSUME NEW chunk \in Chunks, RecordOutput(chunk) PROVE SameTurns
  BY <1>1, <1>7 DEF RecordOutput, session
<1>. QED
  BY <1>2, <1>3, <1>4, <1>5, <1>6, <1>7 DEF Next, MainThread, User

\* An answer of n fragments has n fragments.
LEMMA AnswerLen ==
  ASSUME NEW r \in Requests, NEW n \in Nat
  PROVE  Len(Answer(r, n)) = n
<1>1. Answer(r, n) \in Seq(Said) /\ DOMAIN Answer(r, n) = 1..n
  BY AnswerType DEF Answer
<1>. HIDE DEF Answer
<1>. QED
  BY <1>1

\* A committed answer finds its request in flight, because a request whose
\* callback is still queued is not over.
LEMMA CommitInFlight ==
  ASSUME TypeInv, PhaseInv, FinishInv, FinishResponse
  PROVE  /\ InFlight
         /\ Head(idle_queue) = idle_queue[1] /\ 1 \in DOMAIN idle_queue
         /\ idle_queue[1].kind = "response"
         /\ idle_queue[1].request = request_id /\ request_id \notin cancelled
         /\ request_id \in Requests /\ idle_queue[1].n \in Nat
<1>1. TypeOK /\ TakeCallback("response") /\ composing = FALSE
  BY DEF TypeInv, TypeOK, FinishResponse, TakeCallback
<1>2. /\ Head(idle_queue) = idle_queue[1] /\ 1 \in DOMAIN idle_queue
      /\ idle_queue[1].kind = "response" /\ idle_queue # <<>>
  BY <1>1, QueueShrinks DEF TakeCallback
<1>3. idle_queue[1].request = request_id /\ request_id \notin cancelled
  BY <1>2 DEF FinishResponse, Stale
<1>4. request_id \in Requests /\ idle_queue[1].n \in Nat
  BY <1>1, <1>2, <1>3, QueueType
<1>5. ~Over(request_id)
  BY <1>2, <1>3 DEF Over, Finishes
<1>6. InFlight
  BY <1>1, <1>5 DEF FinishInv, PhaseInv, Composing, Idle
<1>. QED
  BY <1>2, <1>3, <1>4, <1>6

\* The turn that commit_on_success appends.
LEMMA CommitTurn ==
  ASSUME TypeInv, PhaseInv, FinishInv, FinishResponse
  PROVE  /\ Len(history') = Len(history) + 2
         /\ \A i \in 1..Len(history) : history'[i] = history[i]
         /\ history'[Len(history) + 1] = pending_user_message
         /\ history'[Len(history) + 2].role = "assistant"
         /\ history'[Len(history) + 2].text = Answer(request_id, idle_queue[1].n)
<1> DEFINE answer == Answer(request_id, idle_queue[1].n)
<1> DEFINE reply == [role |-> "assistant", context |-> {}, marked |-> FALSE, text |-> answer]
<1>1. /\ history \in Seq(Message) /\ pending_user_message \in Message
      /\ answer \in Seq(Said) /\ pending_user_message # None
  BY CommitInFlight, AnswerType DEF TypeInv, TypeOK, InFlight
<1>2. history' = history \o <<pending_user_message>> \o <<reply>>
  BY <1>1, CommitInFlight DEF FinishResponse, CommitOnSuccess
<1>3. reply \in Message /\ reply.role = "assistant" /\ reply.text = answer
  BY <1>1 DEF Message, Text
<1>. HIDE DEF reply, answer
<1>4. /\ Len(history') = Len(history) + 2
      /\ \A i \in 1..Len(history) : history'[i] = history[i]
      /\ history'[Len(history) + 1] = pending_user_message
      /\ history'[Len(history) + 2] = reply
  BY <1>1, <1>2, <1>3
<1>. QED
  BY <1>3, <1>4 DEF answer

----------------------------------------------------------------------------
(* Whole turns.  A cancelled request is in no turn because the request in  *)
(* flight, the only one that can be cancelled, is in none yet.             *)

\* The i-th and the next message are the question and the answer of a request.
TurnAt(i) ==
  /\ history[i].role = "user" /\ history[i + 1].role = "assistant"
  /\ history[i + 1].text = Answer(history[i].text[1].request, Len(history[i + 1].text))
  /\ history[i].text[1].request \in 1..request_id \ cancelled
  /\ history[i].text[1].request # cancel_event

TurnsInv ==
  /\ Len(history) % 2 = 0
  /\ \A i \in 1..Len(history) : i % 2 = 1 => TurnAt(i)
  /\ pending_user_message # None => pending_user_message.role = "user"

\* No turn at the start.
LEMMA TurnsInit == Init => TurnsInv
<1>. SUFFICES ASSUME Init PROVE TurnsInv
  OBVIOUS
<1>1. Len(history) = 0 /\ pending_user_message = None
  BY DEF Init, SessionInit
<1>. QED
  BY <1>1 DEF TurnsInv

\* What a step does to the requests: only the one in flight is cancelled, and
\* the one that comes into flight is new.
RequestsMove ==
  /\ request_id' \in Nat /\ request_id <= request_id'
  /\ cancelled' \subseteq cancelled \cup {cancel_event}
  /\ cancel_event' \in {None, cancel_event, request_id + 1}

\* Every step does.
LEMMA StepMovesRequests ==
  ASSUME TypeInv, PhaseInv, [Next]_vars
  PROVE  RequestsMove
<1>0. request_id \in Nat
  BY WindowAssumption DEF TypeInv, TypeOK
<1>1. CASE Submit
  BY <1>0, <1>1 DEF Submit, RequestsMove
<1>2. CASE UNCHANGED <<request_id, cancelled, cancel_event>>
  BY <1>0, <1>2 DEF RequestsMove
<1>3. CASE FinishResponse \/ FinishError \/ CancelRequest
  BY <1>0, <1>3 DEF FinishResponse, FinishError, CancelRequest, Enable, RequestsMove
<1>4. CASE FirstCompaction \/ CompactAgain \/ Reject \/ AppendStreamDelta \/ IgnoreFinish \/ Send
  BY <1>2, <1>4 DEF FirstCompaction, CompactAgain, Reject, AppendStreamDelta, IgnoreFinish, Send, ui
<1>5. ASSUME NEW word \in Words, RemoveSelectedFromContext(word) PROVE RequestsMove
  BY <1>2, <1>5 DEF RemoveSelectedFromContext, ui
<1>6. ASSUME NEW r \in Requests, ChunkArrives(r) \/ StreamEnds(r) PROVE RequestsMove
  BY <1>2, <1>6 DEF ChunkArrives, StreamEnds, ui
<1>7. ASSUME NEW chunk \in Chunks, RecordOutput(chunk) PROVE RequestsMove
  BY <1>2, <1>7 DEF RecordOutput, ui
<1>8. CASE UNCHANGED vars
  BY <1>2, <1>8 DEF vars, ui
<1>. QED
  BY <1>1, <1>3, <1>4, <1>5, <1>6, <1>7, <1>8 DEF Next, MainThread, User

\* A turn stays a turn while its messages keep their roles and texts.
LEMMA TurnStays ==
  ASSUME TypeInv, RequestsMove, NEW i \in Nat, TurnAt(i),
         history'[i].role = history[i].role, history'[i].text = history[i].text,
         history'[i + 1].role = history[i + 1].role, history'[i + 1].text = history[i + 1].text
  PROVE  TurnAt(i)'
<1>1. request_id \in Nat
  BY WindowAssumption DEF TypeInv, TypeOK
<1> DEFINE r == history[i].text[1].request
<1>2. r \in 1..request_id \ cancelled /\ r # cancel_event /\ r # request_id + 1 /\ r # None
  BY <1>1, NotNone DEF TurnAt
<1>3. r \in 1..request_id' \ cancelled' /\ r # cancel_event'
  BY <1>1, <1>2 DEF RequestsMove
<1>. QED
  BY <1>3 DEF TurnAt, Answer

\* The pending message is a user message.
LEMMA AskedByUser ==
  ASSUME TypeInv, PhaseInv, TurnsInv, [Next]_vars
  PROVE  pending_user_message' # None => pending_user_message'.role = "user"
<1>1. CASE Submit
  BY <1>1 DEF Submit, SnapshotForSend, Turn, UserMessage
<1>2. CASE pending_user_message' = pending_user_message
  BY <1>2 DEF TurnsInv
<1>3. CASE Reject \/ FinishResponse \/ FinishError \/ CancelRequest
  BY <1>3 DEF Reject, FinishResponse, FinishError, CancelRequest, CommitOnSuccess,
              RollbackOnFailure, Clear
<1>4. CASE FirstCompaction \/ CompactAgain \/ AppendStreamDelta \/ IgnoreFinish \/ Send
  BY <1>2, <1>4 DEF FirstCompaction, CompactAgain, Compact, AppendStreamDelta, IgnoreFinish,
                    Send, RequestSlice, session, pending
<1>5. ASSUME NEW word \in Words, RemoveSelectedFromContext(word)
      PROVE  pending_user_message' = pending_user_message
  BY <1>5 DEF RemoveSelectedFromContext, RedactContext
<1>6. ASSUME NEW r \in Requests, ChunkArrives(r) \/ StreamEnds(r)
      PROVE  pending_user_message' = pending_user_message
  BY <1>6 DEF ChunkArrives, StreamEnds, session, pending
<1>7. ASSUME NEW chunk \in Chunks, RecordOutput(chunk)
      PROVE  pending_user_message' = pending_user_message
  BY <1>7 DEF RecordOutput, session, pending
<1>8. CASE UNCHANGED vars
  BY <1>2, <1>8 DEF vars, session, pending
<1>. QED
  BY <1>1, <1>2, <1>3, <1>4, <1>5, <1>6, <1>7, <1>8 DEF Next, MainThread, User

\* Every step leaves a list of whole turns.
LEMMA TurnsNext == TypeInv /\ PhaseInv /\ FinishInv /\ TurnsInv /\ [Next]_vars => TurnsInv'
<1>. SUFFICES ASSUME TypeInv, PhaseInv, FinishInv, TurnsInv, [Next]_vars PROVE TurnsInv'
  OBVIOUS
<1>1. RequestsMove /\ Len(history) \in Nat /\ Len(history) % 2 = 0
  BY StepMovesRequests, HistoryDomain DEF TypeInv, TurnsInv
<1>2. \A i \in 1..Len(history) : i % 2 = 1 => i + 1 \in 1..Len(history) /\ i \in Nat
  BY <1>1
<1>3. pending_user_message' # None => pending_user_message'.role = "user"
  BY AskedByUser
<1>4. CASE ~FinishResponse
  <2>1. SameTurns
    BY <1>4, StepKeepsTurns
  <2>2. ASSUME NEW i \in 1..Len(history'), i % 2 = 1 PROVE TurnAt(i)'
    <3>1. i \in 1..Len(history) /\ i + 1 \in 1..Len(history) /\ i \in Nat /\ TurnAt(i)
      BY <1>2, <2>1, <2>2 DEF SameTurns, TurnsInv
    <3>. QED
      BY <1>1, <2>1, <3>1, TurnStays DEF SameTurns
  <2>. QED
    BY <1>1, <1>3, <2>1, <2>2 DEF TurnsInv, SameTurns
<1>5. CASE FinishResponse
  <2>1. /\ Len(history') = Len(history) + 2
        /\ \A i \in 1..Len(history) : history'[i] = history[i]
        /\ history'[Len(history) + 1] = pending_user_message
        /\ history'[Len(history) + 2].role = "assistant"
        /\ history'[Len(history) + 2].text = Answer(request_id, idle_queue[1].n)
    BY <1>5, CommitTurn
  <2>2. /\ InFlight /\ request_id \notin cancelled /\ request_id \in Requests
        /\ idle_queue[1].n \in Nat /\ request_id \in 1..request_id
    BY <1>5, CommitInFlight, WindowAssumption DEF Requests
  <2>3. request_id' = request_id /\ cancelled' = cancelled /\ cancel_event' = None
    BY <1>5 DEF FinishResponse, Enable
  <2>. PICK n : n = Len(history) + 1
    OBVIOUS
  <2>4. TurnAt(n)'
    <3>1. Len(Answer(request_id, idle_queue[1].n)) = idle_queue[1].n
      BY <2>2, AnswerLen
    <3>2. /\ history'[Len(history) + 1].role = "user"
          /\ history'[Len(history) + 1].text[1].request = request_id
          /\ request_id # None
      BY <2>1, <2>2, NotNone DEF InFlight, TurnsInv
    <3>3. /\ history'[n].role = "user" /\ history'[n + 1].role = "assistant"
          /\ history'[n].text[1].request = request_id
          /\ history'[n + 1].text = Answer(request_id, Len(history'[n + 1].text))
      BY <1>1, <2>1, <3>1, <3>2
    <3>. QED
      BY <2>2, <2>3, <3>2, <3>3 DEF TurnAt, Answer
  <2>5. ASSUME NEW i \in 1..Len(history'), i % 2 = 1 PROVE TurnAt(i)'
    <3>1. CASE i \in 1..Len(history)
      BY <1>1, <1>2, <2>1, <2>5, <3>1, TurnStays DEF TurnsInv
    <3>2. CASE i = n
      BY <2>4, <3>2
    <3>. QED
      BY <1>1, <2>1, <2>5, <3>1, <3>2
  <2>. QED
    BY <1>1, <1>3, <2>1, <2>5 DEF TurnsInv
<1>. QED
  BY <1>4, <1>5

\* The conversation always consists of whole turns: a question that was not
\* cancelled and then all of the answer its thread collected, whatever order
\* cancels, errors, late callbacks and new questions come in
\* (_finish_request, commit_on_success).
THEOREM TurnsStayWhole == Spec => []TurnsAreWhole
<1>1. TypeInv /\ TurnsInv => TurnsAreWhole
  <2>. SUFFICES ASSUME TypeInv, TurnsInv PROVE TurnsAreWhole
    OBVIOUS
  <2>1. /\ DOMAIN history = 1..Len(history) /\ Len(history) \in Nat
        /\ Len(history) % 2 = 0
        /\ \A i \in 1..Len(history) : i % 2 = 1 => TurnAt(i)
    BY HistoryDomain DEF TypeInv, TurnsInv
  <2>2. ASSUME NEW i \in 1..Len(history), i % 2 # 1
        PROVE  TurnAt(i - 1)
    <3>1. i - 1 \in 1..Len(history) /\ (i - 1) % 2 = 1
      BY <2>1, <2>2
    <3>. QED
      BY <2>1, <3>1
  <2>3. \A i \in 1..Len(history) : i % 2 # 1 =>
          /\ history[i].role = "assistant"
          /\ history[i].text = Answer(history[i - 1].text[1].request, Len(history[i].text))
    BY <2>1, <2>2 DEF TurnAt
  <2>. QED
    BY <2>1, <2>3 DEF TurnAt, TurnsAreWhole
<1>2. Init => TypeInv /\ PhaseInv /\ FinishInv /\ TurnsInv
  BY TypeInit, PhaseInit, FinishInit, TurnsInit
<1>3. TypeInv /\ PhaseInv /\ FinishInv /\ TurnsInv /\ [Next]_vars
        => (TypeInv /\ PhaseInv /\ FinishInv /\ TurnsInv)'
  BY TypeNext, PhaseNext, FinishNext, TurnsNext
<1>. QED
  BY <1>1, <1>2, <1>3, PTL DEF Spec

====
