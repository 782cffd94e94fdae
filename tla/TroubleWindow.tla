---- MODULE TroubleWindow ----
(***************************************************************************)
(* window.py: the GTK main thread that prepares, submits, cancels and      *)
(* finishes requests, the background thread of each request, GLib's queue  *)
(* of idle callbacks between them, and the capture reader that appends     *)
(* shell output to the transcript at any moment.                           *)
(*                                                                         *)
(* A cancel event is named by the request it belongs to.  The i-th         *)
(* fragment of the provider's answer to request r is [request |-> r,       *)
(* n |-> i].                                                               *)
(***************************************************************************)
EXTENDS ContextSession

CONSTANTS
  MaxRequests,   \* bound: requests submitted in a behaviour
  MaxFragments,  \* bound: fragments in one answer
  MessageCost,   \* estimated tokens of a message without terminal context
  SafeLimit      \* request_compaction_limit(max_context_tokens)

ASSUME WindowAssumption ==
  /\ MaxRequests \in Nat
  /\ MaxFragments \in Nat
  /\ MessageCost \in Nat
  /\ SafeLimit \in Nat

VARIABLES
  composing,     \* the main thread is inside _send_question, after the snapshot
  request_id,
  cancel_event,  \* the request whose event self.cancel_event is, or None
  cancelled,     \* requests whose event has been set
  streaming,     \* requests whose background thread is reading the answer
  received,      \* fragments the background thread of a request has collected
  idle_queue,    \* callbacks handed to GLib.idle_add, oldest first
  stream,        \* fragments in the temporary response label, None without one
  sensitive      \* question and Send are enabled and Cancel is hidden

ui == <<request_id, cancel_event, cancelled, stream, sensitive>>
background == <<streaming, received>>
vars == <<store, session, composing, ui, background, idle_queue>>

Requests == 1..MaxRequests
Callback == [kind : {"delta", "response", "error"}, request : Requests, n : Nat]

Init ==
  /\ StoreInit
  /\ SessionInit
  /\ composing = FALSE
  /\ request_id = 0
  /\ cancel_event = None
  /\ cancelled = {}
  /\ streaming = {}
  /\ received = [r \in Requests |-> 0]
  /\ idle_queue = <<>>
  /\ stream = None
  /\ sensitive = TRUE

----------------------------------------------------------------------------
(* The candidate request: a system message, the history, the new turn.     *)

Question == <<[request |-> request_id + 1, n |-> 0]>>
Turn == UserMessage(pending_slice, Question)
Request == history \o <<Turn>>

Estimate(messages) ==
  MessageCost * (1 + Len(messages))
    + Cardinality(UNION {{i} \X messages[i].context : i \in DOMAIN messages})

Fits == Estimate(Request) <= SafeLimit

----------------------------------------------------------------------------
(* _send_question.  The capture barrier before the snapshot is in          *)
(* CaptureChannel; when it fails the handler returns and nothing changes.  *)

Send ==
  /\ ~composing
  /\ sensitive
  /\ cancel_event = None
  /\ request_id < MaxRequests
  /\ RequestSlice
  /\ composing' = TRUE
  /\ sensitive' = FALSE
  /\ UNCHANGED <<store, request_id, cancel_event, cancelled, stream, background, idle_queue>>

FirstCompaction ==
  /\ composing
  /\ compaction_passes = 0
  /\ ~Fits
  /\ Compact
  /\ UNCHANGED <<store, composing, ui, background, idle_queue>>

CompactAgain ==
  /\ composing
  /\ compaction_passes > 0
  /\ ~Fits
  /\ Payload(CompactedSlice) # Payload(pending_slice)
  /\ Compact
  /\ UNCHANGED <<store, composing, ui, background, idle_queue>>

\* Mutant: the loop does not notice that compaction gains nothing.
Reject_Never ==
  /\ composing
  /\ compaction_passes > 0
  /\ ~Fits
  /\ Payload(CompactedSlice) = Payload(pending_slice)
  /\ CompactBaseline
  /\ pending_slice' = CompactedSlice
  /\ UNCHANGED <<pending_user_message, compaction_passes, store, composing, ui,
                 background, idle_queue>>

\* One more pass left the payload as it was: the request is given up.
Reject ==
  /\ composing
  /\ compaction_passes > 0
  /\ ~Fits
  /\ Payload(CompactedSlice) = Payload(pending_slice)
  /\ CompactBaseline
  /\ Clear
  /\ composing' = FALSE
  /\ sensitive' = TRUE
  /\ UNCHANGED <<store, request_id, cancel_event, cancelled, stream, background, idle_queue>>

Submit ==
  /\ composing
  /\ Fits
  /\ SnapshotForSend(Turn)
  /\ request_id' = request_id + 1
  /\ cancel_event' = request_id'
  /\ stream' = <<>>
  /\ streaming' = streaming \cup {request_id'}
  /\ composing' = FALSE
  /\ UNCHANGED <<store, cancelled, sensitive, received, idle_queue>>

----------------------------------------------------------------------------
(* _complete_in_background and _stream_completion, one thread per request. *)

IdleAdd(kind, r, n) ==
  idle_queue' = Append(idle_queue, [kind |-> kind, request |-> r, n |-> n])

\* The next chunk arrives; a cancelled request stops here, with what it has.
ChunkArrives(r) ==
  /\ r \in streaming
  /\ received[r] < MaxFragments
  /\ \/ /\ r \in cancelled
        /\ streaming' = streaming \ {r}
        /\ IdleAdd("response", r, received[r])
        /\ UNCHANGED received
     \/ /\ r \notin cancelled
        /\ received' = [received EXCEPT ![r] = @ + 1]
        /\ IdleAdd("delta", r, received'[r])
        /\ UNCHANGED streaming
  /\ UNCHANGED <<store, session, composing, ui>>

\* Mutant: an exception ends the thread without a callback.
StreamEnds_Silently(r) ==
  /\ r \in streaming
  /\ streaming' = streaming \ {r}
  /\ IdleAdd("response", r, received[r]) \/ UNCHANGED idle_queue
  /\ UNCHANGED <<store, session, composing, ui, received>>

StreamEnds(r) ==
  /\ r \in streaming
  /\ streaming' = streaming \ {r}
  /\ \/ IdleAdd("response", r, received[r])
     \/ IdleAdd("error", r, 0)
  /\ UNCHANGED <<store, session, composing, ui, received>>

----------------------------------------------------------------------------
(* Callbacks and buttons on the main thread.                               *)

Answer(r, n) == [i \in 1..n |-> [request |-> r, n |-> i]]

\* Mutant: the cancel event is not looked at.
Stale_IdOnly(r) == r # request_id

Stale(r) == r # request_id \/ r \in cancelled

TakeCallback(kind) ==
  /\ ~composing
  /\ idle_queue # <<>>
  /\ Head(idle_queue).kind = kind
  /\ idle_queue' = Tail(idle_queue)

Enable ==
  /\ sensitive' = TRUE
  /\ cancel_event' = None

\* Mutant: fragments of any request are shown.
AppendStreamDelta_Any ==
  /\ TakeCallback("delta")
  /\ LET c == Head(idle_queue)
     IN  stream' = IF stream = None THEN stream
                   ELSE stream \o <<[request |-> c.request, n |-> c.n]>>
  /\ UNCHANGED <<store, session, composing, request_id, cancel_event, cancelled,
                 sensitive, background>>

AppendStreamDelta ==
  /\ TakeCallback("delta")
  /\ LET c == Head(idle_queue)
     IN  stream' = IF Stale(c.request) \/ stream = None THEN stream
                   ELSE stream \o <<[request |-> c.request, n |-> c.n]>>
  /\ UNCHANGED <<store, session, composing, request_id, cancel_event, cancelled,
                 sensitive, background>>

IgnoreFinish ==
  /\ TakeCallback("response") \/ TakeCallback("error")
  /\ Stale(Head(idle_queue).request)
  /\ UNCHANGED <<store, session, composing, ui, background>>

FinishResponse ==
  /\ TakeCallback("response")
  /\ LET c == Head(idle_queue)
     IN  /\ ~Stale(c.request)
         /\ CommitOnSuccess(Answer(c.request, c.n))
  /\ stream' = None
  /\ Enable
  /\ UNCHANGED <<store, composing, request_id, cancelled, background>>

\* Mutant: the session keeps the failed request.
FinishError_Keeps ==
  /\ TakeCallback("error")
  /\ ~Stale(Head(idle_queue).request)
  /\ stream' = None
  /\ Enable
  /\ UNCHANGED <<store, session, composing, request_id, cancelled, background>>

FinishError ==
  /\ TakeCallback("error")
  /\ ~Stale(Head(idle_queue).request)
  /\ RollbackOnFailure
  /\ stream' = None
  /\ Enable
  /\ UNCHANGED <<store, composing, request_id, cancelled, background>>

\* Mutant: cancels without looking whether a request is in flight.
CancelRequest_Always ==
  /\ ~composing
  /\ cancelled' = cancelled \cup {cancel_event}
  /\ RollbackOnFailure
  /\ stream' = None
  /\ Enable
  /\ UNCHANGED <<store, composing, request_id, background, idle_queue>>

CancelRequest ==
  /\ ~composing
  /\ cancel_event # None
  /\ cancelled' = cancelled \cup {cancel_event}
  /\ RollbackOnFailure
  /\ stream' = None
  /\ Enable
  /\ UNCHANGED <<store, composing, request_id, background, idle_queue>>

RemoveSelectedFromContext(word) ==
  /\ ~composing
  /\ RedactText(word)
  /\ RedactContext(word)
  /\ UNCHANGED <<composing, ui, background, idle_queue>>

\* The capture reader thread, at any moment.
RecordOutput(chunk) ==
  /\ TranscriptAppend(chunk)
  /\ UNCHANGED <<session, composing, ui, background, idle_queue>>

----------------------------------------------------------------------------

MainThread ==
  \/ Submit \/ FirstCompaction \/ CompactAgain \/ Reject
  \/ AppendStreamDelta \/ IgnoreFinish \/ FinishResponse \/ FinishError

User == Send \/ CancelRequest \/ \E word \in Words : RemoveSelectedFromContext(word)

Next ==
  \/ MainThread
  \/ User
  \/ \E r \in Requests : ChunkArrives(r) \/ StreamEnds(r)
  \/ \E chunk \in Chunks : RecordOutput(chunk)

\* The main loop runs a handler to its end and then the next idle callback.
Fairness == WF_vars(MainThread)

Spec == Init /\ [][Next]_vars /\ Fairness

----------------------------------------------------------------------------

\* Each variable has its type; in particular cancel_event is a submitted request
\* or None, and only events of submitted requests are set.
TypeOK ==
  /\ fragments \in Text /\ next_sequence \in Nat
  /\ acknowledged_sequence \in Nat /\ transcript_start_sequence \in Nat
  /\ pending_slice \in Slice \cup {None}
  /\ pending_user_message \in Message \cup {None}
  /\ history \in Seq(Message)
  /\ compaction_passes \in Nat
  /\ composing \in BOOLEAN /\ sensitive \in BOOLEAN
  /\ request_id \in 0..MaxRequests
  /\ cancel_event \in Requests \cup {None}
  /\ cancelled \subseteq Requests /\ streaming \subseteq Requests
  /\ received \in [Requests -> 0..MaxFragments]
  /\ idle_queue \in Seq(Callback)
  /\ stream \in Seq(Said) \cup {None}

----------------------------------------------------------------------------
(* What the window promises.                                               *)

InOrderOnce(messages) ==
  \A i, j \in DOMAIN messages : i < j =>
    \A p \in messages[i].context, q \in messages[j].context : p.seq < q.seq

\* No fragment of terminal output stands twice in a request: the messages of
\* the conversation and the new turn have disjoint contexts, each newer than
\* the ones before it (TerminalEvent: "included in model context once").
AtMostOnce ==
  /\ InOrderOnce(history)
  /\ composing => InOrderOnce(Request)
  /\ pending_user_message # None => InOrderOnce(history \o <<pending_user_message>>)

\* Why AtMostOnce holds.  What the conversation holds is older than the cursor
\* and than the end of the request; what the request holds is at or past the
\* cursor.  The end may well be BEHIND the cursor: output captured during the
\* preparation of a request makes compaction move the cursor past it.
DeliveryInv ==
  /\ transcript_start_sequence <= next_sequence
  /\ acknowledged_sequence <= next_sequence
  /\ InOrderOnce(history)
  /\ \A i \in DOMAIN history : \A p \in history[i].context :
       /\ p.seq < acknowledged_sequence
       /\ pending_slice # None => p.seq < pending_slice.end
  /\ pending_slice # None =>
       /\ pending_slice.end <= next_sequence
       /\ \A p \in pending_slice.text :
            acknowledged_sequence <= p.seq /\ p.seq < pending_slice.end
  /\ pending_user_message # None =>
       /\ pending_slice # None
       /\ \A p \in pending_user_message.context :
            acknowledged_sequence <= p.seq /\ p.seq < pending_slice.end

\* The conversation is a list of whole turns: each answer follows the question
\* it was given to, has all its fragments in order, and no cancelled request
\* is in it ("complete (user, assistant) pairs", ContextSession).
TurnsAreWhole ==
  /\ Len(history) % 2 = 0
  /\ \A i \in DOMAIN history :
       IF i % 2 = 1
       THEN /\ history[i].role = "user"
            /\ history[i].text[1].request \notin cancelled
       ELSE /\ history[i].role = "assistant"
            /\ history[i].text = Answer(history[i-1].text[1].request, Len(history[i].text))

\* Between handlers the widgets, the session and the cancel event agree on
\* whether a request is in flight, and on which one it is.
InFlightAgrees ==
  ~composing =>
    /\ sensitive = (cancel_event = None)
    /\ (pending_slice = None) = (cancel_event = None)
    /\ (pending_user_message = None) = (cancel_event = None)
    /\ (stream = None) = (cancel_event = None)
    /\ cancel_event # None =>
         /\ cancel_event = request_id /\ cancel_event \notin cancelled
         /\ pending_user_message.text[1].request = cancel_event

\* The temporary response label holds the first fragments of the answer to the
\* request in flight, in order, and the queued callbacks complete it to all
\* that its thread has read.
StreamIsLive ==
  stream # None =>
    LET mine == {k \in DOMAIN idle_queue :
                   idle_queue[k].request = request_id /\ idle_queue[k].kind = "delta"}
    IN  /\ stream = Answer(request_id, Len(stream))
        /\ Len(stream) <= received[request_id]
        /\ {idle_queue[k].n : k \in mine} = (Len(stream) + 1)..received[request_id]
        /\ \A j, k \in mine : j < k => idle_queue[j].n < idle_queue[k].n

\* The end of the pending slice is settled by its snapshot: neither output
\* captured later nor a compaction moves it.
BoundaryIsSettled ==
  [][pending_slice # None /\ pending_slice' # None =>
       pending_slice'.end = pending_slice.end]_vars

\* Preparing a request ends: it is submitted or given up, however often
\* compaction runs and whatever is captured meanwhile.
SendEnds == composing ~> ~composing

\* When the answer of the request in flight has come to its end, the window
\* gets ready for the next question.
FinishArrives ==
  \A r \in Requests :
    (cancel_event = r /\ r \notin streaming) ~> cancel_event # r

====
