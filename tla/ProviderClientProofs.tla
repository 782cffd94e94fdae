---- MODULE ProviderClientProofs ----
(***************************************************************************)
(* For all bounds and texts: the provider client implements what           *)
(* TroubleWindow lets an answer do, so all that is proved of TroubleWindow *)
(* holds with it; and what is committed is what the provider said.         *)
(***************************************************************************)
EXTENDS ProviderClient, TroubleWindowProofs

----------------------------------------------------------------------------
(* Step simulation.                                                        *)

\* Whatever the client reads or raises is a chunk, an end or nothing to the window.
LEMMA ClientSteps ==
  ASSUME NEW r \in Requests, ClientThread(r) \/ Fail(r)
  PROVE  ChunkArrives(r) \/ StreamEnds(r) \/ UNCHANGED vars
<1>1. CASE ReadContent(r)
  BY <1>1 DEF ReadContent
<1>2. CASE ReadEnd(r) \/ ReadAside(r)
  BY <1>2 DEF ReadEnd, ReadAside, StreamEnds
<1>3. CASE Raise(r)
  BY <1>3 DEF Raise, StreamEnds
<1>4. CASE SkipNoise(r)
  BY <1>4 DEF SkipNoise
<1>. QED
  BY <1>1, <1>2, <1>3, <1>4 DEF ClientThread, CutBody, TimesOut, Fail

\* What the network and the provider do is no step of the window.
LEMMA NetworkStutters ==
  ASSUME NEW r \in Requests,
         \/ Connected(r) \/ Respond(r)
         \/ ProviderSays(r) \/ ProviderMurmurs(r) \/ ProviderEnds(r)
  PROVE  UNCHANGED vars
BY DEF Connected, Respond, Advance, ProviderSays, ProviderMurmurs, ProviderEnds

\* A step of the composition is a step of the window or none.
LEMMA WindowStep == [CNext]_cvars => [Next]_vars
<1>. SUFFICES ASSUME [CNext]_cvars PROVE [Next]_vars
  OBVIOUS
<1>1. ASSUME NEW r \in Requests,
             \/ Connected(r) \/ Respond(r)
             \/ ProviderSays(r) \/ ProviderMurmurs(r) \/ ProviderEnds(r)
             \/ ClientThread(r) \/ Fail(r)
      PROVE  [Next]_vars
  BY <1>1, ClientSteps, NetworkStutters DEF Next
<1>2. CASE UNCHANGED cvars
  BY <1>2 DEF cvars
<1>. QED
  BY <1>1, <1>2 DEF CNext, Next

\* The window with its provider client implements the window that takes any
\* chunk, end or error at any moment (stream() under _stream_completion).
THEOREM ClientImplementsWindow == CSpec => ImplementsWindow
<1>1. CInit => Init
  BY DEF CInit
<1>. QED
  BY <1>1, WindowStep, PTL DEF CSpec, ImplementsWindow, Spec

----------------------------------------------------------------------------
(* What has been read has been said.                                       *)

ClientInv == TypeInv /\ CTypeOK

\* The client starts in its invariant,
LEMMA ClientInit == CInit => ClientInv
<1>. SUFFICES ASSUME CInit PROVE ClientInv
  OBVIOUS
<1>1. Init /\ received = [r \in Requests |-> 0]
  BY DEF CInit, Init
<1>. QED
  BY <1>1, TypeInit, WindowAssumption DEF CInit, ClientInv, CTypeOK

\* What a step does to the client: an answer that has been closed says no more.
ClientMoves ==
  /\ \A r \in Requests : closing[r] # "open" => closing'[r] = closing[r] /\ said'[r] = said[r]
  /\ \A r \in Requests : phase[r] = "events" => phase'[r] = "events"

\* and each of its steps keeps it and moves the client only so.
LEMMA ClientNext == ClientInv /\ [CNext]_cvars => ClientInv' /\ ClientMoves
<1>. SUFFICES ASSUME ClientInv, [CNext]_cvars PROVE ClientInv' /\ ClientMoves
  OBVIOUS
<1>0. TypeInv' /\ received \in [Requests -> 0..MaxFragments] /\ MaxFragments \in Nat
  BY WindowStep, TypeNext, WindowAssumption DEF ClientInv, TypeInv, TypeOK
<1>. USE DEF ClientInv
<1>1. CASE UNCHANGED <<client, received>>
  BY <1>0, <1>1 DEF client, CTypeOK, ClientMoves
<1>2. ASSUME NEW r \in Requests, Connected(r) \/ Respond(r) PROVE ClientInv' /\ ClientMoves
  <2>1. PICK from \in {"connect", "headers"}, to \in {"headers", "events", "body"} :
          Advance(r, from, to)
    BY <1>2 DEF Connected, Respond
  <2>2. /\ phase' = [phase EXCEPT ![r] = to] /\ phase[r] # "events"
        /\ UNCHANGED <<timeout, said, closing, noise, received>>
    BY <2>1 DEF Advance, vars, background
  <2>. QED
    BY <1>0, <2>2 DEF CTypeOK, ClientMoves
<1>3. ASSUME NEW r \in Requests, ProviderSays(r) PROVE ClientInv' /\ ClientMoves
  <2>1. /\ said' = [said EXCEPT ![r] = @ + 1] /\ said[r] < MaxFragments /\ closing[r] = "open"
        /\ UNCHANGED <<timeout, phase, closing, noise, received>>
    BY <1>3 DEF ProviderSays, Answering, vars, background
  <2>2. said' \in [Requests -> 0..MaxFragments] /\ \A s \in Requests : said[s] <= said'[s]
    BY <1>0, <2>1 DEF CTypeOK
  <2>. QED
    BY <1>0, <2>1, <2>2 DEF CTypeOK, ClientMoves
<1>4. ASSUME NEW r \in Requests, ProviderEnds(r) PROVE ClientInv' /\ ClientMoves
  <2>1. PICK how \in {"done", "cut"} : closing' = [closing EXCEPT ![r] = how]
    BY <1>4 DEF ProviderEnds
  <2>2. closing[r] = "open" /\ UNCHANGED <<timeout, phase, said, noise, received>>
    BY <1>4 DEF ProviderEnds, Answering, vars, background
  <2>. QED
    BY <1>0, <2>1, <2>2 DEF CTypeOK, ClientMoves
<1>5. ASSUME NEW r \in Requests, ReadContent(r) PROVE ClientInv' /\ ClientMoves
  <2>1. /\ received[r] < said[r] /\ UNCHANGED client
        /\ \A s \in Requests : received'[s] = received[s] \/ (s = r /\ received'[s] = received[r] + 1)
    BY <1>0, <1>5 DEF ReadContent, ChunkArrives
  <2>. QED
    BY <1>0, <2>1 DEF CTypeOK, ClientMoves, client
<1>6. ASSUME NEW r \in Requests, ReadEnd(r) \/ ReadAside(r) \/ Raise(r)
      PROVE  ClientInv' /\ ClientMoves
  BY <1>1, <1>6 DEF ReadEnd, ReadAside, Raise
<1>7. CASE MainThread /\ UNCHANGED client
  BY <1>1, <1>7 DEF MainThread, Submit, FirstCompaction, CompactAgain, Reject, AppendStreamDelta,
                    IgnoreFinish, FinishResponse, FinishError, background
<1>8. CASE User /\ UNCHANGED client
  BY <1>1, <1>8 DEF User, Send, CancelRequest, RemoveSelectedFromContext, background
<1>9. ASSUME NEW chunk \in Chunks, RecordOutput(chunk), UNCHANGED client
      PROVE  ClientInv' /\ ClientMoves
  BY <1>1, <1>9 DEF RecordOutput, background
<1>10. ASSUME NEW r \in Requests, ProviderMurmurs(r) \/ SkipNoise(r)
       PROVE  ClientInv' /\ ClientMoves
  <2>1. /\ noise' \in {noise \cup {r}, noise \ {r}}
        /\ UNCHANGED <<timeout, phase, said, closing, received>>
    BY <1>10 DEF ProviderMurmurs, SkipNoise, vars, background
  <2>. QED
    BY <1>0, <2>1 DEF CTypeOK, ClientMoves
<1>11. CASE UNCHANGED cvars
  BY <1>1, <1>11 DEF cvars, vars, background
<1>. QED
  BY <1>2, <1>3, <1>4, <1>5, <1>6, <1>7, <1>8, <1>9, <1>10, <1>11
  DEF CNext, ClientThread, CutBody, TimesOut, Fail

\* The client's variables keep their types, and no thread collects a fragment
\* that its provider has not sent.
THEOREM ClientTypeCorrect == CSpec => []CTypeOK
<1>1. ClientInv => CTypeOK
  BY DEF ClientInv
<1>. QED
  BY ClientInit, ClientNext, <1>1, PTL DEF CSpec

----------------------------------------------------------------------------
(* What is committed is all that was said.  It holds of a callback from    *)
(* the moment it is queued, if its request has not been cancelled.         *)

Full(r, n) ==
  /\ n = said[r]
  /\ closing[r] = "done" \/ (closing[r] = "cut" /\ phase[r] = "events")

QueueInFull ==
  \A k \in DOMAIN idle_queue :
    idle_queue[k].kind = "response" /\ idle_queue[k].request \notin cancelled
      => Full(idle_queue[k].request, idle_queue[k].n)

TurnsInFull ==
  \A i \in 1..Len(history) :
    i % 2 = 1 => Full(history[i].text[1].request, Len(history[i + 1].text))

\* All that holds of a state of the composition.
WholeInv ==
  /\ ClientInv /\ PhaseInv /\ FinishInv /\ TurnsInv
  /\ QueueInFull /\ TurnsInFull

\* An answer that is full stays so: nothing is said after the end.
LEMMA FullStays ==
  ASSUME ClientMoves, NEW r \in Requests, NEW n, Full(r, n)
  PROVE  Full(r, n)'
BY DEF ClientMoves, Full

\* The client queues an answer of a request that was not cancelled only when
\* all of it was read.
LEMMA QueueNext == WholeInv /\ ClientMoves /\ [CNext]_cvars => QueueInFull'
<1>. SUFFICES ASSUME WholeInv, ClientMoves, [CNext]_cvars PROVE QueueInFull'
  OBVIOUS
<1>0. /\ TypeInv /\ PhaseInv /\ TypeOK /\ QueueInFull /\ CTypeOK
      /\ \A k \in DOMAIN idle_queue : idle_queue[k].request \in Requests
  <2>1. TypeInv /\ PhaseInv /\ TypeOK /\ QueueInFull /\ CTypeOK
    BY DEF WholeInv, ClientInv, TypeInv
  <2>2. \A k \in DOMAIN idle_queue : idle_queue[k] \in Callback
    BY <2>1 DEF TypeOK
  <2>. QED
    BY <2>1, <2>2 DEF Callback
<1>1. cancelled \subseteq cancelled'
  <2>1. CASE UNCHANGED cancelled
    BY <2>1
  <2>2. CASE CancelRequest
    BY <2>2 DEF CancelRequest
  <2>3. ASSUME NEW r \in Requests, ChunkArrives(r) \/ StreamEnds(r) PROVE UNCHANGED cancelled
    BY <2>3 DEF ChunkArrives, StreamEnds, ui
  <2>4. ASSUME NEW word \in Words, RemoveSelectedFromContext(word) PROVE UNCHANGED cancelled
    BY <2>4 DEF RemoveSelectedFromContext, ui
  <2>5. ASSUME NEW chunk \in Chunks, RecordOutput(chunk) PROVE UNCHANGED cancelled
    BY <2>5 DEF RecordOutput, ui
  <2>6. CASE \/ MainThread \/ Send \/ UNCHANGED vars
    BY <2>6 DEF MainThread, Submit, FirstCompaction, CompactAgain, Reject, AppendStreamDelta,
                IgnoreFinish, FinishResponse, FinishError, Send, vars, ui
  <2>. QED
    BY <2>1, <2>2, <2>3, <2>4, <2>5, <2>6, WindowStep DEF Next, User
<1>2. ASSUME NEW k \in DOMAIN idle_queue,
             idle_queue[k].kind = "response", idle_queue[k].request \notin cancelled'
      PROVE  Full(idle_queue[k].request, idle_queue[k].n)
  BY <1>0, <1>1, <1>2 DEF QueueInFull
<1>3. CASE UNCHANGED idle_queue
  <2>1. ASSUME NEW k \in DOMAIN idle_queue,
               idle_queue[k].kind = "response", idle_queue[k].request \notin cancelled'
        PROVE  \A r, n : r = idle_queue[k].request /\ n = idle_queue[k].n => Full(r, n)'
    BY <1>0, <1>2, <2>1, FullStays
  <2>. QED
    BY <1>3, <2>1 DEF QueueInFull
<1>4. ASSUME NEW kind, TakeCallback(kind) PROVE QueueInFull'
  <2>1. ASSUME NEW k \in DOMAIN idle_queue'
        PROVE  k + 1 \in DOMAIN idle_queue /\ idle_queue'[k] = idle_queue[k + 1]
    BY <1>0, <1>4, <2>1, QueueShrinks
  <2>2. ASSUME NEW k \in DOMAIN idle_queue', NEW r, NEW n,
               idle_queue'[k].kind = "response", idle_queue'[k].request \notin cancelled',
               r = idle_queue'[k].request, n = idle_queue'[k].n
        PROVE  Full(r, n)'
    <3>1. r \in Requests /\ Full(r, n)
      BY <1>0, <1>2, <2>1, <2>2
    <3>. QED
      BY <3>1, FullStays
  <2>. QED
    BY <2>2 DEF QueueInFull
<1>5. ASSUME NEW r \in Requests, NEW kind \in {"delta", "response", "error"}, NEW n \in Nat,
             IdleAdd(kind, r, n), kind = "response" /\ r \notin cancelled => Full(r, n)
      PROVE  QueueInFull'
  <2>1. PICK last : last = Len(idle_queue) + 1
    OBVIOUS
  <2>2. /\ \A k \in DOMAIN idle_queue' : k = last \/ k \in DOMAIN idle_queue
        /\ \A k \in DOMAIN idle_queue : idle_queue'[k] = idle_queue[k]
        /\ idle_queue'[last] = [kind |-> kind, request |-> r, n |-> n]
    BY <1>0, <1>5, <2>1, QueueGrows
  <2>3. ASSUME NEW k \in DOMAIN idle_queue', NEW s, NEW m,
               idle_queue'[k].kind = "response", idle_queue'[k].request \notin cancelled',
               s = idle_queue'[k].request, m = idle_queue'[k].n
        PROVE  Full(s, m)'
    <3>1. s \in Requests /\ Full(s, m)
      <4>1. CASE k = last
        BY <1>1, <1>5, <2>2, <2>3, <4>1
      <4>2. CASE k \in DOMAIN idle_queue
        BY <1>0, <1>2, <2>2, <2>3, <4>2
      <4>. QED
        BY <2>2, <4>1, <4>2
    <3>. QED
      BY <3>1, FullStays
  <2>. QED
    BY <2>3 DEF QueueInFull
<1>6. \A r \in Requests : received[r] \in Nat
  BY <1>0, WindowAssumption DEF TypeOK
<1>7. ASSUME NEW r \in Requests, ReadContent(r) PROVE QueueInFull'
  <2>1. CASE r \in cancelled
    BY <1>5, <1>6, <1>7, <2>1 DEF ReadContent, ChunkArrives
  <2>2. CASE r \notin cancelled
    <3>1. received'[r] \in Nat /\ IdleAdd("delta", r, received'[r])
      BY <1>0, <1>6, <1>7, <2>2 DEF ReadContent, ChunkArrives, TypeOK
    <3>. QED
      BY <1>5, <3>1
  <2>. QED
    BY <2>1, <2>2
<1>8. ASSUME NEW r \in Requests, ReadEnd(r) PROVE QueueInFull'
  <2>1. closing[r] \in {"done", "cut"}
    BY <1>0, <1>8 DEF ReadEnd, CTypeOK
  <2>2. Full(r, received[r]) /\ IdleAdd("response", r, received[r])
    BY <1>8, <2>1 DEF ReadEnd, Readable, Full
  <2>. QED
    BY <1>5, <1>6, <2>2
<1>9. ASSUME NEW r \in Requests, ReadAside(r) PROVE QueueInFull'
  BY <1>5, <1>6, <1>9 DEF ReadAside
<1>10. ASSUME NEW r \in Requests, Raise(r) PROVE QueueInFull'
  BY <1>5, <1>10 DEF Raise
<1>11. CASE MainThread
  BY <1>3, <1>4, <1>11 DEF MainThread, Submit, FirstCompaction, CompactAgain, Reject,
                           AppendStreamDelta, IgnoreFinish, FinishResponse, FinishError
<1>12. CASE User
  BY <1>3, <1>12 DEF User, Send, CancelRequest, RemoveSelectedFromContext
<1>13. ASSUME NEW chunk \in Chunks, RecordOutput(chunk) PROVE QueueInFull'
  BY <1>3, <1>13 DEF RecordOutput
<1>14. ASSUME NEW r \in Requests,
              \/ Connected(r) \/ Respond(r)
              \/ ProviderSays(r) \/ ProviderMurmurs(r) \/ ProviderEnds(r)
       PROVE  QueueInFull'
  BY <1>3, <1>14, NetworkStutters DEF vars
<1>15. ASSUME NEW r \in Requests, SkipNoise(r) PROVE QueueInFull'
  BY <1>3, <1>15 DEF SkipNoise, vars
<1>16. CASE UNCHANGED cvars
  BY <1>3, <1>16 DEF cvars, vars
<1>. QED
  BY <1>7, <1>8, <1>9, <1>10, <1>11, <1>12, <1>13, <1>14, <1>15, <1>16
  DEF CNext, ClientThread, CutBody, TimesOut, Fail

\* A turn is committed in full and stays so.
LEMMA TurnsFullNext == WholeInv /\ ClientMoves /\ [Next]_vars => TurnsInFull'
<1>. SUFFICES ASSUME WholeInv, ClientMoves, [Next]_vars PROVE TurnsInFull'
  OBVIOUS
<1>1. /\ TypeInv /\ PhaseInv /\ FinishInv /\ Len(history) \in Nat /\ Len(history) % 2 = 0
      /\ request_id \in 0..MaxRequests /\ MaxRequests \in Nat
  BY HistoryDomain, WindowAssumption DEF WholeInv, ClientInv, TypeInv, TypeOK, TurnsInv
<1>2. ASSUME NEW i \in 1..Len(history), i % 2 = 1, NEW r, NEW n,
             r = history[i].text[1].request, n = Len(history[i + 1].text)
      PROVE  i + 1 \in 1..Len(history) /\ Full(r, n)'
  <2>1. i + 1 \in 1..Len(history)
    BY <1>1, <1>2
  <2>2. r \in Requests /\ Full(r, n)
    BY <1>1, <1>2 DEF WholeInv, TurnsInv, TurnAt, TurnsInFull, Requests
  <2>. QED
    BY <2>1, <2>2, FullStays
<1>3. CASE ~FinishResponse
  <2>1. SameTurns
    BY <1>1, <1>3, StepKeepsTurns
  <2>2. ASSUME NEW i \in 1..Len(history'), i % 2 = 1, NEW r, NEW n,
               r = history'[i].text[1].request, n = Len(history'[i + 1].text)
        PROVE  Full(r, n)'
    <3>1. i \in 1..Len(history) /\ i + 1 \in 1..Len(history)
      BY <1>1, <2>1, <2>2 DEF SameTurns
    <3>. QED
      BY <1>2, <2>1, <2>2, <3>1 DEF SameTurns
  <2>. QED
    BY <2>2 DEF TurnsInFull
<1>4. CASE FinishResponse
  <2>1. /\ Len(history') = Len(history) + 2
        /\ \A i \in 1..Len(history) : history'[i] = history[i]
        /\ history'[Len(history) + 1] = pending_user_message
        /\ history'[Len(history) + 2].text = Answer(request_id, idle_queue[1].n)
    BY <1>1, <1>4, CommitTurn
  <2>2. /\ pending_user_message.text[1].request = request_id
        /\ 1 \in DOMAIN idle_queue /\ idle_queue[1].kind = "response"
        /\ idle_queue[1].request = request_id /\ request_id \notin cancelled
        /\ request_id \in Requests /\ idle_queue[1].n \in Nat
    BY <1>1, <1>4, CommitInFlight DEF InFlight
  <2>3. Full(request_id, idle_queue[1].n) /\ Len(Answer(request_id, idle_queue[1].n)) = idle_queue[1].n
    BY <2>2, AnswerLen DEF WholeInv, QueueInFull
  <2>4. ASSUME NEW i \in 1..Len(history'), i % 2 = 1, NEW r, NEW n,
               r = history'[i].text[1].request, n = Len(history'[i + 1].text)
        PROVE  Full(r, n)'
    <3>1. CASE i \in 1..Len(history)
      <4>1. i + 1 \in 1..Len(history)
        BY <1>1, <2>4, <3>1
      <4>. QED
        BY <1>2, <2>1, <2>4, <3>1, <4>1
    <3>2. CASE i = Len(history) + 1
      <4>1. r = request_id /\ n = idle_queue[1].n
        BY <1>1, <2>1, <2>2, <2>3, <2>4, <3>2
      <4>. QED
        BY <2>2, <2>3, <4>1, FullStays
    <3>3. i \in 1..Len(history) + 2 /\ i # Len(history) + 2
      BY <1>1, <2>1, <2>4
    <3>. QED
      BY <1>1, <3>1, <3>2, <3>3
  <2>. QED
    BY <2>4 DEF TurnsInFull
<1>. QED
  BY <1>3, <1>4

\* Every committed answer is all that the provider had said when the connection
\* ended, and no body that was cut is among them (stream(), commit_on_success).
THEOREM AnswersAreComplete == CSpec => []CommittedInFull
<1>1. CInit => WholeInv
  <2>1. CInit => Init /\ Len(history) = 0 /\ idle_queue = <<>>
    BY DEF CInit, Init, SessionInit
  <2>. QED
    BY <2>1, ClientInit, PhaseInit, FinishInit, TurnsInit DEF WholeInv, QueueInFull, TurnsInFull
<1>2. WholeInv /\ [CNext]_cvars => WholeInv'
  <2>1. ClientInv /\ [CNext]_cvars => TypeInv /\ ClientInv' /\ ClientMoves /\ [Next]_vars
    BY ClientNext, WindowStep DEF ClientInv
  <2>. QED
    BY <2>1, PhaseNext, FinishNext, TurnsNext, QueueNext, TurnsFullNext DEF WholeInv
<1>3. WholeInv => CommittedInFull
  <2>. SUFFICES ASSUME WholeInv, NEW i \in Committed
                PROVE  Full(Asked(i), Len(history[i].text))
    BY DEF CommittedInFull, Full
  <2>1. /\ i \in 1..Len(history) /\ history[i].role = "assistant"
        /\ Len(history) \in Nat /\ TurnsInv /\ TurnsInFull
    BY HistoryDomain DEF WholeInv, ClientInv, TypeInv, Committed
  <2>2. i % 2 # 1
    BY <2>1 DEF TurnsInv, TurnAt
  <2>3. i - 1 \in 1..Len(history) /\ (i - 1) % 2 = 1
    BY <2>1, <2>2
  <2>4. PICK j : j = i - 1
    OBVIOUS
  <2>5. j + 1 = i /\ Full(history[j].text[1].request, Len(history[j + 1].text))
    BY <2>1, <2>3, <2>4 DEF TurnsInFull
  <2>. QED
    BY <2>4, <2>5 DEF Asked
<1>. QED
  BY <1>1, <1>2, <1>3, PTL DEF CSpec

====
