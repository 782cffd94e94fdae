---- MODULE ProviderClient ----
(***************************************************************************)
(* llm/openai_compatible.py under the background thread of TroubleWindow:  *)
(* how a request is connected, answered as server-sent events or as one    *)
(* body, cut off, refused or timed out.  An exception of stream() becomes  *)
(* an error callback whatever its type.                                    *)
(*                                                                         *)
(* What adds nothing to the answer still keeps it alive: a comment, an     *)
(* empty line or JSON that is no object sends the loop round before the    *)
(* window is asked whether the request was cancelled; at an aside, which   *)
(* is reasoning or usage, a cancelled request ends.                        *)
(***************************************************************************)
EXTENDS TroubleWindow

VARIABLES
  timeout,  \* request_timeout is a number of seconds
  phase,    \* per request: "connect", "headers", then "events" or "body"
  said,     \* fragments the provider has sent in answer to a request
  closing,  \* "open" while the provider has more to say, then "done" or "cut"
  noise     \* requests for which something else has arrived and is unread

client == <<timeout, phase, said, closing, noise>>
cvars == <<vars, client>>

CInit ==
  /\ Init
  /\ timeout \in BOOLEAN
  /\ phase = [r \in Requests |-> "connect"]
  /\ said = [r \in Requests |-> 0]
  /\ closing = [r \in Requests |-> "open"]
  /\ noise = {}

----------------------------------------------------------------------------
(* The network and the provider.                                           *)

Advance(r, from, to) ==
  /\ r \in streaming
  /\ phase[r] = from
  /\ phase' = [phase EXCEPT ![r] = to]
  /\ UNCHANGED <<vars, timeout, said, closing, noise>>

Connected(r) == Advance(r, "connect", "headers")

\* raise_for_status has passed; the content type decides how to read on.
Respond(r) == Advance(r, "headers", "events") \/ Advance(r, "headers", "body")

Answering(r) == r \in streaming /\ phase[r] \in {"events", "body"} /\ closing[r] = "open"

\* A body holds the answer in one piece.
ProviderSays(r) ==
  /\ Answering(r)
  /\ said[r] < MaxFragments
  /\ phase[r] = "body" => said[r] = 0
  /\ said' = [said EXCEPT ![r] = @ + 1]
  /\ UNCHANGED <<vars, timeout, phase, closing, noise>>

\* [DONE] or the end of the body; or the connection is closed before it.
ProviderEnds(r) ==
  /\ Answering(r)
  /\ \E how \in {"done", "cut"} : closing' = [closing EXCEPT ![r] = how]
  /\ UNCHANGED <<vars, timeout, phase, said, noise>>

\* As often as it likes: another line of the stream, more headers, more of a body.
ProviderMurmurs(r) ==
  /\ r \in streaming \ noise
  /\ phase[r] # "connect" /\ closing[r] = "open"
  /\ noise' = noise \cup {r}
  /\ UNCHANGED <<vars, timeout, phase, said, closing>>

----------------------------------------------------------------------------
(* stream().  A body is read to its end before it is parsed.               *)

Readable(r) ==
  \/ phase[r] = "events"
  \/ phase[r] = "body" /\ closing[r] = "done"

\* Mutant: a fragment is taken before it has arrived.
ReadContent_Ahead(r) == Readable(r) /\ ChunkArrives(r) /\ UNCHANGED client

ReadContent(r) ==
  /\ Readable(r)
  /\ received[r] < said[r]
  /\ ChunkArrives(r)
  /\ UNCHANGED client

\* A comment sends the loop round, and so does an aside that finds the request
\* not cancelled.
SkipNoise(r) ==
  /\ r \in streaming \cap noise
  /\ noise' = noise \ {r}
  /\ UNCHANGED <<vars, timeout, phase, said, closing>>

\* An aside, if that is what has arrived, ends a cancelled request.
ReadAside(r) ==
  /\ r \in streaming \cap cancelled \cap noise
  /\ phase[r] = "events"
  /\ streaming' = streaming \ {r}
  /\ IdleAdd("response", r, received[r])
  /\ UNCHANGED <<store, session, composing, ui, received, client>>

\* Mutant: the end is taken for the end of the answer with fragments unread.
ReadEnd_Early(r) ==
  /\ r \in streaming
  /\ Readable(r)
  /\ closing[r] # "open"
  /\ streaming' = streaming \ {r}
  /\ IdleAdd("response", r, received[r])
  /\ UNCHANGED <<store, session, composing, ui, received, client>>

\* A stream of events that just ends is an answer like one that says [DONE].
ReadEnd(r) ==
  /\ r \in streaming
  /\ Readable(r)
  /\ received[r] = said[r] /\ r \notin noise
  /\ closing[r] # "open"
  /\ streaming' = streaming \ {r}
  /\ IdleAdd("response", r, received[r])
  /\ UNCHANGED <<store, session, composing, ui, received, client>>

\* Mutants: the thread dies without a callback; it goes on after one.
Raise_Silently(r) ==
  /\ r \in streaming
  /\ streaming' = streaming \ {r}
  /\ UNCHANGED <<store, session, composing, ui, received, idle_queue, client>>

Raise_GoesOn(r) ==
  /\ r \in streaming
  /\ IdleAdd("error", r, 0)
  /\ UNCHANGED <<store, session, composing, ui, background, client>>

Raise(r) ==
  /\ r \in streaming
  /\ streaming' = streaming \ {r}
  /\ IdleAdd("error", r, 0)
  /\ UNCHANGED <<store, session, composing, ui, received, client>>

\* Refused or broken connections, error statuses, events that are not JSON and
\* bodies without an answer, at any moment.
Fail(r) == Raise(r)

\* Mutant: the timeout covers the connection and the first answer only.
Silent_Early(r) == phase[r] \in {"connect", "headers"}

\* Nothing arrives for the whole timeout, which starts again with every read.
Silent(r) ==
  /\ r \notin noise
  /\ \/ phase[r] \in {"connect", "headers"}
     \/ closing[r] = "open" /\ (phase[r] = "events" => received[r] = said[r])

TimesOut(r) == timeout /\ Silent(r) /\ Raise(r)

CutBody(r) == phase[r] = "body" /\ closing[r] = "cut" /\ Raise(r)

ClientThread(r) ==
  \/ ReadContent(r) \/ SkipNoise(r) \/ ReadAside(r)
  \/ ReadEnd(r) \/ CutBody(r) \/ TimesOut(r)

----------------------------------------------------------------------------

CNext ==
  \/ (MainThread \/ User) /\ UNCHANGED client
  \/ (\E chunk \in Chunks : RecordOutput(chunk)) /\ UNCHANGED client
  \/ \E r \in Requests :
       \/ Connected(r) \/ Respond(r)
       \/ ProviderSays(r) \/ ProviderMurmurs(r) \/ ProviderEnds(r)
       \/ ClientThread(r) \/ Fail(r)

\* A background thread reads what has arrived, and its timer runs.
CSpec ==
  /\ CInit /\ [][CNext]_cvars /\ Fairness
  /\ \A r \in Requests : WF_cvars(ClientThread(r))

----------------------------------------------------------------------------

\* Each variable has its type; the client never reads more than was said.
CTypeOK ==
  /\ timeout \in BOOLEAN
  /\ phase \in [Requests -> {"connect", "headers", "events", "body"}]
  /\ said \in [Requests -> 0..MaxFragments]
  /\ closing \in [Requests -> {"open", "done", "cut"}]
  /\ noise \subseteq Requests
  /\ \A r \in Requests : received[r] <= said[r]

\* The provider client does to the window what TroubleWindow lets an answer do:
\* all that is shown or proved of TroubleWindow holds with it.
ImplementsWindow == Spec

Committed == {i \in DOMAIN history : history[i].role = "assistant"}
Asked(i) == history[i - 1].text[1].request

\* A committed answer is all that the provider had said when the connection
\* ended, and what ended by being cut was a stream of events, never a body.
CommittedInFull ==
  \A i \in Committed :
    LET r == Asked(i)
    IN  /\ Len(history[i].text) = said[r]
        /\ closing[r] = "done" \/ (closing[r] = "cut" /\ phase[r] = "events")

\* Only a complete answer is committed ("acknowledge after a successful complete
\* response", terminal-context-blueprint.md).
CommittedComplete == \A i \in Committed : closing[Asked(i)] = "done"

\* From some time on nothing arrives but fragments of the answer, which
\* MaxFragments ends.
FallsSilent(r) == <>[](r \notin streaming \cap noise)

\* With a timeout a request ends, if the provider falls silent at last, and the
\* window can be used again.  If it never does, not even the timeout ends it: each
\* line that is skipped starts it again.
RequestEnds ==
  \A r \in Requests :
    FallsSilent(r) => ((timeout /\ cancel_event = r) ~> cancel_event # r)

\* So does the thread of a cancelled request ("may continue until its timeout",
\* README.md): the lines that are skipped never reach its cancel event.
CancelledEnds ==
  \A r \in Requests :
    FallsSilent(r) => ((timeout /\ r \in cancelled) ~> r \notin streaming)

====
