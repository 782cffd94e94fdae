---- MODULE Conversation ----
(***************************************************************************)
(* What a user of TroubleShell may rely on, without requests in flight,    *)
(* threads, cancellation or compaction passes: terminal events are         *)
(* captured one after the other, and the conversation grows by whole       *)
(* turns, each carrying events that no earlier turn carried.  A request    *)
(* that fails leaves no trace.                                             *)
(***************************************************************************)
EXTENDS Integers, Sequences

VARIABLES captured, messages

Init ==
  /\ captured = 0
  /\ messages = <<>>

Capture ==
  /\ captured' = captured + 1
  /\ UNCHANGED messages

Delivered == UNION {messages[i].context : i \in DOMAIN messages}

Turn ==
  LET n == Len(messages)
      user == messages'[n + 1]
      assistant == messages'[n + 2]
  IN  /\ Len(messages') = n + 2
      /\ messages' = messages \o <<user, assistant>>
      /\ user.role = "user" /\ assistant.role = "assistant"
      /\ assistant.context = {}
      /\ \A p \in user.context :
           p.seq < captured /\ \A q \in Delivered : q.seq < p.seq
      /\ \A i \in DOMAIN assistant.text : assistant.text[i].request = user.text[1].request
      /\ \A i \in DOMAIN messages : messages[i].text # user.text
      /\ UNCHANGED captured

\* Compaction and redaction take terminal text out of earlier turns.
Withdraw ==
  /\ DOMAIN messages' = DOMAIN messages
  /\ \A i \in DOMAIN messages :
       /\ messages'[i].role = messages[i].role
       /\ messages'[i].text = messages[i].text
       /\ messages'[i].context \subseteq messages[i].context
  /\ UNCHANGED captured

Next == Capture \/ Turn \/ Withdraw

Spec == Init /\ [][Next]_<<captured, messages>>

====
