---- MODULE CaptureSocket ----
(***************************************************************************)
(* terminal/capture_protocol.py over the private seqpacket socket: packets *)
(* arrive whole and in order, output and barrier acknowledgements on one   *)
(* queue, barrier tokens on the other.                                     *)
(***************************************************************************)
EXTENDS Integers, Sequences, SequencesExt

VARIABLES
  to_parent,    \* packets the capture server has not received yet
  to_proxy,     \* barrier tokens the proxy has not received yet
  parent_open,  \* the server's end: listening or connected
  proxy_end     \* the proxy's: "absent" before it connects, "open", "closed"

socket == <<to_parent, to_proxy, parent_open, proxy_end>>

OutputPacket(chunk) == [kind |-> "output", id |-> chunk]
SyncAckPacket(token) == [kind |-> "sync-ack", id |-> token]

SocketInit ==
  /\ to_parent = <<>>
  /\ to_proxy = <<>>
  /\ parent_open = TRUE
  /\ proxy_end = "absent"

====
