---- MODULE CaptureServer ----
(***************************************************************************)
(* terminal/capture_server.py: the reader thread that records captured     *)
(* output, and the calls the GTK main thread makes.                        *)
(***************************************************************************)
EXTENDS CaptureSocket

CONSTANT MaxSyncs   \* bound: barriers the main thread asks for

ASSUME ServerAssumption == MaxSyncs \in Nat

VARIABLES
  state,         \* "starting", "connected", "closed", "failed"
  recorded,      \* chunks handed to the transcript store
  sync_waiters,  \* tokens of barriers nobody has answered
  woken,         \* tokens whose waiter has been set
  waiting,       \* the barrier the main thread waits for, 0 without one
  tokens         \* barriers asked for so far

server == <<state, recorded, sync_waiters, woken, waiting, tokens>>

ServerInit ==
  /\ state = "starting"
  /\ recorded = <<>>
  /\ sync_waiters = {}
  /\ woken = {}
  /\ waiting = 0
  /\ tokens = 0

----------------------------------------------------------------------------
(* _read_packets.                                                          *)

Accept ==
  /\ state = "starting"
  /\ proxy_end # "absent"
  /\ state' = "connected"
  /\ UNCHANGED <<recorded, sync_waiters, woken, waiting, tokens, socket>>

Receive(kind) ==
  /\ state = "connected"
  /\ to_parent # <<>>
  /\ Head(to_parent).kind = kind
  /\ to_parent' = Tail(to_parent)
  /\ UNCHANGED <<state, waiting, tokens, to_proxy, parent_open, proxy_end>>

\* Mutant: output is dropped while a barrier is outstanding.
RecordOutput_Drops ==
  /\ Receive("output")
  /\ recorded' = IF sync_waiters = {} THEN Append(recorded, Head(to_parent).id) ELSE recorded
  /\ UNCHANGED <<sync_waiters, woken>>

RecordOutput ==
  /\ Receive("output")
  /\ recorded' = Append(recorded, Head(to_parent).id)
  /\ UNCHANGED <<sync_waiters, woken>>

\* Mutant: any acknowledgement wakes whoever waits.
ReceiveAck_AnyToken ==
  /\ Receive("sync-ack")
  /\ woken' = woken \cup sync_waiters
  /\ sync_waiters' = {}
  /\ UNCHANGED recorded

\* The answer to a barrier that has given up finds no waiter.
ReceiveAck ==
  /\ Receive("sync-ack")
  /\ woken' = woken \cup ({Head(to_parent).id} \cap sync_waiters)
  /\ sync_waiters' = sync_waiters \ {Head(to_parent).id}
  /\ UNCHANGED recorded

ReleaseSyncWaiters ==
  /\ woken' = woken \cup sync_waiters
  /\ sync_waiters' = {}

\* The proxy has closed its end.  With tokens it never read, the kernel may
\* report a reset instead, and what it had sent is lost.
ConnectionEnds ==
  /\ state = "connected"
  /\ proxy_end = "closed"
  /\ \/ to_parent = <<>> /\ state' = "closed"
     \/ to_proxy # <<>> /\ state' = "failed"
  /\ ReleaseSyncWaiters
  /\ parent_open' = FALSE
  /\ UNCHANGED <<recorded, waiting, tokens, to_parent, to_proxy, proxy_end>>

ReadPackets == Accept \/ RecordOutput \/ ReceiveAck \/ ConnectionEnds

----------------------------------------------------------------------------
(* Calls of the main thread.  synchronize raises at once when there is no  *)
(* healthy connection to send on: no state changes then.                   *)

Synchronize ==
  /\ waiting = 0
  /\ tokens < MaxSyncs
  /\ state = "connected"
  /\ proxy_end = "open"
  /\ tokens' = tokens + 1
  /\ waiting' = tokens'
  /\ sync_waiters' = sync_waiters \cup {tokens'}
  /\ to_proxy' = Append(to_proxy, tokens')
  /\ UNCHANGED <<state, recorded, woken, to_parent, parent_open, proxy_end>>

EndWait ==
  /\ waiting' = 0
  /\ UNCHANGED <<state, recorded, woken, tokens, socket>>

\* synchronize returns: the waiter is set and the server is healthy.
Synchronized ==
  /\ waiting \in woken
  /\ state = "connected"
  /\ EndWait
  /\ UNCHANGED sync_waiters

\* synchronize raises.
SynchronizeFails ==
  /\ waiting # 0
  /\ waiting \notin woken \/ state # "connected"
  /\ EndWait
  /\ sync_waiters' = sync_waiters \ {waiting}

StopServer ==
  /\ waiting = 0
  /\ state' = IF state = "failed" THEN state ELSE "closed"
  /\ ReleaseSyncWaiters
  /\ parent_open' = FALSE
  /\ UNCHANGED <<recorded, waiting, tokens, to_parent, to_proxy, proxy_end>>

====
