---- MODULE CaptureChannel ----
(***************************************************************************)
(* The way of shell output into the transcript: the proxy process, the     *)
(* reader thread and the GTK main thread, which asks for a barrier before  *)
(* each question (window.py, _send_question) and also is the only thread   *)
(* that takes what the proxy displays.                                     *)
(***************************************************************************)
EXTENDS PtyProxy, CaptureServer

VARIABLE promised   \* remembers: what the shell had written at the last barrier

vars == <<outside, screen, loop, server, socket, promised>>

Init == SocketInit /\ ProxyInit /\ ServerInit /\ promised = 0

Shell == ShellWrites \/ ShellExits

ProxyProcess == RunProxy /\ UNCHANGED <<server, promised>>

ReaderThread == ReadPackets /\ UNCHANGED <<outside, screen, loop, promised>>

AskBarrier ==
  /\ Synchronize
  /\ promised' = produced
  /\ UNCHANGED <<outside, screen, loop>>

LeaveBarrier ==
  /\ Synchronized \/ SynchronizeFails
  /\ UNCHANGED <<outside, screen, loop, promised>>

\* The main loop runs: VTE takes what is on its terminal.
VteReads ==
  /\ waiting = 0
  /\ unread > 0
  /\ unread' = 0
  /\ UNCHANGED <<outside, displayed, loop, server, socket, promised>>

CloseWindow ==
  /\ vte_open
  /\ vte_open' = FALSE
  /\ StopServer
  /\ UNCHANGED <<shell, produced, tty, typed, keys, screen, loop, promised>>

Next ==
  \/ (Shell \/ UserTypes) /\ UNCHANGED <<server, promised>>
  \/ ProxyProcess
  \/ ReaderThread
  \/ AskBarrier \/ LeaveBarrier \/ VteReads \/ CloseWindow

\* A process or thread that can go on does: the proxy, the reader thread, and
\* the main thread, whose wait ends after a second at the latest.
Fairness ==
  /\ WF_vars(ProxyProcess)
  /\ WF_vars(ReaderThread)
  /\ WF_vars(LeaveBarrier)
  /\ WF_vars(VteReads)

Spec == Init /\ [][Next]_vars /\ Fairness

----------------------------------------------------------------------------

Chunk == 1..MaxChunks
Token == 1..MaxSyncs
Packet == [kind : {"output"}, id : Chunk] \cup [kind : {"sync-ack"}, id : Token]

\* Each variable has its type; the barrier being served and the packets on the
\* socket carry tokens and chunks that exist.
TypeOK ==
  /\ shell \in {"none", "alive", "gone"} /\ produced \in 0..MaxChunks
  /\ tty \in Seq(Chunk)
  /\ typed \in 0..MaxKeys /\ keys \in 0..typed /\ vte_open \in BOOLEAN
  /\ displayed \in Seq(Chunk) /\ unread \in 0..DisplayRoom
  /\ proxy \in {"starting", "running", "exited"}
  /\ registered \subseteq Descriptors /\ input_open \in BOOLEAN
  /\ batch \in Seq(Descriptors)
  /\ draining \in Token \cup {0} /\ held \in Chunk \cup {0}
  /\ to_parent \in Seq(Packet) /\ to_proxy \in Seq(Token)
  /\ parent_open \in BOOLEAN /\ proxy_end \in {"absent", "open", "closed"}
  /\ state \in {"starting", "connected", "closed", "failed"}
  /\ recorded \in Seq(Chunk)
  /\ sync_waiters \subseteq Token /\ woken \subseteq Token
  /\ waiting \in Token \cup {0} /\ tokens \in 0..MaxSyncs
  /\ promised \in 0..MaxChunks

Healthy == state \in {"starting", "connected"}

Outputs == {i \in DOMAIN to_parent : to_parent[i].kind = "output"}

Captured == ToSet(recorded) \cup {to_parent[i].id : i \in Outputs}

\* The chunks that the proxy has read.
Taken == produced - Len(tty)

\* While capture is healthy and the proxy runs, every chunk the shell wrote is
\* in the store, on the socket or still in the shell's terminal, once and in
\* the order it was written.
StreamIsIntact ==
  Healthy /\ proxy = "running" =>
    /\ recorded = [i \in 1..Len(recorded) |-> i]
    /\ {to_parent[i].id : i \in Outputs} = (Len(recorded) + 1)..Taken
    /\ \A i, j \in Outputs : i < j => to_parent[i].id < to_parent[j].id
    /\ tty = [i \in 1..Len(tty) |-> Taken + i]

\* The screen shows nothing that is not captured ("never display uncaptured
\* output", relay_shell_output), and what it shows is in order.
ShownIsCaptured ==
  Healthy => /\ displayed = [i \in 1..Len(displayed) |-> i]
             /\ ToSet(displayed) \subseteq Captured

\* When a barrier succeeds, all the shell had written when it was asked for is
\* in the store: the snapshot that follows does not race the capture reader.
BarrierCovers ==
  [][LeaveBarrier /\ Synchronized => Len(recorded) >= promised]_vars

\* os.read on the shell's terminal has nothing to return.
ReadBlocks == Handling("shell") /\ tty = <<>> /\ shell = "alive"

\* The end of the shell was met by a barrier: only the master is unregistered.
InputOutlivesShell == input_open /\ "shell" \notin registered

\* Only a barrier can leave the proxy in a read without data or in its loop
\* without a shell: select() alone never leads there.
OnlyBarriersStall == ReadBlocks \/ InputOutlivesShell => tokens > 0

\* What the user types is forwarded, unless a barrier has left the proxy in a
\* read without data.
KeysMove == keys > 0 ~> (keys = 0 \/ proxy = "exited" \/ ~vte_open \/ ReadBlocks)

\* A barrier breaks neither promise of phase3-pty-proxy-implementation.md to the
\* user: "on proxy stdin input, write bytes unchanged to shell master" (no read
\* without data keeps a key waiting) and "on ... shell exit ... exit".  Of a run in
\* which both are broken it is false; for each of the two alone a barrier will do.
BarriersAreHarmless ==
  \/ [](ReadBlocks => keys = 0)
  \/ shell = "gone" ~> proxy = "exited"

\* After its shell the proxy goes on only where a barrier noticed the end first,
\* and then only until somebody types or the window closes.
ExitIsNoticed ==
  /\ shell = "gone" ~> (proxy = "exited" \/ InputOutlivesShell)
  /\ shell = "gone" /\ (keys > 0 \/ ~vte_open) ~> proxy = "exited"

\* The proxy does not outlive the capture server, so that no shell runs
\* uncaptured, unless a barrier has left it in a read without data.
LossIsNoticed == ~parent_open ~> (proxy = "exited" \/ ReadBlocks)

====
