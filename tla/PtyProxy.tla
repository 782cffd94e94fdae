---- MODULE PtyProxy ----
(***************************************************************************)
(* terminal/pty_proxy.py: one thread that relays VTE's input to the shell  *)
(* and the shell's output first to the capture socket, then to VTE.        *)
(*                                                                         *)
(* The shell's reads are numbered 1, 2, ...  A select() call returns all   *)
(* ready descriptors in an order of the kernel's choosing, and the batch   *)
(* is then handled to its end although the world moves on.                 *)
(***************************************************************************)
EXTENDS CaptureSocket, FiniteSets

CONSTANTS
  MaxChunks,    \* bound: chunks of output the shell writes
  MaxKeys,      \* bound: keystrokes the user types
  DisplayRoom   \* chunks VTE's terminal can hold before VTE reads them

ASSUME ProxyAssumption ==
  /\ MaxChunks \in Nat /\ MaxKeys \in Nat
  /\ DisplayRoom \in Nat \ {0}

VARIABLES
  shell,       \* "none" before it is spawned, "alive", "gone"
  produced,    \* chunks written by the shell
  tty,         \* those the proxy has not read
  typed, keys, \* keystrokes typed, and those the proxy has not read
  vte_open,    \* VTE's side of the outer terminal
  displayed,   \* chunks written to VTE
  unread,      \* how many of them VTE has not read
  proxy,       \* "starting", "running", "exited"
  registered,  \* descriptors in the selector
  input_open,
  batch,       \* ready descriptors of this select() still to be handled
  draining,    \* the token of the barrier being served, 0 without one
  held         \* a chunk captured and not displayed yet, 0 without one

outside == <<shell, produced, tty, typed, keys, vte_open>>
screen == <<displayed, unread>>
loop == <<proxy, registered, input_open, batch, draining, held>>

\* Mutants: the selector does not watch the input, or the capture socket.
Descriptors_NoInput == {"shell", "capture"}
Descriptors_NoCapture == {"input", "shell"}

Descriptors == {"input", "shell", "capture"}

ProxyInit ==
  /\ shell = "none" /\ produced = 0 /\ tty = <<>>
  /\ typed = 0 /\ keys = 0 /\ vte_open = TRUE
  /\ displayed = <<>> /\ unread = 0
  /\ proxy = "starting" /\ registered = {} /\ input_open = FALSE
  /\ batch = <<>> /\ draining = 0 /\ held = 0

----------------------------------------------------------------------------
(* The shell, the user at the keyboard and VTE.                            *)

ShellWrites ==
  /\ shell = "alive"
  /\ produced < MaxChunks
  /\ produced' = produced + 1
  /\ tty' = Append(tty, produced')
  /\ UNCHANGED <<shell, typed, keys, vte_open, screen, loop, socket>>

ShellExits ==
  /\ shell = "alive"
  /\ shell' = "gone"
  /\ UNCHANGED <<produced, tty, typed, keys, vte_open, screen, loop, socket>>

UserTypes ==
  /\ vte_open
  /\ typed < MaxKeys
  /\ typed' = typed + 1
  /\ keys' = keys + 1
  /\ UNCHANGED <<shell, produced, tty, vte_open, screen, loop, socket>>

----------------------------------------------------------------------------
(* run_proxy.  Leaving it, by a return or by an exception, ends the shell  *)
(* and closes the capture socket.                                          *)

ExitProxy ==
  /\ proxy' = "exited"
  /\ proxy_end' = IF proxy_end = "open" THEN "closed" ELSE proxy_end
  /\ shell' = IF shell = "alive" THEN "gone" ELSE shell
  /\ batch' = <<>> /\ draining' = 0 /\ held' = 0
  /\ UNCHANGED <<produced, tty, typed, keys, vte_open, screen, registered,
                 input_open, to_parent, to_proxy, parent_open>>

Start ==
  /\ proxy = "starting"
  /\ parent_open
  /\ proxy_end' = "open"
  /\ proxy' = "running"
  /\ shell' = "alive"
  /\ registered' = Descriptors
  /\ input_open' = TRUE
  /\ UNCHANGED <<produced, tty, typed, keys, vte_open, screen, batch, draining, held,
                 to_parent, to_proxy, parent_open>>

StartRefused ==
  /\ proxy = "starting"
  /\ ~parent_open
  /\ ExitProxy

\* The configured shell cannot be run.
SpawnFails ==
  /\ proxy = "starting"
  /\ parent_open
  /\ proxy' = "exited"
  /\ proxy_end' = "closed"
  /\ UNCHANGED <<outside, screen, registered, input_open, batch, draining, held,
                 to_parent, to_proxy, parent_open>>

IsReady(descriptor) ==
  CASE descriptor = "input"   -> keys > 0 \/ ~vte_open
    [] descriptor = "shell"   -> tty # <<>> \/ shell = "gone"
    [] descriptor = "capture" -> to_proxy # <<>> \/ ~parent_open

LoopIsOver == ~input_open /\ "shell" \notin registered

BetweenBatches == proxy = "running" /\ batch = <<>> /\ draining = 0 /\ held = 0

Select ==
  /\ BetweenBatches
  /\ ~LoopIsOver
  /\ LET ready == {d \in registered : IsReady(d)}
     IN  ready # {} /\ batch' \in SetToSeqs(ready)
  /\ UNCHANGED <<outside, screen, proxy, registered, input_open, draining, held, socket>>

LeaveLoop ==
  /\ BetweenBatches
  /\ LoopIsOver
  /\ ExitProxy

Handling(descriptor) ==
  /\ batch # <<>> /\ Head(batch) = descriptor
  /\ draining = 0 /\ held = 0

\* Mutant: keys for a shell that is gone are dropped.
ForwardInput_Drops ==
  /\ Handling("input")
  /\ keys > 0
  /\ keys' = 0
  /\ batch' = Tail(batch)
  /\ UNCHANGED <<shell, produced, tty, typed, vte_open, screen, proxy, registered,
                 input_open, draining, held, socket>>

\* Writing to the master of a shell that is gone raises EIO.
ForwardInput ==
  /\ Handling("input")
  /\ keys > 0
  /\ \/ /\ shell = "alive"
        /\ keys' = 0
        /\ batch' = Tail(batch)
        /\ UNCHANGED <<shell, produced, tty, typed, vte_open, screen, proxy, registered,
                       input_open, draining, held, socket>>
     \/ shell = "gone" /\ ExitProxy

InputEnds ==
  /\ Handling("input")
  /\ keys = 0 /\ ~vte_open
  /\ registered' = registered \ {"input"}
  /\ input_open' = FALSE
  /\ batch' = Tail(batch)
  /\ UNCHANGED <<outside, screen, proxy, draining, held, socket>>

\* relay_shell_output up to the display: a chunk that cannot be captured is
\* never displayed.
Capture ==
  /\ tty # <<>>
  /\ \/ /\ parent_open
        /\ to_parent' = Append(to_parent, OutputPacket(Head(tty)))
        /\ held' = Head(tty)
        /\ tty' = Tail(tty)
        /\ UNCHANGED <<shell, produced, typed, keys, vte_open, screen, proxy, registered,
                       input_open, batch, draining, to_proxy, parent_open, proxy_end>>
     \/ ~parent_open /\ ExitProxy

\* The write blocks while VTE's terminal is full.
Display ==
  /\ held # 0
  /\ \/ /\ vte_open
        /\ unread < DisplayRoom
        /\ displayed' = Append(displayed, held)
        /\ unread' = unread + 1
        /\ held' = 0
        /\ batch' = IF draining = 0 THEN Tail(batch) ELSE batch
        /\ UNCHANGED <<outside, proxy, registered, input_open, draining, socket>>
     \/ ~vte_open /\ ExitProxy

\* os.read blocks here when a barrier earlier in the batch has read the output
\* that made the descriptor ready.
RelayShell == Handling("shell") /\ Capture

ShellEOF == tty = <<>> /\ shell = "gone"

\* Mutant: the end of the shell leaves the input registered.
RelayShellEOF_KeepsInput ==
  /\ Handling("shell")
  /\ ShellEOF
  /\ registered' = registered \ {"shell"}
  /\ batch' = <<>>
  /\ UNCHANGED <<outside, screen, proxy, input_open, draining, held, socket>>

\* Unregistering a descriptor twice raises KeyError.
RelayShellEOF ==
  /\ Handling("shell")
  /\ ShellEOF
  /\ \/ /\ "shell" \in registered
        /\ registered' = registered \ {"shell", "input"}
        /\ input_open' = FALSE
        /\ batch' = <<>>
        /\ UNCHANGED <<outside, screen, proxy, draining, held, socket>>
     \/ "shell" \notin registered /\ ExitProxy

ReceiveSync ==
  /\ Handling("capture")
  /\ to_proxy # <<>>
  /\ draining' = Head(to_proxy)
  /\ to_proxy' = Tail(to_proxy)
  /\ UNCHANGED <<outside, screen, proxy, registered, input_open, batch, held,
                 to_parent, parent_open, proxy_end>>

CaptureClosed ==
  /\ Handling("capture")
  /\ ~parent_open
  /\ ExitProxy

Draining == draining # 0 /\ held = 0

\* Mutant: what a barrier drains is displayed without being captured.
DrainOne_Uncaptured ==
  /\ Draining
  /\ tty # <<>>
  /\ held' = Head(tty)
  /\ tty' = Tail(tty)
  /\ UNCHANGED <<shell, produced, typed, keys, vte_open, screen, proxy, registered,
                 input_open, batch, draining, socket>>

DrainOne == Draining /\ Capture

\* Mutant: the token is forgotten before it is sent back.
Acknowledge_Forgotten ==
  /\ draining' = 0
  /\ to_parent' = Append(to_parent, SyncAckPacket(draining'))
  /\ batch' = Tail(batch)
  /\ UNCHANGED <<outside, screen, proxy, input_open, held, to_proxy, parent_open, proxy_end>>

Acknowledge ==
  /\ to_parent' = Append(to_parent, SyncAckPacket(draining))
  /\ draining' = 0
  /\ batch' = Tail(batch)
  /\ UNCHANGED <<outside, screen, proxy, input_open, held, to_proxy, parent_open, proxy_end>>

\* Nothing more to read, or the end of the shell: acknowledge.  The end is
\* noted by unregistering the shell alone, not the input.
DrainEnds ==
  /\ Draining
  /\ tty = <<>>
  /\ \/ /\ parent_open
        /\ ShellEOF => "shell" \in registered
        /\ registered' = IF ShellEOF THEN registered \ {"shell"} ELSE registered
        /\ Acknowledge
     \/ /\ ~parent_open \/ (ShellEOF /\ "shell" \notin registered)
        /\ ExitProxy

RunProxy ==
  \/ Start \/ StartRefused \/ SpawnFails \/ Select \/ LeaveLoop
  \/ ForwardInput \/ InputEnds
  \/ RelayShell \/ RelayShellEOF \/ Display
  \/ ReceiveSync \/ CaptureClosed \/ DrainOne \/ DrainEnds

====
