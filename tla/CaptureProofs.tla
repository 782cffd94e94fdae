---- MODULE CaptureProofs ----
(***************************************************************************)
(* What holds of the capture channel and the screen for all numbers of     *)
(* chunks, keystrokes, barriers and redraws: types, the captured stream,   *)
(* what a barrier covers, and what only a barrier can stall.               *)
(***************************************************************************)
EXTENDS CaptureScreen, FiniteSetTheorems, SequenceTheorems, TLAPS

----------------------------------------------------------------------------
(* The inductive invariant.                                                *)

\* The loop handles a batch of different descriptors while it runs; in the
\* middle of one, the descriptor at the batch's head is the one being handled.
LoopInv ==
  /\ \A i, j \in DOMAIN batch : i # j => batch[i] # batch[j]
  /\ batch # <<>> => proxy = "running"
  /\ held # 0 \/ draining # 0 => batch # <<>>
  /\ draining # 0 => Head(batch) = "capture"
  /\ held # 0 /\ draining = 0 => Head(batch) = "shell"

\* Chunks 1, 2, ... are first in the store, then on the socket, then in the
\* shell's terminal, and none is lost between them, whatever ends.
StreamInv ==
  /\ \A i \in DOMAIN recorded : recorded[i] = i
  /\ \A i \in DOMAIN tty : tty[i] = Taken + i
  /\ Len(recorded) <= Taken
  /\ \A i \in Outputs : to_parent[i].id \in (Len(recorded) + 1)..Taken
  /\ \A i, j \in Outputs : i < j => to_parent[i].id < to_parent[j].id
  /\ \A c \in (Len(recorded) + 1)..Taken : \E i \in Outputs : to_parent[i].id = c

\* The screen is one chunk behind the socket at most, until the proxy exits.
ScreenInv ==
  /\ \A i \in DOMAIN displayed : displayed[i] = i
  /\ unread <= Len(displayed)
  /\ Len(displayed) <= Taken
  /\ held # 0 => held = Taken /\ Len(displayed) = Taken - 1
  /\ held = 0 /\ proxy # "exited" => Len(displayed) = Taken

\* Only the last token can be waited for.  When it has been acknowledged, the
\* chunks promised to it stand before the acknowledgement, and when it has been
\* answered, they are in the store.
BarrierInv ==
  /\ waiting \in {0, tokens}
  /\ promised <= produced
  /\ \A i \in DOMAIN to_proxy : to_proxy[i] <= tokens
  /\ draining <= tokens
  /\ \A t \in sync_waiters \cup woken : t <= tokens
  /\ \A i \in DOMAIN to_parent \ Outputs : to_parent[i].id <= tokens
  /\ \A i \in DOMAIN to_parent \ Outputs : to_parent[i].id = tokens =>
       /\ promised <= Taken
       /\ \A j \in Outputs : i < j => promised < to_parent[j].id
  /\ tokens \in woken /\ Healthy => promised <= Len(recorded)

\* Without a barrier, a shell in the batch has something to read or has ended,
\* and an open input is never alone in the selector.
StallInv ==
  tokens = 0 =>
    /\ \A i \in DOMAIN batch :
         batch[i] = "shell" /\ held = 0 => tty # <<>> \/ shell = "gone"
    /\ input_open => "shell" \in registered

ChannelInv == TypeOK /\ LoopInv /\ StreamInv /\ ScreenInv /\ BarrierInv /\ StallInv

----------------------------------------------------------------------------
(* Type correctness.                                                       *)

\* An empty socket holds no output.
LEMMA NoOutputs == DOMAIN to_parent = {} => Outputs = {}
BY DEF Outputs

\* Before the shell has written, nothing is read from it.
LEMMA NothingTaken == produced = 0 /\ Len(tty) = 0 => Taken = 0
BY DEF Taken

\* The channel starts in its invariant.
LEMMA ChannelInit == Init => ChannelInv
<1>. SUFFICES ASSUME Init PROVE ChannelInv
  OBVIOUS
<1>. USE ProxyAssumption, ServerAssumption DEF Init, SocketInit, ProxyInit, ServerInit
<1>a. /\ <<>> \in Seq(Chunk) /\ <<>> \in Seq(Token) /\ <<>> \in Seq(Packet)
      /\ <<>> \in Seq(Descriptors)
  OBVIOUS
<1>b. 0 \in 0..MaxKeys /\ 0 \in 0..DisplayRoom /\ 0 \in 0..MaxChunks /\ 0 \in 0..MaxSyncs
  OBVIOUS
<1>1. TypeOK
  <2>1. /\ shell \in {"none", "alive", "gone"} /\ produced \in 0..MaxChunks
        /\ tty \in Seq(Chunk) /\ typed \in 0..MaxKeys /\ keys \in 0..typed
        /\ vte_open \in BOOLEAN
    BY <1>a, <1>b
  <2>2. /\ displayed \in Seq(Chunk) /\ unread \in 0..DisplayRoom
        /\ proxy \in {"starting", "running", "exited"}
        /\ registered \subseteq Descriptors /\ input_open \in BOOLEAN
        /\ batch \in Seq(Descriptors) /\ draining \in Token \cup {0}
        /\ held \in Chunk \cup {0}
    BY <1>a, <1>b
  <2>3. /\ to_parent \in Seq(Packet) /\ to_proxy \in Seq(Token)
        /\ parent_open \in BOOLEAN /\ proxy_end \in {"absent", "open", "closed"}
    BY <1>a
  <2>4. /\ state \in {"starting", "connected", "closed", "failed"}
        /\ recorded \in Seq(Chunk) /\ sync_waiters \subseteq Token /\ woken \subseteq Token
        /\ waiting \in Token \cup {0} /\ tokens \in 0..MaxSyncs
        /\ promised \in 0..MaxChunks
    BY <1>a, <1>b
  <2>. QED
    BY <2>1, <2>2, <2>3, <2>4 DEF TypeOK
<1>2. LoopInv
  BY DEF LoopInv
<1>3. Outputs = {} /\ Taken = 0
  <2>1. DOMAIN to_parent = {} /\ Len(tty) = 0
    OBVIOUS
  <2>2. produced = 0
    OBVIOUS
  <2>. QED
    BY <2>1, <2>2, NoOutputs, NothingTaken
<1>4. StreamInv
  <2>1. DOMAIN recorded = {} /\ DOMAIN tty = {} /\ Len(recorded) = 0
    OBVIOUS
  <2>2. (Len(recorded) + 1)..Taken = {}
    BY <1>3, <2>1
  <2>. QED
    BY <1>3, <2>1, <2>2 DEF StreamInv
<1>7. ScreenInv
  BY <1>3 DEF ScreenInv
<1>5. BarrierInv
  BY <1>3 DEF BarrierInv
<1>6. StallInv
  BY DEF StallInv
<1>. QED
  BY <1>1, <1>2, <1>4, <1>5, <1>6, <1>7 DEF ChannelInv

\* A batch holds each of some registered descriptors once.
LEMMA BatchOrder ==
  ASSUME NEW ready \in SUBSET Descriptors, NEW order \in SetToSeqs(ready)
  PROVE  /\ order \in Seq(Descriptors)
         /\ \A i \in DOMAIN order : order[i] \in ready
         /\ \A i, j \in DOMAIN order : i # j => order[i] # order[j]
<1>1. IsFiniteSet({"input", "shell", "capture"})
  <2>1. IsFiniteSet({}) /\ IsFiniteSet({} \cup {"input"})
    BY FS_EmptySet, FS_AddElement
  <2>2. IsFiniteSet(({} \cup {"input"}) \cup {"shell"})
    BY <2>1, FS_AddElement
  <2>3. IsFiniteSet((({} \cup {"input"}) \cup {"shell"}) \cup {"capture"})
    BY <2>2, FS_AddElement
  <2>4. {"input", "shell", "capture"} = (({} \cup {"input"}) \cup {"shell"}) \cup {"capture"}
    OBVIOUS
  <2>. QED
    BY <2>3, <2>4
<1>2. IsFiniteSet(ready)
  BY <1>1, FS_Subset DEF Descriptors
<1>3. Cardinality(ready) \in Nat
  BY <1>2, FS_CardinalityType
<1>4. order \in [1..Cardinality(ready) -> ready]
  BY DEF SetToSeqs
<1>. QED
  BY <1>3, <1>4 DEF SetToSeqs

\* A proxy that leaves run_proxy holds nothing and handles nothing.
LEMMA ExitType ==
  ASSUME TypeOK, ExitProxy, UNCHANGED <<server, promised>>
  PROVE  TypeOK'
BY DEF TypeOK, ExitProxy, server, screen, Packet, Token, Chunk, Descriptors, socket

\* Reading a chunk of the shell captures it or ends the proxy.
LEMMA CaptureType ==
  ASSUME TypeOK, held = 0, Capture, UNCHANGED <<server, promised>>
  PROVE  TypeOK'
<1>1. CASE ~parent_open /\ ExitProxy
  BY <1>1, ExitType
<1>2. CASE parent_open /\ ~(~parent_open /\ ExitProxy)
  <2>1. Head(tty) \in Chunk /\ Tail(tty) \in Seq(Chunk)
    BY DEF TypeOK, Capture
  <2>2. OutputPacket(Head(tty)) \in Packet
    BY <2>1 DEF OutputPacket, Packet
  <2>3. /\ to_parent' = Append(to_parent, OutputPacket(Head(tty)))
        /\ held' = Head(tty) /\ tty' = Tail(tty)
        /\ UNCHANGED <<shell, produced, typed, keys, vte_open, screen, proxy, registered,
                       input_open, batch, draining, to_proxy, parent_open, proxy_end>>
    BY <1>2 DEF Capture
  <2>4. to_parent' \in Seq(Packet)
    BY <2>2, <2>3 DEF TypeOK
  <2>. QED
    BY <2>1, <2>3, <2>4 DEF TypeOK, server, screen
<1>. QED
  BY <1>1, <1>2 DEF Capture

\* A step of the proxy keeps the types.
LEMMA ProxyType ==
  ASSUME TypeOK, LoopInv, ProxyProcess
  PROVE  TypeOK'
<1>. USE DEF ProxyProcess, server, socket, screen, outside
<1>1. CASE Start \/ SpawnFails
  BY <1>1 DEF TypeOK, Start, SpawnFails
<1>2. CASE StartRefused \/ LeaveLoop \/ CaptureClosed
  BY <1>2, ExitType DEF StartRefused, LeaveLoop, CaptureClosed
<1>3. CASE Select
  <2>1. batch' \in Seq(Descriptors)
    BY <1>3, BatchOrder DEF Select, TypeOK
  <2>. QED
    BY <1>3, <2>1 DEF TypeOK, Select
<1>4. CASE ForwardInput \/ InputEnds
  <2>1. Tail(batch) \in Seq(Descriptors)
    BY <1>4 DEF TypeOK, ForwardInput, InputEnds, Handling
  <2>2. 0 \in 0..typed
    BY ProxyAssumption DEF TypeOK
  <2>3. CASE ForwardInput
    BY <2>1, <2>2, <2>3, ExitType DEF TypeOK, ForwardInput
  <2>4. CASE InputEnds
    BY <2>1, <2>4 DEF TypeOK, InputEnds
  <2>. QED
    BY <1>4, <2>3, <2>4
<1>5. CASE RelayShell \/ DrainOne
  BY <1>5, CaptureType DEF RelayShell, DrainOne, Handling, Draining
<1>6. CASE RelayShellEOF
  <2>1. <<>> \in Seq(Descriptors)
    OBVIOUS
  <2>. QED
    BY <1>6, <2>1, ExitType DEF TypeOK, RelayShellEOF
<1>7. CASE Display
  <2>1. CASE ~vte_open /\ ExitProxy
    BY <1>7, <2>1, ExitType
  <2>2. CASE vte_open
    <3>1. Append(displayed, held) \in Seq(Chunk) /\ unread + 1 \in 0..DisplayRoom
      BY <1>7, <2>2, ProxyAssumption DEF Display, TypeOK
    <3>2. batch # <<>> /\ Tail(batch) \in Seq(Descriptors)
      BY <1>7 DEF Display, LoopInv, TypeOK
    <3>. QED
      BY <1>7, <2>2, <3>1, <3>2, ProxyAssumption DEF TypeOK, Display
  <2>. QED
    BY <1>7, <2>1, <2>2 DEF Display
<1>8. CASE ReceiveSync
  <2>1. Head(to_proxy) \in Token /\ Tail(to_proxy) \in Seq(Token)
    BY <1>8 DEF ReceiveSync, TypeOK
  <2>. QED
    BY <1>8, <2>1 DEF TypeOK, ReceiveSync
<1>9. CASE DrainEnds
  <2>1. CASE ExitProxy
    BY <1>9, <2>1, ExitType
  <2>2. CASE ~ExitProxy
    <3>1. SyncAckPacket(draining) \in Packet
      BY <1>9 DEF DrainEnds, Draining, SyncAckPacket, Packet, TypeOK
    <3>2. batch # <<>> /\ Tail(batch) \in Seq(Descriptors)
      BY <1>9 DEF DrainEnds, Draining, LoopInv, TypeOK
    <3>3. to_parent' \in Seq(Packet) /\ registered' \subseteq Descriptors
      <4>1. to_parent' = Append(to_parent, SyncAckPacket(draining))
        BY <1>9, <2>2 DEF DrainEnds, Acknowledge
      <4>2. registered' = registered \/ registered' = registered \ {"shell"}
        BY <1>9, <2>2 DEF DrainEnds
      <4>. QED
        BY <3>1, <4>1, <4>2 DEF TypeOK
    <3>. QED
      BY <1>9, <2>2, <3>2, <3>3 DEF TypeOK, DrainEnds, Acknowledge
  <2>. QED
    BY <2>1, <2>2
<1>. QED
  BY <1>1, <1>2, <1>3, <1>4, <1>5, <1>6, <1>7, <1>8, <1>9 DEF RunProxy

\* A step of the reader thread or of the main thread keeps the types.
LEMMA ServerType ==
  ASSUME TypeOK,
         ReaderThread \/ AskBarrier \/ LeaveBarrier \/ VteReads \/ CloseWindow
  PROVE  TypeOK'
<1>. USE DEF server, socket, screen, outside, loop
<1>1. CASE ReaderThread /\ (Accept \/ ConnectionEnds)
  BY <1>1 DEF TypeOK, ReaderThread, Accept, ConnectionEnds, ReleaseSyncWaiters
<1>2. CASE ReaderThread /\ RecordOutput
  <2>1. Head(to_parent) \in Packet /\ Tail(to_parent) \in Seq(Packet)
    BY <1>2 DEF RecordOutput, Receive, TypeOK
  <2>2. Head(to_parent).id \in Chunk
    BY <1>2, <2>1 DEF RecordOutput, Receive, Packet
  <2>3. recorded' \in Seq(Chunk)
    BY <1>2, <2>2 DEF RecordOutput, TypeOK
  <2>. QED
    BY <1>2, <2>1, <2>3 DEF TypeOK, ReaderThread, RecordOutput, Receive
<1>3. CASE ReaderThread /\ ReceiveAck
  <2>1. Tail(to_parent) \in Seq(Packet)
    BY <1>3 DEF ReceiveAck, Receive, TypeOK
  <2>. QED
    BY <1>3, <2>1 DEF TypeOK, ReaderThread, ReceiveAck, Receive
<1>4. CASE AskBarrier
  <2>1. tokens + 1 \in Token /\ tokens + 1 \in 0..MaxSyncs
    BY <1>4, ServerAssumption DEF AskBarrier, Synchronize, TypeOK, Token
  <2>2. to_proxy' \in Seq(Token) /\ sync_waiters' \subseteq Token
    BY <1>4, <2>1 DEF AskBarrier, Synchronize, TypeOK
  <2>. QED
    BY <1>4, <2>1, <2>2 DEF TypeOK, AskBarrier, Synchronize
<1>5. CASE LeaveBarrier
  BY <1>5 DEF TypeOK, LeaveBarrier, Synchronized, SynchronizeFails, EndWait
<1>6. CASE VteReads
  BY <1>6, ProxyAssumption DEF TypeOK, VteReads
<1>7. CASE CloseWindow
  BY <1>7 DEF TypeOK, CloseWindow, StopServer, ReleaseSyncWaiters
<1>. QED
  BY <1>1, <1>2, <1>3, <1>4, <1>5, <1>6, <1>7 DEF ReaderThread, ReadPackets

\* Every step keeps the types.
LEMMA TypeNext == TypeOK /\ LoopInv /\ [Next]_vars => TypeOK'
<1>. SUFFICES ASSUME TypeOK, LoopInv, [Next]_vars PROVE TypeOK'
  OBVIOUS
<1>1. CASE UNCHANGED vars
  BY <1>1 DEF TypeOK, vars, outside, screen, loop, server, socket, Outputs, Descriptors,
              Packet, Chunk, Token
<1>2. CASE (Shell \/ UserTypes) /\ UNCHANGED <<server, promised>>
  <2>1. CASE ShellWrites
    <3>1. produced + 1 \in 0..MaxChunks /\ produced + 1 \in Chunk
      BY <2>1, ProxyAssumption DEF ShellWrites, TypeOK, Chunk
    <3>2. tty' \in Seq(Chunk) /\ produced' \in 0..MaxChunks
      BY <2>1, <3>1 DEF ShellWrites, TypeOK
    <3>. QED
      BY <1>2, <2>1, <3>2 DEF TypeOK, ShellWrites, screen, loop, server, socket
  <2>2. CASE ShellExits
    BY <1>2, <2>2 DEF TypeOK, ShellExits, screen, loop, server, socket
  <2>3. CASE UserTypes
    <3>1. typed + 1 \in 0..MaxKeys /\ keys + 1 \in 0..(typed + 1)
      BY <2>3, ProxyAssumption DEF UserTypes, TypeOK
    <3>. QED
      BY <1>2, <2>3, <3>1 DEF TypeOK, UserTypes, screen, loop, server, socket
  <2>. QED
    BY <1>2, <2>1, <2>2, <2>3 DEF Shell
<1>. QED
  BY <1>1, <1>2, ProxyType, ServerType DEF Next

----------------------------------------------------------------------------
(* The loop of the proxy.                                                  *)

\* A batch without its head still holds different descriptors.
LEMMA RestOfBatch ==
  ASSUME TypeOK, LoopInv, batch # <<>>
  PROVE  /\ Tail(batch) \in Seq(Descriptors)
         /\ \A i \in DOMAIN Tail(batch) :
              i + 1 \in DOMAIN batch /\ Tail(batch)[i] = batch[i + 1]
         /\ \A i, j \in DOMAIN Tail(batch) : i # j => Tail(batch)[i] # Tail(batch)[j]
         /\ \A i \in DOMAIN Tail(batch) : Tail(batch)[i] # Head(batch)
<1>1. batch \in Seq(Descriptors)
  BY DEF TypeOK
<1>2. Tail(batch) \in Seq(Descriptors) /\ 1 \in DOMAIN batch /\ Head(batch) = batch[1]
  BY <1>1
<1>3. \A i \in DOMAIN Tail(batch) :
        i \in Nat \ {0} /\ i + 1 \in DOMAIN batch /\ Tail(batch)[i] = batch[i + 1]
  BY <1>1
<1>. QED
  BY <1>2, <1>3 DEF LoopInv

\* A step keeps the loop's invariant.
LEMMA LoopNext == TypeOK /\ LoopInv /\ [Next]_vars => LoopInv'
<1>. SUFFICES ASSUME TypeOK, LoopInv, [Next]_vars PROVE LoopInv'
  OBVIOUS
<1>. USE DEF loop, socket, screen, outside
<1>1. CASE UNCHANGED loop
  BY <1>1 DEF LoopInv
<1>2. CASE Shell \/ UserTypes
  BY <1>1, <1>2 DEF Shell, ShellWrites, ShellExits, UserTypes
<1>3. CASE ReaderThread \/ AskBarrier \/ LeaveBarrier \/ VteReads \/ CloseWindow
  BY <1>1, <1>3 DEF ReaderThread, AskBarrier, LeaveBarrier, VteReads, CloseWindow
<1>4. CASE ExitProxy
  <2>1. batch' = <<>> /\ held' = 0 /\ draining' = 0
    BY <1>4 DEF ExitProxy
  <2>2. DOMAIN batch' = {}
    BY <2>1
  <2>. QED
    BY <2>1, <2>2 DEF LoopInv
<1>5. CASE Start \/ SpawnFails
  BY <1>5 DEF Start, SpawnFails, LoopInv
<1>6. CASE Select
  <2>1. /\ \A i, j \in DOMAIN batch' : i # j => batch'[i] # batch'[j]
        /\ batch' \in Seq(Descriptors)
    BY <1>6, BatchOrder DEF Select, TypeOK
  <2>2. proxy' = "running" /\ held' = 0 /\ draining' = 0
    BY <1>6 DEF Select, BetweenBatches
  <2>. QED
    BY <2>1, <2>2 DEF LoopInv
<1>7. CASE (ForwardInput \/ InputEnds) /\ ~ExitProxy
  BY <1>7, RestOfBatch DEF ForwardInput, InputEnds, Handling, LoopInv
<1>8. CASE (RelayShell \/ DrainOne) /\ ~ExitProxy
  <2>1. /\ UNCHANGED <<batch, draining, proxy>>
        /\ batch # <<>>
        /\ draining = 0 => Head(batch) = "shell"
    BY <1>8 DEF RelayShell, DrainOne, Capture, Handling, Draining, LoopInv
  <2>. QED
    BY <2>1 DEF LoopInv
<1>9. CASE RelayShellEOF /\ ~ExitProxy
  <2>1. batch' = <<>> /\ held' = 0 /\ draining' = 0
    BY <1>9 DEF RelayShellEOF, Handling
  <2>2. DOMAIN batch' = {}
    BY <2>1
  <2>. QED
    BY <2>1, <2>2 DEF LoopInv
<1>10. CASE Display /\ ~ExitProxy
  <2>1. batch # <<>> /\ held' = 0 /\ UNCHANGED <<proxy, draining>>
    BY <1>10 DEF Display, LoopInv
  <2>2. CASE draining = 0
    <3>1. batch' = Tail(batch)
      BY <1>10, <2>2 DEF Display
    <3>. QED
      BY <2>1, <2>2, <3>1, RestOfBatch DEF LoopInv
  <2>3. CASE draining # 0
    <3>1. batch' = batch
      BY <1>10, <2>3 DEF Display
    <3>. QED
      BY <2>1, <2>3, <3>1 DEF LoopInv
  <2>. QED
    BY <2>2, <2>3
<1>11. CASE ReceiveSync
  BY <1>11 DEF ReceiveSync, Handling, LoopInv
<1>12. CASE DrainEnds /\ ~ExitProxy
  <2>1. batch # <<>> /\ held' = 0 /\ draining' = 0 /\ batch' = Tail(batch) /\ proxy' = proxy
    BY <1>12 DEF DrainEnds, Draining, Acknowledge, LoopInv
  <2>. QED
    BY <2>1, RestOfBatch DEF LoopInv
<1>13. CASE ProxyProcess
  BY <1>13, <1>4, <1>5, <1>6, <1>7, <1>8, <1>9, <1>10, <1>11, <1>12
  DEF ProxyProcess, RunProxy, StartRefused, LeaveLoop, CaptureClosed
<1>. QED
  BY <1>1, <1>2, <1>3, <1>13 DEF Next, vars

----------------------------------------------------------------------------
(* The captured stream.  A step moves the stream in one of five ways or    *)
(* leaves it alone.                                                        *)

StreamRests == UNCHANGED <<produced, tty, to_parent, recorded>>

ChunkWritten ==
  /\ produced' = produced + 1 /\ tty' = Append(tty, produced + 1)
  /\ UNCHANGED <<to_parent, recorded>>

ChunkCaptured ==
  /\ tty # <<>> /\ tty' = Tail(tty)
  /\ to_parent' = Append(to_parent, OutputPacket(Head(tty)))
  /\ UNCHANGED <<produced, recorded>>

ChunkRecorded ==
  /\ to_parent # <<>> /\ Head(to_parent).kind = "output"
  /\ to_parent' = Tail(to_parent)
  /\ recorded' = Append(recorded, Head(to_parent).id)
  /\ UNCHANGED <<produced, tty>>

AckSent ==
  /\ tty = <<>>
  /\ to_parent' = Append(to_parent, SyncAckPacket(draining))
  /\ UNCHANGED <<produced, tty, recorded>>

AckReceived ==
  /\ to_parent # <<>> /\ Head(to_parent).kind = "sync-ack"
  /\ to_parent' = Tail(to_parent)
  /\ UNCHANGED <<produced, tty, recorded>>

\* Reading a chunk of the shell captures it, whoever reads, or ends the proxy.
LEMMA CaptureMoves ==
  Capture /\ UNCHANGED <<server, promised>> =>
    (ChunkCaptured /\ held' = Head(tty)) \/ ExitProxy
BY DEF Capture, ChunkCaptured, server

\* Every step moves the stream in one of these ways.
LEMMA StreamSteps ==
  [Next]_vars =>
    \/ StreamRests
    \/ ChunkWritten /\ UNCHANGED <<screen, loop, server, socket, promised>>
    \/ ChunkCaptured /\ (DrainOne \/ RelayShell) /\ UNCHANGED <<server, promised>>
    \/ ChunkRecorded /\ ReaderThread /\ RecordOutput
    \/ AckSent /\ DrainEnds /\ UNCHANGED <<server, promised>>
    \/ AckReceived /\ ReaderThread /\ ReceiveAck
<1>. SUFFICES ASSUME [Next]_vars, ~StreamRests
     PROVE  \/ ChunkWritten /\ UNCHANGED <<screen, loop, server, socket, promised>>
            \/ ChunkCaptured /\ (DrainOne \/ RelayShell) /\ UNCHANGED <<server, promised>>
            \/ ChunkRecorded /\ ReaderThread /\ RecordOutput
            \/ AckSent /\ DrainEnds /\ UNCHANGED <<server, promised>>
            \/ AckReceived /\ ReaderThread /\ ReceiveAck
  OBVIOUS
<1>. USE DEF loop, socket, screen, outside, server, StreamRests
<1>1. CASE UNCHANGED vars
  BY <1>1 DEF vars
<1>2. CASE (Shell \/ UserTypes) /\ UNCHANGED <<server, promised>>
  BY <1>2 DEF Shell, ShellWrites, ShellExits, UserTypes, ChunkWritten
<1>3. CASE ExitProxy /\ UNCHANGED <<server, promised>>
  BY <1>3 DEF ExitProxy
<1>4. CASE ProxyProcess
  <2>1. CASE Start \/ SpawnFails \/ Select \/ ForwardInput \/ InputEnds
    BY <1>3, <1>4, <2>1 DEF ProxyProcess, Start, SpawnFails, Select, ForwardInput, InputEnds
  <2>2. CASE StartRefused \/ LeaveLoop \/ CaptureClosed
    BY <1>3, <1>4, <2>2 DEF ProxyProcess, StartRefused, LeaveLoop, CaptureClosed
  <2>3. CASE RelayShell \/ DrainOne
    BY <1>3, <1>4, <2>3, CaptureMoves DEF ProxyProcess, RelayShell, DrainOne
  <2>4. CASE RelayShellEOF \/ Display \/ ReceiveSync
    BY <1>3, <1>4, <2>4 DEF ProxyProcess, RelayShellEOF, Display, ReceiveSync
  <2>5. CASE DrainEnds
    BY <1>3, <1>4, <2>5 DEF ProxyProcess, DrainEnds, Acknowledge, AckSent
  <2>. QED
    BY <1>4, <2>1, <2>2, <2>3, <2>4, <2>5 DEF ProxyProcess, RunProxy
<1>5. CASE ReaderThread
  BY <1>5 DEF ReaderThread, ReadPackets, Accept, RecordOutput, ReceiveAck, ConnectionEnds,
              Receive, ChunkRecorded, AckReceived
<1>6. CASE AskBarrier \/ LeaveBarrier \/ VteReads \/ CloseWindow
  BY <1>6 DEF AskBarrier, Synchronize, LeaveBarrier, Synchronized, SynchronizeFails,
              EndWait, VteReads, CloseWindow, StopServer
<1>. QED
  BY <1>1, <1>2, <1>4, <1>5, <1>6 DEF Next

\* A packet put on the socket stands after the others.
LEMMA SocketGrows ==
  ASSUME TypeOK, NEW packet \in Packet, to_parent' = Append(to_parent, packet)
  PROVE  /\ \A i \in DOMAIN to_parent : i \in DOMAIN to_parent' /\ to_parent'[i] = to_parent[i]
         /\ \A i \in DOMAIN to_parent' : i \in DOMAIN to_parent \/ i = Len(to_parent) + 1
         /\ Len(to_parent) + 1 \in DOMAIN to_parent'
         /\ to_parent'[Len(to_parent) + 1] = packet
         /\ \A i \in DOMAIN to_parent : i \in Nat /\ i < Len(to_parent) + 1
BY DEF TypeOK

\* When the reader takes a packet, the others move up.
LEMMA SocketShrinks ==
  ASSUME TypeOK, to_parent # <<>>, to_parent' = Tail(to_parent)
  PROVE  /\ 1 \in DOMAIN to_parent /\ Head(to_parent) = to_parent[1]
         /\ \A i \in DOMAIN to_parent' :
              i \in Nat \ {0} /\ i + 1 \in DOMAIN to_parent /\ to_parent'[i] = to_parent[i + 1]
         /\ \A i \in DOMAIN to_parent \ {1} :
              i \in Nat /\ 1 < i /\ i - 1 \in DOMAIN to_parent' /\ to_parent'[i - 1] = to_parent[i]
<1>1. to_parent \in Seq(Packet)
  BY DEF TypeOK
<1>2. /\ Len(to_parent) \in Nat \ {0} /\ Len(to_parent') = Len(to_parent) - 1
      /\ DOMAIN to_parent = 1..Len(to_parent) /\ DOMAIN to_parent' = 1..Len(to_parent')
      /\ Head(to_parent) = to_parent[1]
  BY <1>1
<1>3. \A i \in 1..Len(to_parent') : to_parent'[i] = to_parent[i + 1]
  BY <1>1
<1>4. \A i \in DOMAIN to_parent' :
        i \in Nat \ {0} /\ i + 1 \in DOMAIN to_parent /\ to_parent'[i] = to_parent[i + 1]
  BY <1>2, <1>3
<1>5. ASSUME NEW i \in DOMAIN to_parent \ {1}
      PROVE  i \in Nat /\ 1 < i /\ i - 1 \in DOMAIN to_parent' /\ to_parent'[i - 1] = to_parent[i]
  <2>1. i \in Nat /\ 1 < i /\ i - 1 \in 1..Len(to_parent') /\ (i - 1) + 1 = i
    BY <1>2, <1>5
  <2>. QED
    BY <1>2, <1>3, <2>1
<1>. QED
  BY <1>2, <1>4, <1>5

\* The numbers the stream's invariants count with.
LEMMA StreamNumbers ==
  ASSUME TypeOK
  PROVE  /\ Len(recorded) \in Nat /\ Len(tty) \in Nat /\ produced \in Nat /\ Taken \in Int
         /\ \A i \in DOMAIN to_parent : to_parent[i].id \in Nat /\ i \in Nat \ {0}
         /\ Outputs \subseteq DOMAIN to_parent
<1>1. Len(recorded) \in Nat /\ Len(tty) \in Nat /\ produced \in Nat
  BY ProxyAssumption DEF TypeOK
<1>2. ASSUME NEW i \in DOMAIN to_parent PROVE to_parent[i].id \in Nat /\ i \in Nat \ {0}
  <2>1. to_parent[i] \in Packet /\ i \in Nat \ {0}
    BY <1>2 DEF TypeOK
  <2>2. \A packet \in Packet : packet.id \in Chunk \cup Token
    BY DEF Packet
  <2>. QED
    BY <2>1, <2>2 DEF Chunk, Token
<1>. QED
  BY <1>1, <1>2 DEF Taken, Outputs

\* The first output on the socket is the next chunk of the store.
LEMMA HeadIsNext ==
  ASSUME TypeOK, StreamInv, to_parent # <<>>, Head(to_parent).kind = "output"
  PROVE  Head(to_parent).id = Len(recorded) + 1 /\ Len(recorded) + 1 <= Taken
<1>1. 1 \in Outputs /\ Head(to_parent) = to_parent[1]
  BY DEF TypeOK, Outputs
<1>2. to_parent[1].id \in (Len(recorded) + 1)..Taken
  BY <1>1 DEF StreamInv
<1>3. PICK i \in Outputs : to_parent[i].id = Len(recorded) + 1
  BY <1>2, StreamNumbers DEF StreamInv
<1>4. i = 1 \/ to_parent[1].id < to_parent[i].id
  BY <1>1, StreamNumbers DEF StreamInv
<1>. QED
  BY <1>1, <1>2, <1>3, <1>4, StreamNumbers

\* A step keeps the stream in order.
LEMMA StreamNext == TypeOK /\ StreamInv /\ LoopInv /\ [Next]_vars => StreamInv'
<1>. SUFFICES ASSUME TypeOK, StreamInv, LoopInv, [Next]_vars PROVE StreamInv'
  OBVIOUS
<1>1. CASE StreamRests
  BY <1>1 DEF StreamRests, StreamInv, Taken, Outputs
<1>2. CASE ChunkWritten
  <2>1. Taken' = Taken /\ Outputs' = Outputs
    BY <1>2, StreamNumbers DEF ChunkWritten, Taken, Outputs, TypeOK
  <2>2. \A i \in DOMAIN tty' : tty'[i] = Taken + i
    <3>1. ASSUME NEW i \in DOMAIN tty' PROVE tty'[i] = Taken + i
      <4>1. i \in 1..(Len(tty) + 1)
        BY <1>2, <3>1 DEF ChunkWritten, TypeOK
      <4>2. CASE i \in DOMAIN tty
        BY <1>2, <4>2 DEF ChunkWritten, TypeOK, StreamInv
      <4>3. CASE i = Len(tty) + 1
        BY <1>2, <4>3, StreamNumbers DEF ChunkWritten, TypeOK, Taken
      <4>. QED
        BY <4>1, <4>2, <4>3, StreamNumbers DEF TypeOK
    <3>. QED
      BY <3>1
  <2>. QED
    BY <1>2, <2>1, <2>2 DEF ChunkWritten, StreamInv
<1>3. CASE ChunkCaptured
  <2>. DEFINE chunk == Head(tty)
  <2>1. chunk = Taken + 1 /\ chunk \in Chunk
    BY <1>3 DEF ChunkCaptured, StreamInv, TypeOK
  <2>2. Taken' = Taken + 1
    BY <1>3, StreamNumbers DEF ChunkCaptured, Taken, TypeOK
  <2>3. \A i \in DOMAIN tty' : tty'[i] = Taken' + i
    <3>1. ASSUME NEW i \in DOMAIN tty' PROVE tty'[i] = Taken' + i
      <4>1. i \in Nat /\ i + 1 \in DOMAIN tty /\ tty'[i] = tty[i + 1]
        BY <1>3, <3>1 DEF ChunkCaptured, TypeOK
      <4>. QED
        BY <2>2, <4>1, StreamNumbers DEF StreamInv
    <3>. QED
      BY <3>1
  <2>. DEFINE packet == OutputPacket(chunk)
  <2>4. packet \in Packet /\ packet.kind = "output" /\ packet.id = Taken + 1
    BY <2>1 DEF OutputPacket, Packet
  <2>5. to_parent' = Append(to_parent, packet) /\ recorded' = recorded
    BY <1>3 DEF ChunkCaptured
  <2>. HIDE DEF packet, chunk
  <2>6. Outputs' = Outputs \cup {Len(to_parent) + 1}
    BY <2>4, <2>5, SocketGrows DEF Outputs
  <2>7. /\ \A i \in Outputs : to_parent'[i].id = to_parent[i].id /\ i < Len(to_parent) + 1
        /\ to_parent'[Len(to_parent) + 1].id = Taken + 1
    BY <2>4, <2>5, SocketGrows, StreamNumbers
  <2>8. \A i \in Outputs' : to_parent'[i].id \in (Len(recorded') + 1)..Taken'
    BY <2>2, <2>5, <2>6, <2>7, StreamNumbers DEF StreamInv
  <2>9. \A i, j \in Outputs' : i < j => to_parent'[i].id < to_parent'[j].id
    BY <2>6, <2>7, StreamNumbers DEF StreamInv
  <2>10. \A c \in (Len(recorded') + 1)..Taken' : \E i \in Outputs' : to_parent'[i].id = c
    <3>1. ASSUME NEW c \in (Len(recorded') + 1)..Taken' PROVE \E i \in Outputs' : to_parent'[i].id = c
      <4>1. CASE c = Taken + 1
        BY <2>6, <2>7, <4>1
      <4>2. CASE c \in (Len(recorded) + 1)..Taken
        <5>1. PICK i \in Outputs : to_parent[i].id = c
          BY <4>2 DEF StreamInv
        <5>. QED
          BY <2>6, <2>7, <5>1
      <4>3. c = Taken + 1 \/ c \in (Len(recorded) + 1)..Taken
        BY <2>2, <2>5, <3>1, StreamNumbers
      <4>. QED
        BY <4>1, <4>2, <4>3
    <3>. QED
      BY <3>1
  <2>11. Len(recorded') <= Taken' /\ \A i \in DOMAIN recorded' : recorded'[i] = i
    BY <2>2, <2>5, StreamNumbers DEF StreamInv
  <2>. QED
    BY <2>3, <2>8, <2>9, <2>10, <2>11 DEF StreamInv
<1>4. CASE ChunkRecorded
  <2>1. Head(to_parent).id = Len(recorded) + 1 /\ Len(recorded) + 1 <= Taken
    BY <1>4, HeadIsNext DEF ChunkRecorded
  <2>2. /\ Len(recorded') = Len(recorded) + 1
        /\ \A i \in DOMAIN recorded' : recorded'[i] = i
    BY <1>4, <2>1 DEF ChunkRecorded, TypeOK, StreamInv
  <2>3. Taken' = Taken /\ tty' = tty
    BY <1>4 DEF ChunkRecorded, Taken
  <2>4. \A i \in Outputs' : i + 1 \in Outputs /\ to_parent'[i] = to_parent[i + 1] /\ i \in Nat \ {0}
    BY <1>4, SocketShrinks DEF Outputs, ChunkRecorded
  <2>5. \A i \in Outputs \ {1} : i - 1 \in Outputs' /\ to_parent'[i - 1] = to_parent[i]
    BY <1>4, SocketShrinks DEF Outputs, ChunkRecorded
  <2>6. 1 \in Outputs /\ to_parent[1].id = Len(recorded) + 1
    BY <1>4, <2>1, SocketShrinks DEF Outputs, ChunkRecorded
  <2>7. \A i \in Outputs' : to_parent'[i].id \in (Len(recorded') + 1)..Taken'
    <3>1. ASSUME NEW i \in Outputs' PROVE to_parent'[i].id \in (Len(recorded') + 1)..Taken'
      <4>1. to_parent[1].id < to_parent[i + 1].id /\ to_parent[i + 1].id \in (Len(recorded) + 1)..Taken
        BY <2>4, <2>6, <3>1 DEF StreamInv
      <4>. QED
        BY <2>2, <2>3, <2>4, <2>6, <3>1, <4>1, StreamNumbers
    <3>. QED
      BY <3>1
  <2>8. \A i, j \in Outputs' : i < j => to_parent'[i].id < to_parent'[j].id
    BY <2>4 DEF StreamInv
  <2>9. \A c \in (Len(recorded') + 1)..Taken' : \E i \in Outputs' : to_parent'[i].id = c
    <3>1. ASSUME NEW c \in (Len(recorded') + 1)..Taken' PROVE \E i \in Outputs' : to_parent'[i].id = c
      <4>1. c \in (Len(recorded) + 1)..Taken /\ c # Len(recorded) + 1
        BY <2>2, <2>3, <3>1, StreamNumbers
      <4>2. PICK i \in Outputs : to_parent[i].id = c
        BY <4>1 DEF StreamInv
      <4>. QED
        BY <2>5, <2>6, <4>1, <4>2
    <3>. QED
      BY <3>1
  <2>. QED
    BY <2>1, <2>2, <2>3, <2>7, <2>8, <2>9 DEF StreamInv
<1>5. CASE AckSent /\ DrainEnds
  <2>. DEFINE packet == SyncAckPacket(draining)
  <2>1. packet \in Packet /\ packet.kind = "sync-ack"
    BY <1>5 DEF DrainEnds, Draining, SyncAckPacket, Packet, TypeOK
  <2>2. to_parent' = Append(to_parent, packet) /\ UNCHANGED <<produced, tty, recorded>>
    BY <1>5 DEF AckSent
  <2>. HIDE DEF packet
  <2>3. Outputs' = Outputs /\ \A i \in Outputs : to_parent'[i] = to_parent[i]
    BY <2>1, <2>2, SocketGrows DEF Outputs
  <2>4. Taken' = Taken
    BY <2>2 DEF Taken
  <2>. QED
    BY <2>2, <2>3, <2>4 DEF StreamInv
<1>6. CASE AckReceived
  <2>1. \A i \in Outputs' : i + 1 \in Outputs /\ to_parent'[i] = to_parent[i + 1] /\ i \in Nat \ {0}
    BY <1>6, SocketShrinks DEF Outputs, AckReceived
  <2>2. \A i \in Outputs : i - 1 \in Outputs' /\ to_parent'[i - 1] = to_parent[i]
    BY <1>6, SocketShrinks DEF Outputs, AckReceived
  <2>3. Taken' = Taken /\ UNCHANGED <<tty, recorded>>
    BY <1>6 DEF AckReceived, Taken
  <2>. QED
    BY <2>1, <2>2, <2>3 DEF StreamInv
<1>. QED
  BY <1>1, <1>2, <1>3, <1>4, <1>5, <1>6, StreamSteps

----------------------------------------------------------------------------
(* The screen.                                                             *)

\* A step keeps the screen one chunk behind the socket at most.
LEMMA ScreenNext ==
  TypeOK /\ LoopInv /\ StreamInv /\ ScreenInv /\ [Next]_vars => ScreenInv'
<1>. SUFFICES ASSUME TypeOK, LoopInv, StreamInv, ScreenInv, [Next]_vars PROVE ScreenInv'
  OBVIOUS
<1>a. Len(displayed) \in Nat /\ unread \in Nat
  BY ProxyAssumption DEF TypeOK
<1>1. CASE Taken' = Taken /\ UNCHANGED <<displayed, unread, held, proxy>>
  BY <1>1 DEF ScreenInv
<1>2. CASE Taken' = Taken /\ ExitProxy
  BY <1>2, StreamNumbers, <1>a DEF ExitProxy, ScreenInv, screen
<1>3. CASE ChunkWritten /\ UNCHANGED <<screen, loop, server, socket, promised>>
  <2>1. Taken' = Taken
    BY <1>3, StreamNumbers DEF ChunkWritten, Taken, TypeOK
  <2>. QED
    BY <1>1, <1>3, <2>1 DEF screen, loop
<1>4. CASE ChunkCaptured /\ (DrainOne \/ RelayShell) /\ UNCHANGED <<server, promised>>
  <2>1. Taken' = Taken + 1 /\ Head(tty) = Taken + 1
    BY <1>4, StreamNumbers DEF ChunkCaptured, Taken, TypeOK, StreamInv
  <2>2. ~ExitProxy /\ held = 0 /\ proxy = "running"
    <3>1. tty' # tty
      BY <1>4 DEF ChunkCaptured, TypeOK
    <3>. QED
      BY <1>4, <3>1 DEF ExitProxy, DrainOne, RelayShell, Draining, Handling, LoopInv
  <2>3. held' = Head(tty) /\ UNCHANGED <<displayed, unread, proxy>>
    BY <1>4, <2>2 DEF DrainOne, RelayShell, Capture, screen
  <2>. QED
    BY <2>1, <2>2, <2>3, <1>a, StreamNumbers DEF ScreenInv
<1>5. CASE StreamRests
  <2>1. Taken' = Taken
    BY <1>5 DEF StreamRests, Taken
  <2>. USE DEF loop, socket, screen, outside, server
  <2>2. CASE Display /\ ~ExitProxy
    <3>1. /\ held # 0 /\ held' = 0 /\ proxy' = proxy
          /\ displayed' = Append(displayed, held) /\ unread' = unread + 1
      BY <2>2 DEF Display
    <3>2. held = Len(displayed) + 1 /\ held = Taken
      BY <3>1, StreamNumbers DEF ScreenInv
    <3>3. Len(displayed') = Len(displayed) + 1 /\ \A i \in DOMAIN displayed' : displayed'[i] = i
      BY <3>1, <3>2 DEF ScreenInv, TypeOK
    <3>. QED
      BY <2>1, <3>1, <3>2, <3>3, <1>a DEF ScreenInv
  <2>3. CASE ProxyProcess
    <3>1. CASE ExitProxy
      BY <1>2, <2>1, <3>1
    <3>2. CASE Start \/ SpawnFails
      BY <2>1, <3>2 DEF Start, SpawnFails, ScreenInv
    <3>3. CASE (Select \/ ForwardInput \/ InputEnds \/ ReceiveSync) /\ ~ExitProxy
      BY <1>1, <2>1, <3>3 DEF Select, ForwardInput, InputEnds, ReceiveSync
    <3>4. CASE (RelayShellEOF \/ DrainEnds) /\ ~ExitProxy
      BY <1>1, <2>1, <3>4 DEF RelayShellEOF, DrainEnds, Acknowledge
    <3>5. CASE Capture /\ ~ExitProxy
      <4>1. tty' = Tail(tty) /\ tty # <<>>
        BY <3>5 DEF Capture
      <4>. QED
        BY <4>1, <1>5 DEF StreamRests, TypeOK
    <3>. QED
      BY <2>2, <2>3, <3>1, <3>2, <3>3, <3>4, <3>5
      DEF ProxyProcess, RunProxy, StartRefused, LeaveLoop, CaptureClosed, RelayShell, DrainOne
  <2>4. CASE VteReads
    BY <2>1, <2>4, <1>a DEF VteReads, ScreenInv
  <2>5. CASE ReaderThread \/ AskBarrier \/ LeaveBarrier \/ CloseWindow \/ UNCHANGED vars
    BY <1>1, <2>1, <2>5 DEF ReaderThread, AskBarrier, LeaveBarrier, CloseWindow, vars
  <2>6. CASE Shell \/ UserTypes
    BY <1>1, <2>1, <2>6 DEF Shell, ShellWrites, ShellExits, UserTypes
  <2>. QED
    BY <2>3, <2>4, <2>5, <2>6 DEF Next
<1>6. CASE (ChunkRecorded \/ AckReceived) /\ ReaderThread
  <2>1. Taken' = Taken
    BY <1>6 DEF ChunkRecorded, AckReceived, Taken
  <2>. QED
    BY <1>1, <1>6, <2>1 DEF ReaderThread, loop, screen
<1>7. CASE AckSent /\ DrainEnds
  <2>1. Taken' = Taken
    BY <1>7 DEF AckSent, Taken
  <2>. QED
    BY <1>1, <1>2, <1>7, <2>1 DEF DrainEnds, Acknowledge, Draining, screen
<1>. QED
  BY <1>3, <1>4, <1>5, <1>6, <1>7, StreamSteps

----------------------------------------------------------------------------
(* Barriers.                                                               *)

\* An acknowledgement that is the first packet on the socket has everything
\* that was promised to its barrier before it, in the store.
LEMMA AckCovers ==
  ASSUME TypeOK, StreamInv, BarrierInv,
         to_parent # <<>>, Head(to_parent).kind = "sync-ack", Head(to_parent).id = tokens
  PROVE  promised <= Len(recorded)
<1>1. 1 \in DOMAIN to_parent \ Outputs /\ to_parent[1].id = tokens
  BY DEF TypeOK, Outputs
<1>2. promised <= Taken /\ \A j \in Outputs : 1 < j => promised < to_parent[j].id
  BY <1>1 DEF BarrierInv
<1>3. \A j \in Outputs : 1 < j
  BY <1>1, StreamNumbers
<1>4. CASE Len(recorded) = Taken
  BY <1>2, <1>4
<1>5. CASE Len(recorded) # Taken
  <2>1. Len(recorded) + 1 \in (Len(recorded) + 1)..Taken
    BY <1>5, StreamNumbers DEF StreamInv
  <2>2. PICK j \in Outputs : to_parent[j].id = Len(recorded) + 1
    BY <2>1 DEF StreamInv
  <2>3. promised \in Nat
    BY ProxyAssumption DEF TypeOK
  <2>. QED
    BY <1>2, <1>3, <2>2, <2>3, StreamNumbers
<1>. QED
  BY <1>4, <1>5

\* What a step that leaves the stream alone does to the barriers.
LEMMA BarrierRests ==
  ASSUME TypeOK, LoopInv, StreamInv, BarrierInv, [Next]_vars, StreamRests
  PROVE  BarrierInv'
<1>a. Taken' = Taken /\ Outputs' = Outputs
  BY DEF StreamRests, Taken, Outputs
<1>b. tokens \in Nat /\ draining \in Nat /\ promised \in Nat
      /\ \A i \in DOMAIN to_proxy : to_proxy[i] \in Nat
  BY ProxyAssumption, ServerAssumption DEF TypeOK, Token
<1>. USE DEF StreamRests
<1>1. CASE UNCHANGED <<waiting, tokens, promised, to_proxy, draining, sync_waiters, woken, state>>
  BY <1>1, <1>a DEF BarrierInv, Healthy
<1>2. CASE ProxyProcess
  <2>. USE DEF ProxyProcess, server, socket, outside, screen
  <2>1. CASE ExitProxy
    BY <1>2, <1>a, <1>b, <2>1 DEF ExitProxy, BarrierInv, Healthy
  <2>2. CASE ReceiveSync
    <3>1. Head(to_proxy) <= tokens /\ \A i \in DOMAIN to_proxy' : to_proxy'[i] <= tokens
      <4>1. to_proxy # <<>> /\ to_proxy \in Seq(Token) /\ to_proxy' = Tail(to_proxy)
        BY <2>2 DEF ReceiveSync, TypeOK
      <4>2. 1 \in DOMAIN to_proxy /\ Head(to_proxy) = to_proxy[1]
        BY <4>1
      <4>3. \A i \in DOMAIN to_proxy' : i + 1 \in DOMAIN to_proxy /\ to_proxy'[i] = to_proxy[i + 1]
        BY <4>1
      <4>. QED
        BY <4>2, <4>3 DEF BarrierInv
    <3>. QED
      BY <1>2, <1>a, <2>2, <3>1 DEF ReceiveSync, BarrierInv, Healthy
  <2>3. CASE (Start \/ SpawnFails \/ Select \/ ForwardInput \/ InputEnds) /\ ~ExitProxy
    BY <1>1, <1>2, <2>3 DEF Start, SpawnFails, Select, ForwardInput, InputEnds
  <2>4. CASE (RelayShellEOF \/ Display) /\ ~ExitProxy
    BY <1>1, <1>2, <2>4 DEF RelayShellEOF, Display
  <2>5. CASE DrainEnds /\ ~ExitProxy
    <3>1. to_parent' = Append(to_parent, SyncAckPacket(draining)) /\ draining \in Token
      BY <2>5 DEF DrainEnds, Acknowledge, Draining, TypeOK
    <3>2. to_parent \in Seq(Packet) /\ SyncAckPacket(draining) \in Packet
      BY <3>1 DEF TypeOK, SyncAckPacket, Packet
    <3>3. FALSE
      BY <3>1, <3>2
    <3>. QED
      BY <3>3
  <2>6. CASE Capture /\ ~ExitProxy
    <3>1. tty' = Tail(tty) /\ tty # <<>>
      BY <2>6 DEF Capture
    <3>. QED
      BY <3>1 DEF TypeOK
  <2>. QED
    BY <1>2, <2>1, <2>2, <2>3, <2>4, <2>5, <2>6
    DEF RunProxy, StartRefused, LeaveLoop, CaptureClosed, RelayShell, DrainOne
<1>3. CASE ReaderThread
  <2>1. CASE RecordOutput \/ ReceiveAck
    <3>1. to_parent # <<>> /\ to_parent' = Tail(to_parent)
      BY <2>1 DEF RecordOutput, ReceiveAck, Receive
    <3>. QED
      BY <3>1 DEF TypeOK
  <2>2. CASE Accept
    BY <1>3, <1>a, <2>2 DEF ReaderThread, Accept, loop, socket, BarrierInv, Healthy
  <2>3. CASE ConnectionEnds
    BY <1>3, <1>a, <2>3
    DEF ReaderThread, ConnectionEnds, ReleaseSyncWaiters, loop, BarrierInv, Healthy
  <2>. QED
    BY <1>3, <2>1, <2>2, <2>3 DEF ReaderThread, ReadPackets
<1>4. CASE AskBarrier
  <2>1. /\ tokens' = tokens + 1 /\ waiting' = tokens' /\ promised' = produced
        /\ to_proxy' = Append(to_proxy, tokens') /\ sync_waiters' = sync_waiters \cup {tokens'}
        /\ UNCHANGED <<woken, state, draining>>
    BY <1>4 DEF AskBarrier, Synchronize, loop
  <2>2. \A i \in DOMAIN to_proxy' : to_proxy'[i] <= tokens'
    <3>1. \A i \in DOMAIN to_proxy' :
            (i \in DOMAIN to_proxy /\ to_proxy'[i] = to_proxy[i]) \/ to_proxy'[i] = tokens'
      BY <2>1, <1>b DEF TypeOK
    <3>. QED
      BY <2>1, <3>1, <1>b DEF BarrierInv
  <2>3. \A t \in sync_waiters \cup woken : t \in Nat /\ t < tokens'
    BY <2>1, <1>b DEF BarrierInv, TypeOK, Token
  <2>4. \A i \in DOMAIN to_parent \ Outputs : to_parent[i].id < tokens'
    BY <2>1, <1>b, StreamNumbers DEF BarrierInv
  <2>5. /\ waiting' \in {0, tokens'} /\ promised' <= produced'
        /\ draining' <= tokens' /\ \A t \in sync_waiters' \cup woken' : t <= tokens'
        /\ tokens' \notin woken'
    BY <2>1, <2>3, <1>b, StreamNumbers DEF BarrierInv
  <2>6. \A i \in DOMAIN to_parent' \ Outputs' : to_parent'[i].id <= tokens' /\ to_parent'[i].id # tokens'
    BY <2>1, <2>4, <1>a, <1>b, StreamNumbers
  <2>. QED
    BY <2>2, <2>5, <2>6 DEF BarrierInv
<1>5. CASE LeaveBarrier
  BY <1>5, <1>a
  DEF LeaveBarrier, Synchronized, SynchronizeFails, EndWait, loop, socket, BarrierInv, Healthy
<1>6. CASE CloseWindow
  BY <1>6, <1>a DEF CloseWindow, StopServer, ReleaseSyncWaiters, loop, BarrierInv, Healthy
<1>7. CASE VteReads \/ UNCHANGED vars
  BY <1>1, <1>7 DEF VteReads, vars, server, socket, loop
<1>8. CASE (Shell \/ UserTypes) /\ UNCHANGED <<server, promised>>
  BY <1>1, <1>8 DEF Shell, ShellWrites, ShellExits, UserTypes, server, loop, socket
<1>. QED
  BY <1>2, <1>3, <1>4, <1>5, <1>6, <1>7, <1>8 DEF Next

\* A step keeps what is known of the barriers.
LEMMA BarrierNext ==
  TypeOK /\ LoopInv /\ StreamInv /\ BarrierInv /\ [Next]_vars => BarrierInv'
<1>. SUFFICES ASSUME TypeOK, LoopInv, StreamInv, BarrierInv, [Next]_vars PROVE BarrierInv'
  OBVIOUS
<1>. DEFINE acks == DOMAIN to_parent \ Outputs
<1>a. /\ tokens \in Nat /\ draining \in Nat /\ promised \in Nat
      /\ \A i \in acks : to_parent[i].kind = "sync-ack"
  <2>1. \A packet \in Packet : packet.kind \in {"output", "sync-ack"}
    BY DEF Packet
  <2>2. \A i \in DOMAIN to_parent : to_parent[i] \in Packet
    BY DEF TypeOK
  <2>. QED
    BY <2>1, <2>2, ProxyAssumption, ServerAssumption DEF TypeOK, Token, Outputs
<1>. USE DEF server, loop
<1>1. CASE ChunkWritten /\ UNCHANGED <<screen, loop, server, socket, promised>> /\ ~StreamRests
  <2>1. Taken' = Taken /\ Outputs' = Outputs /\ produced' = produced + 1
    BY <1>1, StreamNumbers DEF ChunkWritten, Taken, Outputs, TypeOK
  <2>. QED
    BY <1>1, <1>a, <2>1, StreamNumbers DEF BarrierInv, Healthy, socket
<1>2. CASE ChunkCaptured /\ (DrainOne \/ RelayShell) /\ UNCHANGED <<server, promised>>
  <2>1. Taken' = Taken + 1 /\ Head(tty) = Taken + 1 /\ Head(tty) \in Chunk
    BY <1>2, StreamNumbers DEF ChunkCaptured, Taken, TypeOK, StreamInv
  <2>. DEFINE packet == OutputPacket(Head(tty))
  <2>2. packet \in Packet /\ packet.kind = "output" /\ packet.id = Taken + 1
    BY <2>1 DEF OutputPacket, Packet
  <2>3. to_parent' = Append(to_parent, packet)
    BY <1>2 DEF ChunkCaptured
  <2>4. UNCHANGED <<draining, to_proxy, recorded, produced>>
    <3>1. ~ExitProxy
      BY <1>2 DEF ChunkCaptured, ExitProxy, TypeOK
    <3>. QED
      BY <1>2, <3>1 DEF DrainOne, RelayShell, Capture, ChunkCaptured
  <2>. HIDE DEF packet
  <2>5. Outputs' = Outputs \cup {Len(to_parent) + 1}
    BY <2>2, <2>3, SocketGrows DEF Outputs
  <2>6. \A i \in DOMAIN to_parent' \ Outputs' : i \in acks /\ to_parent'[i] = to_parent[i]
    BY <2>2, <2>3, <2>5, SocketGrows
  <2>7. /\ \A i \in Outputs : to_parent'[i] = to_parent[i]
        /\ to_parent'[Len(to_parent) + 1].id = Taken + 1
    BY <2>2, <2>3, SocketGrows, StreamNumbers
  <2>8. ASSUME NEW i \in DOMAIN to_parent' \ Outputs', to_parent'[i].id = tokens
        PROVE  promised <= Taken' /\ \A j \in Outputs' : i < j => promised < to_parent'[j].id
    <3>1. promised <= Taken /\ \A j \in Outputs : i < j => promised < to_parent[j].id
      BY <2>6, <2>8 DEF BarrierInv
    <3>. QED
      BY <2>1, <2>5, <2>7, <3>1, <1>a, StreamNumbers
  <2>. QED
    BY <1>2, <2>4, <2>6, <2>8 DEF BarrierInv, Healthy
<1>3. CASE ChunkRecorded /\ ReaderThread /\ RecordOutput
  <2>1. Len(recorded') = Len(recorded) + 1 /\ Taken' = Taken
    BY <1>3, StreamNumbers DEF ChunkRecorded, TypeOK, Taken
  <2>2. UNCHANGED <<draining, to_proxy, produced, promised, waiting, tokens, sync_waiters, woken, state>>
    BY <1>3 DEF ChunkRecorded, ReaderThread, RecordOutput, Receive
  <2>3. \A i \in DOMAIN to_parent' : i + 1 \in DOMAIN to_parent /\ to_parent'[i] = to_parent[i + 1]
    BY <1>3, SocketShrinks DEF ChunkRecorded
  <2>4. /\ \A i \in DOMAIN to_parent' \ Outputs' : i \in Nat /\ i + 1 \in acks
        /\ \A i \in Outputs' : i \in Nat /\ i + 1 \in Outputs
    BY <1>3, <2>3, SocketShrinks DEF Outputs, ChunkRecorded
  <2>5. ASSUME NEW i \in DOMAIN to_parent' \ Outputs', to_parent'[i].id = tokens
        PROVE  promised <= Taken' /\ \A j \in Outputs' : i < j => promised < to_parent'[j].id
    <3>1. promised <= Taken /\ \A j \in Outputs : i + 1 < j => promised < to_parent[j].id
      BY <2>3, <2>4, <2>5 DEF BarrierInv
    <3>2. ASSUME NEW j \in Outputs', i < j PROVE promised < to_parent'[j].id
      <4>1. j + 1 \in Outputs /\ i + 1 < j + 1
        BY <2>4, <2>5, <3>2
      <4>2. promised < to_parent[j + 1].id
        BY <3>1, <4>1
      <4>3. to_parent'[j] = to_parent[j + 1]
        BY <2>3, <3>2 DEF Outputs
      <4>. QED
        BY <4>2, <4>3
    <3>. QED
      BY <2>1, <3>1, <3>2
  <2>6. \A i \in DOMAIN to_parent' \ Outputs' : to_parent'[i].id <= tokens
    BY <2>3, <2>4 DEF BarrierInv
  <2>. QED
    BY <2>1, <2>2, <2>5, <2>6, <1>a, StreamNumbers DEF BarrierInv, Healthy
<1>4. CASE AckSent /\ DrainEnds /\ UNCHANGED <<server, promised>>
  <2>. DEFINE packet == SyncAckPacket(draining)
  <2>1. packet \in Packet /\ packet.kind = "sync-ack" /\ packet.id = draining
    BY <1>4 DEF DrainEnds, Draining, SyncAckPacket, Packet, TypeOK
  <2>2. to_parent' = Append(to_parent, packet) /\ UNCHANGED <<produced, tty, recorded>>
    BY <1>4 DEF AckSent
  <2>3. draining' = 0 /\ to_proxy' = to_proxy
    BY <1>4 DEF DrainEnds, Acknowledge, ExitProxy
  <2>4. Taken' = Taken /\ promised <= Taken
    <3>1. Len(tty) = 0
      BY <1>4 DEF AckSent
    <3>. QED
      BY <2>2, <3>1, StreamNumbers DEF Taken, BarrierInv
  <2>. HIDE DEF packet
  <2>5. Outputs' = Outputs
    BY <2>1, <2>2, SocketGrows DEF Outputs
  <2>6. /\ \A i \in DOMAIN to_parent' \ Outputs' :
             (i \in acks /\ to_parent'[i] = to_parent[i]) \/ i = Len(to_parent) + 1
        /\ to_parent'[Len(to_parent) + 1] = packet
        /\ \A i \in Outputs : to_parent'[i] = to_parent[i] /\ i < Len(to_parent) + 1 /\ i \in Nat
    BY <2>1, <2>2, <2>5, SocketGrows, StreamNumbers
  <2>7. ASSUME NEW i \in DOMAIN to_parent' \ Outputs', to_parent'[i].id = tokens
        PROVE  promised <= Taken' /\ \A j \in Outputs' : i < j => promised < to_parent'[j].id
    <3>1. CASE i \in acks /\ to_parent'[i] = to_parent[i]
      BY <2>4, <2>5, <2>6, <2>7, <3>1 DEF BarrierInv
    <3>2. CASE i = Len(to_parent) + 1
      <4>1. Len(to_parent) \in Nat
        BY DEF TypeOK
      <4>. QED
        BY <2>4, <2>5, <2>6, <3>2, <4>1
    <3>. QED
      BY <2>6, <2>7, <3>1, <3>2
  <2>8. \A i \in DOMAIN to_parent' \ Outputs' : to_parent'[i].id <= tokens
    BY <2>1, <2>6 DEF BarrierInv
  <2>. QED
    <3>1. UNCHANGED <<waiting, tokens, promised, to_proxy, sync_waiters, woken, state, recorded, produced>>
      BY <1>4, <2>2, <2>3
    <3>. QED
      BY <2>3, <2>7, <2>8, <3>1, <1>a DEF BarrierInv, Healthy
<1>5. CASE AckReceived /\ ReaderThread /\ ReceiveAck
  <2>1. /\ UNCHANGED <<draining, to_proxy, produced, promised, waiting, tokens, state, recorded>>
        /\ Taken' = Taken
        /\ woken' \subseteq woken \cup ({Head(to_parent).id} \cap sync_waiters)
        /\ sync_waiters' \subseteq sync_waiters
    BY <1>5 DEF AckReceived, ReaderThread, ReceiveAck, Receive, Taken
  <2>2. \A i \in DOMAIN to_parent' : i + 1 \in DOMAIN to_parent /\ to_parent'[i] = to_parent[i + 1]
    BY <1>5, SocketShrinks DEF AckReceived
  <2>3. /\ \A i \in DOMAIN to_parent' \ Outputs' : i \in Nat /\ i + 1 \in acks
        /\ \A i \in Outputs' : i \in Nat /\ i + 1 \in Outputs
    BY <1>5, <2>2, SocketShrinks DEF Outputs, AckReceived
  <2>4. ASSUME NEW i \in DOMAIN to_parent' \ Outputs', to_parent'[i].id = tokens
        PROVE  promised <= Taken' /\ \A j \in Outputs' : i < j => promised < to_parent'[j].id
    <3>1. promised <= Taken /\ \A j \in Outputs : i + 1 < j => promised < to_parent[j].id
      BY <2>2, <2>3, <2>4 DEF BarrierInv
    <3>2. ASSUME NEW j \in Outputs', i < j PROVE promised < to_parent'[j].id
      <4>1. j + 1 \in Outputs /\ i + 1 < j + 1
        BY <2>3, <2>4, <3>2
      <4>2. promised < to_parent[j + 1].id
        BY <3>1, <4>1
      <4>3. to_parent'[j] = to_parent[j + 1]
        BY <2>2, <3>2 DEF Outputs
      <4>. QED
        BY <4>2, <4>3
    <3>. QED
      BY <2>1, <3>1, <3>2
  <2>5. \A i \in DOMAIN to_parent' \ Outputs' : to_parent'[i].id <= tokens
    BY <2>2, <2>3 DEF BarrierInv
  <2>6. tokens \in woken' /\ Healthy' => promised <= Len(recorded')
    <3>1. CASE tokens \in woken
      BY <2>1, <3>1 DEF BarrierInv, Healthy
    <3>2. CASE Head(to_parent).id = tokens
      BY <1>5, <2>1, <3>2, AckCovers DEF AckReceived
    <3>. QED
      BY <2>1, <3>1, <3>2
  <2>7. \A t \in sync_waiters' \cup woken' : t <= tokens
    BY <2>1 DEF BarrierInv
  <2>. QED
    BY <2>1, <2>4, <2>5, <2>6, <2>7 DEF BarrierInv
<1>. QED
  BY <1>1, <1>2, <1>3, <1>4, <1>5, StreamSteps, BarrierRests

----------------------------------------------------------------------------
(* What stalls the loop.                                                   *)

\* Without a barrier, no step leads the proxy into a read without data or into
\* a loop that waits for input alone.
LEMMA StallNext ==
  TypeOK /\ LoopInv /\ BarrierInv /\ StallInv /\ [Next]_vars => StallInv'
<1>. SUFFICES ASSUME TypeOK, LoopInv, BarrierInv, StallInv, [Next]_vars, tokens' = 0
     PROVE  StallInv'
  BY DEF StallInv
<1>. USE DEF socket, screen, outside, server, loop
<1>1. CASE UNCHANGED <<tty, shell, batch, held, input_open, registered, tokens>>
  BY <1>1 DEF StallInv
<1>2. CASE (Shell \/ UserTypes) /\ UNCHANGED <<server, promised>>
  <2>1. CASE ShellWrites
    <3>1. tty' # <<>>
      <4>1. tty' = Append(tty, produced') /\ tty \in Seq(Chunk)
        BY <2>1 DEF ShellWrites, TypeOK
      <4>2. Len(tty') = Len(tty) + 1 /\ Len(tty) \in Nat
        BY <4>1
      <4>. QED
        BY <4>2
    <3>. QED
      BY <1>2, <2>1, <3>1 DEF StallInv, ShellWrites
  <2>2. CASE ShellExits
    BY <1>2, <2>2 DEF StallInv, ShellExits
  <2>3. CASE UserTypes
    BY <1>1, <1>2, <2>3 DEF UserTypes
  <2>. QED
    BY <1>2, <2>1, <2>2, <2>3 DEF Shell
<1>3. CASE ProxyProcess
  <2>1. tokens = 0 /\ draining = 0
    BY <1>3 DEF ProxyProcess, BarrierInv, TypeOK, Token
  <2>2. ~DrainOne /\ ~DrainEnds
    BY <2>1 DEF DrainOne, DrainEnds, Draining
  <2>3. CASE ExitProxy
    <3>1. DOMAIN batch' = {} /\ UNCHANGED <<input_open, registered, tty>>
      BY <2>3 DEF ExitProxy
    <3>. QED
      BY <2>1, <3>1 DEF StallInv
  <2>4. CASE Start
    <3>1. batch' = <<>> /\ registered' = Descriptors
      BY <2>4 DEF Start, LoopInv
    <3>2. DOMAIN batch' = {} /\ "shell" \in registered'
      BY <3>1 DEF Descriptors
    <3>. QED
      BY <3>2 DEF StallInv
  <2>5. CASE Select
    <3>1. PICK ready \in SUBSET {d \in registered : IsReady(d)} : batch' \in SetToSeqs(ready)
      BY <2>5 DEF Select
    <3>2. \A i \in DOMAIN batch' : batch'[i] \in ready
      BY <3>1, BatchOrder DEF TypeOK
    <3>3. \A i \in DOMAIN batch' : batch'[i] = "shell" => tty # <<>> \/ shell = "gone"
      BY <3>1, <3>2 DEF IsReady
    <3>. QED
      BY <2>1, <2>5, <3>3 DEF StallInv, Select
  <2>6. CASE (ForwardInput \/ InputEnds) /\ ~ExitProxy
    BY <2>1, <2>6, RestOfBatch DEF ForwardInput, InputEnds, Handling, StallInv
  <2>7. CASE RelayShell /\ ~ExitProxy
    <3>1. held' = Head(tty) /\ tty # <<>> /\ UNCHANGED <<input_open, registered>>
      BY <2>7 DEF RelayShell, Capture
    <3>2. held' # 0
      <4>1. Head(tty) \in Chunk
        BY <3>1 DEF TypeOK
      <4>. QED
        BY <3>1, <4>1 DEF Chunk
    <3>. QED
      BY <2>1, <3>1, <3>2 DEF StallInv
  <2>8. CASE RelayShellEOF /\ ~ExitProxy
    <3>1. DOMAIN batch' = {} /\ ~input_open'
      BY <2>8 DEF RelayShellEOF
    <3>. QED
      BY <3>1 DEF StallInv
  <2>9. CASE Display /\ ~ExitProxy
    <3>1. batch' = Tail(batch) /\ batch # <<>> /\ Head(batch) = "shell"
      BY <2>1, <2>9 DEF Display, LoopInv
    <3>2. \A i \in DOMAIN batch' : batch'[i] # "shell"
      BY <3>1, RestOfBatch
    <3>. QED
      BY <2>1, <2>9, <3>2 DEF StallInv, Display
  <2>10. CASE SpawnFails \/ ReceiveSync
    BY <1>1, <1>3, <2>10 DEF ProxyProcess, SpawnFails, ReceiveSync
  <2>. QED
    BY <1>3, <2>2, <2>3, <2>4, <2>5, <2>6, <2>7, <2>8, <2>9, <2>10
    DEF ProxyProcess, RunProxy, StartRefused, LeaveLoop, CaptureClosed
<1>4. CASE AskBarrier
  BY <1>4, ServerAssumption DEF AskBarrier, Synchronize, TypeOK
<1>5. CASE ReaderThread
  BY <1>1, <1>5 DEF ReaderThread, ReadPackets, Accept, RecordOutput, ReceiveAck, Receive,
                    ConnectionEnds
<1>6. CASE LeaveBarrier \/ VteReads \/ CloseWindow
  BY <1>1, <1>6 DEF LeaveBarrier, Synchronized, SynchronizeFails, EndWait, VteReads,
                    CloseWindow, StopServer
<1>. QED
  BY <1>1, <1>2, <1>3, <1>4, <1>5, <1>6 DEF Next, vars

----------------------------------------------------------------------------
(* The theorems.                                                           *)

\* Every step keeps the invariant of the channel.
LEMMA ChannelNext == ChannelInv /\ [Next]_vars => ChannelInv'
BY TypeNext, LoopNext, StreamNext, ScreenNext, BarrierNext, StallNext DEF ChannelInv

\* The invariant holds throughout.
LEMMA ChannelHolds == Spec => []ChannelInv
BY ChannelInit, ChannelNext, PTL DEF Spec

\* The store's chunks, the socket's packets, the loop's batch and the tokens
\* keep their types (capture_server.py, pty_proxy.py).
THEOREM ChannelTypeCorrect == Spec => []TypeOK
BY ChannelHolds, PTL DEF ChannelInv

\* What the shell wrote is in the store, on the socket or in the terminal, once
\* and in order (relay_shell_output, _read_packets).
THEOREM NothingIsLost == Spec => []StreamIsIntact
<1>1. ChannelInv => StreamIsIntact
  <2>. SUFFICES ASSUME ChannelInv PROVE StreamIsIntact
    OBVIOUS
  <2>1. recorded = [i \in 1..Len(recorded) |-> i]
    BY DEF ChannelInv, TypeOK, StreamInv
  <2>2. tty = [i \in 1..Len(tty) |-> Taken + i]
    BY DEF ChannelInv, TypeOK, StreamInv
  <2>. QED
    BY <2>1, <2>2 DEF ChannelInv, StreamInv, StreamIsIntact
<1>. QED
  BY <1>1, ChannelHolds, PTL

\* Nothing is displayed that is not captured (relay_shell_output).
THEOREM CapturedFirst == Spec => []ShownIsCaptured
<1>1. ChannelInv => ShownIsCaptured
  <2>. SUFFICES ASSUME ChannelInv PROVE ShownIsCaptured
    OBVIOUS
  <2>1. displayed = [i \in 1..Len(displayed) |-> i]
    BY DEF ChannelInv, TypeOK, ScreenInv
  <2>2. ASSUME NEW c \in ToSet(displayed) PROVE c \in Captured
    <3>1. c \in Nat \ {0} /\ c <= Taken
      BY <2>2, StreamNumbers DEF ChannelInv, ScreenInv, TypeOK, ToSet
    <3>2. CASE c <= Len(recorded)
      <4>1. c \in DOMAIN recorded /\ recorded[c] = c
        BY <3>1, <3>2 DEF ChannelInv, StreamInv, TypeOK
      <4>. QED
        BY <4>1 DEF Captured, ToSet
    <3>3. CASE c > Len(recorded)
      <4>1. c \in (Len(recorded) + 1)..Taken
        BY <3>1, <3>3, StreamNumbers DEF ChannelInv
      <4>. QED
        BY <4>1 DEF ChannelInv, StreamInv, Captured
    <3>. QED
      BY <3>1, <3>2, <3>3, StreamNumbers DEF ChannelInv
  <2>. QED
    BY <2>1, <2>2 DEF ShownIsCaptured
<1>. QED
  BY <1>1, ChannelHolds, PTL

\* select() alone never leads to a blocking read or to a loop without a shell
\* (run_proxy, drain_shell_output).
THEOREM StallsNeedBarriers == Spec => []OnlyBarriersStall
<1>1. ChannelInv => OnlyBarriersStall
  <2>. SUFFICES ASSUME ChannelInv, ReadBlocks \/ InputOutlivesShell, tokens = 0 PROVE FALSE
    BY ServerAssumption DEF OnlyBarriersStall, ChannelInv, TypeOK
  <2>1. CASE ReadBlocks
    <3>1. 1 \in DOMAIN batch /\ batch[1] = "shell" /\ held = 0 /\ tty = <<>> /\ shell = "alive"
      BY <2>1 DEF ReadBlocks, Handling, ChannelInv, TypeOK
    <3>. QED
      BY <3>1 DEF ChannelInv, StallInv
  <2>2. CASE InputOutlivesShell
    BY <2>2 DEF InputOutlivesShell, ChannelInv, StallInv
  <2>. QED
    BY <2>1, <2>2
<1>. QED
  BY <1>1, ChannelHolds, PTL

\* A barrier that succeeds has all that the shell had written when it was asked
\* for in the store (CaptureServer.synchronize).
THEOREM BarriersCover == Spec => BarrierCovers
<1>1. ChannelInv /\ [Next]_vars => [LeaveBarrier /\ Synchronized => Len(recorded) >= promised]_vars
  <2>. SUFFICES ASSUME ChannelInv, Synchronized PROVE Len(recorded) >= promised
    OBVIOUS
  <2>1. waiting \in woken /\ Healthy
    BY DEF Synchronized, Healthy
  <2>2. waiting = tokens
    BY <2>1 DEF ChannelInv, BarrierInv, TypeOK, Token
  <2>3. promised <= Len(recorded)
    BY <2>1, <2>2 DEF ChannelInv, BarrierInv
  <2>. QED
    BY <2>3, ProxyAssumption DEF ChannelInv, TypeOK
<1>. QED
  BY <1>1, ChannelHolds, PTL DEF Spec, BarrierCovers

----------------------------------------------------------------------------
(* The rebuilt screen.                                                     *)

\* With the screen, the channel runs as without it.
LEMMA ScreenRunsChannel == SSpec => Spec
<1>1. SInit => Init
  BY DEF SInit
<1>2. [SNext]_svars => [Next]_vars
  BY DEF SNext, RemoveSelectedFromContext, svars
<1>. QED
  BY <1>1, <1>2, PTL DEF SSpec, Spec

\* The number of chunks VTE has read.
ReadCount == Len(displayed) - unread

ReadInOrder ==
  /\ ReadCount \in Nat /\ Len(Read) = ReadCount /\ Read \in Seq(Chunk)
  /\ DOMAIN Read = 1..ReadCount
  /\ \A i \in 1..ReadCount : Read[i] = i

\* VTE has read the first chunks in order.
LEMMA ReadIs == ChannelInv => ReadInOrder
<1>. SUFFICES ASSUME TypeOK, ScreenInv PROVE ReadInOrder
  BY DEF ChannelInv
<1>1. /\ displayed \in Seq(Chunk) /\ Len(displayed) \in Nat
      /\ unread \in Nat /\ unread <= Len(displayed)
  BY ProxyAssumption DEF TypeOK, ScreenInv
<1>2. ReadCount \in Nat /\ ReadCount <= Len(displayed)
  BY <1>1 DEF ReadCount
<1>3. /\ Len(Read) = ReadCount /\ Read \in Seq(Chunk)
      /\ \A i \in 1..ReadCount : Read[i] = displayed[i]
  BY <1>1, <1>2 DEF Read, ReadCount
<1>4. \A i \in 1..ReadCount : i \in DOMAIN displayed
  BY <1>1, <1>2
<1>. QED
  BY <1>2, <1>3, <1>4 DEF ScreenInv, ReadInOrder

\* A step of the channel only adds to what VTE has read.
LEMMA ReadGrows ==
  ASSUME TypeOK, LoopInv, ScreenInv, [Next]_vars
  PROVE  ReadCount' >= ReadCount
<1>. USE DEF vars, outside, screen, loop, server, socket
<1>a. displayed \in Seq(Chunk) /\ unread \in Nat /\ unread <= Len(displayed)
  BY ProxyAssumption DEF TypeOK, ScreenInv
<1>1. CASE UNCHANGED screen
  BY <1>1, <1>a DEF ReadCount
<1>2. CASE VteReads
  BY <1>2, <1>a DEF VteReads, ReadCount
<1>3. CASE Display
  BY <1>1, <1>3, <1>a DEF Display, ReadCount, ExitProxy
<1>4. CASE Capture
  BY <1>1, <1>4 DEF Capture, ExitProxy
<1>5. CASE ProxyProcess
  BY <1>1, <1>3, <1>4, <1>5
  DEF ProxyProcess, RunProxy, Start, StartRefused, SpawnFails, Select, LeaveLoop, ForwardInput,
      InputEnds, RelayShell, RelayShellEOF, ReceiveSync, CaptureClosed, DrainOne, DrainEnds,
      Acknowledge, ExitProxy
<1>. QED
  BY <1>1, <1>2, <1>5
  DEF Next, Shell, ShellWrites, ShellExits, UserTypes, ReaderThread, AskBarrier, LeaveBarrier,
      CloseWindow

\* A sequence from some place on.
LEMMA RestOfSequence ==
  ASSUME NEW S, NEW s \in Seq(S), NEW m \in Nat, m <= Len(s)
  PROVE  /\ SubSeq(s, m + 1, Len(s)) \in Seq(S)
         /\ Len(SubSeq(s, m + 1, Len(s))) = Len(s) - m
         /\ \A k \in 1..Len(SubSeq(s, m + 1, Len(s))) :
              m + k \in 1..Len(s) /\ SubSeq(s, m + 1, Len(s))[k] = s[m + k]
<1>1. m + 1 \in Int /\ Len(s) \in Nat /\ \A i \in (m + 1)..Len(s) : s[i] \in S
  OBVIOUS
<1>. DEFINE rest == SubSeq(s, m + 1, Len(s))
<1>2. /\ rest \in Seq(S)
      /\ Len(rest) = IF m + 1 <= Len(s) THEN Len(s) - (m + 1) + 1 ELSE 0
      /\ \A k \in 1..(Len(s) - (m + 1) + 1) : rest[k] = s[(m + 1) + k - 1]
  BY <1>1, SubSeqProperties
<1>. HIDE DEF rest
<1>3. Len(rest) = Len(s) - m
  BY <1>1, <1>2
<1>4. ASSUME NEW k \in 1..Len(rest) PROVE m + k \in 1..Len(s) /\ rest[k] = s[m + k]
  <2>1. k \in 1..(Len(s) - (m + 1) + 1) /\ (m + 1) + k - 1 = m + k /\ m + k \in 1..Len(s)
    BY <1>1, <1>3, <1>4
  <2>. QED
    BY <1>2, <2>1
<1>. QED
  BY <1>2, <1>3, <1>4 DEF rest

\* A number in a longer interval and not in the shorter.
LEMMA Beyond ==
  ASSUME NEW a \in Nat, NEW b \in Nat, NEW c \in 1..b, c \notin 1..a
  PROVE  c - a \in 1..(b - a) /\ a + (c - a) = c
OBVIOUS

\* Chunks that no redraw met on their way are shown when they have been read,
\* once and in order.
SettledInv ==
  /\ shown \in Seq(Chunk)
  /\ \A i \in DOMAIN shown : shown[i] \notin unsettled => shown[i] <= ReadCount
  /\ \A c \in 1..ReadCount : c \notin unsettled => \E i \in DOMAIN shown : shown[i] = c
  /\ \A i, j \in DOMAIN shown :
       shown[i] \notin unsettled /\ shown[j] \notin unsettled /\ i < j => shown[i] < shown[j]

\* What VTE reads, it shows after what it has shown.
LEMMA SettledShows ==
  ASSUME ChannelInv, ChannelInv', SettledInv, [Next]_vars, ShowsRead, UNCHANGED unsettled
  PROVE  SettledInv'
<1>. DEFINE more == SubSeq(Read', Len(Read) + 1, Len(Read'))
<1>1. /\ ReadCount \in Nat /\ ReadCount' \in Nat /\ ReadCount' >= ReadCount
      /\ Len(Read) = ReadCount /\ Len(Read') = ReadCount' /\ Read' \in Seq(Chunk)
      /\ \A i \in 1..ReadCount' : Read'[i] = i
  <2>1. ReadInOrder /\ ReadInOrder'
    BY ReadIs, PTL
  <2>. QED
    BY <2>1, ReadGrows DEF ChannelInv, ReadInOrder
<1>2. /\ more \in Seq(Chunk) /\ Len(more) = ReadCount' - ReadCount
      /\ \A m \in 1..Len(more) : more[m] = ReadCount + m
  <2>1. Len(Read) \in Nat /\ Len(Read) <= Len(Read')
    BY <1>1
  <2>2. /\ more \in Seq(Chunk) /\ Len(more) = Len(Read') - Len(Read)
        /\ \A m \in 1..Len(more) : Len(Read) + m \in 1..Len(Read') /\ more[m] = Read'[Len(Read) + m]
    BY <1>1, <2>1, RestOfSequence
  <2>. HIDE DEF more
  <2>. QED
    BY <1>1, <2>2
<1>3. shown' = shown \o more
  BY DEF ShowsRead
<1>. HIDE DEF more
<1>4. /\ shown' \in Seq(Chunk) /\ Len(shown) \in Nat
      /\ \A i \in DOMAIN shown : i \in DOMAIN shown' /\ shown'[i] = shown[i]
      /\ \A i \in DOMAIN shown' :
           \/ i \in DOMAIN shown
           \/ i - Len(shown) \in 1..Len(more) /\ shown'[i] = more[i - Len(shown)] /\ i \in Nat
      /\ \A m \in 1..Len(more) : Len(shown) + m \in DOMAIN shown' /\ shown'[Len(shown) + m] = more[m]
  BY <1>2, <1>3 DEF SettledInv
<1>5. \A i \in DOMAIN shown' \ DOMAIN shown :
        /\ i \in Nat /\ i - Len(shown) \in 1..Len(more)
        /\ shown'[i] = ReadCount + (i - Len(shown))
  BY <1>2, <1>4
<1>6. \A i \in DOMAIN shown : i \in Nat /\ i <= Len(shown) /\ shown[i] \in Nat
  BY ProxyAssumption DEF SettledInv, Chunk
<1>7. ASSUME NEW i \in DOMAIN shown', shown'[i] \notin unsettled PROVE shown'[i] <= ReadCount'
  <2>1. CASE i \in DOMAIN shown
    BY <1>1, <1>4, <1>6, <1>7, <2>1 DEF SettledInv
  <2>2. CASE i \notin DOMAIN shown
    BY <1>1, <1>2, <1>4, <1>5, <1>7, <2>2
  <2>. QED
    BY <2>1, <2>2
<1>8. ASSUME NEW c \in 1..ReadCount', c \notin unsettled PROVE \E i \in DOMAIN shown' : shown'[i] = c
  <2>1. CASE c \in 1..ReadCount
    <3>1. PICK i \in DOMAIN shown : shown[i] = c
      BY <1>8, <2>1 DEF SettledInv
    <3>. QED
      BY <1>4, <3>1
  <2>2. CASE c \notin 1..ReadCount
    <3>. DEFINE m == c - ReadCount
    <3>1. m \in 1..Len(more) /\ ReadCount + m = c
      <4>1. m \in 1..(ReadCount' - ReadCount) /\ ReadCount + m = c
        BY <1>1, <1>8, <2>2, Beyond
      <4>. QED
        BY <1>2, <4>1
    <3>2. more[m] = ReadCount + m
      BY <1>2, <3>1
    <3>3. Len(shown) + m \in DOMAIN shown' /\ shown'[Len(shown) + m] = c
      BY <1>4, <3>1, <3>2
    <3>. QED
      BY <3>3
  <2>. QED
    BY <2>1, <2>2
<1>9. ASSUME NEW i \in DOMAIN shown', NEW j \in DOMAIN shown',
             shown'[i] \notin unsettled, shown'[j] \notin unsettled, i < j
      PROVE  shown'[i] < shown'[j]
  <2>1. CASE j \in DOMAIN shown
    <3>1. i \in DOMAIN shown
      BY <1>4, <1>5, <1>6, <1>9, <2>1
    <3>. QED
      BY <1>4, <1>9, <2>1, <3>1 DEF SettledInv
  <2>2. CASE j \notin DOMAIN shown /\ i \in DOMAIN shown
    <3>1. shown'[i] <= ReadCount
      BY <1>4, <1>9, <2>2 DEF SettledInv
    <3>. QED
      BY <1>1, <1>4, <1>5, <1>6, <2>2, <3>1
  <2>3. CASE j \notin DOMAIN shown /\ i \notin DOMAIN shown
    BY <1>1, <1>5, <1>9, <2>3
  <2>. QED
    BY <2>1, <2>2, <2>3
<1>. QED
  BY <1>4, <1>7, <1>8, <1>9 DEF SettledInv

\* A rebuilt screen shows the store: what is settled was there and is again.
LEMMA SettledRebuilds ==
  ASSUME ChannelInv, SettledInv, RemoveSelectedFromContext
  PROVE  SettledInv'
<1>1. /\ shown' = recorded /\ UNCHANGED <<vars, ReadCount>>
      /\ ToSet(recorded) \ ToSet(Read) \subseteq unsettled'
      /\ ToSet(Read) \ ToSet(recorded) \subseteq unsettled'
  BY DEF RemoveSelectedFromContext, Redraw, vars, screen, ReadCount
<1>2. /\ recorded \in Seq(Chunk) /\ \A i \in DOMAIN recorded : recorded[i] = i /\ i \in Nat
      /\ ToSet(recorded) = {recorded[i] : i \in DOMAIN recorded}
  BY DEF ChannelInv, TypeOK, StreamInv, ToSet
<1>3. /\ ReadCount \in Nat /\ DOMAIN Read = 1..ReadCount /\ \A i \in 1..ReadCount : Read[i] = i
      /\ ToSet(Read) = {Read[i] : i \in DOMAIN Read}
  BY ReadIs DEF ReadInOrder, ToSet
<1>4. ToSet(Read) = 1..ReadCount
  BY <1>3
<1>5. ASSUME NEW i \in DOMAIN recorded, recorded[i] \notin unsettled' PROVE recorded[i] <= ReadCount
  BY <1>1, <1>2, <1>4, <1>5
<1>6. ASSUME NEW c \in 1..ReadCount, c \notin unsettled' PROVE \E i \in DOMAIN recorded : recorded[i] = c
  BY <1>1, <1>2, <1>4, <1>6
<1>. QED
  BY <1>1, <1>2, <1>5, <1>6 DEF SettledInv

\* The screen keeps showing what VTE has read, each chunk once and in order,
\* also after RemoveSelectedFromContext rebuilt it (pane.py, redraw).
THEOREM ScreenStaysWhole == SSpec => []ScreenIsRead
<1>1. SInit => SettledInv
  <2>. SUFFICES ASSUME SInit PROVE SettledInv
    OBVIOUS
  <2>1. shown \in Seq(Chunk) /\ DOMAIN shown = {}
    BY DEF SInit
  <2>2. ReadCount = 0
    BY DEF SInit, Init, ProxyInit, ReadCount
  <2>. QED
    BY <2>1, <2>2 DEF SettledInv
<1>2. ChannelInv /\ ChannelInv' /\ SettledInv /\ [SNext]_svars => SettledInv'
  <2>. SUFFICES ASSUME ChannelInv, ChannelInv', SettledInv, [SNext]_svars PROVE SettledInv'
    OBVIOUS
  <2>1. CASE Next /\ ShowsRead /\ UNCHANGED <<redraws, unsettled>>
    BY <2>1, SettledShows
  <2>2. CASE RemoveSelectedFromContext
    BY <2>2, SettledRebuilds
  <2>3. CASE UNCHANGED svars
    BY <2>3 DEF svars, vars, screen, SettledInv, ReadCount, Chunk
  <2>. QED
    BY <2>1, <2>2, <2>3 DEF SNext
<1>3. ChannelInv /\ SettledInv => ScreenIsRead
  <2>. SUFFICES ASSUME ChannelInv, SettledInv PROVE ScreenIsRead
    OBVIOUS
  <2>. DEFINE Settled(chunks) == {i \in DOMAIN chunks : chunks[i] \notin unsettled}
  <2>1. DOMAIN Read = 1..ReadCount /\ \A i \in 1..ReadCount : Read[i] = i
    BY ReadIs DEF ReadInOrder
  <2>2. \A i \in DOMAIN shown : shown[i] \in Nat \ {0}
    BY ProxyAssumption DEF SettledInv, Chunk
  <2>3. {shown[i] : i \in Settled(shown)} \subseteq {Read[i] : i \in Settled(Read)}
    <3>1. ASSUME NEW i \in Settled(shown) PROVE shown[i] \in {Read[j] : j \in Settled(Read)}
      <4>1. shown[i] \in 1..ReadCount
        BY <2>2, <3>1, ReadIs DEF SettledInv, ReadInOrder
      <4>. QED
        BY <2>1, <3>1, <4>1
    <3>. QED
      BY <3>1
  <2>4. {Read[i] : i \in Settled(Read)} \subseteq {shown[i] : i \in Settled(shown)}
    BY <2>1 DEF SettledInv
  <2>. QED
    BY <2>3, <2>4 DEF SettledInv, ScreenIsRead
<1>. QED
  BY <1>1, <1>2, <1>3, ScreenRunsChannel, ChannelHolds, PTL DEF SSpec

====
