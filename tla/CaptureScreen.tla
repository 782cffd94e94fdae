---- MODULE CaptureScreen ----
(***************************************************************************)
(* CaptureChannel with what VTE's screen shows.  Removing a selection from *)
(* the context makes window.py rebuild the screen from the transcript      *)
(* (terminal/pane.py, redraw), while chunks of output are on their way to  *)
(* the store, to the screen or to both.                                    *)
(*                                                                         *)
(* A chunk stays a chunk when part of its text is redacted.                *)
(***************************************************************************)
EXTENDS CaptureChannel

CONSTANT MaxRedraws   \* bound: selections removed from the context

ASSUME RedrawAssumption == MaxRedraws \in Nat

VARIABLES
  shown,     \* the chunks on the screen
  redraws,   \* selections removed so far
  unsettled  \* remembers: chunks that a redraw met on their way

svars == <<vars, shown, redraws, unsettled>>

SInit == Init /\ shown = <<>> /\ redraws = 0 /\ unsettled = {}

\* What VTE has read of what was written to its terminal.
Read == SubSeq(displayed, 1, Len(displayed) - unread)

\* VTE shows what it reads.
ShowsRead == shown' = shown \o SubSeq(Read', Len(Read) + 1, Len(Read'))

\* Mutant: the screen is not cleared first.
Redraw_KeepsScreen == shown' = shown \o recorded

Redraw == shown' = recorded

\* A handler of the main thread; the selection must be found in the transcript.
RemoveSelectedFromContext ==
  /\ waiting = 0 /\ vte_open
  /\ redraws < MaxRedraws
  /\ ToSet(shown) \cap ToSet(recorded) # {}
  /\ Redraw
  /\ redraws' = redraws + 1
  /\ unsettled' = unsettled
       \cup (ToSet(recorded) \ ToSet(Read)) \cup (ToSet(Read) \ ToSet(recorded))
  /\ UNCHANGED vars

SNext ==
  \/ Next /\ ShowsRead /\ UNCHANGED <<redraws, unsettled>>
  \/ RemoveSelectedFromContext

SSpec == SInit /\ [][SNext]_svars /\ Fairness

----------------------------------------------------------------------------

\* The screen shows what VTE has read, each chunk once and in order, also after
\* it was rebuilt ("Rebuild VTE display/scrollback from redacted transcript
\* bytes", redraw), except for chunks that were on their way then: one that was
\* recorded and not yet read is shown again, one that was read and not yet
\* recorded is gone.
ScreenIsRead ==
  LET Settled(chunks) == {i \in DOMAIN chunks : chunks[i] \notin unsettled}
  IN  /\ {shown[i] : i \in Settled(shown)} = {Read[i] : i \in Settled(Read)}
      /\ \A i, j \in Settled(shown) : i < j => shown[i] < shown[j]

====
