---- MODULE TranscriptStore ----
(***************************************************************************)
(* terminal/transcript_store.py and the text operations of                 *)
(* terminal/transcript.py that the rest of the program applies to a slice. *)
(*                                                                         *)
(* An event is one chunk of shell output; it is numbered when it is        *)
(* appended.  Its bytes are abstracted to a few fragments: a fragment      *)
(* knows its event, its position in the event and what it says, so a text  *)
(* is simply a SET of fragments and its order is that of <<seq, pos>>.     *)
(***************************************************************************)
EXTENDS Integers, FiniteSets, FiniteSetsExt

CONSTANTS
  Words,      \* what a visible fragment can say
  Control,    \* a fragment that only carries terminal state (bell, colour...)
  MaxEvents,  \* bound: events captured in a behaviour
  MaxPieces   \* bound: fragments in one event

ASSUME StoreAssumption ==
  /\ Control \notin Words
  /\ MaxEvents \in Nat
  /\ MaxPieces \in Nat \ {0}

VARIABLES
  fragments,      \* what is left of the events' bytes after redactions
  next_sequence

store == <<fragments, next_sequence>>

Fragment == [seq : Nat, pos : Nat, val : Words \cup {Control}]
Text == SUBSET Fragment
Slice == [start : Nat, end : Nat, text : Text, marked : BOOLEAN]

\* What one read of the shell can return: never zero bytes.
Chunks == UNION {[1..n -> Words \cup {Control}] : n \in 1..MaxPieces}

StoreInit ==
  /\ fragments = {}
  /\ next_sequence = 0

----------------------------------------------------------------------------
(* Text.                                                                   *)

Before(p, q) ==
  \/ p.seq < q.seq
  \/ p.seq = q.seq /\ p.pos < q.pos

Newest(text, k) ==
  {p \in text : Cardinality({q \in text : Before(p, q)}) < k}

RenderTerminalStream(text) == {p \in text : p.val # Control}

Remove(text, word) == {p \in text : p.val # word}

----------------------------------------------------------------------------
(* The store's methods.  Each holds the store's lock from end to end.      *)

TranscriptAppend(chunk) ==
  /\ next_sequence < MaxEvents
  /\ fragments' = fragments \cup
       {[seq |-> next_sequence, pos |-> i, val |-> chunk[i]] : i \in DOMAIN chunk}
  /\ next_sequence' = next_sequence + 1

\* Mutant: a slice begins one event too early.
GetSlice_OneBefore(start, end) ==
  [start |-> start, end |-> end, marked |-> FALSE,
   text |-> {p \in fragments : start - 1 <= p.seq /\ p.seq < end}]

GetSlice(start, end) ==
  [start |-> start, end |-> end, marked |-> FALSE,
   text |-> {p \in fragments : start <= p.seq /\ p.seq < end}]

SnapshotSlice(start) == GetSlice(start, next_sequence)

Occurrences(word) == {p \in fragments : p.val = word}

\* Only the first occurrence goes, and no event is renumbered.
RedactText(word) ==
  /\ Occurrences(word) # {}
  /\ fragments' = fragments \
       {p \in Occurrences(word) : \A q \in Occurrences(word) : ~Before(q, p)}
  /\ UNCHANGED next_sequence

====
