# TroubleShell in TLA+

TroubleShell is a GTK program that puts a terminal beside a conversation with a
language model. Shell output is captured on its way to the screen and sent
along with the user's questions. This directory models the parts of it that
carry its own logic, checks them with TLC on small instances and proves with
TLAPS what holds for every instance.

Paths below are relative to the repository; `window.py` and the like are under
`src/troubleshell/`.

## Inventory

| Component | State | Operations | Hard parts | Correct when |
| --- | --- | --- | --- | --- |
| Transcript store, `terminal/transcript_store.py` | events, next sequence number | append, get_slice, snapshot_slice, redact_text, each under one lock | appended by the capture reader at any moment | numbering never changes, a slice is exactly a range |
| Context session, `llm/context_session.py` | cursor (`acknowledged_sequence`), baseline, pending slice and message, history, compaction passes | request_slice, snapshot_for_send, commit, rollback, compact + rebase, redact | compaction reads the store again, and changes what rollback does not restore | each event is sent once, none is skipped, failures consume nothing |
| Request lifecycle, `window.py` | request id, cancel event, response label, widget sensitivity | send, compaction loop, background thread, deltas, finish, cancel, remove selection | threads and idle callbacks of old requests, in any order with buttons | stale callbacks change nothing; the window never stays locked |
| PTY proxy, `terminal/pty_proxy.py` | registered descriptors, input open, current batch | relay input, relay output, serve a barrier, exits | a select batch is stale while it is handled; blocking reads and writes | captured before displayed; keys arrive; ends with its shell |
| Capture server, `terminal/capture_server.py` | state, waiters | reader thread, synchronize, ensure_healthy, stop | timeouts, late acknowledgements, connection loss | a barrier that succeeds covers earlier output |
| Capture protocol, `terminal/capture_protocol.py` | none | frame, classify | order on one connection | |
| Model-facing text, `terminal/transcript.py`, `llm/prompt.py` | none | render, estimate, build request | line editing in any order, tags inside terminal text, rounding | the model is given what the operator saw |
| Provider client, `llm/openai_compatible.py` | one HTTP stream | stream, complete | truncated streams, silence, keep-alives, errors while streaming | what is committed is all that was said; with a timeout a request ends |
| Answer parsing, `chat/parser.py`, `chat/rendering.py` | none | parse fences, escape markup | unlabelled and unclosed fences, answers cut anywhere, carriage returns, tags that cross | commands come from fences only, nothing is lost, every answer can be shown |
| Configuration, `config.py` | a TOML file | load, save, save on zoom | round trip, lost edits, two instances, a save cut off | the next start finds what was set |
| Terminal pane, `terminal/pane.py`, `terminal/insertion.py` | the VTE widget | spawn, insert, execute, redraw | commands of several lines, redraw while output is on its way | Insert submits nothing, the screen shows what was read |
| Entry points, packaging | none | start-up | | |

They interact as follows. VTE starts the proxy on its terminal; the proxy
starts the shell on a second one and connects to the capture server's socket.
Each chunk of shell output is sent on that socket and then written to VTE. The
server's reader thread appends it to the store. The send button asks the server
for a barrier, then takes a snapshot through the session, builds and if needed
compacts the request, and starts a background thread, which reports through
GLib's queue of idle callbacks. GTK, VTE and the buttons run on one main thread.

## Modules

    TranscriptStore <- ContextSession <- TroubleWindow <- WindowHistory
                                          ^        ^          |  refines
                              ProviderClient       |      Conversation
                                (refines)          |
                                       TroubleWindowProofs <- HistoryProofs, ProviderClientProofs

    CaptureSocket <- PtyProxy, CaptureServer <- CaptureChannel <- CaptureScreen <- CaptureProofs

    FenceParser <- SuggestedCommands <- SuggestionProofs
    TomlText <- TomlProofs, Settings <- SettingsProofs

    TerminalRenderer, SelectedText, MessageTags, ProseMarkup, TomlText <- ModelFacingText

`A <- B` means that `B` extends `A`; `ProviderClient` extends `TroubleWindow`.
`HistoryProofs` extends `WindowHistory` too, `ProviderClientProofs`
`ProviderClient`, `TextProofs` `ModelFacingText`, and the proofs about
suggestions and texts use the lemmas on sequences in `TomlProofs`.

**Store, session and window**

* `TranscriptStore`: the store and the text operations. A chunk of output is an
  event of a few *fragments*, each with its event's number, its position and
  what it says. A text is a set of fragments, ordered by number and position.
  Rendering drops fragments that only carry terminal state (`Control`).
* `ContextSession`: every method of the session as an action on its fields. A
  user message keeps the terminal text of its `<terminal_context>` block, so
  that scrubbing and redaction act on it.
* `TroubleWindow`: the main thread, one background thread per request, the idle
  queue and the capture reader. `_send_question` is one handler but not one
  step: `Send`, `FirstCompaction`, `CompactAgain`, `Reject` and `Submit` are the
  places between which the reader thread can append. While it runs
  (`composing`) no other handler of the main thread does. A cancel event is
  named by its request. Background threads of cancelled requests go on.
* `WindowHistory`: adds variables that only remember (`owed`, `boundary`,
  `trimmed`, `removed`) and the properties that need them.
* `Conversation`: the abstract specification: events are captured, and the
  conversation grows by whole turns whose text is newer than all delivered
  before. No requests, threads, cancellation or passes. `WindowHistory` shows
  that the session's history under `captured <- next_sequence, messages <-
  history` implements it.
* `ProviderClient`: what `stream()` does on a background thread. A request
  connects, waits for headers and then reads `events` or a `body`; `said` counts
  what the provider has sent, `closing` whether it has ended its answer or was
  cut, `noise` whether something has arrived that adds nothing to the answer: a
  comment, an empty line, reasoning, usage. `TroubleWindow` lets answers come, end and fail at any moment;
  `ProviderClient` refines it by saying when they do.

**Capture**

* `CaptureSocket`, `PtyProxy`, `CaptureServer`, `CaptureChannel`: the proxy's
  loop (one action per branch, `batch` the ready descriptors not handled yet,
  `held` a chunk captured and not displayed yet, `draining` the barrier being
  served), the reader thread and the main thread's calls, and their
  composition. The main thread both waits in `synchronize` and reads VTE's
  terminal, so `VteReads` is impossible while it waits.
* `CaptureScreen`: what VTE's screen shows, and *Remove selection*, which rebuilds
  it from the transcript while chunks are on their way.

**Answers and commands**

* `FenceParser`: `parse_response` line by line, as a recursive function. A line is
  what it says and the line end it has: none, LF, CR LF or CR. Fences are bare,
  or have a label of a shell, of another language, or one that begins with no
  word character (```` ```{python} ````).
* `SuggestedCommands`: an answer that arrives in fragments cut anywhere, also in a
  fence or in a line end; its cards; and the shell's prompt, onto which Insert and
  Execute feed the text of a card as `insertable_text` gives it.

**Configuration**

* `TomlText`: how a string is written and what `tomllib` reads back.
* `Settings`: the file, the user's edits and two instances that load it once and
  save all of it on each zoom. One field stands for each kind of conversion.

**Texts**: pure functions, each next to a reference definition.

* `TerminalRenderer`: `render_terminal_stream` as a recursive function over tokens,
  one for each kind of character, control or sequence the code tells apart; the
  reference is a terminal described cell by cell.
* `SelectedText`: `redact_text` on characters, colours and line editing, across
  events of all sizes.
* `MessageTags`: `build_request` and the patterns that find terminal text again.
* `ProseMarkup`: `prose_to_pango` as its four substitutions, and when Pango can
  parse what they give.
* `ModelFacingText`: a text of one of these kinds grows token by token, so that
  each text up to the bound is a state.

`MCHistory`, `MCProvider`, `MCCapture`, `MCSuggestions`, `MCSettings` and `MCTexts` are
what TLC runs; the `.cfg` files give the constants their values. The proofs are
in the modules whose name ends in `Proofs`.

Definitions whose name ends in an underscore and a word (`Stale_IdOnly`,
`Scrub_Keeps`) are *mutants*: what the definition before the underscore would be
with a plausible bug. Putting one in place of the real one makes the property
named for it in `PROJECT.json` fail, which shows that the property says
something about the code. No specification uses them.

## Runs

| Run | Question | Outcome |
| --- | --- | --- |
| `Window` | With cancels, errors and late callbacks in every order, compaction, and output captured meanwhile: are conversation and widgets right, nothing sent twice or acknowledged undelivered, a failed request's context sent later, the abstract conversation implemented, and does preparing end? | holds |
| `ProviderAnswers` | With the provider client: is what is committed all that was said and what is shown that of the live request, does the client refine the window, does a request end when there is a timeout and the provider falls silent? | holds |
| `CaptureBarrier` | Is the stream intact, the screen captured and rebuilt rightly, does a successful barrier cover earlier output, do keys arrive and the proxy end, except where a barrier stalls it? | holds |
| `SuggestedCommands` | Cut anywhere, with every kind of line end: does an answer lose nothing, do commands come from fences only, do complete ones stay, and do those of one line wait for Enter? | holds |
| `Settings` | Does the next start find what was set by editing and zooming, in both instances? | holds |
| `Texts` | Do rendering, redaction, tags, markup and TOML strings agree with their reference definitions? | holds |
| `FailureConsumes` | With compaction: does a failed request consume nothing? | violated |
| `RedactedResent` | Does redacted text stay out of later requests? | violated |
| `BarrierHarms` | With two barriers: do no keys wait on a read without data, or does the proxy at least exit when the shell does? | violated: neither |
| `CutCommitted` | Are only complete answers committed? | violated |
| `InsertSubmits` | Does Insert submit nothing of an answer without labels, which should not be insertable at all? | violated: it is, and it submits |
| `MarkupCrosses` | Can every answer be shown? | violated |

The violated properties quote documentation, comments or a status text of the
repository (`PROJECT.json`, "findings"). In short:

1. Compaction moves the cursor while a request is prepared and a rollback does
   not move it back (`context_session.py:142`), so a request that is then
   rejected, fails or is cancelled does consume context.
2. Redaction during a request misses the pending user message, which joins the
   history afterwards (`context_session.py:185`).
3. A barrier served before the shell in one select batch reads what made the
   shell ready; the blocking read that follows holds up the user's keys
   (`pty_proxy.py:200`).
4. A barrier that meets the end of the shell leaves the proxy in its loop, without
   a shell, until somebody types or the window closes (`pty_proxy.py:213`); the
   design says that it exits. `BarriersAreHarmless` is a disjunction, so that the
   one trace of `BarrierHarms` shows this and 3.
5. A stream of events that is cut off without `[DONE]` ends like a complete one
   and is committed (`openai_compatible.py:113`), although only a complete
   response should be acknowledged.
6. Blocks without a label are commands (`parser.py:45`); `architecture.md` says
   they are not, the comment in the code that they should be.
7. Insert submits: a command of one line keeps the carriage return of a CR LF line
   end (`parser.py:44`), which becomes a newline (`insertion.py:5`), and a block of
   several lines is fed with its inner line ends (`pane.py:38`). The trace of
   `InsertSubmits` shows 6 and the first case of this.
8. Emphasis in two code spans gives tags that cross, which Pango rejects
   (`rendering.py:26`).

### Exceptions that the properties name

Some properties that hold do so with exceptions. They are what the code does, and
a reader should know of them.

* Output captured during compaction counts, so the cursor can pass the end of
  the request, and what it passes is in no request (`context_session.py:136`).
  `UnseenOnlyByBaseline`: only a baseline moved by compaction does this.
* A second compaction pass keeps half of the *original* text, more than the
  third that the first one kept, and a third pass equals the second, so the loop
  gives up (`context_session.py:167-170`; the comment at 165 says "repeated
  calls progressively reduce it"). `SendEnds` holds nevertheless.
* After its shell the proxy goes on only where a barrier noticed the end, and
  then a key, whose write raises EIO, or the closed window ends it.
  `ExitIsNoticed`, `OnlyBarriersStall`.
* Cut or not, what is committed is all that had been said, and a body is never
  committed when it was cut. `CommittedInFull`.
* Without a configured timeout, which is the default, a silent provider keeps its
  thread for ever, and with one a provider does that never stops sending: a line
  that the client skips starts the read timeout again and does not reach the
  window's look at the cancel event (`openai_compatible.py:115`, `window.py:421`),
  so that a cancelled request can outlive every timeout, although `README.md:133`
  says that it "may continue until its timeout".
  `RequestEnds` and `CancelledEnds` assume a timeout and a provider that falls
  silent at last (`FallsSilent`). That an answer itself is finite is the bound
  `MaxFragments`: endless deltas keep a request in the same way, until it is
  cancelled.
* Font sizes in the file are taken as they are (`config.py:56`): an instance has a
  size from 6 to 72 only once it was zoomed. `TypeOK` of `Settings`.
* A redraw shows twice what is recorded and not yet read by VTE, and loses what
  VTE has read and is not yet recorded (`window.py:255`). `ScreenIsRead`: nothing else.
* A selection is found only if the shell has written it in one go, without a
  colour, a movement of the line editor or a line end after its first character
  (`transcript_store.py:134`), although `README.md:121` says of any selection that
  the program "removes it from the local transcript". Of a text that occurs several
  times the store gives up the first occurrence, whichever was selected.
  `SelectionIsRedacted`.
* Terminal text with a line that begins with the closing tag, or a question with
  a whole block, is not scrubbed and redacted exactly. `ScrubIsExact`,
  `RedactionIsExact`.
* Settings are lost when a save is cut off, overlaps with another, comes from an
  instance that has loaded other settings, or holds a text that TOML strings as
  written cannot. The third undoes what the user has edited while the program
  runs (`window.py:722`), which `README.md:112` allows, asking for a restart only.
  `SettingsSurvive`, `TextRoundTrips`.
* An unfinished answer may show a command that the whole answer has not: one cut
  inside a closing fence keeps its backticks, one cut inside the label of another
  language's fence is a command without text. `CommandsOnlyGrow` says that no more
  than the line that was cut goes.
* Insert waits on the prompt with commands of one line and an answer without
  carriage returns. `OneLineCommandsWait`.
* Two substitutions of `prose_to_pango` can give tags that cross. With one kind of
  emphasis they nest; what counts is where the signs stand when the language
  model's own tags are removed, since that can bring two stars together
  (`rendering.py:19`). `OneKindNests`.
* What is rendered is what a terminal shows of text with strings, colours, line
  editing, movements within the line and erasing to its end, but for a single
  empty first line. `RendersScreen` exempts `CSI 1 K` and `CSI 2 K`, which
  delete and move the cursor where a terminal blanks in place (`transcript.py:54`;
  the comment at 33 promises "the text an operator saw"), the
  tab, which is written as one character, `H` and `f`, whose row is dropped on
  purpose (`transcript.py:105`), and the sequences that the code skips (insertion
  and deletion of characters, vertical movements, `CSI J`).

### Bounds

`MaxEvents`, `MaxPieces` (fragments in an event), `MaxRequests`, `MaxFragments`
(fragments in an answer), `MaxChunks`, `MaxKeys`, `MaxSyncs`, `MaxRedraws`, `MaxLines`,
`MaxInputs`, `MaxEdits` and the lengths of texts only limit how often the
environment acts; they are guards of the actions of the shell, the user and the
provider. Because of them a behaviour comes to an end, and a configuration file that
cannot be read stops the program, so the runs do not check for deadlock; liveness properties say what must not get
stuck.

* `Window`: compaction advances its baseline only from two events on
  ((n * 2) div 3), so four events let it advance with one event retained, with
  none new, and again after more output. With `MessageCost = 1` an n-th turn
  costs 2n besides its text, so at `SafeLimit = 6` requests fit, need one pass,
  need several and are given up, and two turns can hold text at once. Three
  requests let delivered text meet that of two later ones, and callbacks of two
  cancelled requests a third. Answers are empty there: what they say matters to
  `StreamIsLive` only, which `ProviderAnswers` checks. `FailureConsumes` has
  events of two fragments, so that a pass cuts an event; `RedactedResent` has
  room for everything (`SafeLimit = 100`), so that compaction plays no part.
* `ProviderAnswers` has two requests, one to be cancelled while the other is
  asked, and one fragment, before or after which an answer can be cut; what
  keeps a request alive comes as often as the provider likes.
* `CaptureBarrier` has two barriers, so that the first can time out and be
  answered during the second, a display of one chunk that fills at once, and
  three chunks, so that at a redraw one can be shown, one read and not recorded
  or recorded and not read, and one still to come.
* `BarrierHarms` needs one barrier for each promise, and one chunk for each.
* `SuggestedCommands` has four lines: a block with two lines in its fences, or a
  closed block and one that is cut off in its fence, with each combination of line
  ends; one thing to say is enough, since what lines say is only compared with
  fences. One click is enough, since how many lines it submits does not depend on
  what stands on the prompt. `InsertSubmits` has CR LF line ends and two clicks.
* `Settings` has three font sizes, so that zooming stops at both ends, a fourth out
  of range that only the file can hold, and two
  edits, so that an instance can save between them. `Texts` in that module are
  the default prompt, an empty one, one with all that must be escaped, and one
  that cannot be saved. Instances are interchangeable and the run uses it.
* `Texts`: a stream of five tokens moves, writes, erases and ends a line; an
  output of five tokens can repeat a selection, colour it, write over it and lie
  across three events;
  a message of six splits into a context with a nested closing tag and a
  question; prose of six holds two code spans with a star in each, or double
  and single emphasis; a setting of five has each escape beside each other.

### Fairness

* `WF(MainThread)`: GLib's loop runs a handler to its end and then the next idle
  callback. Nothing is assumed of the user, the provider or the shell.
* `WF(ClientThread(r))`, in `ProviderClient` only: a background thread reads what
  has arrived, and httpx's timer runs. A provider may stay silent for ever, or
  send comments for ever. In
  `TroubleWindow` nothing is assumed of background threads: there
  `FinishArrives` starts when a thread has ended.
* `WF(ProxyProcess)`, `WF(ReaderThread)`: a process or thread that can run is
  scheduled. A step of the proxy that blocks (a read without data, a write to a
  full terminal) is not enabled.
* `WF(LeaveBarrier)`: the wait in `synchronize` has a timeout of one second.
* `WF(VteReads)`: the main loop lets VTE read its terminal when not waiting.

## Proofs

The proofs hold for all values of the constants that satisfy the named
assumptions: bounds are natural numbers and an event has at least one fragment
(`StoreAssumption`, `WindowAssumption`, `ProxyAssumption`, `ServerAssumption`,
`SettingsAssumption`); what stands for nothing is none of the things it could be
confused with (`NoneAssumption`: `None` is no slice, message, number or sequence;
`ParserAssumption`: no line of an answer, and what prose says is no fence; `MissingAssumption`: `Missing` is no text,
number, configuration or file). Each theorem follows from an inductive invariant,
one step per action; TLC has checked each of these invariants on the run of its
module before it was proved.

### Window and session

`TroubleWindowProofs`:

* `TypeCorrect`: `Spec => []TypeOK`. Inductive is `TypeInv`, which adds that the
  baseline never passes the store's end; otherwise compaction's new start would
  not be a natural number below it.
* `WidgetsAgree`: `Spec => []InFlightAgrees`. The invariant `PhaseInv` says that
  the window is in one of three phases, *composing*, *idle* and *in flight*, and
  that only submitted requests are cancelled, without which a new request could
  find its event set.
* `DeliveryIsSeparated` and `SentAtMostOnce`: `DeliveryInv` and `AtMostOnce`.
  The cursor is no monotone mark: compaction may move it past the end of the
  pending request and the commit back to that end. What holds is that the
  conversation's text is below the cursor *and* below the end of the pending
  slice, and the slice's text between both. Compaction keeps this because it
  takes all terminal text out of user messages in the step that moves the
  cursor; hence the induction also needs that other messages hold none
  (`OnlyUsersCarry`).
* `BoundarySettled`: `Spec => BoundaryIsSettled`, an action property from the
  same invariants.
* `TurnsStayWhole`: `Spec => []TurnsAreWhole`. `FinishInv` says that a request has
  at most one response or error in the queue and none while its thread runs, so
  that an answer is committed once; `TurnsInv` adds to the property that the
  request of a turn has been submitted and is not the one in flight, which is
  why a later cancel cannot name it.

`HistoryProofs`:

* `LabelStaysLive`: `Spec => []StreamIsLive`. `LiveInv` adds that nothing has been
  received for requests that are still to come: the label of a new request starts
  empty with an empty set of callbacks. The induction showed that the property
  had to bound the label by what was received; without that conjunct an interval
  of callbacks that is empty says nothing of a label that is too long.
* `NoneSkipped`, `OnlyBaselineSkips`, `FailuresConsumeNothing`: `NothingSkipped`,
  `UnseenOnlyByBaseline` and the action property `OwedIsDelivered`. `HistoryInv`
  relates the cursor, the pending slice and what the observer remembers:
  `BoundaryInv` says where the last request ended, `OwedInv` that what
  requests asked for is below that end and, unless it is behind the baseline,
  not below the cursor, and `CarriedInv` that the pending message carries all of its slice that was not cut.
* `WindowImplementsConversation`: `HSpec => ImplementsConversation`. Each step of
  the window is a capture, a turn, a scrub or redaction of `Conversation`, or
  leaves number and messages as they are; that the text of a new turn is newer
  than all before is `DeliveryInv`.

`ProviderClientProofs`:

* `ClientImplementsWindow`: `CSpec => ImplementsWindow`. Each step of the client is
  a step of the window or leaves it as it is (`WindowStep`); the fairness of
  the window is a conjunct of `CSpec`. Every theorem about `Spec` holds of `CSpec` by it.
* `ClientTypeCorrect`: `CSpec => []CTypeOK`.
* `AnswersAreComplete`: `CSpec => []CommittedInFull`. `WholeInv` follows an answer from
  the thread that ends with all that was said, through the queue
  (`QueueInFull`), into the conversation (`TurnsInFull`); what was said does not
  grow after the provider has ended.

### Capture

`CaptureProofs`, for every number of chunks, keys and barriers and every room in
VTE's terminal. `ChannelInv` has a part for each question:

* `ChannelTypeCorrect`, `NothingIsLost`, `CapturedFirst`: `TypeOK`, `StreamIsIntact`
  and `ShownIsCaptured`. `StreamInv` follows a chunk from the shell's terminal over
  the socket into the store; `ScreenInv` adds where the one chunk is that is
  captured and not displayed yet (`held`), also in a barrier's drain, where
  the loop is at another place.
* `StallsNeedBarriers`: `OnlyBarriersStall`. As long as no barrier was asked for, a
  shell that the batch still names has something to read (`StallInv`): nothing
  but a drain reads it between `select` and its branch.
* `BarriersCover`: the action property `BarrierCovers`. `BarrierInv` follows the
  newest request through the socket, the drain and the acknowledgement: ahead of
  its acknowledgement all that was promised is on the same socket. Old
  acknowledgements carry smaller numbers.
* `ScreenStaysWhole`: `SSpec => []ScreenIsRead`. `SettledInv` says it of each chunk
  that no redraw met on its way.

### Answers, settings and texts

What a function computes is proved for texts of every length. Induction over data
needs a theorem with an operator as its parameter, which the provers cannot use;
`TomlProofs` goes another way: `LeastNatural`, that a set of natural numbers has a
least element, gives `AllSequences`, that a *set* which holds the empty sequence
and with each sequence those with one element more holds all sequences. A claim on
texts becomes membership in such a set. Recursive functions are shown to exist,
and to agree where their inputs do, in the same way. Therefore these modules write
folds as recursive functions and filters as `FlattenSeq` of pieces.

* `TextsRoundTrip` (`TomlProofs`) and `SettingTextsRoundTrip` (`TextProofs`): a text
  is read back as it was exactly if it is savable. `EscapeReads` reads each
  escaped character back as it was from any state of the reader.
* `MessagesScrubExactly` and `MessagesRedactExactly` (`TextProofs`): `ScrubIsExact`
  and `RedactionIsExact` for terminal texts and questions of any length.
  `FirstMatch`: the first match ends with the block of the message exactly if no
  line of its text begins with the closing tag. `LaterMatches`: after it the
  matches of the message are those of the question. `SubstituteTail`: without a
  match the text stays. That the condition is necessary follows from
  `SubstituteMarks`: had there been a later match, there would be a second marker,
  and had the first been shorter, the message would be longer.
* `OneKindOfMarkupNests`: `OneKindNests`. `SpansNest`: a substitution that wraps
  disjoint spans of plain text gives tags that nest; `HeadingsRuled` follows a
  text with headings token by token, and `ProseNests` joins the two, for code
  or italics. Bold finds nothing where no two stars are adjacent.
* `SelectionsAreRedacted`: `SelectionIsRedacted`. `SelectionIs`: where the raw text
  has a selection, the shell has written it in one go, since each of its
  characters stands for itself there; `TokensEnd` places the tokens of an output in
  its raw text, and `FoundInOneGo` finds there what was written in one go.
  `CapturedWhole`, `DroppedIs` and `CutKeeps`: the offsets at which `redact_text`
  cuts are those of the events in the joined text, wherever it was cut apart.
* `BoundariesDoNotMatter`: `BoundaryAtLineEnd`. `InStringIs`: outside of a string
  the renderer is outside of one, too. `InterpretedConcat`: from the beginning of a
  line a text is then interpreted as it is alone, below the lines before
  (`InterpretBelow`). `LinesJoined`: what is joined splits again into the same
  lines, and `SaidAtLineEnd` counts those that are not empty.
* `ScreensAreRendered`: `RendersScreen`. `Fits` says that the renderer's cursor and
  each cell of its current line are those of the terminal; `FitsMore` shows it for one
  token more, by `CellMore` on the reference's side, and `TextMirrored` for a
  whole text, line by line. `StringsMore`: what stands in a string changes
  neither. `LosesOne`: joining and splitting lines loses one empty line at most.
* `SettingsTypeCorrect` and `SettingsAreKept` (`SettingsProofs`): `TypeOK` and
  `SettingsSurvive` for any number of instances. `KeptInv` adds the states
  between emptying the file and writing it: then one instance saves, and what it
  will write is what is remembered, apart from the font size it was zoomed to.
* `AnswersAreShown` (`SuggestionProofs`): `NothingIsLost`. With each line read,
  what the segments and the current lines say is what the answer has said.
* `CommandsStayFenced`: `CommandsAreFenced`. `Fenced`: each command so far is in a
  block that a bare fence closes, and the current lines of an open block are all
  after its fence.
* `CommandsGrow`: the action property `CommandsOnlyGrow`. The commands of an answer
  are those of its segments and the open block (`CommandsAre`). `LineChanges`
  compares the commands before and after a cut line becomes another one, and
  `Turns` says what may have become of them.
* `OneLinersWait`: `OneLineCommandsWait`, inductive with the types of cards and
  prompt, and with what an answer without carriage returns has left in its
  commands: `RStrip` takes the line end of a single line (`StrippedEndless`).

The proofs changed the model where it was wrong or said too little:

* The guards of the CASEs in `Unescape`, `Inside` and `Interpret` overlapped, and a
  CASE whose guards overlap denotes any of its values, although TLC takes the first.
* `OneKindNests` was false for texts longer than TLC's six tokens: in a text of
  eleven, two stars become adjacent when a tag of the language model's own
  between them is removed. Its condition is now on the text without those tags.
* The renderer and the substitutions are recursive functions and `FlattenSeq` of
  pieces, so that `ValuesExist` and `ValuesAgree` apply: a recursion over the
  places of a text has a function, and only one.

Every invariant, every safety action property and both refinements of the passing
runs are theorems. Only model-checked: the liveness properties `SendEnds`,
`FinishArrives`, `KeysMove`, `ExitIsNoticed`, `LossIsNoticed`, `RequestEnds` and
`CancelledEnds`, which need `ENABLED` and are out of the prover's reach; and the
six violated properties, for which a counterexample is the answer.

## Not modelled

* Of the window: token calibration and the usage label, scrolling, fonts as they
  are drawn, clipboard, the reasoning text (its deltas have the guards of content
  deltas; that they end a cancelled request is `ReadAside`).
* Of the provider client: `complete()`, which the program does not call, and the
  wording of errors.
* Of the text: the token estimator, which `TroubleWindow` replaces by a monotone
  count of messages and fragments and on which only the choice of the cases
  depends; negative parameters of cursor sequences, which make the renderer
  index from the end of a line; UTF-8 characters split between events; the rarer
  line separators of `splitlines` (form feed, U+2028) and lines of blanks;
  `code_to_pango`, one call of `html.escape`.
* Of the proxy: a shell that does not read its input, window sizes, exit codes.
* Of the capture server: a failing bind, which ends the program before there is
  a window, and packets that the reader may still record while `stop` joins it.
* Packaging and the construction of widgets have no behaviour of their own.

## Plan

1. `PtyProxy` with a bounded input buffer of the shell's terminal.
2. `TokenEstimate` with tokens that stand for many characters, so that removing
   text can raise an estimate, under the compaction loop.
3. The barrier of `CaptureChannel` composed with the snapshot of `TroubleWindow`,
   for "a question carries all that the user saw".
