---- MODULE SuggestionProofs ----
(***************************************************************************)
(* What holds of suggested commands for answers of any length: no line of  *)
(* an answer is lost, commands are what stands between fences, an answer   *)
(* that goes on takes no command back, and commands of one line wait on    *)
(* the prompt.                                                             *)
(***************************************************************************)
EXTENDS SuggestedCommands, TomlProofs

----------------------------------------------------------------------------
(* The parser, one line at a time.                                         *)

\* f reads the first n lines of an answer.
ParsesLines(f, lines, n) ==
  f = [k \in 0..n |-> IF k = 0 THEN Start ELSE Read(f[k - 1], lines[k])]

\* Some function does.
LEMMA ParsingExists ==
  ASSUME NEW lines, NEW n \in Nat
  PROVE  \E f : ParsesLines(f, lines, n)
<1>. DEFINE G == {m \in Nat : \E f : ParsesLines(f, lines, m)}
<1>1. 0 \in G
  <2>. DEFINE f == [k \in 0..0 |-> Start]
  <2>1. f = [k \in 0..0 |-> IF k = 0 THEN Start ELSE Read(f[k - 1], lines[k])]
    OBVIOUS
  <2>. QED
    BY <2>1 DEF ParsesLines
<1>2. ASSUME NEW m \in Nat, m \in G PROVE m + 1 \in G
  <2>1. PICK f : ParsesLines(f, lines, m)
    BY <1>2
  <2>. DEFINE g == [k \in 0..m + 1 |-> IF k = m + 1 THEN Read(f[m], lines[m + 1]) ELSE f[k]]
  <2>2. ASSUME NEW k \in 0..m + 1
        PROVE  g[k] = IF k = 0 THEN Start ELSE Read(g[k - 1], lines[k])
    <3>1. CASE k = m + 1
      <4>1. k - 1 = m /\ m \in 0..m + 1 /\ m # m + 1 /\ k # 0
        BY <3>1
      <4>. QED
        BY <3>1, <4>1
    <3>2. CASE k # m + 1
      <4>1. k \in 0..m /\ (k # 0 => k - 1 \in 0..m + 1 /\ k - 1 # m + 1)
        BY <3>2
      <4>2. f[k] = IF k = 0 THEN Start ELSE Read(f[k - 1], lines[k])
        BY <2>1, <4>1 DEF ParsesLines
      <4>. QED
        BY <3>2, <4>1, <4>2
    <3>. QED
      BY <3>1, <3>2
  <2>3. DOMAIN g = 0..m + 1 /\ g = [k \in 0..m + 1 |-> g[k]]
    OBVIOUS
  <2>. HIDE DEF g
  <2>4. ParsesLines(g, lines, m + 1)
    BY <2>2, <2>3 DEF ParsesLines
  <2>. QED
    BY <2>4
<1>. HIDE DEF G
<1>3. Nat \subseteq G
  BY <1>1, <1>2, AllNaturals
<1>. QED
  BY <1>3 DEF G

\* What two answers have in common is read the same.
LEMMA ParsingAgrees ==
  ASSUME NEW a, NEW b, NEW f, NEW g, NEW m \in Nat, NEW n \in Nat, m <= n,
         ParsesLines(f, a, m), ParsesLines(g, b, n), \A i \in 1..m : a[i] = b[i]
  PROVE  \A k \in 0..m : f[k] = g[k]
<1>. DEFINE G == {k \in Nat : k \in 0..m => f[k] = g[k]}
<1>1. 0 \in G
  BY DEF ParsesLines
<1>2. ASSUME NEW k \in Nat, k \in G PROVE k + 1 \in G
  <2>. SUFFICES ASSUME k + 1 \in 0..m PROVE f[k + 1] = g[k + 1]
    OBVIOUS
  <2>1. k + 1 \in 0..n /\ k + 1 # 0 /\ (k + 1) - 1 = k /\ k \in 0..m /\ a[k + 1] = b[k + 1]
    OBVIOUS
  <2>2. f[k + 1] = Read(f[k], a[k + 1]) /\ g[k + 1] = Read(g[k], b[k + 1])
    BY <2>1 DEF ParsesLines
  <2>. QED
    BY <1>2, <2>1, <2>2
<1>. HIDE DEF G
<1>3. Nat \subseteq G
  BY <1>1, <1>2, AllNaturals
<1>. QED
  BY <1>3 DEF G

\* Parsing is such a function.
LEMMA ParsingParses ==
  ASSUME NEW S, NEW lines \in Seq(S)
  PROVE  ParsesLines(Parsing(lines), lines, Len(lines))
<1>1. \E f : ParsesLines(f, lines, Len(lines))
  BY ParsingExists, LenProperties
<1>. QED
  BY <1>1 DEF ParsesLines, Parsing

\* One line more is read from where the others left off.
LEMMA ParsedAppend ==
  ASSUME NEW S, NEW lines \in Seq(S), NEW line \in S
  PROVE  Parsed(Append(lines, line)) = Read(Parsed(lines), line)
<1>. DEFINE more == Append(lines, line)  n == Len(lines)
<1>1. /\ more \in Seq(S) /\ Len(more) = n + 1 /\ more[n + 1] = line /\ n \in Nat
      /\ \A i \in 1..n : lines[i] = more[i]
  BY AppendProperties, LenProperties
<1>2. ParsesLines(Parsing(more), more, n + 1) /\ ParsesLines(Parsing(lines), lines, n)
  BY <1>1, ParsingParses
<1>3. Parsing(lines)[n] = Parsing(more)[n]
  <2>1. n \in 0..n /\ n <= n + 1 /\ n + 1 \in Nat
    BY <1>1
  <2>. HIDE DEF more, n
  <2>2. \A k \in 0..n : Parsing(lines)[k] = Parsing(more)[k]
    BY <1>1, <1>2, <2>1, ParsingAgrees
  <2>. QED
    BY <2>1, <2>2
<1>4. Parsing(more)[n + 1] = Read(Parsing(more)[n], more[n + 1])
  <2>1. n + 1 \in 0..n + 1 /\ n + 1 # 0 /\ (n + 1) - 1 = n
    BY <1>1
  <2>. HIDE DEF more, n
  <2>. QED
    BY <1>2, <2>1 DEF ParsesLines
<1>. QED
  BY <1>1, <1>3, <1>4 DEF Parsed

\* No lines are read as the start of an answer.
LEMMA ParsedEmpty == Parsed(<<>>) = Start
<1>1. <<>> \in Seq({}) /\ Len(<<>>) = 0
  BY EmptySeq
<1>2. ParsesLines(Parsing(<<>>), <<>>, 0)
  BY <1>1, ParsingParses
<1>. QED
  BY <1>1, <1>2 DEF ParsesLines, Parsed

----------------------------------------------------------------------------
(* The types of the parser.                                                *)

Segment ==
  [kind : {"text", "code"}, language : Fences \cup {None},
   lines : Seq(Lines), insertable : BOOLEAN]

Parser == [segments : Seq(Segment), lines : Seq(Lines), open : Fences \cup {None}]

\* The fences of commands.
Openers == Unlabelled \cup {"fence bash"}

\* They are fences, and those without a label or with a shell's.
LEMMA OpenersAre ==
  /\ Openers \subseteq Fences /\ Bare \in Openers /\ None \notin Fences
  /\ \A fence \in Fences : Language(fence) \in {None, "fence bash"} <=> fence \in Openers
BY ParserAssumption DEF Openers, Unlabelled, Labelled, Fences, Texts, Language

\* Some place among the first n is the last.
LEMMA LastPlace ==
  ASSUME NEW n \in Nat, NEW T, T \subseteq 1..n, T # {}
  PROVE  Max(T) \in T /\ \A y \in T : Max(T) >= y
<1>. DEFINE U == {k \in Nat : n - k \in T}
<1>1. U \subseteq Nat /\ U # {}
  <2>1. PICK y \in T : TRUE
    OBVIOUS
  <2>2. n - y \in Nat /\ n - (n - y) = y
    BY <2>1
  <2>. QED
    BY <2>1, <2>2
<1>2. PICK k \in U : \A m \in U : k <= m
  <2>. HIDE DEF U
  <2>. QED
    BY <1>1, LeastNatural
<1>3. ASSUME NEW y \in T PROVE n - k >= y
  <2>1. n - y \in Nat /\ n - (n - y) = y /\ y \in Nat
    BY <1>3
  <2>2. k <= n - y
    BY <1>2, <1>3, <2>1
  <2>. QED
    BY <1>2, <2>1, <2>2
<1>4. \E x \in T : \A y \in T : x >= y
  BY <1>2, <1>3
<1>. QED
  BY <1>4 DEF Max

\* Newlines at the end are stripped.
LEMMA RStripEmpty == RStrip(<<>>) = <<>>
<1>1. DOMAIN <<>> = {}
  BY EmptySeq
<1>. QED
  BY <1>1 DEF RStrip

\* A line without its newline says the same.
LEMMA ChoppedSame ==
  ASSUME NEW line \in Lines
  PROVE  /\ Chopped(line) \in Lines /\ Chopped(line).says = line.says
         /\ line.end \in {"none", "lf"} => Chopped(line).end = "none"
BY DEF Chopped, Lines, Ends

\* A newline more goes, any other line keeps all lines.
LEMMA RStripAppend ==
  ASSUME NEW lines \in Seq(Lines), NEW line \in Lines
  PROVE  RStrip(Append(lines, line)) =
           IF Newlines(line) THEN RStrip(lines) ELSE Append(lines, Chopped(line))
<1>. DEFINE more == Append(lines, line)  n == Len(lines)
            Kept(t) == {i \in DOMAIN t : ~Newlines(t[i])}
            Cut(t, m) == [SubSeq(t, 1, m) EXCEPT ![m] = Chopped(@)]
<1>1. /\ more \in Seq(Lines) /\ DOMAIN more = 1..n + 1 /\ DOMAIN lines = 1..n /\ n \in Nat
      /\ \A i \in 1..n : more[i] = lines[i]
      /\ more[n + 1] = line /\ Len(more) = n + 1
  BY AppendProperties, LenProperties
<1>. HIDE DEF more
<1>2. /\ RStrip(lines) = IF Kept(lines) = {} THEN <<>> ELSE Cut(lines, Max(Kept(lines)))
      /\ RStrip(more) = IF Kept(more) = {} THEN <<>> ELSE Cut(more, Max(Kept(more)))
  BY DEF RStrip
<1>3. CASE Newlines(line)
  <2>1. Kept(more) = Kept(lines)
    <3>1. \A i \in 1..n + 1 : i \in 1..n \/ i = n + 1
      BY <1>1
    <3>2. \A i \in 1..n : i \in 1..n + 1
      BY <1>1
    <3>3. Newlines(more[n + 1]) /\ \A i \in 1..n : Newlines(more[i]) <=> Newlines(lines[i])
      BY <1>1, <1>3
    <3>. QED
      BY <1>1, <3>1, <3>2, <3>3
  <2>2. ASSUME Kept(lines) # {}
        PROVE  SubSeq(more, 1, Max(Kept(lines))) = SubSeq(lines, 1, Max(Kept(lines)))
    <3>1. Max(Kept(lines)) \in 1..n
      BY <1>1, <2>2, LastPlace
    <3>. DEFINE m == Max(Kept(lines))
    <3>. HIDE DEF m
    <3>2. m \in 1..n
      BY <3>1 DEF m
    <3>3. /\ SubSeq(more, 1, m) = [i \in 1..m |-> more[i]]
          /\ SubSeq(lines, 1, m) = [i \in 1..m |-> lines[i]]
      <4>1. m \in 0..n /\ m \in 0..n + 1
        BY <1>1, <3>2
      <4>2. /\ SubSeq(more, 1, m) = Restrict(more, 1..m)
            /\ SubSeq(lines, 1, m) = Restrict(lines, 1..m)
        BY <1>1, <4>1, SubSeqRestrict
      <4>. QED
        BY <4>2 DEF Restrict
    <3>4. \A i \in 1..m : more[i] = lines[i]
      BY <1>1, <3>2
    <3>. QED
      BY <3>3, <3>4 DEF m
  <2>3. Kept(lines) # {} => Cut(more, Max(Kept(lines))) = Cut(lines, Max(Kept(lines)))
    BY <2>2
  <2>. QED
    BY <1>2, <1>3, <2>1, <2>3, Zenon DEF more
<1>4. CASE ~Newlines(line)
  <2>1. n + 1 \in Kept(more) /\ Kept(more) \subseteq 1..n + 1 /\ n + 1 \in Nat
    <3>1. n + 1 \in 1..n + 1 /\ n + 1 \in Nat
      BY <1>1
    <3>. QED
      BY <1>1, <1>4, <3>1, Zenon
  <2>2. Max(Kept(more)) = n + 1
    <3>. DEFINE T == Kept(more)
    <3>. HIDE DEF T
    <3>1. T \subseteq 1..n + 1 /\ T # {} /\ n + 1 \in T
      BY <2>1 DEF T
    <3>2. Max(T) \in T /\ Max(T) >= n + 1
      BY <2>1, <3>1, LastPlace
    <3>3. Max(T) \in 1..n + 1
      BY <3>1, <3>2
    <3>4. Max(T) = n + 1
      BY <1>1, <3>2, <3>3
    <3>. QED
      BY <3>4 DEF T
  <2>3. SubSeq(more, 1, n + 1) = more
    BY <1>1, SubSeqFull
  <2>4. RStrip(more) = [more EXCEPT ![n + 1] = Chopped(@)]
    BY <1>2, <2>1, <2>2, <2>3, Zenon
  <2>5. Append(lines, Chopped(line)) = [more EXCEPT ![n + 1] = Chopped(@)]
    <3>. DEFINE x == Chopped(line)
    <3>. HIDE DEF x
    <3>. DEFINE a == Append(lines, x)  b == [more EXCEPT ![n + 1] = x]
    <3>1. x \in Lines
      BY ChoppedSame DEF x
    <3>. HIDE DEF Lines
    <3>2. /\ a \in Seq(Lines) /\ Len(a) = n + 1
          /\ a[n + 1] = x /\ \A i \in 1..n : a[i] = lines[i]
      BY <1>1, <3>1, AppendProperties
    <3>3. /\ b \in Seq(Lines) /\ Len(b) = n + 1
          /\ b[n + 1] = x /\ \A i \in 1..n : b[i] = more[i]
      BY <1>1, <3>1
    <3>. HIDE DEF a, b
    <3>4. \A i \in 1..n + 1 : a[i] = b[i]
      <4>1. \A i \in 1..n + 1 : i \in 1..n \/ i = n + 1
        BY <1>1
      <4>. QED
        BY <1>1, <3>2, <3>3, <4>1
    <3>5. a = b
      BY <3>2, <3>3, <3>4, SeqEqual
    <3>. QED
      BY <1>1, <3>5 DEF x, a, b
  <2>. QED
    BY <1>4, <2>4, <2>5 DEF more
<1>. QED
  BY <1>3, <1>4

\* What is stripped is lines again.
LEMMA RStripType ==
  ASSUME NEW lines \in Seq(Lines)
  PROVE  RStrip(lines) \in Seq(Lines)
<1>. DEFINE G == {t \in Seq(Lines) : RStrip(t) \in Seq(Lines)}
<1>1. <<>> \in G
  BY RStripEmpty, EmptySeq
<1>2. ASSUME NEW t \in Seq(Lines), NEW x \in Lines, t \in G PROVE Append(t, x) \in G
  <2>1. Chopped(x) \in Lines
    BY ChoppedSame
  <2>2. Append(t, Chopped(x)) \in Seq(Lines) /\ Append(t, x) \in Seq(Lines)
    BY <2>1, AppendProperties
  <2>. QED
    BY <1>2, <2>2, RStripAppend
<1>. HIDE DEF G
<1>3. Seq(Lines) \subseteq G
  BY <1>1, <1>2, AllSequences
<1>. QED
  BY <1>3 DEF G

\* Reading keeps the types.
LEMMA SegmentTypes ==
  ASSUME NEW s \in Parser
  PROVE  /\ EndProse(s) \in Seq(Segment)
         /\ s.open # None => EndCode(s) \in Seq(Segment)
<1>1. s.segments \in Seq(Segment) /\ s.lines \in Seq(Lines) /\ s.open \in Fences \cup {None}
  BY DEF Parser
<1>2. TextSegment(s.lines) \in Segment
  BY <1>1 DEF TextSegment, Segment
<1>3. s.open # None => CodeSegment(Language(s.open), RStrip(s.lines)) \in Segment
  <2>1. RStrip(s.lines) \in Seq(Lines)
    BY <1>1, RStripType
  <2>2. s.open # None => Language(s.open) \in Fences \cup {None}
    BY <1>1 DEF Language
  <2>. QED
    BY <2>1, <2>2 DEF CodeSegment, Segment
<1>4. EndProse(s) \in Seq(Segment)
  <2>1. Append(s.segments, TextSegment(s.lines)) \in Seq(Segment)
    BY <1>1, <1>2, AppendProperties
  <2>. QED
    BY <1>1, <2>1 DEF EndProse
<1>5. s.open # None => EndCode(s) \in Seq(Segment)
  BY <1>1, <1>3, AppendProperties DEF EndCode
<1>. QED
  BY <1>4, <1>5

\* Reading one line more keeps them,
LEMMA ReadType ==
  ASSUME NEW s \in Parser, NEW line \in Lines
  PROVE  Read(s, line) \in Parser
<1>1. s.segments \in Seq(Segment) /\ s.lines \in Seq(Lines) /\ s.open \in Fences \cup {None}
  BY DEF Parser
<1>2. <<>> \in Seq(Lines)
  BY EmptySeq
<1>3. CASE s.open = None /\ line.says \in Fences
  <2>1. Read(s, line) = [segments |-> EndProse(s), lines |-> <<>>, open |-> line.says]
    BY <1>3 DEF Read
  <2>. QED
    BY <1>2, <1>3, <2>1, SegmentTypes DEF Parser
<1>4. CASE s.open # None /\ Closes(line)
  <2>1. Read(s, line) = [segments |-> EndCode(s), lines |-> <<>>, open |-> None]
    BY <1>4 DEF Read
  <2>. QED
    BY <1>2, <1>4, <2>1, SegmentTypes DEF Parser
<1>5. CASE ~(s.open = None /\ line.says \in Fences) /\ ~(s.open # None /\ Closes(line))
  <2>1. Read(s, line) = [s EXCEPT !.lines = Append(s.lines, line)]
    BY <1>5 DEF Read
  <2>2. Append(s.lines, line) \in Seq(Lines)
    BY <1>1, AppendProperties
  <2>. QED
    BY <2>1, <2>2 DEF Parser
<1>. QED
  BY <1>3, <1>4, <1>5

\* and the start of an answer has them.
LEMMA StartType == Start \in Parser
<1>1. <<>> \in Seq(Segment) /\ <<>> \in Seq(Lines)
  BY EmptySeq
<1>. QED
  BY <1>1 DEF Start, Parser

\* Every answer is parsed.
LEMMA ParsedType ==
  ASSUME NEW lines \in Seq(Lines)
  PROVE  Parsed(lines) \in Parser
<1>. DEFINE G == {t \in Seq(Lines) : Parsed(t) \in Parser}
<1>1. <<>> \in G
  BY ParsedEmpty, StartType, EmptySeq
<1>2. ASSUME NEW t \in Seq(Lines), NEW x \in Lines, t \in G PROVE Append(t, x) \in G
  BY <1>2, ParsedAppend, ReadType, AppendProperties
<1>. HIDE DEF G
<1>3. Seq(Lines) \subseteq G
  BY <1>1, <1>2, AllSequences
<1>. QED
  BY <1>3 DEF G

\* The segments of an answer.
LEMMA ResponseType ==
  ASSUME NEW lines \in Seq(Lines)
  PROVE  /\ Parsed(lines) \in Parser
         /\ Parsed(lines).open \in Fences \cup {None}
         /\ ParseResponse(lines) \in Seq(Segment)
<1>. DEFINE s == Parsed(lines)
            segments == IF s.open = None THEN EndProse(s) ELSE EndCode(s)
<1>1. s \in Parser
  BY ParsedType
<1>. HIDE DEF s
<1>2. segments \in Seq(Segment)
  BY <1>1, SegmentTypes
<1>3. <<TextSegment(<<>>)>> \in Seq(Segment)
  <2>1. TextSegment(<<>>) \in Segment
    BY EmptySeq DEF TextSegment, Segment
  <2>. QED
    BY <2>1
<1>4. ParseResponse(lines) = IF segments = <<>> THEN <<TextSegment(<<>>)>> ELSE segments
  BY DEF ParseResponse, s
<1>5. s.open \in Fences \cup {None}
  BY <1>1 DEF Parser
<1>. HIDE DEF segments
<1>. QED
  BY <1>1, <1>2, <1>3, <1>4, <1>5 DEF s

----------------------------------------------------------------------------
(* No line is lost.                                                        *)

\* Telling, Flat and Commands map each element on its own.
Tells(silent) ==
  [line \in Lines |-> IF line.says \in silent THEN <<>> ELSE <<line.says>>]
Shows == [s \in Segment |-> s.lines]
Inserts == [s \in Segment |-> IF s.insertable THEN <<s>> ELSE <<>>]

\* All three map to sequences.
LEMMA MapTypes ==
  /\ \A silent : Tells(silent) \in [Lines -> Seq(Texts)]
  /\ Shows \in [Segment -> Seq(Lines)]
  /\ Inserts \in [Segment -> Seq(Segment)]
<1>1. ASSUME NEW silent PROVE Tells(silent) \in [Lines -> Seq(Texts)]
  <2>1. \A line \in Lines : line.says \in Texts
    BY DEF Lines
  <2>. HIDE DEF Lines, Texts
  <2>2. \A line \in Lines : <<>> \in Seq(Texts) /\ <<line.says>> \in Seq(Texts)
    BY <2>1, EmptySeq
  <2>. QED
    BY <2>2 DEF Tells
<1>2. Shows \in [Segment -> Seq(Lines)]
  BY DEF Shows, Segment
<1>3. Inserts \in [Segment -> Seq(Segment)]
  BY DEF Inserts
<1>. QED
  BY <1>1, <1>2, <1>3

\* What lines tell,
LEMMA TellingMaps ==
  ASSUME NEW silent, NEW lines \in Seq(Lines)
  PROVE  Telling(lines, silent) = Mapped(Tells(silent), lines)
<1>1. \A i \in DOMAIN lines : lines[i] \in Lines
  OBVIOUS
<1>2. [i \in DOMAIN lines |-> IF lines[i].says \in silent THEN <<>> ELSE <<lines[i].says>>]
        = [i \in DOMAIN lines |-> Tells(silent)[lines[i]]]
  BY <1>1 DEF Tells
<1>. QED
  BY <1>2 DEF Telling, Mapped

\* the lines of segments
LEMMA FlatMaps ==
  ASSUME NEW segments \in Seq(Segment)
  PROVE  Flat(segments) = Mapped(Shows, segments)
<1>1. \A i \in DOMAIN segments : segments[i] \in Segment
  OBVIOUS
<1>2. [i \in DOMAIN segments |-> segments[i].lines] =
        [i \in DOMAIN segments |-> Shows[segments[i]]]
  BY <1>1 DEF Shows
<1>. QED
  BY <1>2 DEF Flat, Mapped

\* and the commands of an answer are what they map to.
LEMMA CommandsMap ==
  ASSUME NEW lines \in Seq(Lines)
  PROVE  Commands(lines) = Mapped(Inserts, ParseResponse(lines))
<1>. DEFINE segments == ParseResponse(lines)
<1>1. segments \in Seq(Segment)
  BY ResponseType
<1>. HIDE DEF segments
<1>2. \A i \in DOMAIN segments : segments[i] \in Segment
  BY <1>1
<1>3. [i \in DOMAIN segments |-> IF segments[i].insertable THEN <<segments[i]>> ELSE <<>>]
        = [i \in DOMAIN segments |-> Inserts[segments[i]]]
  BY <1>2 DEF Inserts
<1>. QED
  BY <1>3 DEF Commands, Mapped, segments

\* What lines tell is what each of them tells, one after the other.
LEMMA TellingAppend ==
  ASSUME NEW silent, NEW lines \in Seq(Lines), NEW line \in Lines
  PROVE  /\ Telling(lines, silent) \in Seq(Texts)
         /\ Telling(Append(lines, line), silent) =
              Telling(lines, silent) \o Tells(silent)[line]
         /\ Tells(silent)[line] \in Seq(Texts)
<1>1. Append(lines, line) \in Seq(Lines)
  BY AppendProperties
<1>0. Tells(silent) \in [Lines -> Seq(Texts)]
  BY MapTypes
<1>2. Mapped(Tells(silent), lines) \in Seq(Texts)
  BY <1>0, MappedType
<1>3. Mapped(Tells(silent), Append(lines, line)) =
        Mapped(Tells(silent), lines) \o Tells(silent)[line]
  BY <1>0, MappedAppend
<1>4. Tells(silent)[line] \in Seq(Texts)
  BY <1>0
<1>. QED
  BY <1>1, <1>2, <1>3, <1>4, TellingMaps

\* No lines tell nothing.
LEMMA TellingEmpty ==
  ASSUME NEW silent
  PROVE  Telling(<<>>, silent) = <<>>
<1>1. Tells(silent) \in [Lines -> Seq(Texts)]
  BY MapTypes
<1>. QED
  BY <1>1, TellingMaps, MappedEmpty, EmptySeq

\* Appending after concatenating.
LEMMA ConcatAppend ==
  ASSUME NEW S, NEW a \in Seq(S), NEW b \in Seq(S), NEW x \in S
  PROVE  a \o Append(b, x) = Append(a \o b, x)
<1>. DEFINE last == <<x>>
<1>1. last \in Seq(S) /\ a \o b \in Seq(S)
  BY ConcatProperties
<1>2. Append(b, x) = b \o last /\ Append(a \o b, x) = (a \o b) \o last
  BY <1>1, AppendIsConcat
<1>. HIDE DEF last
<1>3. last \in Seq(S) => (a \o b) \o last = a \o (b \o last)
  BY ConcatAssociative
<1>. QED
  BY <1>1, <1>2, <1>3

\* Lines tell what the first of them tell and then what the others tell.
LEMMA TellingConcat ==
  ASSUME NEW silent, NEW a \in Seq(Lines), NEW b \in Seq(Lines)
  PROVE  Telling(a \o b, silent) = Telling(a, silent) \o Telling(b, silent)
<1>. DEFINE Told(t) == Telling(t, silent)
            G == {t \in Seq(Lines) : Told(a \o t) = Told(a) \o Told(t)}
<1>0. Told(a) \in Seq(Texts)
  <2>1. Tells(silent) \in [Lines -> Seq(Texts)]
    BY MapTypes
  <2>2. Mapped(Tells(silent), a) \in Seq(Texts)
    BY <2>1, MappedType
  <2>. QED
    BY <2>2, TellingMaps
<1>1. <<>> \in G
  <2>1. a \o <<>> = a /\ Told(a) \o <<>> = Told(a)
    BY <1>0, ConcatEmptySeq
  <2>. QED
    BY <2>1, TellingEmpty, EmptySeq
<1>2. ASSUME NEW t \in Seq(Lines), NEW x \in Lines, t \in G PROVE Append(t, x) \in G
  <2>1. a \o t \in Seq(Lines) /\ Append(t, x) \in Seq(Lines)
    BY ConcatProperties, AppendProperties
  <2>2. a \o Append(t, x) = Append(a \o t, x)
    BY ConcatAppend
  <2>3. Told(Append(a \o t, x)) = Told(a \o t) \o Tells(silent)[x]
    BY <2>1, TellingAppend
  <2>4. /\ Told(Append(t, x)) = Told(t) \o Tells(silent)[x]
        /\ Told(t) \in Seq(Texts) /\ Tells(silent)[x] \in Seq(Texts)
    BY TellingAppend
  <2>5. (Told(a) \o Told(t)) \o Tells(silent)[x] = Told(a) \o (Told(t) \o Tells(silent)[x])
    <3>. DEFINE u == Told(a)  v == Told(t)  w == Tells(silent)[x]
    <3>. HIDE DEF u, v, w
    <3>1. u \in Seq(Texts) /\ v \in Seq(Texts) /\ w \in Seq(Texts)
            => (u \o v) \o w = u \o (v \o w)
      BY ConcatAssociative
    <3>. QED
      BY <1>0, <2>4, <3>1 DEF u, v, w
  <2>. QED
    BY <1>2, <2>1, <2>2, <2>3, <2>4, <2>5
<1>. HIDE DEF G
<1>3. Seq(Lines) \subseteq G
  BY <1>1, <1>2, AllSequences
<1>. QED
  BY <1>3 DEF G

\* The lines of a sequence with one more are its own and the new one.
LEMMA LastOf ==
  ASSUME NEW t \in Seq(Lines), NEW x \in Lines, NEW more, more = Append(t, x)
  PROVE  /\ \A i \in DOMAIN t : i \in DOMAIN more /\ more[i] = t[i]
         /\ \E i \in DOMAIN more : more[i] = x
<1>. DEFINE n == Len(t)
<1>1. /\ DOMAIN more = 1..n + 1 /\ DOMAIN t = 1..n /\ n \in Nat
      /\ more[n + 1] = x /\ \A i \in 1..n : more[i] = t[i]
  BY AppendProperties, LenProperties
<1>. HIDE DEF n
<1>2. n + 1 \in DOMAIN more /\ \A i \in DOMAIN t : i \in DOMAIN more
  BY <1>1
<1>. QED
  BY <1>1, <1>2

\* Blank lines are still blank without the last one, which is blank too.
LEMMA BlankAppend ==
  ASSUME NEW t \in Seq(Lines), NEW x \in Lines, IsBlank(Append(t, x))
  PROVE  IsBlank(t) /\ x.says = ""
<1>. DEFINE more == Append(t, x)
<1>0. more = Append(t, x)
  OBVIOUS
<1>. HIDE DEF more
<1>1. /\ \A i \in DOMAIN t : i \in DOMAIN more /\ more[i] = t[i]
      /\ \E i \in DOMAIN more : more[i] = x
  BY <1>0, LastOf
<1>2. IsBlank(more)
  BY <1>0
<1>. QED
  BY <1>1, <1>2 DEF IsBlank

\* Stripping takes nothing that tells something, a blank line tells nothing.
LEMMA TellingStripped ==
  ASSUME NEW silent, "" \in silent, NEW lines \in Seq(Lines)
  PROVE  /\ Telling(RStrip(lines), silent) = Telling(lines, silent)
         /\ IsBlank(lines) => Telling(lines, silent) = <<>>
<1>. DEFINE Told(t) == Telling(t, silent)
            G == {t \in Seq(Lines) : /\ Told(RStrip(t)) = Told(t)
                                     /\ IsBlank(t) => Told(t) = <<>>}
<1>1. <<>> \in G
  BY RStripEmpty, TellingEmpty, EmptySeq
<1>2. ASSUME NEW t \in Seq(Lines), NEW x \in Lines, t \in G PROVE Append(t, x) \in G
  <2>1. Append(t, x) \in Seq(Lines)
    BY AppendProperties
  <2>2. /\ Told(Append(t, x)) = Told(t) \o Tells(silent)[x]
        /\ Told(t) \in Seq(Texts) /\ Told(t) \o <<>> = Told(t)
    BY TellingAppend, ConcatEmptySeq
  <2>3. x.says = "" => Tells(silent)[x] = <<>>
    BY DEF Tells
  <2>4. ASSUME Newlines(x) PROVE Told(RStrip(Append(t, x))) = Told(Append(t, x))
    <3>1. RStrip(Append(t, x)) = RStrip(t)
      BY <2>4, RStripAppend
    <3>2. Told(RStrip(t)) = Told(t)
      BY <1>2
    <3>3. Told(Append(t, x)) = Told(t)
      BY <2>2, <2>3, <2>4 DEF Newlines
    <3>. QED
      BY <3>1, <3>2, <3>3
  <2>5. ASSUME ~Newlines(x) PROVE Told(RStrip(Append(t, x))) = Told(Append(t, x))
    <3>1. RStrip(Append(t, x)) = Append(t, Chopped(x))
      BY <2>5, RStripAppend
    <3>2. Chopped(x) \in Lines /\ Tells(silent)[Chopped(x)] = Tells(silent)[x]
      BY ChoppedSame DEF Tells
    <3>3. Told(Append(t, Chopped(x))) = Told(t) \o Tells(silent)[Chopped(x)]
      BY <3>2, TellingAppend
    <3>. QED
      BY <2>2, <3>1, <3>2, <3>3
  <2>6. IsBlank(Append(t, x)) => IsBlank(t) /\ x.says = ""
    BY BlankAppend
  <2>7. IsBlank(Append(t, x)) => Told(Append(t, x)) = <<>>
    BY <1>2, <2>2, <2>3, <2>6
  <2>. QED
    BY <2>1, <2>4, <2>5, <2>7
<1>. HIDE DEF G
<1>3. Seq(Lines) \subseteq G
  BY <1>1, <1>2, AllSequences
<1>. QED
  BY <1>3 DEF G

\* So do sayings.
Silent == Fences \cup {""}

\* What lines say.
LEMMA SayingsAppend ==
  ASSUME NEW lines \in Seq(Lines), NEW line \in Lines
  PROVE  /\ Saying(lines) \in Seq(Texts)
         /\ Saying(Append(lines, line)) = Saying(lines) \o Tells(Silent)[line]
         /\ Tells(Silent)[line] \in Seq(Texts)
BY TellingAppend DEF Saying, Silent

\* No lines, and lines one after the other.
LEMMA SayingsConcat ==
  /\ Saying(<<>>) = <<>>
  /\ \A a, b \in Seq(Lines) : Saying(a \o b) = Saying(a) \o Saying(b)
BY TellingEmpty, TellingConcat DEF Saying

\* Lines that are stripped, and blank ones.
LEMMA SayingsStripped ==
  ASSUME NEW lines \in Seq(Lines)
  PROVE  /\ Saying(RStrip(lines)) = Saying(lines) /\ Saying(lines) \in Seq(Texts)
         /\ IsBlank(lines) => Saying(lines) = <<>>
<1>1. Tells(Silent) \in [Lines -> Seq(Texts)]
  BY MapTypes
<1>2. Mapped(Tells(Silent), lines) \in Seq(Texts)
  BY <1>1, MappedType
<1>. QED
  BY <1>2, TellingStripped, TellingMaps DEF Saying, Silent

\* What a parser in the middle of an answer has been said.
Said(s) == Saying(Flat(s.segments)) \o Saying(s.lines)

\* One more segment shows its lines more.
LEMMA FlatAppend ==
  ASSUME NEW segments \in Seq(Segment), NEW s \in Segment
  PROVE  /\ Flat(segments) \in Seq(Lines)
         /\ Flat(Append(segments, s)) = Flat(segments) \o s.lines
         /\ Saying(Flat(Append(segments, s))) = Saying(Flat(segments)) \o Saying(s.lines)
<1>1. Append(segments, s) \in Seq(Segment)
  BY AppendProperties
<1>2. Mapped(Shows, segments) \in Seq(Lines)
  BY MapTypes, MappedType
<1>3. Mapped(Shows, Append(segments, s)) = Mapped(Shows, segments) \o Shows[s]
  BY MapTypes, MappedAppend
<1>4. Shows[s] = s.lines /\ s.lines \in Seq(Lines)
  BY DEF Shows, Segment
<1>5. Flat(segments) \in Seq(Lines) /\ Flat(Append(segments, s)) = Flat(segments) \o s.lines
  BY <1>1, <1>2, <1>3, <1>4, FlatMaps
<1>6. Saying(Flat(segments) \o s.lines) = Saying(Flat(segments)) \o Saying(s.lines)
  BY <1>4, <1>5, SayingsConcat
<1>. QED
  BY <1>5, <1>6

\* A segment that ends says what its lines have said.
LEMMA SaidEnds ==
  ASSUME NEW s \in Parser
  PROVE  /\ Saying(Flat(EndProse(s))) = Said(s)
         /\ s.open # None => Saying(Flat(EndCode(s))) = Said(s)
         /\ Saying(Flat(s.segments)) \in Seq(Texts) /\ Saying(s.lines) \in Seq(Texts)
<1>1. s.segments \in Seq(Segment) /\ s.lines \in Seq(Lines) /\ s.open \in Fences \cup {None}
  BY DEF Parser
<1>2. Saying(Flat(s.segments)) \in Seq(Texts) /\ Saying(s.lines) \in Seq(Texts)
  <2>1. Mapped(Shows, s.segments) \in Seq(Lines)
    BY <1>1, MapTypes, MappedType
  <2>2. Flat(s.segments) \in Seq(Lines)
    BY <1>1, <2>1, FlatMaps
  <2>. QED
    BY <1>1, <2>2, SayingsStripped
<1>3. Saying(Flat(EndProse(s))) = Said(s)
  <2>1. CASE IsBlank(s.lines)
    <3>1. Saying(s.lines) = <<>>
      BY <1>1, <2>1, SayingsStripped
    <3>2. Saying(Flat(s.segments)) \o <<>> = Saying(Flat(s.segments))
      BY <1>2, ConcatEmptySeq
    <3>. QED
      BY <2>1, <3>1, <3>2 DEF EndProse, Said
  <2>2. CASE ~IsBlank(s.lines)
    <3>1. TextSegment(s.lines) \in Segment /\ TextSegment(s.lines).lines = s.lines
      BY <1>1 DEF TextSegment, Segment
    <3>2. EndProse(s) = Append(s.segments, TextSegment(s.lines))
      BY <2>2 DEF EndProse
    <3>3. Saying(Flat(Append(s.segments, TextSegment(s.lines))))
            = Saying(Flat(s.segments)) \o Saying(TextSegment(s.lines).lines)
      BY <1>1, <3>1, FlatAppend
    <3>. QED
      BY <3>1, <3>2, <3>3 DEF Said
  <2>. QED
    BY <2>1, <2>2
<1>4. ASSUME s.open # None PROVE Saying(Flat(EndCode(s))) = Said(s)
  <2>. DEFINE code == CodeSegment(Language(s.open), RStrip(s.lines))
  <2>1. code \in Segment /\ code.lines = RStrip(s.lines)
    BY <1>1, <1>4, RStripType DEF CodeSegment, Segment, Language
  <2>. HIDE DEF code
  <2>2. Saying(Flat(Append(s.segments, code))) =
          Saying(Flat(s.segments)) \o Saying(code.lines)
    BY <1>1, <2>1, FlatAppend
  <2>3. Saying(RStrip(s.lines)) = Saying(s.lines)
    BY <1>1, SayingsStripped
  <2>4. EndCode(s) = Append(s.segments, code)
    BY DEF EndCode, code
  <2>. QED
    BY <2>1, <2>2, <2>3, <2>4 DEF Said
<1>. QED
  BY <1>2, <1>3, <1>4

\* Reading a line says it.
LEMMA SaidRead ==
  ASSUME NEW s \in Parser, NEW line \in Lines
  PROVE  Said(Read(s, line)) = Said(s) \o Tells(Silent)[line]
<1>1. s.segments \in Seq(Segment) /\ s.lines \in Seq(Lines) /\ s.open \in Fences \cup {None}
  BY DEF Parser
<1>2. Said(s) \in Seq(Texts) /\ Said(s) \o <<>> = Said(s)
  <2>1. Said(s) \in Seq(Texts)
    BY SaidEnds, ConcatProperties DEF Said
  <2>. QED
    BY <2>1, ConcatEmptySeq
<1>3. line.says \in Fences => Tells(Silent)[line] = <<>>
  BY ParserAssumption DEF Tells, Silent
<1>4. CASE s.open = None /\ line.says \in Fences
  <2>1. Read(s, line) = [segments |-> EndProse(s), lines |-> <<>>, open |-> line.says]
    BY <1>4 DEF Read
  <2>2. Said(Read(s, line)) = Saying(Flat(EndProse(s))) \o <<>>
    <3>1. Read(s, line).segments = EndProse(s) /\ Read(s, line).lines = <<>>
      BY <2>1
    <3>. QED
      BY <3>1, SayingsConcat DEF Said
  <2>. QED
    BY <1>2, <1>3, <1>4, <2>2, SaidEnds
<1>5. CASE s.open # None /\ Closes(line)
  <2>1. Read(s, line) = [segments |-> EndCode(s), lines |-> <<>>, open |-> None]
    BY <1>5 DEF Read
  <2>2. Said(Read(s, line)) = Saying(Flat(EndCode(s))) \o <<>>
    <3>1. Read(s, line).segments = EndCode(s) /\ Read(s, line).lines = <<>>
      BY <2>1
    <3>. QED
      BY <3>1, SayingsConcat DEF Said
  <2>3. line.says \in Fences
    BY <1>5, OpenersAre DEF Closes
  <2>. QED
    BY <1>2, <1>3, <1>5, <2>2, <2>3, SaidEnds
<1>6. CASE ~(s.open = None /\ line.says \in Fences) /\ ~(s.open # None /\ Closes(line))
  <2>1. Read(s, line) = [s EXCEPT !.lines = Append(s.lines, line)]
    BY <1>6 DEF Read
  <2>2. /\ Read(s, line).segments = s.segments
        /\ Read(s, line).lines = Append(s.lines, line)
    BY <2>1 DEF Parser
  <2>3. /\ Saying(Append(s.lines, line)) = Saying(s.lines) \o Tells(Silent)[line]
        /\ Tells(Silent)[line] \in Seq(Texts)
    BY <1>1, SayingsAppend
  <2>4. (Saying(Flat(s.segments)) \o Saying(s.lines)) \o Tells(Silent)[line]
          = Saying(Flat(s.segments)) \o (Saying(s.lines) \o Tells(Silent)[line])
    <3>. DEFINE u == Saying(Flat(s.segments))  v == Saying(s.lines)
                w == Tells(Silent)[line]
    <3>. HIDE DEF u, v, w
    <3>1. u \in Seq(Texts) /\ v \in Seq(Texts) /\ w \in Seq(Texts)
            => (u \o v) \o w = u \o (v \o w)
      BY ConcatAssociative
    <3>. QED
      BY <2>3, <3>1, SaidEnds DEF u, v, w
  <2>. QED
    BY <2>2, <2>3, <2>4 DEF Said
<1>. QED
  BY <1>4, <1>5, <1>6

\* An answer says what its parser has been said.
LEMMA AllIsSaid ==
  ASSUME NEW lines \in Seq(Lines)
  PROVE  Said(Parsed(lines)) = Saying(lines)
<1>. DEFINE G == {t \in Seq(Lines) : Said(Parsed(t)) = Saying(t)}
<1>1. <<>> \in G
  <2>1. Start.segments = <<>> /\ Start.lines = <<>>
    BY DEF Start
  <2>2. Flat(<<>>) = <<>>
    BY FlatMaps, MappedEmpty, EmptySeq
  <2>3. <<>> \o <<>> = <<>>
    BY ConcatEmptySeq, EmptySeq
  <2>. QED
    BY <2>1, <2>2, <2>3, ParsedEmpty, SayingsConcat, EmptySeq DEF Said
<1>2. ASSUME NEW t \in Seq(Lines), NEW x \in Lines, t \in G PROVE Append(t, x) \in G
  <2>1. Parsed(Append(t, x)) = Read(Parsed(t), x) /\ Parsed(t) \in Parser
    BY ParsedAppend, ParsedType
  <2>2. Said(Read(Parsed(t), x)) = Said(Parsed(t)) \o Tells(Silent)[x]
    BY <2>1, SaidRead
  <2>3. Saying(Append(t, x)) = Saying(t) \o Tells(Silent)[x]
    BY SayingsAppend
  <2>. QED
    BY <1>2, <2>1, <2>2, <2>3, AppendProperties
<1>. HIDE DEF G
<1>3. Seq(Lines) \subseteq G
  BY <1>1, <1>2, AllSequences
<1>. QED
  BY <1>3 DEF G

\* And what its segments show says the same.
LEMMA AllIsShown ==
  ASSUME NEW lines \in Seq(Lines)
  PROVE  Saying(Flat(ParseResponse(lines))) = Saying(lines)
<1>. DEFINE s == Parsed(lines)
            segments == IF s.open = None THEN EndProse(s) ELSE EndCode(s)
<1>1. s \in Parser /\ Said(s) = Saying(lines)
  BY ParsedType, AllIsSaid
<1>. HIDE DEF s
<1>2. Saying(Flat(segments)) = Saying(lines)
  BY <1>1, SaidEnds
<1>3. ParseResponse(lines) = IF segments = <<>> THEN <<TextSegment(<<>>)>> ELSE segments
  BY DEF ParseResponse, s
<1>. HIDE DEF segments
<1>4. Flat(<<>>) = <<>> /\ Flat(<<TextSegment(<<>>)>>) = <<>>
  <2>1. Flat(<<>>) = <<>>
    BY FlatMaps, MappedEmpty, EmptySeq
  <2>2. TextSegment(<<>>) \in Segment /\ TextSegment(<<>>).lines = <<>>
    BY EmptySeq DEF TextSegment, Segment
  <2>. DEFINE text == TextSegment(<<>>)
  <2>. HIDE DEF text
  <2>3. Append(<<>>, text) = <<text>>
    OBVIOUS
  <2>4. Flat(Append(<<>>, text)) = Flat(<<>>) \o text.lines
    BY <2>2, FlatAppend, EmptySeq DEF text
  <2>5. <<>> \o <<>> = <<>>
    BY ConcatEmptySeq, EmptySeq
  <2>. QED
    BY <2>1, <2>2, <2>3, <2>4, <2>5 DEF text
<1>. QED
  BY <1>2, <1>3, <1>4

----------------------------------------------------------------------------
(* Commands stand between fences.                                          *)

\* A block of lines from one place up to another: after a fence, without a bare
\* one.
Block(lines, from, to) ==
  /\ from \in DOMAIN lines /\ to \in 1..(Len(lines) + 1) /\ from < to
  /\ \A i \in (from + 1)..(to - 1) : lines[i].says # Bare

\* A segment that is a command stands in a block that a bare fence closes; the
\* current lines of an open block are all after its fence.
ClosedBlock(lines, s) ==
  \E from, to \in DOMAIN lines :
    /\ Block(lines, from, to)
    /\ lines[from].says \in Openers /\ lines[to].says = Bare
    /\ s.lines = RStrip(SubSeq(lines, from + 1, to - 1))

OpenBlock(lines, s) ==
  \E from \in DOMAIN lines :
    /\ Block(lines, from, Len(lines) + 1)
    /\ lines[from].says = s.open
    /\ s.lines = SubSeq(lines, from + 1, Len(lines))

Fenced(lines, s) ==
  /\ \A i \in DOMAIN s.segments : s.segments[i].insertable =>
       ClosedBlock(lines, s.segments[i])
  /\ s.open # None => OpenBlock(lines, s)

\* Where two sequences have the same elements they have the same part.
LEMMA SameSubSeq ==
  ASSUME NEW S, NEW a \in Seq(S), NEW b \in Seq(S), NEW m \in Nat \ {0}, NEW n \in Nat,
         n <= Len(a), n <= Len(b), \A i \in 1..n : a[i] = b[i]
  PROVE  SubSeq(a, m, n) = SubSeq(b, m, n)
<1>1. (\A i \in m..n : a[i] \in S) /\ (\A i \in m..n : b[i] \in S)
  <2>1. \A i \in m..n : i \in 1..Len(a) /\ i \in 1..Len(b)
    BY LenProperties
  <2>. QED
    BY <2>1, ElementOfSeq
<1>2. /\ SubSeq(a, m, n) \in Seq(S) /\ SubSeq(b, m, n) \in Seq(S)
      /\ Len(SubSeq(a, m, n)) = IF m <= n THEN n - m + 1 ELSE 0
      /\ Len(SubSeq(b, m, n)) = IF m <= n THEN n - m + 1 ELSE 0
      /\ \A i \in 1..n - m + 1 : SubSeq(a, m, n)[i] = a[m + i - 1]
      /\ \A i \in 1..n - m + 1 : SubSeq(b, m, n)[i] = b[m + i - 1]
  BY <1>1, SubSeqProperties
<1>. DEFINE p == SubSeq(a, m, n)  q == SubSeq(b, m, n)
<1>3. \A i \in 1..Len(p) : p[i] = q[i]
  <2>. HIDE DEF p, q
  <2>1. \A i \in 1..Len(p) : i \in 1..n - m + 1 /\ m + i - 1 \in 1..n
    BY <1>2 DEF p
  <2>2. /\ \A i \in 1..n - m + 1 : p[i] = a[m + i - 1]
        /\ \A i \in 1..n - m + 1 : q[i] = b[m + i - 1]
    BY <1>2 DEF p, q
  <2>. QED
    BY <2>1, <2>2
<1>4. p \in Seq(S) /\ q \in Seq(S) /\ Len(p) = Len(q)
  BY <1>2
<1>. HIDE DEF p, q
<1>5. p = q
  BY <1>3, <1>4, SeqEqual
<1>. QED
  BY <1>5 DEF p, q

\* Blocks stay when an answer goes on, and an open one gets longer.
LEMMA BlocksStay ==
  ASSUME NEW lines \in Seq(Lines), NEW line \in Lines
  PROVE  /\ Append(lines, line) \in Seq(Lines)
         /\ Len(Append(lines, line)) = Len(lines) + 1 /\ Len(lines) \in Nat
         /\ Append(lines, line)[Len(lines) + 1] = line
         /\ \A i \in 1..Len(lines) : Append(lines, line)[i] = lines[i]
         /\ \A s : ClosedBlock(lines, s) => ClosedBlock(Append(lines, line), s)
<1>. DEFINE more == Append(lines, line)  n == Len(lines)
<1>1. /\ more \in Seq(Lines) /\ Len(more) = n + 1 /\ n \in Nat
      /\ DOMAIN more = 1..n + 1 /\ DOMAIN lines = 1..n
      /\ more[n + 1] = line /\ \A i \in 1..n : more[i] = lines[i]
  BY AppendProperties, LenProperties
<1>. HIDE DEF more
<1>2. ASSUME NEW s, ClosedBlock(lines, s) PROVE ClosedBlock(more, s)
  <2>1. PICK from \in DOMAIN lines, to \in DOMAIN lines :
          /\ Block(lines, from, to)
          /\ lines[from].says \in Openers /\ lines[to].says = Bare
          /\ s.lines = RStrip(SubSeq(lines, from + 1, to - 1))
    BY <1>2 DEF ClosedBlock
  <2>2. from \in 1..n /\ to \in 1..n /\ from < to
    BY <1>1, <2>1 DEF Block
  <2>3. SubSeq(more, from + 1, to - 1) = SubSeq(lines, from + 1, to - 1)
    BY <1>1, <2>2, SameSubSeq
  <2>4. Block(more, from, to)
    <3>1. \A i \in (from + 1)..(to - 1) : i \in 1..n
      BY <1>1, <2>2
    <3>2. \A i \in (from + 1)..(to - 1) : more[i].says # Bare
      BY <1>1, <2>1, <3>1 DEF Block
    <3>3. from \in 1..n + 1 /\ to \in 1..(n + 1) + 1
      BY <1>1, <2>2
    <3>. QED
      BY <1>1, <2>2, <3>2, <3>3 DEF Block
  <2>5. from \in DOMAIN more /\ to \in DOMAIN more
    BY <1>1, <2>2
  <2>. QED
    BY <1>1, <2>1, <2>2, <2>3, <2>4, <2>5 DEF ClosedBlock
<1>. QED
  BY <1>1, <1>2 DEF more

\* One more line keeps what has been read fenced: the segments so far,
LEMMA SegmentsStayFenced ==
  ASSUME NEW lines \in Seq(Lines), NEW line \in Lines, NEW segments \in Seq(Segment),
         NEW s \in Segment,
         \A i \in DOMAIN segments : segments[i].insertable =>
           ClosedBlock(lines, segments[i])
  PROVE  /\ \A i \in DOMAIN segments :
              segments[i].insertable => ClosedBlock(Append(lines, line), segments[i])
         /\ (s.insertable => ClosedBlock(Append(lines, line), s)) =>
              \A i \in DOMAIN Append(segments, s) :
                Append(segments, s)[i].insertable =>
                  ClosedBlock(Append(lines, line), Append(segments, s)[i])
<1>1. \A i \in DOMAIN segments :
        segments[i].insertable => ClosedBlock(Append(lines, line), segments[i])
  BY BlocksStay
<1>. DEFINE longer == Append(segments, s)  m == Len(segments)
<1>2. /\ DOMAIN segments = 1..m /\ DOMAIN longer = 1..m + 1 /\ m \in Nat
      /\ \A i \in 1..m : longer[i] = segments[i]
      /\ longer[m + 1] = s
  BY AppendProperties, LenProperties
<1>. HIDE DEF longer, m
<1>3. \A i \in 1..m + 1 : i \in 1..m \/ i = m + 1
  BY <1>2
<1>4. (s.insertable => ClosedBlock(Append(lines, line), s)) =>
        \A i \in DOMAIN longer : longer[i].insertable =>
          ClosedBlock(Append(lines, line), longer[i])
  BY <1>1, <1>2, <1>3, Zenon
<1>. QED
  BY <1>1, <1>4 DEF longer

\* and the block that is open: a fence opens it.
LEMMA BlockOpens ==
  ASSUME NEW lines \in Seq(Lines), NEW line \in Lines, NEW s,
         s.open = line.says, s.lines = <<>>
  PROVE  OpenBlock(Append(lines, line), s)
<1>. DEFINE more == Append(lines, line)  n == Len(lines)
<1>1. /\ more \in Seq(Lines) /\ Len(more) = n + 1 /\ n \in Nat
      /\ DOMAIN more = 1..n + 1 /\ more[n + 1] = line
  BY AppendProperties, LenProperties
<1>. HIDE DEF more
<1>2. n + 1 \in DOMAIN more /\ n + 1 < (n + 1) + 1 /\ (n + 1) + 1 \in 1..((n + 1) + 1)
      /\ \A i \in ((n + 1) + 1)..(((n + 1) + 1) - 1) : FALSE
  BY <1>1
<1>3. Block(more, n + 1, Len(more) + 1)
  BY <1>1, <1>2 DEF Block
<1>4. SubSeq(more, (n + 1) + 1, Len(more)) = <<>>
  <2>1. (n + 1) + 1 \in Int /\ Len(more) \in Int /\ Len(more) < (n + 1) + 1
    BY <1>1
  <2>. QED
    BY <2>1, SubSeqEmpty
<1>. QED
  BY <1>1, <1>2, <1>3, <1>4 DEF OpenBlock, more

\* It goes on with a line that does not close it,
LEMMA BlockGrows ==
  ASSUME NEW lines \in Seq(Lines), NEW line \in Lines, NEW s, NEW t,
         OpenBlock(lines, s), line.says # Bare, t.open = s.open,
         t.lines = Append(s.lines, line)
  PROVE  OpenBlock(Append(lines, line), t)
<1>. DEFINE more == Append(lines, line)  n == Len(lines)
<1>1. /\ more \in Seq(Lines) /\ Len(more) = n + 1 /\ n \in Nat
      /\ DOMAIN more = 1..n + 1 /\ DOMAIN lines = 1..n
      /\ more[n + 1] = line /\ \A i \in 1..n : more[i] = lines[i]
  BY AppendProperties, LenProperties
<1>. HIDE DEF more
<1>2. PICK from \in DOMAIN lines :
        /\ Block(lines, from, n + 1) /\ lines[from].says = s.open
        /\ s.lines = SubSeq(lines, from + 1, n)
  BY DEF OpenBlock
<1>3. from \in 1..n
  BY <1>1, <1>2
<1>4. Block(more, from, Len(more) + 1)
  <2>1. \A i \in (from + 1)..((n + 1) + 1 - 1) : i \in (from + 1)..((n + 1) - 1) \/
          i = n + 1
    BY <1>1, <1>3
  <2>2. \A i \in (from + 1)..((n + 1) - 1) : i \in 1..n /\ lines[i].says # Bare
    BY <1>1, <1>2, <1>3 DEF Block
  <2>3. \A i \in (from + 1)..((n + 1) + 1 - 1) : more[i].says # Bare
    BY <1>1, <2>1, <2>2, Zenon
  <2>4. from \in 1..n + 1 /\ (n + 1) + 1 \in 1..((n + 1) + 1) /\ from < (n + 1) + 1
    BY <1>1, <1>3
  <2>. QED
    BY <1>1, <2>3, <2>4 DEF Block
<1>5. SubSeq(more, from + 1, n + 1) = Append(SubSeq(lines, from + 1, n), line)
  <2>1. from + 1 \in 1..Len(more) /\ n + 1 \in (from + 1)..Len(more) /\ (n + 1) - 1 = n
    BY <1>1, <1>3
  <2>2. SubSeq(more, from + 1, n + 1) =
          SubSeq(more, from + 1, (n + 1) - 1) \o <<more[n + 1]>>
    BY <1>1, <2>1, SubSeqRecursiveSecond
  <2>3. SubSeq(more, from + 1, n) = SubSeq(lines, from + 1, n)
    <3>1. from + 1 \in Nat \ {0} /\ n <= Len(more) /\ n <= Len(lines)
      BY <1>1, <1>3
    <3>. QED
      BY <1>1, <3>1, SameSubSeq
  <2>4. SubSeq(lines, from + 1, n) \in Seq(Lines)
    <3>1. from + 1 \in Int /\ n \in Int /\ \A i \in (from + 1)..n : i \in 1..n
      BY <1>1, <1>3
    <3>2. \A i \in (from + 1)..n : lines[i] \in Lines
      BY <1>1, <3>1, ElementOfSeq
    <3>. QED
      BY <3>1, <3>2, SubSeqProperties
  <2>5. Append(SubSeq(lines, from + 1, n), line) = SubSeq(lines, from + 1, n) \o <<line>>
    BY <2>4, AppendIsConcat
  <2>. QED
    BY <1>1, <2>1, <2>2, <2>3, <2>5
<1>6. from \in DOMAIN more /\ more[from].says = t.open
  BY <1>1, <1>2, <1>3
<1>. QED
  BY <1>1, <1>2, <1>4, <1>5, <1>6 DEF OpenBlock, more

\* and a bare fence closes it.
LEMMA BlockCloses ==
  ASSUME NEW lines \in Seq(Lines), NEW line \in Lines, line.says = Bare,
         NEW s \in Parser, NEW t \in Segment,
         OpenBlock(lines, s), t.lines = RStrip(s.lines)
  PROVE  s.open \in Openers => ClosedBlock(Append(lines, line), t)
<1>. DEFINE more == Append(lines, line)  n == Len(lines)
<1>1. /\ more \in Seq(Lines) /\ Len(more) = n + 1 /\ n \in Nat
      /\ DOMAIN more = 1..n + 1 /\ DOMAIN lines = 1..n
      /\ more[n + 1].says = Bare /\ \A i \in 1..n : more[i] = lines[i]
  BY AppendProperties, LenProperties
<1>. HIDE DEF more
<1>2. PICK from \in DOMAIN lines :
        /\ Block(lines, from, n + 1) /\ lines[from].says = s.open
        /\ s.lines = SubSeq(lines, from + 1, n)
  BY DEF OpenBlock
<1>3. from \in 1..n
  BY <1>1, <1>2
<1>4. Block(more, from, n + 1)
  <2>1. \A i \in (from + 1)..((n + 1) - 1) : i \in 1..n /\ lines[i].says # Bare
    BY <1>1, <1>2, <1>3 DEF Block
  <2>2. from \in 1..n + 1 /\ n + 1 \in 1..((n + 1) + 1) /\ from < n + 1
    BY <1>1, <1>3
  <2>. QED
    BY <1>1, <2>1, <2>2 DEF Block
<1>5. SubSeq(more, from + 1, (n + 1) - 1) = SubSeq(lines, from + 1, n)
  <2>1. from + 1 \in Nat \ {0} /\ n <= Len(more) /\ n <= Len(lines) /\ (n + 1) - 1 = n
    BY <1>1, <1>3
  <2>. QED
    BY <1>1, <2>1, SameSubSeq
<1>6. from \in DOMAIN more /\ n + 1 \in DOMAIN more /\ more[from].says = s.open
  BY <1>1, <1>2, <1>3
<1>. QED
  BY <1>1, <1>2, <1>4, <1>5, <1>6 DEF ClosedBlock, more

\* Whatever is read next, all stays fenced.
LEMMA FencedRead ==
  ASSUME NEW lines \in Seq(Lines), NEW line \in Lines, NEW s \in Parser, Fenced(lines, s)
  PROVE  Fenced(Append(lines, line), Read(s, line))
<1>. DEFINE more == Append(lines, line)  t == Read(s, line)
<1>1. s.segments \in Seq(Segment) /\ s.lines \in Seq(Lines) /\ s.open \in Fences \cup {None}
  BY DEF Parser
<1>2. /\ \A i \in DOMAIN s.segments :
           s.segments[i].insertable => ClosedBlock(lines, s.segments[i])
      /\ s.open # None => OpenBlock(lines, s)
  BY DEF Fenced
<1>. HIDE DEF more
<1>3. CASE s.open = None /\ line.says \in Fences
  <2>1. t.segments = EndProse(s) /\ t.lines = <<>> /\ t.open = line.says
    <3>1. t = [segments |-> EndProse(s), lines |-> <<>>, open |-> line.says]
      BY <1>3 DEF Read
    <3>. QED
      BY <3>1
  <2>. HIDE DEF t
  <2>2. TextSegment(s.lines) \in Segment /\ ~TextSegment(s.lines).insertable
    BY <1>1 DEF TextSegment, Segment
  <2>3. \A i \in DOMAIN EndProse(s) : EndProse(s)[i].insertable =>
          ClosedBlock(more, EndProse(s)[i])
    BY <1>1, <1>2, <2>2, SegmentsStayFenced DEF EndProse, more
  <2>4. OpenBlock(more, t)
    BY <2>1, BlockOpens DEF more
  <2>. QED
    BY <2>1, <2>3, <2>4 DEF Fenced, more, t
<1>4. CASE s.open # None /\ Closes(line)
  <2>1. t.segments = EndCode(s) /\ t.open = None
    <3>1. t = [segments |-> EndCode(s), lines |-> <<>>, open |-> None]
      BY <1>4 DEF Read
    <3>. QED
      BY <3>1
  <2>. HIDE DEF t
  <2>. DEFINE code == CodeSegment(Language(s.open), RStrip(s.lines))
  <2>2. /\ code \in Segment /\ code.lines = RStrip(s.lines)
        /\ code.insertable => s.open \in Openers
    <3>1. code \in Segment /\ code.lines = RStrip(s.lines)
      BY <1>1, <1>4, RStripType DEF CodeSegment, Segment, Language
    <3>2. code.insertable => Language(s.open) \in {None, "fence bash"}
      BY DEF CodeSegment
    <3>. QED
      BY <1>1, <1>4, <3>1, <3>2, OpenersAre
  <2>. HIDE DEF code
  <2>3. code.insertable => ClosedBlock(more, code)
    <3>1. line.says = Bare
      BY <1>4 DEF Closes
    <3>. QED
      BY <1>2, <1>4, <2>2, <3>1, BlockCloses DEF more
  <2>4. EndCode(s) = Append(s.segments, code)
    BY DEF EndCode, code
  <2>5. \A i \in DOMAIN EndCode(s) : EndCode(s)[i].insertable =>
          ClosedBlock(more, EndCode(s)[i])
    BY <1>1, <1>2, <2>2, <2>3, <2>4, SegmentsStayFenced DEF more
  <2>. QED
    BY <2>1, <2>5 DEF Fenced, more, t
<1>5. CASE ~(s.open = None /\ line.says \in Fences) /\ ~(s.open # None /\ Closes(line))
  <2>1. t.segments = s.segments /\ t.lines = Append(s.lines, line) /\ t.open = s.open
    <3>1. t = [s EXCEPT !.lines = Append(s.lines, line)]
      BY <1>5 DEF Read
    <3>. QED
      BY <3>1 DEF Parser
  <2>. HIDE DEF t
  <2>2. \A i \in DOMAIN s.segments : s.segments[i].insertable =>
          ClosedBlock(more, s.segments[i])
    BY <1>2, BlocksStay DEF more
  <2>3. s.open # None => OpenBlock(more, t)
    BY <1>2, <1>5, <2>1, BlockGrows DEF Closes, more
  <2>. QED
    BY <2>1, <2>2, <2>3 DEF Fenced, more, t
<1>. QED
  BY <1>3, <1>4, <1>5

\* All that has been read is fenced.
LEMMA ParsedFenced ==
  ASSUME NEW lines \in Seq(Lines)
  PROVE  Fenced(lines, Parsed(lines))
<1>. DEFINE G == {t \in Seq(Lines) : Fenced(t, Parsed(t))}
<1>1. <<>> \in G
  <2>1. Start.segments = <<>> /\ Start.open = None
    BY DEF Start
  <2>2. DOMAIN <<>> = {} /\ <<>> \in Seq(Lines)
    BY EmptySeq
  <2>. QED
    BY <2>1, <2>2, ParsedEmpty DEF Fenced
<1>2. ASSUME NEW t \in Seq(Lines), NEW x \in Lines, t \in G PROVE Append(t, x) \in G
  <2>1. Fenced(t, Parsed(t)) /\ Parsed(t) \in Parser
    BY <1>2, ParsedType
  <2>2. Fenced(Append(t, x), Read(Parsed(t), x))
    BY <2>1, FencedRead
  <2>. QED
    BY <2>2, ParsedAppend, AppendProperties
<1>. HIDE DEF G
<1>3. Seq(Lines) \subseteq G
  BY <1>1, <1>2, AllSequences
<1>. QED
  BY <1>3 DEF G

----------------------------------------------------------------------------
(* The commands of what has been read: those of the segments so far, and   *)
(* the block that is open.                                                 *)

Inserted(segments) == Mapped(Inserts, segments)

Code(s) == CodeSegment(Language(s.open), RStrip(s.lines))

Opened(s) == IF s.open \in Openers THEN <<Code(s)>> ELSE <<>>

\* One segment more is inserted or not.
LEMMA InsertedAppend ==
  ASSUME NEW segments \in Seq(Segment), NEW s \in Segment
  PROVE  /\ Inserted(segments) \in Seq(Segment)
         /\ ~s.insertable => Inserted(Append(segments, s)) = Inserted(segments)
         /\ s.insertable => Inserted(Append(segments, s)) = Append(Inserted(segments), s)
<1>1. Inserts \in [Segment -> Seq(Segment)]
  BY MapTypes
<1>2. Inserted(segments) \in Seq(Segment)
  BY <1>1, MappedType DEF Inserted
<1>3. Inserted(Append(segments, s)) = Inserted(segments) \o Inserts[s]
  BY <1>1, MappedAppend DEF Inserted
<1>4. Inserts[s] = IF s.insertable THEN <<s>> ELSE <<>>
  BY DEF Inserts
<1>5. ~s.insertable => Inserted(segments) \o Inserts[s] = Inserted(segments)
  BY <1>2, <1>4, ConcatEmptySeq
<1>6. s.insertable => Inserted(segments) \o Inserts[s] = Append(Inserted(segments), s)
  BY <1>2, <1>4, AppendIsConcat
<1>. QED
  BY <1>2, <1>3, <1>5, <1>6

\* Each command is a segment that can be inserted.
LEMMA InsertedFrom ==
  ASSUME NEW segments \in Seq(Segment)
  PROVE  \A n \in DOMAIN Inserted(segments) :
           \E i \in DOMAIN segments :
             segments[i].insertable /\ Inserted(segments)[n] = segments[i]
<1>. DEFINE From(t) == \A n \in DOMAIN Inserted(t) :
              \E i \in DOMAIN t : t[i].insertable /\ Inserted(t)[n] = t[i]
            G == {t \in Seq(Segment) : From(t)}
<1>1. <<>> \in G
  <2>1. Inserted(<<>>) = <<>> /\ <<>> \in Seq(Segment) /\ DOMAIN <<>> = {}
    BY MappedEmpty, EmptySeq DEF Inserted
  <2>. QED
    BY <2>1
<1>2. ASSUME NEW t \in Seq(Segment), NEW x \in Segment, t \in G PROVE Append(t, x) \in G
  <2>. DEFINE more == Append(t, x)  m == Len(t)  old == Inserted(t)  new == Inserted(more)
              k == Len(old)
  <2>1. /\ more \in Seq(Segment) /\ DOMAIN more = 1..m + 1 /\ DOMAIN t = 1..m /\ m \in Nat
        /\ more[m + 1] = x /\ \A i \in 1..m : more[i] = t[i]
    BY AppendProperties, LenProperties
  <2>2. /\ old \in Seq(Segment)
        /\ ~x.insertable => new = old
        /\ x.insertable => new = Append(old, x)
    BY InsertedAppend
  <2>3. From(t)
    BY <1>2
  <2>4. \A n \in DOMAIN old : \E i \in DOMAIN t : t[i].insertable /\ old[n] = t[i]
    BY <2>3
  <2>. HIDE DEF more, old, new, From, m, k
  <2>5. \A n \in DOMAIN old : \E i \in DOMAIN more : more[i].insertable /\ old[n] = more[i]
    <3>1. \A i \in DOMAIN t : i \in DOMAIN more /\ more[i] = t[i]
      BY <2>1
    <3>. QED
      BY <2>4, <3>1
  <2>6. x.insertable => \A n \in DOMAIN new : \E i \in DOMAIN more :
          more[i].insertable /\ new[n] = more[i]
    <3>. SUFFICES ASSUME x.insertable, NEW n \in DOMAIN new
                  PROVE  \E i \in DOMAIN more : more[i].insertable /\ new[n] = more[i]
      OBVIOUS
    <3>1. new = Append(old, x)
      BY <2>2
    <3>2. /\ DOMAIN new = 1..Len(old) + 1 /\ DOMAIN old = 1..Len(old) /\ Len(old) \in Nat
          /\ new[Len(old) + 1] = x /\ \A i \in 1..Len(old) : new[i] = old[i]
      BY <2>2, <3>1, AppendProperties, LenProperties
    <3>3. CASE n = Len(old) + 1
      <4>1. m + 1 \in DOMAIN more
        BY <2>1
      <4>. QED
        BY <2>1, <3>2, <3>3, <4>1
    <3>4. CASE n # Len(old) + 1
      <4>1. n \in DOMAIN old /\ new[n] = old[n]
        BY <3>2, <3>4
      <4>. QED
        BY <2>5, <4>1
    <3>. QED
      BY <3>3, <3>4
  <2>7. \A n \in DOMAIN new : \E i \in DOMAIN more : more[i].insertable /\ new[n] = more[i]
    <3>1. CASE x.insertable
      BY <2>6, <3>1
    <3>2. CASE ~x.insertable
      <4>1. new = old
        BY <2>2, <3>2
      <4>. QED
        BY <2>5, <4>1, Zenon
    <3>. QED
      BY <3>1, <3>2
  <2>8. From(more)
    BY <2>7 DEF From, new
  <2>. QED
    BY <2>1, <2>8 DEF more
<1>. HIDE DEF G
<1>3. Seq(Segment) \subseteq G
  BY <1>1, <1>2, AllSequences
<1>. QED
  BY <1>3 DEF G

\* The commands when a segment ends,
LEMMA InsertedEnds ==
  ASSUME NEW s \in Parser
  PROVE  /\ Inserted(s.segments) \in Seq(Segment)
         /\ Inserted(EndProse(s)) = Inserted(s.segments)
         /\ s.open # None => Inserted(EndCode(s)) = Inserted(s.segments) \o Opened(s)
         /\ s.open = None => Opened(s) = <<>>
         /\ s.open \in Openers => Code(s) \in Segment
<1>1. s.segments \in Seq(Segment) /\ s.lines \in Seq(Lines) /\ s.open \in Fences \cup {None}
  BY DEF Parser
<1>2. TextSegment(s.lines) \in Segment /\ ~TextSegment(s.lines).insertable
  BY <1>1 DEF TextSegment, Segment
<1>3. Inserted(s.segments) \in Seq(Segment)
  BY <1>1, MapTypes, MappedType DEF Inserted
<1>4. Inserted(EndProse(s)) = Inserted(s.segments)
  BY <1>1, <1>2, InsertedAppend DEF EndProse
<1>5. None \notin Openers
  BY OpenersAre
<1>6. s.open # None => Code(s) \in Segment
  BY <1>1, RStripType DEF Code, CodeSegment, Segment, Language
<1>7. s.open # None => (Code(s).insertable <=> s.open \in Openers)
  <2>1. Code(s).insertable <=> Language(s.open) \in {None, "fence bash"}
    BY DEF Code, CodeSegment
  <2>2. s.open # None => (Language(s.open) \in {None, "fence bash"} <=> s.open \in Openers)
    BY <1>1, OpenersAre
  <2>. QED
    BY <2>1, <2>2
<1>8. EndCode(s) = Append(s.segments, Code(s))
  BY DEF EndCode, Code
<1>9. s.open # None => Inserted(EndCode(s)) = Inserted(s.segments) \o Opened(s)
  <2>. SUFFICES ASSUME s.open # None
       PROVE Inserted(EndCode(s)) = Inserted(s.segments) \o Opened(s)
    OBVIOUS
  <2>. DEFINE code == Code(s)  done == Inserted(s.segments)
  <2>1. /\ code \in Segment
        /\ ~code.insertable => Inserted(EndCode(s)) = done
        /\ code.insertable => Inserted(EndCode(s)) = Append(done, code)
    BY <1>1, <1>6, <1>8, InsertedAppend
  <2>2. Opened(s) = IF code.insertable THEN <<code>> ELSE <<>>
    BY <1>7 DEF Opened
  <2>3. done \in Seq(Segment)
    BY <1>3
  <2>. HIDE DEF code, done
  <2>4. done \o <<>> = done /\ done \o <<code>> = Append(done, code)
    BY <2>1, <2>3, ConcatEmptySeq, AppendIsConcat
  <2>. QED
    BY <2>1, <2>2, <2>4 DEF done
<1>10. s.open = None => Opened(s) = <<>>
  BY <1>5 DEF Opened
<1>. QED
  BY <1>3, <1>4, <1>5, <1>6, <1>9, <1>10

\* and those of an answer.
LEMMA CommandsAre ==
  ASSUME NEW lines \in Seq(Lines)
  PROVE  Commands(lines) = Inserted(Parsed(lines).segments) \o Opened(Parsed(lines))
<1>. DEFINE s == Parsed(lines)
            segments == IF s.open = None THEN EndProse(s) ELSE EndCode(s)
<1>1. s \in Parser
  BY ParsedType
<1>2. ParseResponse(lines) = IF segments = <<>> THEN <<TextSegment(<<>>)>> ELSE segments
  BY DEF ParseResponse
<1>3. Commands(lines) = Inserted(ParseResponse(lines))
  BY CommandsMap DEF Inserted
<1>. HIDE DEF s
<1>4. Inserted(segments) = Inserted(s.segments) \o Opened(s)
  <2>1. Inserted(s.segments) \o <<>> = Inserted(s.segments)
    BY <1>1, InsertedEnds, ConcatEmptySeq
  <2>. QED
    BY <1>1, <2>1, InsertedEnds
<1>. HIDE DEF segments
<1>5. Inserted(<<TextSegment(<<>>)>>) = Inserted(<<>>)
  <2>. DEFINE text == TextSegment(<<>>)
  <2>1. text \in Segment /\ ~text.insertable
    BY EmptySeq DEF TextSegment, Segment
  <2>. HIDE DEF text
  <2>2. Append(<<>>, text) = <<text>> /\ <<>> \in Seq(Segment)
    BY EmptySeq
  <2>3. Inserted(Append(<<>>, text)) = Inserted(<<>>)
    BY <2>1, <2>2, InsertedAppend
  <2>. QED
    BY <2>2, <2>3 DEF text
<1>. QED
  BY <1>2, <1>3, <1>4, <1>5 DEF s

\* Every command of an answer stands in a block of it.
LEMMA AllAreFenced ==
  ASSUME NEW lines \in Seq(Lines)
  PROVE  \A n \in DOMAIN Commands(lines) :
           \E from \in DOMAIN lines, to \in 1..(Len(lines) + 1) :
             /\ from < to
             /\ lines[from].says \in Openers
             /\ \A i \in (from + 1)..(to - 1) : lines[i].says # Bare
             /\ to <= Len(lines) => lines[to].says = Bare
             /\ Commands(lines)[n].lines = RStrip(SubSeq(lines, from + 1, to - 1))
<1>. DEFINE s == Parsed(lines)  done == Inserted(s.segments)
            Stands(c) == \E from \in DOMAIN lines, to \in 1..(Len(lines) + 1) :
             /\ from < to
             /\ lines[from].says \in Openers
             /\ \A i \in (from + 1)..(to - 1) : lines[i].says # Bare
             /\ to <= Len(lines) => lines[to].says = Bare
             /\ c.lines = RStrip(SubSeq(lines, from + 1, to - 1))
<1>1. s \in Parser /\ Fenced(lines, s) /\ Commands(lines) = done \o Opened(s)
  BY ParsedType, ParsedFenced, CommandsAre
<1>2. /\ s.segments \in Seq(Segment) /\ done \in Seq(Segment)
      /\ s.open \in Openers => Code(s) \in Segment
  BY <1>1, InsertedEnds DEF Parser
<1>3. DOMAIN lines = 1..Len(lines) /\ Len(lines) \in Nat
  BY LenProperties
<1>4. \A n \in DOMAIN done : \E i \in DOMAIN s.segments :
        s.segments[i].insertable /\ done[n] = s.segments[i]
  BY <1>2, InsertedFrom
<1>. HIDE DEF s, done
<1>5. ASSUME NEW c, ClosedBlock(lines, c) PROVE Stands(c)
  <2>1. PICK from \in DOMAIN lines, to \in DOMAIN lines :
          /\ Block(lines, from, to)
          /\ lines[from].says \in Openers /\ lines[to].says = Bare
          /\ c.lines = RStrip(SubSeq(lines, from + 1, to - 1))
    BY <1>5 DEF ClosedBlock
  <2>2. to \in 1..(Len(lines) + 1)
    BY <1>3
  <2>. QED
    BY <2>1, <2>2, Zenon DEF Block
<1>6. ASSUME s.open \in Openers PROVE Stands(Code(s))
  <2>1. None \notin Openers
    BY OpenersAre
  <2>2. OpenBlock(lines, s)
    BY <1>1, <1>6, <2>1 DEF Fenced
  <2>3. PICK from \in DOMAIN lines :
          /\ Block(lines, from, Len(lines) + 1)
          /\ lines[from].says = s.open
          /\ s.lines = SubSeq(lines, from + 1, Len(lines))
    BY <2>2 DEF OpenBlock
  <2>4. Code(s).lines = RStrip(s.lines)
    BY DEF Code, CodeSegment
  <2>5. /\ Len(lines) + 1 \in 1..(Len(lines) + 1) /\ (Len(lines) + 1) - 1 = Len(lines)
        /\ ~(Len(lines) + 1 <= Len(lines))
    BY <1>3
  <2>6. Code(s).lines = RStrip(SubSeq(lines, from + 1, (Len(lines) + 1) - 1))
    BY <2>3, <2>4, <2>5
  <2>. QED
    BY <1>6, <2>3, <2>5, <2>6, Zenon DEF Block
<1>7. \A n \in DOMAIN done : Stands(done[n])
  <2>. SUFFICES ASSUME NEW n \in DOMAIN done PROVE Stands(done[n])
    OBVIOUS
  <2>1. PICK i \in DOMAIN s.segments : s.segments[i].insertable /\ done[n] = s.segments[i]
    BY <1>4
  <2>2. ClosedBlock(lines, s.segments[i])
    BY <1>1, <2>1 DEF Fenced
  <2>3. ClosedBlock(lines, done[n])
    BY <2>1, <2>2
  <2>. QED
    BY <1>5, <2>3
<1>. HIDE DEF Stands
<1>8. \A n \in DOMAIN Commands(lines) : Stands(Commands(lines)[n])
  <2>1. CASE s.open \in Openers
    <3>1. Opened(s) = <<Code(s)>> /\ Code(s) \in Segment
      BY <1>2, <2>1 DEF Opened
    <3>2. Commands(lines) = Append(done, Code(s))
      BY <1>1, <1>2, <3>1, AppendIsConcat
    <3>. DEFINE new == Commands(lines)  code == Code(s)
    <3>0. done \in Seq(Segment) /\ code \in Segment /\ new = Append(done, code)
      BY <1>2, <3>1, <3>2
    <3>. HIDE DEF new, code
    <3>3. /\ DOMAIN new = 1..Len(done) + 1
          /\ DOMAIN done = 1..Len(done) /\ Len(done) \in Nat
          /\ new[Len(done) + 1] = code /\ \A i \in 1..Len(done) : new[i] = done[i]
      BY <3>0, AppendProperties, LenProperties
    <3>4. \A n \in 1..Len(done) + 1 : n \in 1..Len(done) \/ n = Len(done) + 1
      BY <3>3
    <3>5. \A n \in DOMAIN new : Stands(new[n])
      BY <1>6, <1>7, <2>1, <3>3, <3>4, Zenon DEF code
    <3>. QED
      BY <3>5 DEF new
  <2>2. CASE s.open \notin Openers
    <3>1. Opened(s) = <<>>
      BY <2>2 DEF Opened
    <3>2. Commands(lines) = done
      BY <1>1, <1>2, <3>1, ConcatEmptySeq
    <3>. QED
      BY <1>7, <3>2, Zenon
  <2>. QED
    BY <2>1, <2>2
<1>. QED
  BY <1>8 DEF Stands

----------------------------------------------------------------------------
(* An answer that goes on.                                                 *)

\* What becomes of the commands of an answer when it goes on, if its last line
\* may have been cut.
Turns(old, new, cut) ==
  LET text == Text(old[Len(old)].lines)
  IN  old # <<>> =>
        /\ \A i \in 1..(Len(old) - 1) : i <= Len(new) /\ new[i] = old[i]
        /\ IF Len(new) < Len(old) THEN cut /\ text = <<>>
           ELSE \/ IsPrefix(text, Text(new[Len(old)].lines))
                \/ cut /\ IsPrefix(Front(text), Text(new[Len(old)].lines))

\* A sequence is a prefix of itself and of what it goes on to be.
LEMMA PrefixGrows ==
  ASSUME NEW S, NEW a \in Seq(S), NEW b \in Seq(S)
  PROVE  IsPrefix(a, a) /\ IsPrefix(<<>>, b) /\ IsPrefix(a, a \o b)
<1>1. /\ a \o b \in Seq(S) /\ Len(a \o b) = Len(a) + Len(b)
      /\ Len(a) \in Nat /\ Len(b) \in Nat
      /\ \A i \in 1..Len(a) + Len(b) : (a \o b)[i] =
           IF i <= Len(a) THEN a[i] ELSE b[i - Len(a)]
  BY ConcatProperties, LenProperties
<1>2. IsPrefix(a, a)
  BY <1>1 DEF IsPrefix
<1>3. IsPrefix(<<>>, b)
  <2>1. Len(<<>>) = 0 /\ SubSeq(b, 1, 0) = <<>> /\ SubSeq(<<>>, 1, 0) = <<>>
    BY EmptySeq, SubSeqEmpty
  <2>. QED
    BY <1>1, <2>1 DEF IsPrefix
<1>4. IsPrefix(a, a \o b)
  <2>. DEFINE c == a \o b
  <2>1. c \in Seq(S) /\ Len(a) <= Len(c) /\ \A i \in 1..Len(a) : a[i] = c[i]
    BY <1>1
  <2>. HIDE DEF c
  <2>2. SubSeq(a, 1, Len(a)) = SubSeq(c, 1, Len(a))
    <3>1. 1 \in Nat \ {0} /\ Len(a) <= Len(a)
      BY <1>1
    <3>. QED
      BY <1>1, <2>1, <3>1, SameSubSeq
  <2>. QED
    BY <2>1, <2>2 DEF IsPrefix, c
<1>. QED
  BY <1>2, <1>3, <1>4

\* The front of a sequence and its last element.
LEMMA FrontAppend ==
  ASSUME NEW S, NEW a \in Seq(S), NEW x \in S
  PROVE  Front(Append(a, x)) = a /\ Last(Append(a, x)) = x
<1>. DEFINE more == Append(a, x)
<1>1. /\ more \in Seq(S) /\ Len(more) = Len(a) + 1 /\ Len(a) \in Nat
      /\ more[Len(a) + 1] = x /\ \A i \in 1..Len(a) : more[i] = a[i]
  BY AppendProperties, LenProperties
<1>. HIDE DEF more
<1>2. SubSeq(more, 1, Len(a)) = SubSeq(a, 1, Len(a))
  <2>1. 1 \in Nat \ {0} /\ Len(a) <= Len(a) /\ Len(a) <= Len(more)
    BY <1>1
  <2>. QED
    BY <1>1, <2>1, SameSubSeq
<1>3. SubSeq(a, 1, Len(a)) = a /\ Len(more) - 1 = Len(a)
  BY <1>1, SubSeqFull
<1>. QED
  BY <1>1, <1>2, <1>3 DEF Front, Last, more

\* A sequence that is not empty is its front and its last element.
LEMMA FrontLast ==
  ASSUME NEW S, NEW a \in Seq(S), a # <<>>
  PROVE  Front(a) \in Seq(S) /\ Last(a) \in S /\ a = Append(Front(a), Last(a))
<1>1. Len(a) \in Nat \ {0} /\ \A i \in 1..Len(a) : a[i] \in S
  BY EmptySeq, ElementOfSeq
<1>2. Last(a) \in S
  <2>1. Len(a) \in 1..Len(a)
    BY <1>1
  <2>. QED
    BY <1>1, <2>1 DEF Last
<1>3. Front(a) \in Seq(S)
  <2>1. 1 \in Int /\ Len(a) - 1 \in Int /\ \A i \in 1..(Len(a) - 1) : i \in 1..Len(a)
    BY <1>1
  <2>2. \A i \in 1..(Len(a) - 1) : a[i] \in S
    BY <1>1, <2>1
  <2>. QED
    BY <2>1, <2>2, SubSeqProperties DEF Front
<1>4. a = Front(a) \o <<Last(a)>>
  <2>1. 1 \in 1..Len(a) /\ Len(a) \in 1..Len(a)
    BY <1>1
  <2>2. SubSeq(a, 1, Len(a)) = SubSeq(a, 1, Len(a) - 1) \o <<a[Len(a)]>>
    BY <2>1, SubSeqRecursiveSecond
  <2>3. SubSeq(a, 1, Len(a)) = a
    BY SubSeqFull
  <2>. QED
    BY <2>2, <2>3 DEF Front, Last
<1>5. Append(Front(a), Last(a)) = Front(a) \o <<Last(a)>>
  BY <1>2, <1>3, AppendIsConcat
<1>. QED
  BY <1>2, <1>3, <1>4, <1>5

\* A sequence with one element more.
LEMMA OneMore ==
  ASSUME NEW S, NEW done \in Seq(S), NEW c \in S
  PROVE  /\ Len(done) \in Nat /\ Len(Append(done, c)) = Len(done) + 1
         /\ Append(done, c) # <<>> /\ Append(done, c)[Len(done) + 1] = c
         /\ \A i \in 1..Len(done) : Append(done, c)[i] = done[i]
BY AppendProperties, LenProperties

\* The text of a segment.
LEMMA TextType ==
  ASSUME NEW lines \in Seq(Lines)
  PROVE  Text(lines) \in Seq(Texts) /\ Text(RStrip(lines)) = Text(lines)
<1>1. Tells({""}) \in [Lines -> Seq(Texts)]
  BY MapTypes
<1>2. Mapped(Tells({""}), lines) \in Seq(Texts)
  BY <1>1, MappedType
<1>3. Telling(RStrip(lines), {""}) = Telling(lines, {""})
  BY TellingStripped
<1>. QED
  BY <1>2, <1>3, TellingMaps DEF Text

\* Commands turn into themselves and one more,
LEMMA TurnsMore ==
  ASSUME NEW old \in Seq(Segment), NEW cut \in BOOLEAN
  PROVE  /\ Turns(old, old, cut)
         /\ \A c \in Segment : Turns(old, Append(old, c), cut)
<1>1. ASSUME old # <<>>
      PROVE  Len(old) \in Nat \ {0} /\ old[Len(old)].lines \in Seq(Lines)
  <2>1. Len(old) \in Nat \ {0} /\ Len(old) \in 1..Len(old)
    BY <1>1, EmptySeq
  <2>2. old[Len(old)] \in Segment
    BY <2>1, ElementOfSeq
  <2>. QED
    BY <2>1, <2>2 DEF Segment
<1>2. old # <<>> => IsPrefix(Text(old[Len(old)].lines), Text(old[Len(old)].lines))
  BY <1>1, TextType, PrefixGrows
<1>3. Turns(old, old, cut)
  BY <1>1, <1>2 DEF Turns
<1>4. ASSUME NEW c \in Segment PROVE Turns(old, Append(old, c), cut)
  <2>. DEFINE new == Append(old, c)
  <2>1. /\ Len(old) \in Nat /\ Len(new) = Len(old) + 1
        /\ \A i \in 1..Len(old) : new[i] = old[i]
    BY OneMore
  <2>. HIDE DEF new
  <2>2. old # <<>> => /\ Len(old) \in 1..Len(old)
                      /\ \A i \in 1..(Len(old) - 1) : i \in 1..Len(old)
    BY <1>1
  <2>3. old # <<>> => new[Len(old)] = old[Len(old)]
    BY <2>1, <2>2
  <2>4. old # <<>> => \A i \in 1..(Len(old) - 1) : i <= Len(new) /\ new[i] = old[i]
    BY <2>1, <2>2
  <2>5. ~(Len(new) < Len(old))
    BY <2>1
  <2>. QED
    BY <1>2, <2>3, <2>4, <2>5 DEF Turns, new
<1>. QED
  BY <1>3, <1>4

\* the last may turn into a longer one,
LEMMA TurnsLonger ==
  ASSUME NEW done \in Seq(Segment), NEW c \in Segment, NEW d \in Segment,
         NEW cut \in BOOLEAN,
         \/ IsPrefix(Text(c.lines), Text(d.lines))
         \/ cut /\ IsPrefix(Front(Text(c.lines)), Text(d.lines))
  PROVE  Turns(Append(done, c), Append(done, d), cut)
<1>. DEFINE old == Append(done, c)  new == Append(done, d)  n == Len(done)
<1>1. /\ n \in Nat /\ Len(old) = n + 1 /\ Len(new) = n + 1
      /\ \A i \in 1..n : old[i] = done[i] /\ new[i] = done[i]
      /\ old[n + 1] = c /\ new[n + 1] = d
  BY OneMore
<1>. HIDE DEF old, new, n
<1>2. \A i \in 1..(Len(old) - 1) : i <= Len(new) /\ new[i] = old[i]
  BY <1>1
<1>3. ~(Len(new) < Len(old))
  BY <1>1
<1>4. old[Len(old)] = c /\ new[Len(old)] = d
  BY <1>1
<1>. QED
  BY <1>2, <1>3, <1>4 DEF Turns, old, new

\* and one without text vanish.
LEMMA TurnsLess ==
  ASSUME NEW done \in Seq(Segment), NEW c \in Segment, Text(c.lines) = <<>>
  PROVE  Turns(Append(done, c), done, TRUE)
<1>. DEFINE old == Append(done, c)  n == Len(done)
<1>1. /\ n \in Nat /\ Len(old) = n + 1
      /\ \A i \in 1..n : old[i] = done[i]
      /\ old[n + 1] = c
  BY OneMore
<1>. HIDE DEF old
<1>2. \A i \in 1..(Len(old) - 1) : i <= Len(done) /\ done[i] = old[i]
  BY <1>1
<1>3. Len(done) < Len(old)
  BY <1>1
<1>4. old[Len(old)] = c
  BY <1>1
<1>. QED
  BY <1>2, <1>3, <1>4 DEF Turns, old

\* The commands once a line has been read.
After(s, line) == Inserted(Read(s, line).segments) \o Opened(Read(s, line))

\* What one more line does to the commands, when a block is open and when none is.
LEMMA CommandsAfter ==
  ASSUME NEW s \in Parser, NEW line \in Lines
  PROVE  /\ s.open = None =>
              IF line.says \in Openers
              THEN \E c \in Segment : /\ After(s, line) = Append(Inserted(s.segments), c)
                                      /\ Text(c.lines) = <<>>
              ELSE After(s, line) = Inserted(s.segments)
         /\ s.open \in Openers =>
              \E c \in Segment :
                /\ After(s, line) = Append(Inserted(s.segments), c)
                /\ Text(c.lines) = IF line.says = Bare THEN Text(s.lines)
                                   ELSE Text(s.lines) \o Tells({""})[line]
         /\ s.open \notin Openers \cup {None} => After(s, line) = Inserted(s.segments)
<1>. DEFINE t == Read(s, line)  done == Inserted(s.segments)
<1>1. s.segments \in Seq(Segment) /\ s.lines \in Seq(Lines) /\ t \in Parser
  BY ReadType DEF Parser
<1>2. /\ done \in Seq(Segment) /\ done \o <<>> = done
      /\ s.open \in Openers => Code(s) \in Segment
      /\ t.open \in Openers => Code(t) \in Segment
  BY <1>1, InsertedEnds, ConcatEmptySeq
<1>3. None \notin Openers
  BY OpenersAre
<1>4. Openers \subseteq Fences /\ Bare \in Openers
  BY DEF Openers, Unlabelled, Labelled, Fences
<1>5. /\ Code(s).lines = RStrip(s.lines) /\ Code(t).lines = RStrip(t.lines)
      /\ Text(RStrip(s.lines)) = Text(s.lines)
  BY <1>1, TextType DEF Code, CodeSegment
<1>6. CASE s.open = None
  <2>1. CASE line.says \in Fences
    <3>1. t = [segments |-> EndProse(s), lines |-> <<>>, open |-> line.says]
      BY <1>6, <2>1 DEF Read
    <3>2. t.segments = EndProse(s) /\ t.lines = <<>> /\ t.open = line.says
      BY <3>1
    <3>. HIDE DEF t
    <3>3. Inserted(t.segments) = done
      BY <3>2, InsertedEnds
    <3>4. CASE line.says \in Openers
      <4>1. Opened(t) = <<Code(t)>> /\ Code(t) \in Segment
        BY <1>2, <3>2, <3>4 DEF Opened
      <4>2. Text(Code(t).lines) = <<>>
        BY <1>5, <3>2, RStripEmpty, TellingEmpty DEF Text
      <4>. DEFINE c == Code(t)
      <4>. HIDE DEF c, done
      <4>3. done \o <<c>> = Append(done, c)
        BY <1>2, <4>1, AppendIsConcat DEF c
      <4>4. After(s, line) = Append(done, c)
        BY <3>3, <4>1, <4>3 DEF After, t, c
      <4>. QED
        BY <1>3, <1>6, <3>4, <4>1, <4>2, <4>4 DEF c, done
    <3>5. CASE line.says \notin Openers
      <4>1. Opened(t) = <<>>
        BY <3>2, <3>5 DEF Opened
      <4>. QED
        BY <1>2, <1>3, <1>6, <3>3, <3>5, <4>1 DEF After, t
    <3>. QED
      BY <3>4, <3>5
  <2>2. CASE line.says \notin Fences
    <3>1. t = [s EXCEPT !.lines = Append(s.lines, line)]
      BY <1>6, <2>2 DEF Read
    <3>2. t.segments = s.segments /\ t.open = None
      BY <1>6, <3>1 DEF Parser
    <3>3. Opened(t) = <<>>
      BY <1>3, <3>2 DEF Opened
    <3>. QED
      BY <1>2, <1>3, <1>4, <1>6, <2>2, <3>2, <3>3 DEF After
  <2>. QED
    BY <2>1, <2>2
<1>7. CASE s.open # None /\ line.says = Bare
  <2>1. t = [segments |-> EndCode(s), lines |-> <<>>, open |-> None]
    BY <1>7 DEF Read, Closes
  <2>2. Inserted(t.segments) = done \o Opened(s) /\ Opened(t) = <<>>
    BY <1>3, <1>7, <2>1, InsertedEnds DEF Opened
  <2>3. Inserted(t.segments) \in Seq(Segment)
    BY <1>1, InsertedEnds
  <2>4. After(s, line) = done \o Opened(s)
    BY <2>2, <2>3, ConcatEmptySeq DEF After
  <2>5. CASE s.open \in Openers
    <3>. DEFINE c == Code(s)
    <3>1. Opened(s) = <<c>> /\ c \in Segment /\ Text(c.lines) = Text(s.lines)
      BY <1>2, <1>5, <2>5 DEF Opened
    <3>. HIDE DEF c, done, t
    <3>2. done \o <<c>> = Append(done, c)
      BY <1>2, <3>1, AppendIsConcat
    <3>. QED
      BY <1>7, <2>4, <2>5, <3>1, <3>2 DEF done
  <2>6. CASE s.open \notin Openers
    <3>1. Opened(s) = <<>>
      BY <2>6 DEF Opened
    <3>. QED
      BY <1>2, <1>7, <2>4, <2>6, <3>1
  <2>. QED
    BY <2>5, <2>6
<1>8. CASE s.open # None /\ line.says # Bare
  <2>1. t = [s EXCEPT !.lines = Append(s.lines, line)]
    BY <1>8 DEF Read, Closes
  <2>2. t.segments = s.segments /\ t.open = s.open /\ t.lines = Append(s.lines, line)
    BY <2>1 DEF Parser
  <2>3. CASE s.open \in Openers
    <3>. DEFINE c == Code(t)
    <3>1. Opened(t) = <<c>> /\ c \in Segment
      BY <1>2, <2>2, <2>3 DEF Opened
    <3>2. Text(c.lines) = Text(s.lines) \o Tells({""})[line]
      <4>1. t.lines \in Seq(Lines)
        BY <1>1 DEF Parser
      <4>2. Text(RStrip(t.lines)) = Text(t.lines)
        BY <4>1, TextType
      <4>3. Text(Append(s.lines, line)) = Text(s.lines) \o Tells({""})[line]
        BY <1>1, TellingAppend DEF Text
      <4>. QED
        BY <1>5, <2>2, <4>2, <4>3
    <3>3. After(s, line) = done \o <<c>>
      BY <2>2, <3>1 DEF After
    <3>. HIDE DEF c, done, t
    <3>4. done \o <<c>> = Append(done, c)
      BY <1>2, <3>1, AppendIsConcat
    <3>. QED
      BY <1>8, <2>3, <3>1, <3>2, <3>3, <3>4 DEF done
  <2>4. CASE s.open \notin Openers
    <3>1. Opened(t) = <<>>
      BY <2>2, <2>4 DEF Opened
    <3>. QED
      BY <1>2, <1>8, <2>2, <2>4, <3>1 DEF After
  <2>. QED
    BY <2>3, <2>4
<1>. QED
  BY <1>6, <1>7, <1>8

\* What one line tells is one text or nothing.
LEMMA OneText ==
  ASSUME NEW line \in Lines
  PROVE  /\ Tells({""})[line] \in Seq(Texts)
         /\ \/ Tells({""})[line] = <<>>
            \/ line.says \in Texts /\ Tells({""})[line] = <<line.says>>
<1>1. Tells({""}) \in [Lines -> Seq(Texts)]
  BY MapTypes
<1>2. line.says \in Texts
  BY DEF Lines
<1>. QED
  BY <1>1, <1>2 DEF Tells

\* The texts of a block when its last line changes.
LEMMA TextChanges ==
  ASSUME NEW x \in Seq(Texts), NEW l \in Lines, NEW m \in Lines, NEW a, NEW b,
         a = IF l.says = Bare THEN x ELSE x \o Tells({""})[l],
         b = IF m.says = Bare THEN x ELSE x \o Tells({""})[m]
  PROVE  /\ l.says = m.says => IsPrefix(a, b)
         /\ IsPrefix(a, b) \/ IsPrefix(Front(a), b)
<1>. DEFINE y == Tells({""})[l]  z == Tells({""})[m]
<1>1. y \in Seq(Texts) /\ z \in Seq(Texts)
  BY OneText
<1>2. x \o y \in Seq(Texts) /\ x \o z \in Seq(Texts)
  BY <1>1, ConcatProperties
<1>3. a \in Seq(Texts) /\ IsPrefix(x, b)
  <2>. HIDE DEF y, z
  <2>1. IsPrefix(x, x) /\ IsPrefix(x, x \o z)
    BY <1>1, PrefixGrows
  <2>. QED
    BY <1>2, <2>1 DEF y, z
<1>4. l.says = m.says => a = b
  BY DEF Tells
<1>5. IsPrefix(a, a)
  BY <1>3, PrefixGrows
<1>6. a = x \/ Front(a) = x
  <2>1. CASE l.says = Bare \/ y = <<>>
    <3>1. x \o <<>> = x
      BY ConcatEmptySeq
    <3>. QED
      BY <2>1, <3>1
  <2>2. CASE l.says # Bare /\ y # <<>>
    <3>1. l.says \in Texts /\ y = <<l.says>>
      BY <2>2, OneText
    <3>2. Append(x, l.says) = x \o <<l.says>> /\ Front(Append(x, l.says)) = x
      <4>. DEFINE e == l.says
      <4>1. e \in Texts
        BY <3>1
      <4>. HIDE DEF e, Texts
      <4>2. Append(x, e) = x \o <<e>> /\ Front(Append(x, e)) = x
        BY <4>1, AppendIsConcat, FrontAppend
      <4>. QED
        BY <4>2 DEF e
    <3>. QED
      BY <2>2, <3>1, <3>2
  <2>. QED
    BY <2>1, <2>2
<1>. QED
  BY <1>3, <1>4, <1>5, <1>6

\* A line that changes, with or without what it says.
LEMMA LineChanges ==
  ASSUME NEW lines \in Seq(Lines), NEW l \in Lines, NEW m \in Lines, NEW cut \in BOOLEAN,
         cut \/ l.says = m.says
  PROVE  Turns(Commands(Append(lines, l)), Commands(Append(lines, m)), cut)
<1>. DEFINE s == Parsed(lines)  done == Inserted(s.segments)
            old == After(s, l)  new == After(s, m)
<1>1. s \in Parser /\ done \in Seq(Segment)
  BY ParsedType, InsertedEnds
<1>2. Commands(Append(lines, l)) = old /\ Commands(Append(lines, m)) = new
  BY CommandsAre, ParsedAppend, AppendProperties DEF After
<1>3. s.lines \in Seq(Lines)
  BY <1>1 DEF Parser
<1>4. CASE s.open = None
  <2>1. CASE l.says \in Openers
    <3>1. PICK c \in Segment : old = Append(done, c) /\ Text(c.lines) = <<>>
      BY <1>1, <1>4, <2>1, CommandsAfter
    <3>2. CASE m.says \in Openers
      <4>1. PICK d \in Segment : new = Append(done, d)
        BY <1>1, <1>4, <3>2, CommandsAfter
      <4>2. IsPrefix(Text(c.lines), Text(d.lines))
        <5>1. d.lines \in Seq(Lines)
          BY DEF Segment
        <5>2. Text(d.lines) \in Seq(Texts)
          BY <5>1, TextType
        <5>. QED
          BY <3>1, <5>2, PrefixGrows
      <4>. QED
        BY <1>1, <1>2, <3>1, <4>1, <4>2, TurnsLonger
    <3>3. CASE m.says \notin Openers
      <4>1. new = done
        BY <1>1, <1>4, <3>3, CommandsAfter
      <4>2. cut = TRUE
        BY <2>1, <3>3
      <4>. QED
        BY <1>1, <1>2, <3>1, <4>1, <4>2, TurnsLess
    <3>. QED
      BY <3>2, <3>3
  <2>2. CASE l.says \notin Openers
    <3>1. old = done
      BY <1>1, <1>4, <2>2, CommandsAfter
    <3>2. new = done \/ \E d \in Segment : new = Append(done, d)
      BY <1>1, <1>4, CommandsAfter
    <3>. HIDE DEF done, old, new
    <3>. QED
      BY <1>1, <1>2, <3>1, <3>2, TurnsMore
  <2>. QED
    BY <2>1, <2>2
<1>5. CASE s.open \in Openers
  <2>1. PICK c \in Segment :
          /\ old = Append(done, c)
          /\ Text(c.lines) = IF l.says = Bare THEN Text(s.lines)
                             ELSE Text(s.lines) \o Tells({""})[l]
    BY <1>1, <1>5, CommandsAfter
  <2>2. PICK d \in Segment :
          /\ new = Append(done, d)
          /\ Text(d.lines) = IF m.says = Bare THEN Text(s.lines)
                             ELSE Text(s.lines) \o Tells({""})[m]
    BY <1>1, <1>5, CommandsAfter
  <2>3. Text(s.lines) \in Seq(Texts)
    BY <1>3, TextType
  <2>4. \/ IsPrefix(Text(c.lines), Text(d.lines))
        \/ cut /\ IsPrefix(Front(Text(c.lines)), Text(d.lines))
    BY <2>1, <2>2, <2>3, TextChanges
  <2>. HIDE DEF done, old, new
  <2>. QED
    BY <1>1, <1>2, <2>1, <2>2, <2>4, TurnsLonger
<1>6. CASE s.open \notin Openers \cup {None}
  <2>1. old = done /\ new = done
    BY <1>1, <1>6, CommandsAfter
  <2>. QED
    BY <1>1, <1>2, <2>1, TurnsMore
<1>. QED
  BY <1>4, <1>5, <1>6

\* One line more.
LEMMA LineMore ==
  ASSUME NEW lines \in Seq(Lines), NEW line \in Lines, NEW cut \in BOOLEAN
  PROVE  Turns(Commands(lines), Commands(Append(lines, line)), cut)
<1>. DEFINE s == Parsed(lines)  done == Inserted(s.segments)
            old == Commands(lines)  new == After(s, line)
<1>1. s \in Parser /\ done \in Seq(Segment) /\ done \o <<>> = done
  BY ParsedType, InsertedEnds, ConcatEmptySeq
<1>2. old = done \o Opened(s) /\ Commands(Append(lines, line)) = new
  BY CommandsAre, ParsedAppend, AppendProperties DEF After
<1>3. s.lines \in Seq(Lines)
  BY <1>1 DEF Parser
<1>4. s.open \notin Openers => old = done
  BY <1>1, <1>2 DEF Opened
<1>5. CASE s.open = None
  <2>1. None \notin Openers
    BY OpenersAre
  <2>2. old = done
    BY <1>4, <1>5, <2>1
  <2>3. new = done \/ \E d \in Segment : new = Append(done, d)
    BY <1>1, <1>5, CommandsAfter
  <2>. HIDE DEF done, old, new
  <2>. QED
    BY <1>1, <1>2, <2>2, <2>3, TurnsMore DEF old
<1>6. CASE s.open \in Openers
  <2>. DEFINE c == Code(s)  x == Text(s.lines)  y == Tells({""})[line]
  <2>1. Opened(s) = <<c>> /\ c \in Segment /\ Text(c.lines) = x
    BY <1>1, <1>3, <1>6, InsertedEnds, TextType DEF Opened, Code, CodeSegment
  <2>2. PICK d \in Segment :
          /\ new = Append(done, d)
          /\ Text(d.lines) = IF line.says = Bare THEN x ELSE x \o y
    BY <1>1, <1>6, CommandsAfter
  <2>3. x \in Seq(Texts) /\ y \in Seq(Texts)
    BY <1>3, TextType, OneText
  <2>. HIDE DEF c, x, y, done, old, new
  <2>4. IsPrefix(Text(c.lines), Text(d.lines))
    BY <2>1, <2>2, <2>3, PrefixGrows
  <2>5. old = Append(done, c)
    BY <1>1, <1>2, <2>1, AppendIsConcat
  <2>. QED
    BY <1>1, <1>2, <2>1, <2>2, <2>4, <2>5, TurnsLonger DEF old
<1>7. CASE s.open \notin Openers \cup {None}
  <2>1. old = done /\ new = done
    BY <1>1, <1>4, <1>7, CommandsAfter
  <2>. QED
    BY <1>1, <1>2, <2>1, TurnsMore
<1>. QED
  BY <1>5, <1>6, <1>7

----------------------------------------------------------------------------
(* The specification.                                                      *)

\* With newlines as the only line ends a command ends without one.
Newlined(lines) == \A i \in DOMAIN lines : lines[i].end \in {"none", "lf"}
Endless(code) == code # <<>> => Last(code).end = "none"

SuggestionInv ==
  /\ answer \in Seq(Lines)
  /\ cards \in Seq(Seq(Lines))
  /\ prompt \in Seq(Texts)
  /\ submitted \in Seq(Seq(Texts))
  /\ ordered \in Nat
  /\ Newlined(answer) => \A i \in DOMAIN cards : Endless(cards[i])
  /\ cards = <<>> => InsertOnlyInserts
  /\ OneLineCommandsWait

\* The larger of 1 and a number.
LEMMA OneOrMore ==
  ASSUME NEW n \in Nat
  PROVE  Max({1, n}) \in Nat /\ Max({1, n}) >= 1
<1>1. \E x \in {1, n} : \A y \in {1, n} : y <= x
  <2>1. CASE n <= 1
    BY <2>1
  <2>2. CASE ~(n <= 1)
    <3>1. \A y \in {1, n} : y <= n
      BY <2>2
    <3>. QED
      BY <3>1
  <2>. QED
    BY <2>1, <2>2
<1>2. Max({1, n}) \in {1, n} /\ \A y \in {1, n} : y <= Max({1, n})
  BY <1>1 DEF Max
<1>. QED
  BY <1>2

\* A command ends without a line end.
LEMMA StrippedEndless ==
  ASSUME NEW lines \in Seq(Lines), Newlined(lines)
  PROVE  Endless(RStrip(lines))
<1>. DEFINE G == {t \in Seq(Lines) : Newlined(t) => Endless(RStrip(t))}
<1>1. <<>> \in G
  BY RStripEmpty, EmptySeq DEF Endless
<1>2. ASSUME NEW t \in Seq(Lines), NEW x \in Lines, t \in G PROVE Append(t, x) \in G
  <2>1. Append(t, x) \in Seq(Lines)
    BY AppendProperties
  <2>2. Newlined(Append(t, x)) => Newlined(t) /\ x.end \in {"none", "lf"}
    <3>. DEFINE more == Append(t, x)
    <3>0. more = Append(t, x)
      OBVIOUS
    <3>. HIDE DEF more
    <3>1. /\ \A i \in DOMAIN t : i \in DOMAIN more /\ more[i] = t[i]
          /\ \E i \in DOMAIN more : more[i] = x
      BY <3>0, LastOf
    <3>2. Newlined(more) => Newlined(t)
      BY <3>1 DEF Newlined
    <3>3. Newlined(more) => x.end \in {"none", "lf"}
      BY <3>1 DEF Newlined
    <3>. QED
      BY <3>2, <3>3 DEF more
  <2>3. CASE Newlines(x)
    BY <1>2, <2>1, <2>2, <2>3, RStripAppend
  <2>4. CASE ~Newlines(x)
    <3>1. RStrip(Append(t, x)) = Append(t, Chopped(x))
      BY <2>4, RStripAppend
    <3>. DEFINE e == Chopped(x)
    <3>2. e \in Lines /\ (Newlined(Append(t, x)) => e.end = "none")
      BY <2>2, ChoppedSame
    <3>. HIDE DEF e, Lines
    <3>3. Last(Append(t, e)) = e
      BY <3>2, FrontAppend
    <3>. QED
      BY <2>1, <3>1, <3>2, <3>3 DEF Endless, e
  <2>. QED
    BY <2>3, <2>4
<1>. HIDE DEF G
<1>3. Seq(Lines) \subseteq G
  BY <1>1, <1>2, AllSequences
<1>. QED
  BY <1>3 DEF G

\* What is fed to the terminal: a newline more if a line end is left.
LEMMA Insertable ==
  ASSUME NEW code \in Seq(Lines)
  PROVE  /\ InsertableText(code) \in Seq(Texts)
         /\ Endless(code) => Len(InsertableText(code)) = Len(code)
<1>. DEFINE texts == [i \in DOMAIN code |-> code[i].says]
<1>1. /\ DOMAIN code = 1..Len(code)
      /\ Len(code) \in Nat
      /\ \A i \in DOMAIN code : code[i] \in Lines
  BY LenProperties, ElementOfSeq
<1>2. \A i \in DOMAIN code : code[i].says \in Texts
  BY <1>1 DEF Lines
<1>3. texts \in Seq(Texts) /\ Len(texts) = Len(code)
  <2>. HIDE DEF Texts
  <2>. QED
    BY <1>1, <1>2
<1>4. "" \in Texts
  BY DEF Texts
<1>. HIDE DEF texts
<1>5. Append(texts, "") \in Seq(Texts)
  BY <1>3, <1>4, AppendProperties
<1>. QED
  BY <1>3, <1>5 DEF InsertableText, Endless, texts

\* Texts fed to the terminal are submitted or left on the prompt; those of a
\* command of one line are left.
LEMMA Feeding ==
  ASSUME NEW texts \in Seq(Texts), prompt \in Seq(Texts)
  PROVE  /\ FeedChild(texts).submits \in Seq(Seq(Texts))
         /\ FeedChild(texts).leaves \in Seq(Texts)
         /\ Len(texts) <= 1 => FeedChild(texts).submits = <<>>
<1>. DEFINE n == Len(texts)
            whole == [i \in 1..n - 1 |->
                        IF i = 1 THEN prompt \o Piece(texts[1]) ELSE Piece(texts[i])]
<1>1. n \in Nat /\ DOMAIN texts = 1..n /\ (texts = <<>> <=> n = 0)
  BY LenProperties, EmptySeq
<1>2. \A text \in Texts : Piece(text) \in Seq(Texts)
  <2>. SUFFICES ASSUME NEW text \in Texts PROVE Piece(text) \in Seq(Texts)
    OBVIOUS
  <2>. HIDE DEF Texts
  <2>1. <<>> \in Seq(Texts) /\ <<text>> \in Seq(Texts)
    BY EmptySeq
  <2>. QED
    BY <2>1 DEF Piece
<1>3. \A i \in 1..n : texts[i] \in Texts
  BY <1>1, ElementOfSeq
<1>4. CASE texts = <<>>
  <2>1. FeedChild(texts) = [submits |-> <<>>, leaves |-> prompt]
    BY <1>4 DEF FeedChild
  <2>. QED
    BY <2>1, EmptySeq
<1>5. CASE n = 1
  <2>1. FeedChild(texts) = [submits |-> <<>>, leaves |-> prompt \o Piece(texts[1])]
    <3>1. texts # <<>>
      BY <1>1, <1>5
    <3>. QED
      BY <1>5, <3>1 DEF FeedChild
  <2>2. prompt \o Piece(texts[1]) \in Seq(Texts)
    BY <1>2, <1>3, <1>5, ConcatProperties
  <2>. QED
    BY <2>1, <2>2, EmptySeq
<1>6. CASE n > 1
  <2>1. FeedChild(texts) = [submits |-> whole, leaves |-> Piece(Last(texts))]
    <3>1. texts # <<>> /\ Len(texts) # 1
      BY <1>1, <1>6
    <3>. QED
      BY <3>1 DEF FeedChild
  <2>2. Last(texts) \in Texts
    BY <1>1, <1>3, <1>6 DEF Last
  <2>3. \A i \in 1..n - 1 : whole[i] \in Seq(Texts)
    <3>1. \A i \in 1..n - 1 : i \in 1..n /\ 1 \in 1..n
      BY <1>1
    <3>2. \A i \in 1..n - 1 : /\ prompt \o Piece(texts[1]) \in Seq(Texts)
                          /\ Piece(texts[i]) \in Seq(Texts)
      BY <1>2, <1>3, <3>1, ConcatProperties
    <3>. QED
      BY <3>2
  <2>4. whole \in Seq(Seq(Texts))
    BY <1>1, <1>6, <2>3
  <2>5. ~(Len(texts) <= 1)
    BY <1>1, <1>6
  <2>. HIDE DEF whole, n
  <2>. QED
    BY <1>2, <2>1, <2>2, <2>4, <2>5
<1>. QED
  BY <1>1, <1>4, <1>5, <1>6

\* The specification starts in its invariant.
LEMMA SuggestionStarts == Init => SuggestionInv
<1>1. Init => DOMAIN cards = {}
  BY EmptySeq DEF Init
<1>. QED
  BY <1>1, EmptySeq DEF Init, SuggestionInv, OneLineCommandsWait, InsertOnlyInserts

\* The commands of an answer are segments.
LEMMA CommandsType ==
  ASSUME NEW lines \in Seq(Lines)
  PROVE  Commands(lines) \in Seq(Segment)
<1>. DEFINE segments == ParseResponse(lines)
<1>1. segments \in Seq(Segment) /\ Commands(lines) = Inserted(segments)
  BY CommandsMap, ResponseType DEF Inserted
<1>2. Inserts \in [Segment -> Seq(Segment)]
  BY MapTypes
<1>. HIDE DEF segments
<1>. QED
  BY <1>1, <1>2, MappedType DEF Inserted

\* Cards hold lines, and with newlines as the only line ends no line end.
LEMMA CardsType ==
  ASSUME answer \in Seq(Lines)
  PROVE  /\ Cards \in Seq(Seq(Lines))
         /\ Newlined(answer) => \A i \in DOMAIN Cards : Endless(Cards[i])
<1>. DEFINE all == Commands(answer)
<1>1. all \in Seq(Segment)
  BY CommandsType
<1>. HIDE DEF all
<1>2. /\ DOMAIN all = 1..Len(all)
      /\ Len(all) \in Nat
      /\ \A i \in DOMAIN all : all[i] \in Segment
  BY <1>1
<1>3. \A i \in DOMAIN all : all[i].lines \in Seq(Lines)
  BY <1>2 DEF Segment
<1>4. [i \in DOMAIN all |-> all[i].lines] \in Seq(Seq(Lines))
  BY <1>2, <1>3
<1>5. ASSUME Newlined(answer), NEW n \in DOMAIN all PROVE Endless(all[n].lines)
  <2>1. PICK from \in DOMAIN answer, to \in 1..(Len(answer) + 1) :
          all[n].lines = RStrip(SubSeq(answer, from + 1, to - 1))
    BY <1>5, AllAreFenced DEF all
  <2>2. /\ DOMAIN answer = 1..Len(answer) /\ Len(answer) \in Nat
        /\ \A i \in DOMAIN answer : answer[i] \in Lines
    BY LenProperties, ElementOfSeq
  <2>. DEFINE m == from + 1  k == to - 1  part == SubSeq(answer, m, k)
  <2>3. /\ m \in Int
        /\ k \in Int
        /\ m >= 1
        /\ k <= Len(answer)
        /\ \A i \in m..k : i \in DOMAIN answer
    BY <2>2
  <2>4. \A i \in m..k : answer[i] \in Lines
    BY <2>2, <2>3
  <2>. HIDE DEF m, k
  <2>5. /\ part \in Seq(Lines) /\ Len(part) = IF m <= k THEN k - m + 1 ELSE 0
        /\ \A i \in 1..k - m + 1 : part[i] = answer[m + i - 1]
    BY <2>3, <2>4, SubSeqProperties
  <2>6. DOMAIN part = 1..Len(part)
    BY <2>5, LenProperties
  <2>. HIDE DEF part
  <2>7. \A i \in DOMAIN part : i \in 1..k - m + 1 /\ m + i - 1 \in m..k
    BY <2>3, <2>5, <2>6
  <2>8. Newlined(part)
    BY <1>5, <2>3, <2>5, <2>7 DEF Newlined
  <2>. QED
    BY <2>1, <2>5, <2>8, StrippedEndless DEF part, m, k
<1>. QED
  BY <1>4, <1>5 DEF Cards, all

\* What arrives is lines again.
LEMMA ArrivesType ==
  ASSUME answer \in Seq(Lines), FragmentArrives
  PROVE  /\ answer' \in Seq(Lines)
         /\ Turns(Commands(answer), Commands(answer'), IsCut)
<1>1. CASE \E line \in [says : Texts, end : LineEnds \cup {"none"}] : LineBegins(line)
  <2>1. PICK line \in [says : Texts, end : LineEnds \cup {"none"}] :
            answer' = Append(answer, line)
    BY <1>1 DEF LineBegins
  <2>2. line \in Lines
    BY SuggestionAssumption DEF Lines, Ends
  <2>. HIDE DEF Lines
  <2>3. answer' \in Seq(Lines)
    BY <2>1, <2>2, AppendProperties
  <2>4. Turns(Commands(answer), Commands(Append(answer, line)), IsCut)
    <3>1. IsCut \in BOOLEAN
      BY DEF IsCut
    <3>. QED
      BY <2>2, <3>1, LineMore
  <2>. QED
    BY <2>1, <2>3, <2>4
<1>2. CASE \E line \in [says : Texts, end : LineEnds \cup {"none"}] : LineGoesOn(line)
  <2>1. PICK line \in [says : Texts, end : LineEnds \cup {"none"}] :
          /\ answer # <<>> /\ Last(answer).end = "none"
          /\ answer' = Append(Front(answer), line)
    BY <1>2 DEF LineGoesOn
  <2>2. line \in Lines
    BY SuggestionAssumption DEF Lines, Ends
  <2>. HIDE DEF Lines
  <2>3. /\ Front(answer) \in Seq(Lines) /\ Last(answer) \in Lines
        /\ answer = Append(Front(answer), Last(answer))
    BY <2>1, FrontLast
  <2>4. answer' \in Seq(Lines)
    BY <2>1, <2>2, <2>3, AppendProperties
  <2>5. Turns(Commands(Append(Front(answer), Last(answer))),
              Commands(Append(Front(answer), line)), TRUE)
    BY <2>2, <2>3, LineChanges
  <2>6. IsCut = TRUE
    BY <2>1 DEF IsCut
  <2>. QED
    BY <2>1, <2>3, <2>4, <2>5, <2>6
<1>3. CASE LineEndGoesOn
  <2>. DEFINE line == [Last(answer) EXCEPT !.end = "crlf"]
  <2>1. /\ answer # <<>> /\ Last(answer).end = "cr"
        /\ answer' = Append(Front(answer), line)
    BY <1>3 DEF LineEndGoesOn
  <2>3. /\ Front(answer) \in Seq(Lines) /\ Last(answer) \in Lines
        /\ answer = Append(Front(answer), Last(answer))
    BY <2>1, FrontLast
  <2>2. line \in Lines /\ line.says = Last(answer).says
    BY <2>3 DEF Lines, Ends
  <2>. HIDE DEF Lines, line
  <2>4. answer' \in Seq(Lines)
    BY <2>1, <2>2, <2>3, AppendProperties
  <2>5. Turns(Commands(Append(Front(answer), Last(answer))),
              Commands(Append(Front(answer), line)), FALSE)
    BY <2>2, <2>3, LineChanges
  <2>6. IsCut = FALSE
    BY <2>1 DEF IsCut
  <2>. QED
    BY <2>1, <2>3, <2>4, <2>5, <2>6
<1>. QED
  BY <1>1, <1>2, <1>3 DEF FragmentArrives

\* Every step keeps the invariant.
LEMMA SuggestionSteps ==
  ASSUME SuggestionInv, [Next]_vars
  PROVE  SuggestionInv'
<1>1. /\ answer \in Seq(Lines) /\ cards \in Seq(Seq(Lines)) /\ prompt \in Seq(Texts)
      /\ submitted \in Seq(Seq(Texts)) /\ ordered \in Nat /\ Len(submitted) \in Nat
      /\ Newlined(answer) => \A i \in DOMAIN cards : Endless(cards[i])
  BY LenProperties DEF SuggestionInv
<1>. DEFINE Short == cards = <<>> \/ (OneLine /\ Newlined(answer))
<1>2. Short => Len(submitted) <= ordered
  BY DEF SuggestionInv, OneLineCommandsWait, InsertOnlyInserts, Newlined
<1>3. ASSUME answer' = answer, cards' = cards, Short => Len(submitted') <= ordered',
             prompt' \in Seq(Texts), submitted' \in Seq(Seq(Texts)), ordered' \in Nat
      PROVE  SuggestionInv'
  <2>1. (Newlined(answer) => \A i \in DOMAIN cards : Endless(cards[i]))'
    BY <1>1, <1>3 DEF Newlined, Endless
  <2>2. OneLineCommandsWait' /\ (cards = <<>> => InsertOnlyInserts)'
    BY <1>3 DEF OneLineCommandsWait, InsertOnlyInserts, OneLine, Newlined
  <2>. QED
    BY <1>1, <1>3, <2>1, <2>2 DEF SuggestionInv
<1>4. CASE FragmentArrives
  <2>1. answer' \in Seq(Lines)
    BY <1>1, <1>4, ArrivesType
  <2>2. /\ cards = <<>> /\ cards' = cards /\ prompt' = prompt /\ submitted' = submitted
        /\ ordered' = ordered
    BY <1>4 DEF FragmentArrives
  <2>3. DOMAIN cards = {}
    BY <2>2, EmptySeq
  <2>4. (InsertOnlyInserts /\ OneLineCommandsWait)'
    BY <1>2, <2>2 DEF InsertOnlyInserts, OneLineCommandsWait
  <2>. QED
    BY <1>1, <2>1, <2>2, <2>3, <2>4 DEF SuggestionInv
<1>5. CASE AppendResponse
  <2>1. /\ cards = <<>> /\ cards' = Cards /\ answer' = answer /\ prompt' = prompt
        /\ submitted' = submitted /\ ordered' = ordered
    BY <1>5 DEF AppendResponse
  <2>2. /\ Cards \in Seq(Seq(Lines))
        /\ Newlined(answer) => \A i \in DOMAIN Cards : Endless(Cards[i])
    BY <1>1, CardsType
  <2>3. (InsertOnlyInserts /\ OneLineCommandsWait)'
    BY <1>2, <2>1 DEF InsertOnlyInserts, OneLineCommandsWait
  <2>. HIDE DEF Cards
  <2>4. (Newlined(answer) => \A i \in DOMAIN cards : Endless(cards[i]))'
    BY <2>1, <2>2 DEF Newlined
  <2>. QED
    BY <1>1, <2>1, <2>2, <2>3, <2>4 DEF SuggestionInv
<1>6. ASSUME NEW i \in DOMAIN cards
      PROVE  /\ cards[i] \in Seq(Lines)
             /\ Short => Len(InsertableText(cards[i])) <= 1
  <2>1. cards[i] \in Seq(Lines) /\ cards # <<>>
    BY <1>1, <1>6, EmptySeq
  <2>2. Endless(cards[i]) => Len(InsertableText(cards[i])) = Len(cards[i])
    BY <2>1, Insertable
  <2>3. Short => Endless(cards[i]) /\ Len(cards[i]) <= 1
    BY <1>1, <1>6, <2>1 DEF OneLine
  <2>. QED
    BY <2>1, <2>2, <2>3
<1>7. ASSUME NEW i \in DOMAIN cards, Insert(cards[i]) PROVE SuggestionInv'
  <2>. DEFINE texts == InsertableText(cards[i])  fed == FeedChild(texts)
  <2>1. texts \in Seq(Texts) /\ (Short => Len(texts) <= 1)
    BY <1>6, <1>7, Insertable
  <2>2. /\ submitted' = submitted \o fed.submits /\ prompt' = fed.leaves
        /\ ordered' = ordered + 0 /\ answer' = answer /\ cards' = cards
    BY <1>7 DEF Insert, Input
  <2>. HIDE DEF texts
  <2>3. /\ fed.submits \in Seq(Seq(Texts)) /\ fed.leaves \in Seq(Texts)
        /\ Len(texts) <= 1 => fed.submits = <<>>
    BY <1>1, <2>1, Feeding
  <2>. HIDE DEF fed, Short
  <2>4. submitted' \in Seq(Seq(Texts)) /\ ordered' = ordered
    BY <1>1, <2>2, <2>3, ConcatProperties
  <2>5. Short => submitted' = submitted
    BY <1>1, <2>1, <2>2, <2>3, ConcatEmptySeq
  <2>. QED
    BY <1>1, <1>2, <1>3, <2>2, <2>3, <2>4, <2>5
<1>8. ASSUME NEW i \in DOMAIN cards, Execute(cards[i]) PROVE SuggestionInv'
  <2>. DEFINE texts == InsertableText(cards[i])  fed == FeedChild(texts)
              all == Append(fed.submits, fed.leaves)  k == Max({1, Len(texts)})
  <2>1. texts \in Seq(Texts) /\ (Short => Len(texts) <= 1)
    BY <1>6, <1>8, Insertable
  <2>2. /\ submitted' = submitted \o all /\ prompt' = <<>>
        /\ ordered' = ordered + k /\ answer' = answer /\ cards' = cards
    BY <1>8 DEF Execute, Input
  <2>. HIDE DEF texts
  <2>3. /\ fed.submits \in Seq(Seq(Texts)) /\ fed.leaves \in Seq(Texts)
        /\ Len(texts) <= 1 => fed.submits = <<>>
    BY <1>1, <2>1, Feeding
  <2>4. k \in Nat /\ k >= 1
    BY <2>1, OneOrMore, LenProperties
  <2>. HIDE DEF fed, k, Short
  <2>5. all \in Seq(Seq(Texts)) /\ Len(all) = Len(fed.submits) + 1
    BY <2>3, AppendProperties
  <2>6. Short => Len(all) = 1
    BY <2>1, <2>3, <2>5, EmptySeq
  <2>. HIDE DEF all
  <2>7. submitted' \in Seq(Seq(Texts)) /\ Len(submitted') = Len(submitted) + Len(all)
    BY <1>1, <2>2, <2>5, ConcatProperties
  <2>8. ordered' \in Nat /\ ordered + 1 <= ordered'
    BY <1>1, <2>2, <2>4
  <2>9. Short => Len(submitted') <= ordered'
    <3>1. Short => Len(submitted') = Len(submitted) + 1
      BY <2>6, <2>7
    <3>. QED
      BY <1>1, <1>2, <2>8, <3>1
  <2>10. prompt' \in Seq(Texts)
    BY <2>2, EmptySeq
  <2>. QED
    BY <1>3, <2>2, <2>7, <2>8, <2>9, <2>10
<1>9. CASE PressEnter
  <2>1. /\ submitted' = Append(submitted, prompt) /\ prompt' = <<>>
        /\ ordered' = ordered + 1 /\ answer' = answer /\ cards' = cards
    BY <1>9 DEF PressEnter, Input
  <2>. HIDE DEF Short
  <2>2. submitted' \in Seq(Seq(Texts)) /\ Len(submitted') = Len(submitted) + 1
    BY <1>1, <2>1, AppendProperties
  <2>3. ordered' \in Nat /\ (Short => Len(submitted') <= ordered')
    BY <1>1, <1>2, <2>1, <2>2
  <2>4. prompt' \in Seq(Texts)
    BY <2>1, EmptySeq
  <2>. QED
    BY <1>3, <2>1, <2>2, <2>3, <2>4
<1>10. CASE UNCHANGED vars
  BY <1>1, <1>2, <1>3, <1>10 DEF vars
<1>. QED
  BY <1>4, <1>5, <1>7, <1>8, <1>9, <1>10 DEF Next, Operator

\* So it always holds.
LEMMA SuggestionInvariant == Spec => []SuggestionInv
<1>1. SuggestionInv /\ [Next]_vars => SuggestionInv'
  BY SuggestionSteps
<1>. QED
  BY <1>1, SuggestionStarts, PTL DEF Spec

\* Every line of an answer is shown once and in order: whatever an answer of any
\* length says, parse_response leaves out none of it and repeats none of it.
THEOREM AnswersAreShown == Spec => []NothingIsLost
<1>1. SuggestionInv => NothingIsLost
  BY AllIsShown DEF SuggestionInv, NothingIsLost
<1>. QED
  BY <1>1, SuggestionInvariant, PTL

\* Every suggested command is the whole of a block: parse_response takes no
\* prose, no fence and no other language's block for a command.
THEOREM CommandsStayFenced == Spec => []CommandsAreFenced
<1>1. SuggestionInv => CommandsAreFenced
  BY AllAreFenced DEF SuggestionInv, CommandsAreFenced, Openers
<1>. QED
  BY <1>1, SuggestionInvariant, PTL

\* While an answer arrives in fragments that are cut anywhere, the commands before
\* the last stay, and the last gets longer.  Only a line that was cut leaves it,
\* and only a command without text vanishes.
THEOREM CommandsGrow == Spec => CommandsOnlyGrow
<1>1. SuggestionInv /\ [Next]_vars =>
        [answer' # answer => Turns(Commands(answer), Commands(answer'), IsCut)]_vars
  <2>. SUFFICES ASSUME SuggestionInv, Next, answer' # answer
                PROVE  Turns(Commands(answer), Commands(answer'), IsCut)
    OBVIOUS
  <2>1. answer \in Seq(Lines)
    BY DEF SuggestionInv
  <2>2. FragmentArrives
    BY DEF Next, AppendResponse, Operator, Insert, Execute, PressEnter, Input
  <2>. QED
    BY <2>1, <2>2, ArrivesType
<1>. QED
  BY <1>1, SuggestionInvariant, PTL DEF Spec, CommandsOnlyGrow, Turns

\* In an answer with newlines as its only line ends, commands of one line that
\* are inserted wait on the prompt: only Enter and Execute submit lines.
THEOREM OneLinersWait == Spec => []OneLineCommandsWait
<1>1. SuggestionInv => OneLineCommandsWait
  BY DEF SuggestionInv
<1>. QED
  BY <1>1, SuggestionInvariant, PTL

====
