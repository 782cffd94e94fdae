---- MODULE TomlProofs ----
(***************************************************************************)
(* What TomlText computes for every text: a text can be written into the   *)
(* configuration file and read back exactly if it is Savable.              *)
(*                                                                         *)
(* The proofs are by induction on texts.  That induction is carried out on *)
(* the set of texts for which a lemma holds.                               *)
(***************************************************************************)
EXTENDS TomlText, SequenceTheorems, WellFoundedInduction, TLAPS

\* Some number is the least.
LEMMA LeastNatural ==
  ASSUME NEW T, T \subseteq Nat, T # {}
  PROVE  \E n \in T : \A m \in T : n <= m
<1>1. PICK n \in T : \A m \in T : ~(<<m, n>> \in OpToRel(<, Nat))
  BY WFMin, NatLessThanWellFounded
<1>2. \A m \in T : ~(m < n)
  BY <1>1 DEF OpToRel
<1>. QED
  BY <1>2

\* A set of numbers that has 0 and with each number the next has all.
LEMMA AllNaturals ==
  ASSUME NEW G, 0 \in G, \A n \in Nat : n \in G => n + 1 \in G
  PROVE  Nat \subseteq G
<1>. SUFFICES ASSUME Nat \ G # {} PROVE FALSE
  OBVIOUS
<1>1. PICK n \in Nat \ G : \A m \in Nat \ G : n <= m
  BY LeastNatural
<1>2. n # 0 /\ n - 1 \in Nat /\ ~(n <= n - 1)
  BY <1>1
<1>3. n - 1 \in G /\ (n - 1) + 1 = n
  BY <1>1, <1>2
<1>. QED
  BY <1>1, <1>2, <1>3

\* A set of sequences that has the empty one and with each sequence those with
\* one element more has all.
LEMMA AllSequences ==
  ASSUME NEW S, NEW G, <<>> \in G,
         \A s \in Seq(S) : \A x \in S : s \in G => Append(s, x) \in G
  PROVE  Seq(S) \subseteq G
<1>. DEFINE N == {n \in Nat : \A s \in Seq(S) : Len(s) = n => s \in G}
<1>1. 0 \in N
  BY EmptySeq
<1>2. ASSUME NEW n \in Nat, n \in N PROVE n + 1 \in N
  <2>1. ASSUME NEW s \in Seq(S), Len(s) = n + 1 PROVE s \in G
    <3>1. s # <<>>
      BY <1>2, <2>1, EmptySeq
    <3>2. PICK t \in Seq(S), x \in S : s = Append(t, x)
      BY <3>1, SequenceEmptyOrAppend
    <3>3. Len(t) = n
      <4>1. Len(s) = Len(t) + 1 /\ Len(t) \in Nat
        BY <3>2, AppendProperties, LenProperties
      <4>. QED
        BY <1>2, <2>1, <4>1
    <3>. QED
      BY <1>2, <3>2, <3>3
  <2>. QED
    BY <1>2, <2>1
<1>3. Nat \subseteq N
  <2>. HIDE DEF N
  <2>. QED
    BY <1>1, <1>2, AllNaturals
<1>. QED
  BY <1>3, LenProperties

----------------------------------------------------------------------------
(* FlattenSeq, one sequence at a time.                                     *)

\* f flattens the first n of some sequences.
Flattens(f, seqs, n) ==
  f = [i \in 1..n |-> IF i = 1 THEN seqs[i] ELSE f[i - 1] \o seqs[i]]

\* Some function does.
LEMMA FlattenExists ==
  ASSUME NEW seqs, NEW n \in Nat
  PROVE  \E f : Flattens(f, seqs, n)
<1>. DEFINE G == {m \in Nat : \E f : Flattens(f, seqs, m)}
<1>1. 0 \in G
  <2>. DEFINE f == [i \in 1..0 |-> <<>>]
  <2>1. Flattens(f, seqs, 0)
    BY DEF Flattens
  <2>. QED
    BY <2>1
<1>2. ASSUME NEW m \in Nat, m \in G PROVE m + 1 \in G
  <2>1. PICK f : Flattens(f, seqs, m)
    BY <1>2
  <2>. DEFINE last == IF m = 0 THEN seqs[1] ELSE f[m] \o seqs[m + 1]
  <2>. DEFINE g == [i \in 1..m + 1 |-> IF i = m + 1 THEN last ELSE f[i]]
  <2>2. ASSUME NEW i \in 1..m + 1
        PROVE  g[i] = IF i = 1 THEN seqs[i] ELSE g[i - 1] \o seqs[i]
    <3>1. CASE i = m + 1
      <4>1. CASE m = 0
        BY <3>1, <4>1
      <4>2. CASE m # 0
        <5>1. i - 1 = m /\ m \in 1..m + 1 /\ m # m + 1 /\ i # 1
          BY <3>1, <4>2
        <5>. QED
          BY <3>1, <4>2, <5>1
      <4>. QED
        BY <4>1, <4>2
    <3>2. CASE i # m + 1
      <4>1. i \in 1..m /\ (i # 1 => i - 1 \in 1..m + 1 /\ i - 1 # m + 1)
        BY <3>2
      <4>2. f[i] = IF i = 1 THEN seqs[i] ELSE f[i - 1] \o seqs[i]
        BY <2>1, <4>1 DEF Flattens
      <4>. QED
        BY <3>2, <4>1, <4>2
    <3>. QED
      BY <3>1, <3>2
  <2>3. DOMAIN g = 1..m + 1 /\ g = [i \in 1..m + 1 |-> g[i]]
    OBVIOUS
  <2>. HIDE DEF g
  <2>4. Flattens(g, seqs, m + 1)
    BY <2>2, <2>3 DEF Flattens
  <2>. QED
    BY <2>4
<1>. HIDE DEF G
<1>3. Nat \subseteq G
  BY <1>1, <1>2, AllNaturals
<1>. QED
  BY <1>3 DEF G

\* On what two lists of sequences have in common they flatten the same.
LEMMA FlattenAgrees ==
  ASSUME NEW s, NEW t, NEW f, NEW g, NEW m \in Nat, NEW n \in Nat, m <= n,
         Flattens(f, s, m), Flattens(g, t, n), \A i \in 1..m : s[i] = t[i]
  PROVE  \A i \in 1..m : f[i] = g[i]
<1>. DEFINE G == {k \in Nat : k \in 1..m => f[k] = g[k]}
<1>1. 0 \in G
  OBVIOUS
<1>2. ASSUME NEW k \in Nat, k \in G PROVE k + 1 \in G
  <2>. SUFFICES ASSUME k + 1 \in 1..m PROVE f[k + 1] = g[k + 1]
    OBVIOUS
  <2>1. /\ f[k + 1] = IF k + 1 = 1 THEN s[k + 1] ELSE f[(k + 1) - 1] \o s[k + 1]
        /\ g[k + 1] = IF k + 1 = 1 THEN t[k + 1] ELSE g[(k + 1) - 1] \o t[k + 1]
    <3>1. k + 1 \in 1..n
      OBVIOUS
    <3>. QED
      BY <3>1 DEF Flattens
  <2>2. s[k + 1] = t[k + 1] /\ (k + 1) - 1 = k /\ (k + 1 = 1 \/ k \in 1..m)
    OBVIOUS
  <2>. QED
    BY <1>2, <2>1, <2>2
<1>. HIDE DEF G
<1>3. Nat \subseteq G
  BY <1>1, <1>2, AllNaturals
<1>. QED
  BY <1>3 DEF G

\* FlattenSeq is what such a function ends with.
LEMMA FlattenIs ==
  ASSUME NEW S, NEW seqs \in Seq(S), seqs # <<>>
  PROVE  \E f : Flattens(f, seqs, Len(seqs)) /\ FlattenSeq(seqs) = f[Len(seqs)]
<1>1. Len(seqs) \in Nat \ {0}
  BY EmptySeq
<1>2. \E f : f = [i \in 1..Len(seqs) |-> IF i = 1 THEN seqs[i] ELSE f[i - 1] \o seqs[i]]
  BY <1>1, FlattenExists DEF Flattens
<1>. DEFINE flatten == CHOOSE f : f = [i \in 1..Len(seqs) |->
                         IF i = 1 THEN seqs[i] ELSE f[i - 1] \o seqs[i]]
<1>3. flatten = [i \in 1..Len(seqs) |-> IF i = 1 THEN seqs[i] ELSE flatten[i - 1] \o seqs[i]]
  BY <1>2
<1>4. FlattenSeq(seqs) = flatten[Len(seqs)]
  BY <1>1 DEF FlattenSeq
<1>. QED
  BY <1>3, <1>4 DEF Flattens

\* FlattenSeq of no sequences.
LEMMA FlattenEmpty == FlattenSeq(<<>>) = <<>>
BY DEF FlattenSeq

\* The one more is joined at the end.
LEMMA FlattenAppend ==
  ASSUME NEW S, NEW seqs \in Seq(Seq(S)), NEW x \in Seq(S), FlattenSeq(seqs) \in Seq(S)
  PROVE  FlattenSeq(Append(seqs, x)) = FlattenSeq(seqs) \o x
<1>. DEFINE more == Append(seqs, x)  n == Len(seqs)
<1>1. /\ more \in Seq(Seq(S)) /\ more # <<>> /\ Len(more) = n + 1 /\ more[n + 1] = x
      /\ \A i \in 1..n : seqs[i] = more[i]
      /\ n \in Nat
  BY AppendProperties, LenProperties
<1>2. PICK g : Flattens(g, more, n + 1) /\ FlattenSeq(more) = g[n + 1]
  BY <1>1, FlattenIs
<1>3. g[n + 1] = IF n + 1 = 1 THEN more[n + 1] ELSE g[(n + 1) - 1] \o more[n + 1]
  <2>1. n + 1 \in 1..n + 1
    BY <1>1
  <2>. QED
    BY <1>2, <2>1 DEF Flattens
<1>4. CASE seqs = <<>>
  <2>1. n = 0 /\ FlattenSeq(seqs) = <<>> /\ <<>> \o x = x
    BY <1>4, EmptySeq, FlattenEmpty, ConcatEmptySeq
  <2>. QED
    BY <1>1, <1>2, <1>3, <2>1
<1>5. CASE seqs # <<>>
  <2>1. PICK f : Flattens(f, seqs, n) /\ FlattenSeq(seqs) = f[n]
    BY <1>5, FlattenIs
  <2>2. n # 0
    BY <1>5, EmptySeq
  <2>3. f[n] = g[n]
    <3>1. n \in 1..n /\ n <= n + 1 /\ n + 1 \in Nat
      BY <1>1, <2>2
    <3>. HIDE DEF more, n
    <3>2. \A i \in 1..n : f[i] = g[i]
      BY <1>1, <1>2, <2>1, <3>1, FlattenAgrees
    <3>. QED
      BY <3>1, <3>2
  <2>4. n + 1 # 1 /\ (n + 1) - 1 = n
    BY <1>1, <2>2
  <2>. QED
    BY <1>1, <1>2, <1>3, <2>1, <2>3, <2>4
<1>. QED
  BY <1>4, <1>5

\* FlattenSeq makes a sequence of sequences a sequence.
LEMMA FlattenType ==
  ASSUME NEW S, NEW seqs \in Seq(Seq(S))
  PROVE  FlattenSeq(seqs) \in Seq(S)
<1>. DEFINE G == {s \in Seq(Seq(S)) : FlattenSeq(s) \in Seq(S)}
<1>1. <<>> \in G
  BY FlattenEmpty, EmptySeq
<1>2. ASSUME NEW s \in Seq(Seq(S)), NEW x \in Seq(S), s \in G PROVE Append(s, x) \in G
  BY <1>2, FlattenAppend, AppendProperties, ConcatProperties
<1>. HIDE DEF G
<1>3. Seq(Seq(S)) \subseteq G
  BY <1>1, <1>2, AllSequences
<1>. QED
  BY <1>3 DEF G

\* What the elements of a sequence are mapped to, one after the other.
Mapped(m, seq) == FlattenSeq([i \in DOMAIN seq |-> m[seq[i]]])

\* Nothing is mapped to nothing, and one element more to what it is mapped to more.
LEMMA MappedEmpty ==
  ASSUME NEW m
  PROVE  Mapped(m, <<>>) = <<>>
<1>1. DOMAIN <<>> = {}
  BY EmptySeq
<1>2. [i \in DOMAIN <<>> |-> m[<<>>[i]]] = <<>>
  BY <1>1
<1>. QED
  BY <1>2, FlattenEmpty DEF Mapped

\* The result is a sequence of what each element is mapped to a sequence of.
LEMMA MappedType ==
  ASSUME NEW S, NEW T, NEW m \in [S -> Seq(T)], NEW seq \in Seq(S)
  PROVE  Mapped(m, seq) \in Seq(T)
<1>1. DOMAIN seq = 1..Len(seq) /\ Len(seq) \in Nat /\ \A i \in DOMAIN seq : seq[i] \in S
  BY LenProperties, ElementOfSeq
<1>2. [i \in DOMAIN seq |-> m[seq[i]]] \in Seq(Seq(T))
  BY <1>1
<1>. QED
  BY <1>2, FlattenType DEF Mapped

\* One element more adds what it is mapped to.
LEMMA MappedAppend ==
  ASSUME NEW S, NEW T, NEW m \in [S -> Seq(T)], NEW seq \in Seq(S), NEW x \in S
  PROVE  Mapped(m, Append(seq, x)) = Mapped(m, seq) \o m[x]
<1>. DEFINE more == Append(seq, x)  n == Len(seq)
            Pieces(s) == [i \in DOMAIN s |-> m[s[i]]]
<1>1. /\ more \in Seq(S) /\ DOMAIN more = 1..n + 1 /\ DOMAIN seq = 1..n /\ n \in Nat
      /\ \A i \in 1..n : more[i] = seq[i] /\ seq[i] \in S
      /\ more[n + 1] = x
  BY AppendProperties, LenProperties, ElementOfSeq
<1>. HIDE DEF more
<1>2. Pieces(seq) \in Seq(Seq(T)) /\ Len(Pieces(seq)) = n
  BY <1>1
<1>3. Pieces(more) = Append(Pieces(seq), m[x])
  <2>1. Pieces(more) = [i \in 1..n + 1 |-> m[more[i]]]
    BY <1>1
  <2>2. /\ DOMAIN Append(Pieces(seq), m[x]) = 1..n + 1
        /\ \A i \in 1..n : Append(Pieces(seq), m[x])[i] = m[more[i]]
        /\ Append(Pieces(seq), m[x])[n + 1] = m[more[n + 1]]
        /\ Append(Pieces(seq), m[x]) \in Seq(Seq(T))
    BY <1>1, <1>2, AppendProperties, LenProperties
  <2>. QED
    BY <1>1, <2>1, <2>2
<1>4. FlattenSeq(Pieces(seq)) \in Seq(T)
  BY <1>2, FlattenType
<1>5. FlattenSeq(Append(Pieces(seq), m[x])) = FlattenSeq(Pieces(seq)) \o m[x]
  <2>1. m[x] \in Seq(T)
    OBVIOUS
  <2>. HIDE DEF Pieces
  <2>. QED
    BY <1>2, <1>4, <2>1, FlattenAppend
<1>. QED
  BY <1>3, <1>5 DEF Mapped, more

----------------------------------------------------------------------------
(* Escape and Reading, one character at a time.                            *)

\* Replacing maps every character.
Replaces(m, S, character, by) ==
  /\ m \in [S -> Seq(S)]
  /\ \A d \in S : m[d] = IF d = character THEN by ELSE <<d>>
  /\ \A text \in Seq(S) : Replace(text, character, by) = Mapped(m, text)

\* Some function does.
LEMMA ReplaceMaps ==
  ASSUME NEW S, NEW character, NEW by \in Seq(S)
  PROVE  \E m : Replaces(m, S, character, by)
<1>. DEFINE m == [d \in S |-> IF d = character THEN by ELSE <<d>>]
<1>1. m \in [S -> Seq(S)]
  OBVIOUS
<1>2. ASSUME NEW text \in Seq(S) PROVE Replace(text, character, by) = Mapped(m, text)
  <2>1. \A i \in DOMAIN text : text[i] \in S
    OBVIOUS
  <2>2. [i \in DOMAIN text |-> IF text[i] = character THEN by ELSE <<text[i]>>]
          = [i \in DOMAIN text |-> m[text[i]]]
    BY <2>1
  <2>. QED
    BY <2>2 DEF Replace, Mapped
<1>3. \A d \in S : m[d] = IF d = character THEN by ELSE <<d>>
  OBVIOUS
<1>. HIDE DEF m
<1>4. Replaces(m, S, character, by)
  BY <1>1, <1>2, <1>3 DEF Replaces
<1>. QED
  BY <1>4

\* Replacing in a text that has one character more.
LEMMA ReplaceMore ==
  ASSUME NEW S, NEW text \in Seq(S), NEW c \in S, NEW character, NEW by \in Seq(S)
  PROVE  Replace(Append(text, c), character, by)
           = Replace(text, character, by) \o (IF c = character THEN by ELSE <<c>>)
<1>1. PICK m : Replaces(m, S, character, by)
  BY ReplaceMaps
<1>2. Mapped(m, Append(text, c)) = Mapped(m, text) \o m[c]
  BY <1>1, MappedAppend DEF Replaces
<1>3. Append(text, c) \in Seq(S)
  BY AppendProperties
<1>. QED
  BY <1>1, <1>2, <1>3 DEF Replaces

\* The character that is replaced,
LEMMA ReplaceHit ==
  ASSUME NEW S, NEW text \in Seq(S), NEW c \in S, NEW by \in Seq(S),
         NEW character
  PROVE  c = character =>
           Replace(Append(text, c), character, by) = Replace(text, character, by) \o by
<1>1. Replace(Append(text, c), character, by)
        = Replace(text, character, by) \o (IF c = character THEN by ELSE <<c>>)
  BY ReplaceMore
<1>. QED
  BY <1>1

\* and any other.
LEMMA ReplaceOther ==
  ASSUME NEW S, NEW text \in Seq(S), NEW c \in S, NEW by \in Seq(S),
         NEW character, c # character
  PROVE  Replace(Append(text, c), character, by) = Replace(text, character, by) \o <<c>>
<1>1. Replace(Append(text, c), character, by)
        = Replace(text, character, by) \o (IF c = character THEN by ELSE <<c>>)
  BY ReplaceMore
<1>. QED
  BY <1>1

\* Replacing makes a text a text.
LEMMA ReplaceType ==
  ASSUME NEW S, NEW text \in Seq(S), NEW character, NEW by \in Seq(S)
  PROVE  Replace(text, character, by) \in Seq(S)
<1>1. PICK m : Replaces(m, S, character, by)
  BY ReplaceMaps
<1>. QED
  BY <1>1, MappedType DEF Replaces

\* How a character is written.
Written(c) ==
  CASE c = "backslash" -> <<"backslash", "backslash">>
    [] c = "quote" -> <<"backslash", "quote">>
    [] OTHER -> <<c>>

\* A pair at the end is one element and then another.
LEMMA PairAtEnd ==
  ASSUME NEW S, NEW s \in Seq(S), NEW a \in S, NEW b \in S
  PROVE  /\ s \o <<a, b>> = Append(Append(s, a), b)
         /\ (s \o <<a>>) \o <<b>> = s \o <<a, b>>
<1>1. <<a>> \in Seq(S) /\ <<b>> \in Seq(S) /\ <<a>> \o <<b>> = <<a, b>>
  <2>1. <<a>> \in Seq(S) /\ <<b>> \in Seq(S)
    OBVIOUS
  <2>2. Append(<<a>>, b) = <<a, b>>
    <3>. DEFINE one == <<a>>  both == <<a, b>>
    <3>1. Len(one) = 1 /\ one[1] = a /\ Len(both) = 2 /\ both[1] = a /\ both[2] = b
      OBVIOUS
    <3>2. one \in Seq(S) /\ both \in Seq(S)
      OBVIOUS
    <3>. HIDE DEF one, both
    <3>3. /\ Append(one, b) \in Seq(S) /\ Len(Append(one, b)) = 2
          /\ Append(one, b)[1] = a /\ Append(one, b)[2] = b
      <4>1. /\ Append(one, b) \in Seq(S) /\ Len(Append(one, b)) = Len(one) + 1
            /\ Append(one, b)[1] = one[1] /\ Append(one, b)[Len(one) + 1] = b
        <5>1. 1 \in 1..Len(one)
          BY <3>1
        <5>. QED
          BY <3>2, <5>1, AppendProperties
      <4>. QED
        BY <3>1, <4>1
    <3>4. Append(one, b) = both
      BY <3>1, <3>2, <3>3, SeqEqual
    <3>. QED
      BY <3>4 DEF one, both
  <2>3. Append(<<a>>, b) = <<a>> \o <<b>>
    BY <2>1, AppendIsConcat, Zenon
  <2>. QED
    BY <2>1, <2>2, <2>3, Zenon
<1>2. (s \o <<a>>) \o <<b>> = s \o <<a, b>>
  <2>. DEFINE one == <<a>>  other == <<b>>
  <2>. HIDE DEF one, other
  <2>1. one \in Seq(S) /\ other \in Seq(S) => (s \o one) \o other = s \o (one \o other)
    BY ConcatAssociative
  <2>. QED
    BY <1>1, <2>1 DEF one, other
<1>3. Append(s, a) = s \o <<a>> /\ Append(s, a) \in Seq(S)
  BY AppendIsConcat, AppendProperties
<1>4. Append(Append(s, a), b) = Append(s, a) \o <<b>>
  BY <1>3, AppendIsConcat
<1>. QED
  BY <1>2, <1>3, <1>4

\* Escaping makes a text a text.
LEMMA EscapeType ==
  ASSUME NEW text \in Seq(Characters)
  PROVE  Escape(text) \in Seq(Characters)
<1>. DEFINE two == <<"backslash", "backslash">>  quoted == <<"backslash", "quote">>
            t == Replace(text, "backslash", two)
<1>1. two \in Seq(Characters) /\ quoted \in Seq(Characters)
  BY DEF Characters
<1>. HIDE DEF two, quoted
<1>2. t \in Seq(Characters)
  BY <1>1, ReplaceType
<1>. HIDE DEF t
<1>3. Replace(t, "quote", quoted) \in Seq(Characters)
  BY <1>1, <1>2, ReplaceType
<1>. QED
  BY <1>3 DEF Escape, t, two, quoted

\* A text with one character more is escaped to what it was and that character.
LEMMA EscapeAppend ==
  ASSUME NEW text \in Seq(Characters), NEW c \in Characters
  PROVE  /\ Escape(text) \in Seq(Characters)
         /\ Escape(Append(text, c)) = Escape(text) \o Written(c)
<1>. DEFINE bs == "backslash"  two == <<"backslash", "backslash">>
            quoted == <<"backslash", "quote">>
            R1(t) == Replace(t, "backslash", two)
            R2(t) == Replace(t, "quote", quoted)
<1>0. /\ "backslash" \in Characters /\ "quote" \in Characters
      /\ two \in Seq(Characters) /\ quoted \in Seq(Characters)
  BY DEF Characters
<1>1. R1(text) \in Seq(Characters) /\ R2(R1(text)) \in Seq(Characters)
  BY <1>0, ReplaceType
<1>2. /\ c = "backslash" => R1(Append(text, c)) = R1(text) \o two
      /\ c # "backslash" => R1(Append(text, c)) = R1(text) \o <<c>>
  <2>. HIDE DEF two
  <2>1. CASE c = "backslash"
    BY <1>0, <2>1, ReplaceHit
  <2>2. CASE c # "backslash"
    BY <1>0, <2>2, ReplaceOther
  <2>. QED
    BY <2>1, <2>2
<1>3. ASSUME NEW t \in Seq(Characters), NEW d \in Characters
      PROVE  /\ R2(t) \in Seq(Characters)
             /\ d = "quote" => R2(Append(t, d)) = R2(t) \o quoted
             /\ d # "quote" => R2(Append(t, d)) = R2(t) \o <<d>>
  <2>. HIDE DEF quoted
  <2>1. R2(t) \in Seq(Characters)
    BY <1>0, <1>3, ReplaceType
  <2>2. /\ d = "quote" => R2(Append(t, d)) = R2(t) \o quoted
        /\ d # "quote" => R2(Append(t, d)) = R2(t) \o <<d>>
    <3>1. CASE d = "quote"
      BY <1>0, <1>3, <3>1, ReplaceHit
    <3>2. CASE d # "quote"
      BY <1>0, <1>3, <3>2, ReplaceOther
    <3>. QED
      BY <3>1, <3>2
  <2>. QED
    BY <2>1, <2>2
<1>. HIDE DEF R1, R2
<1>4. CASE c = "backslash"
  <2>1. R1(Append(text, c)) = Append(Append(R1(text), bs), bs)
    BY <1>0, <1>1, <1>2, <1>4, PairAtEnd
  <2>2. Append(R1(text), bs) \in Seq(Characters)
    BY <1>0, <1>1, AppendProperties
  <2>3. R2(R1(Append(text, c))) = (R2(R1(text)) \o <<bs>>) \o <<bs>>
    BY <1>0, <1>1, <1>3, <2>1, <2>2
  <2>4. R2(R1(Append(text, c))) = R2(R1(text)) \o two
    BY <1>0, <1>1, <2>3, PairAtEnd
  <2>. QED
    BY <1>1, <1>4, <2>4 DEF Escape, Written, R1, R2
<1>5. CASE c # "backslash"
  <2>1. R1(Append(text, c)) = Append(R1(text), c)
    BY <1>1, <1>2, <1>5, AppendIsConcat
  <2>2. /\ c = "quote" => R2(R1(Append(text, c))) = R2(R1(text)) \o quoted
        /\ c # "quote" => R2(R1(Append(text, c))) = R2(R1(text)) \o <<c>>
    BY <1>1, <1>3, <2>1
  <2>. QED
    BY <1>1, <1>5, <2>2 DEF Escape, Written, R1, R2
<1>. QED
  BY <1>4, <1>5

\* f reads the first n characters of a body.
Reads(f, body, n) ==
  f = [k \in 0..n |-> IF k = 0 THEN [text |-> <<>>, escape |-> FALSE, ok |-> TRUE]
                               ELSE Unescape(f[k - 1], body[k])]

\* Some function does.
LEMMA ReadExists ==
  ASSUME NEW body, NEW n \in Nat
  PROVE  \E f : Reads(f, body, n)
<1>. DEFINE G == {m \in Nat : \E f : Reads(f, body, m)}
            start == [text |-> <<>>, escape |-> FALSE, ok |-> TRUE]
<1>1. 0 \in G
  <2>. DEFINE f == [i \in 0..0 |-> start]
  <2>. HIDE DEF start
  <2>1. f = [k \in 0..0 |-> IF k = 0 THEN start ELSE Unescape(f[k - 1], body[k])]
    OBVIOUS
  <2>. QED
    BY <2>1 DEF Reads, start
<1>2. ASSUME NEW m \in Nat, m \in G PROVE m + 1 \in G
  <2>1. PICK f : Reads(f, body, m)
    BY <1>2
  <2>. DEFINE g == [i \in 0..m + 1 |-> IF i = m + 1 THEN Unescape(f[m], body[m + 1]) ELSE f[i]]
  <2>2. ASSUME NEW i \in 0..m + 1
        PROVE  g[i] = IF i = 0 THEN start ELSE Unescape(g[i - 1], body[i])
    <3>. HIDE DEF start
    <3>1. CASE i = m + 1
      <4>1. i - 1 = m /\ m \in 0..m + 1 /\ m # m + 1 /\ i # 0
        BY <3>1
      <4>. QED
        BY <3>1, <4>1
    <3>2. CASE i # m + 1
      <4>1. i \in 0..m /\ (i # 0 => i - 1 \in 0..m + 1 /\ i - 1 # m + 1)
        BY <3>2
      <4>2. f[i] = IF i = 0 THEN start ELSE Unescape(f[i - 1], body[i])
        BY <2>1, <4>1 DEF Reads, start
      <4>. QED
        BY <3>2, <4>1, <4>2
    <3>. QED
      BY <3>1, <3>2
  <2>3. DOMAIN g = 0..m + 1 /\ g = [i \in 0..m + 1 |-> g[i]]
    OBVIOUS
  <2>. HIDE DEF g
  <2>4. Reads(g, body, m + 1)
    BY <2>2, <2>3 DEF Reads
  <2>. QED
    BY <2>4
<1>. HIDE DEF G
<1>3. Nat \subseteq G
  BY <1>1, <1>2, AllNaturals
<1>. QED
  BY <1>3 DEF G

\* What two bodies have in common is read the same.
LEMMA ReadsAgree ==
  ASSUME NEW a, NEW b, NEW f, NEW g, NEW m \in Nat, NEW n \in Nat, m <= n,
         Reads(f, a, m), Reads(g, b, n), \A i \in 1..m : a[i] = b[i]
  PROVE  \A k \in 0..m : f[k] = g[k]
<1>. DEFINE G == {k \in Nat : k \in 0..m => f[k] = g[k]}
<1>1. 0 \in G
  BY DEF Reads
<1>2. ASSUME NEW k \in Nat, k \in G PROVE k + 1 \in G
  <2>. SUFFICES ASSUME k + 1 \in 0..m PROVE f[k + 1] = g[k + 1]
    OBVIOUS
  <2>1. k + 1 \in 0..n /\ k + 1 # 0 /\ (k + 1) - 1 = k /\ k \in 0..m /\ a[k + 1] = b[k + 1]
    OBVIOUS
  <2>2. f[k + 1] = Unescape(f[k], a[k + 1]) /\ g[k + 1] = Unescape(g[k], b[k + 1])
    BY <2>1 DEF Reads
  <2>. QED
    BY <1>2, <2>1, <2>2
<1>. HIDE DEF G
<1>3. Nat \subseteq G
  BY <1>1, <1>2, AllNaturals
<1>. QED
  BY <1>3 DEF G

\* What a whole body is read as.
ReadAll(body) == Reading(body)[Len(body)]

\* Reading is such a function.
LEMMA ReadingReads ==
  ASSUME NEW S, NEW body \in Seq(S)
  PROVE  Reads(Reading(body), body, Len(body))
<1>1. \E f : Reads(f, body, Len(body))
  BY ReadExists, LenProperties
<1>. QED
  BY <1>1 DEF Reads, Reading

\* One character more is read from where the others left off.
LEMMA ReadAppend ==
  ASSUME NEW S, NEW body \in Seq(S), NEW c \in S
  PROVE  ReadAll(Append(body, c)) = Unescape(ReadAll(body), c)
<1>. DEFINE more == Append(body, c)  n == Len(body)
<1>1. /\ more \in Seq(S) /\ Len(more) = n + 1 /\ more[n + 1] = c /\ n \in Nat
      /\ \A i \in 1..n : body[i] = more[i]
  BY AppendProperties, LenProperties
<1>2. Reads(Reading(more), more, n + 1) /\ Reads(Reading(body), body, n)
  BY <1>1, ReadingReads
<1>3. Reading(body)[n] = Reading(more)[n]
  <2>1. n \in 0..n /\ n <= n + 1 /\ n + 1 \in Nat
    BY <1>1
  <2>. HIDE DEF more, n
  <2>2. \A k \in 0..n : Reading(body)[k] = Reading(more)[k]
    BY <1>1, <1>2, <2>1, ReadsAgree
  <2>. QED
    BY <2>1, <2>2
<1>4. Reading(more)[n + 1] = Unescape(Reading(more)[n], more[n + 1])
  <2>1. n + 1 \in 0..n + 1 /\ n + 1 # 0 /\ (n + 1) - 1 = n
    BY <1>1
  <2>. HIDE DEF more, n
  <2>. QED
    BY <1>2, <2>1 DEF Reads
<1>. QED
  BY <1>1, <1>3, <1>4 DEF ReadAll

\* An empty body is read as an empty text.
LEMMA ReadEmpty == ReadAll(<<>>) = [text |-> <<>>, escape |-> FALSE, ok |-> TRUE]
<1>1. <<>> \in Seq({}) /\ Len(<<>>) = 0
  BY EmptySeq
<1>2. Reads(Reading(<<>>), <<>>, 0)
  BY <1>1, ReadingReads
<1>. QED
  BY <1>1, <1>2 DEF Reads, ReadAll

----------------------------------------------------------------------------
(* What is written and then read.                                          *)

\* The characters that TOML can hold.
Clean == {"letter", "quote", "backslash", "newline"}

\* How a whole text is read back.
Exactly(text) == [text |-> text, escape |-> FALSE, ok |-> TRUE]

\* An empty text is written as an empty body.
LEMMA EscapeEmpty == Escape(<<>>) = <<>>
<1>1. ASSUME NEW character, NEW by PROVE Replace(<<>>, character, by) = <<>>
  <2>1. DOMAIN <<>> = {} /\ Len(<<>>) = 0
    BY EmptySeq
  <2>2. [i \in DOMAIN <<>> |-> IF <<>>[i] = character THEN by ELSE <<<<>>[i]>>] = <<>>
    BY <2>1
  <2>. QED
    BY <2>2, FlattenEmpty DEF Replace
<1>. QED
  BY <1>1 DEF Escape

\* What stands for a character is read as that character.
LEMMA ReadEscaped ==
  ASSUME NEW body \in Seq(Characters), NEW c \in Clean, NEW t \in Seq(Clean),
         ReadAll(body) = Exactly(t)
  PROVE  ReadAll(body \o Written(c)) = Exactly(Append(t, c))
<1>1. c \in Characters /\ "backslash" \in Characters
  BY DEF Clean, Characters
<1>2. CASE c \in {"backslash", "quote"}
  <2>1. body \o Written(c) = Append(Append(body, "backslash"), c)
    <3>1. body \o <<"backslash", c>> = Append(Append(body, "backslash"), c)
      BY <1>1, PairAtEnd
    <3>. QED
      BY <1>2, <3>1 DEF Written
  <2>2. Append(body, "backslash") \in Seq(Characters)
    BY <1>1, AppendProperties
  <2>3. /\ ReadAll(Append(body, "backslash")) = Unescape(Exactly(t), "backslash")
        /\ ReadAll(Append(Append(body, "backslash"), c))
             = Unescape(ReadAll(Append(body, "backslash")), c)
    BY <1>1, <2>2, ReadAppend
  <2>4. Unescape(Exactly(t), "backslash") = [text |-> t, escape |-> TRUE, ok |-> TRUE]
    BY DEF Unescape, Exactly
  <2>5. Unescape([text |-> t, escape |-> TRUE, ok |-> TRUE], c) = Exactly(Append(t, c))
    <3>. DEFINE s == [text |-> t, escape |-> TRUE, ok |-> TRUE]
    <3>1. s.escape /\ s.text = t /\ s.ok
      OBVIOUS
    <3>. HIDE DEF s
    <3>2. Unescape(s, c) = [text |-> Append(s.text, c), escape |-> FALSE,
                            ok |-> s.ok /\ c \in {"quote", "backslash"}]
      BY <3>1 DEF Unescape
    <3>3. (s.ok /\ c \in {"quote", "backslash"}) = TRUE
      BY <1>2, <3>1
    <3>. QED
      BY <3>1, <3>2, <3>3 DEF Exactly, s
  <2>. QED
    BY <2>1, <2>3, <2>4, <2>5
<1>3. CASE c \in {"letter", "newline"}
  <2>1. body \o Written(c) = Append(body, c)
    BY <1>1, <1>3, AppendIsConcat DEF Written
  <2>2. ReadAll(Append(body, c)) = Unescape(Exactly(t), c)
    BY <1>1, ReadAppend
  <2>3. Unescape(Exactly(t), c) = Exactly(Append(t, c))
    BY <1>3 DEF Unescape, Exactly
  <2>. QED
    BY <2>1, <2>2, <2>3
<1>. QED
  BY <1>2, <1>3 DEF Clean

\* What stands for a character has the characters of the text and the two that
\* are escaped.
LEMMA EscapedType ==
  ASSUME NEW S, "backslash" \in S, "quote" \in S, NEW c \in S
  PROVE  Written(c) \in Seq(S)
<1>1. /\ <<"backslash", "backslash">> \in Seq(S) /\ <<"backslash", "quote">> \in Seq(S)
      /\ <<c>> \in Seq(S)
  OBVIOUS
<1>2. CASE c = "backslash"
  BY <1>1, <1>2 DEF Written
<1>3. CASE c = "quote"
  BY <1>1, <1>3 DEF Written
<1>4. CASE c \notin {"backslash", "quote"}
  BY <1>1, <1>4 DEF Written
<1>. QED
  BY <1>2, <1>3, <1>4

\* A text of such characters is read as it was before it was escaped.
LEMMA EscapeReads ==
  ASSUME NEW text \in Seq(Clean)
  PROVE  Escape(text) \in Seq(Clean) /\ ReadAll(Escape(text)) = Exactly(text)
<1>. DEFINE G == {t \in Seq(Clean) : Escape(t) \in Seq(Clean)
                                       /\ ReadAll(Escape(t)) = Exactly(t)}
<1>1. <<>> \in G
  BY EscapeEmpty, ReadEmpty, EmptySeq DEF Exactly
<1>2. ASSUME NEW t \in Seq(Clean), NEW c \in Clean, t \in G PROVE Append(t, c) \in G
  <2>1. /\ Append(t, c) \in Seq(Clean) /\ t \in Seq(Characters) /\ c \in Characters
        /\ Escape(t) \in Seq(Characters)
    <3>1. Clean \subseteq Characters
      BY DEF Clean, Characters
    <3>2. \A q \in Seq(Clean) : q \in Seq(Characters)
      BY <3>1
    <3>3. Append(t, c) \in Seq(Clean)
      BY AppendProperties
    <3>. QED
      BY <1>2, <3>1, <3>2, <3>3
  <2>2. Escape(Append(t, c)) = Escape(t) \o Written(c)
    BY <2>1, EscapeAppend, Zenon
  <2>3. Escape(t) \o Written(c) \in Seq(Clean)
    <3>1. Written(c) \in Seq(Clean)
      BY EscapedType DEF Clean
    <3>. DEFINE u == Escape(t)  v == Written(c)
    <3>. HIDE DEF u, v
    <3>2. u \in Seq(Clean) /\ v \in Seq(Clean) => u \o v \in Seq(Clean)
      BY ConcatProperties
    <3>. QED
      BY <1>2, <3>1, <3>2 DEF u, v
  <2>4. ReadAll(Escape(t) \o Written(c)) = Exactly(Append(t, c))
    BY <1>2, <2>1, ReadEscaped
  <2>. QED
    BY <2>1, <2>2, <2>3, <2>4
<1>. HIDE DEF G
<1>3. Seq(Clean) \subseteq G
  BY <1>1, <1>2, AllSequences
<1>. QED
  BY <1>3 DEF G

\* What is read without complaint are such characters.
LEMMA ReadsClean ==
  ASSUME NEW body \in Seq(Characters)
  PROVE  ReadAll(body).ok => ReadAll(body).text \in Seq(Clean)
<1>. DEFINE Reader == [text : Seq(Characters), escape : BOOLEAN, ok : BOOLEAN]
            Good(s) == s \in Reader /\ (s.ok => s.text \in Seq(Clean))
            G == {b \in Seq(Characters) : Good(ReadAll(b))}
<1>1. <<>> \in G
  <2>1. <<>> \in Seq(Characters) /\ <<>> \in Seq(Clean)
    OBVIOUS
  <2>2. Good([text |-> <<>>, escape |-> FALSE, ok |-> TRUE])
    <3>. DEFINE e == <<>>
    <3>. HIDE DEF e
    <3>1. e \in Seq(Characters) /\ e \in Seq(Clean)
      BY <2>1 DEF e
    <3>2. Good([text |-> e, escape |-> FALSE, ok |-> TRUE])
      BY <3>1
    <3>. QED
      BY <3>2 DEF e
  <2>. HIDE DEF Good
  <2>. QED
    BY <2>1, <2>2, ReadEmpty
<1>2. ASSUME NEW b \in Seq(Characters), NEW c \in Characters, b \in G
      PROVE  Append(b, c) \in G
  <2>1. ReadAll(Append(b, c)) = Unescape(ReadAll(b), c)
    BY ReadAppend
  <2>2. ASSUME NEW s, Good(s) PROVE Good(Unescape(s, c))
    <3>1. Append(s.text, c) \in Seq(Characters)
      BY <2>2, AppendProperties
    <3>2. s.ok /\ c \in Clean => Append(s.text, c) \in Seq(Clean)
      BY <2>2, AppendProperties
    <3>3. CASE s.escape
      BY <2>2, <3>1, <3>2, <3>3 DEF Unescape, Clean
    <3>4. CASE ~s.escape /\ c = "backslash"
      BY <2>2, <3>4 DEF Unescape
    <3>5. CASE ~s.escape /\ c \in {"quote", "return", "control"}
      BY <2>2, <3>5 DEF Unescape
    <3>6. CASE ~s.escape /\ c \in {"letter", "newline"}
      BY <2>2, <3>1, <3>2, <3>6 DEF Unescape, Clean
    <3>. QED
      BY <2>2, <3>3, <3>4, <3>5, <3>6 DEF Characters
  <2>. HIDE DEF Good
  <2>. QED
    BY <1>2, <2>1, <2>2, AppendProperties
<1>. HIDE DEF G
<1>3. Seq(Characters) \subseteq G
  BY <1>1, <1>2, AllSequences
<1>. QED
  BY <1>3 DEF G

\* What stands for a character in front stays in front.
LEMMA EscapePrepend ==
  ASSUME NEW text \in Seq(Characters), NEW c \in Characters
  PROVE  Escape(<<c>> \o text) = Written(c) \o Escape(text)
<1>. DEFINE first == <<c>>
            G == {t \in Seq(Characters) : Escape(first \o t) = Written(c) \o Escape(t)}
<1>0. /\ first \in Seq(Characters) /\ Append(<<>>, c) = first /\ <<>> \in Seq(Characters)
      /\ \A d \in Characters : Written(d) \in Seq(Characters)
  <2>1. \A d \in Characters : Written(d) \in Seq(Characters)
    BY EscapedType DEF Characters
  <2>2. Append(<<>>, c) = first
    OBVIOUS
  <2>. QED
    BY <2>1, <2>2
<1>. HIDE DEF first
<1>1. <<>> \in G
  <2>1. first \o <<>> = first /\ Written(c) \o <<>> = Written(c)
        /\ <<>> \o Written(c) = Written(c)
    BY <1>0, ConcatEmptySeq
  <2>2. Escape(Append(<<>>, c)) = Escape(<<>>) \o Written(c)
    BY <1>0, EscapeAppend
  <2>. QED
    BY <1>0, <2>1, <2>2, EscapeEmpty
<1>2. ASSUME NEW t \in Seq(Characters), NEW d \in Characters, t \in G
      PROVE  Append(t, d) \in G
  <2>1. Append(t, d) \in Seq(Characters) /\ first \o t \in Seq(Characters)
    BY <1>0, AppendProperties, ConcatProperties
  <2>2. first \o Append(t, d) = Append(first \o t, d)
    <3>. DEFINE last == <<d>>
    <3>1. last \in Seq(Characters)
      OBVIOUS
    <3>2. Append(t, d) = t \o last /\ Append(first \o t, d) = (first \o t) \o last
      BY <2>1, AppendIsConcat
    <3>. HIDE DEF last
    <3>3. first \in Seq(Characters) /\ last \in Seq(Characters) =>
            (first \o t) \o last = first \o (t \o last)
      BY ConcatAssociative
    <3>. QED
      BY <1>0, <3>1, <3>2, <3>3
  <2>3. /\ Escape(Append(t, d)) = Escape(t) \o Written(d)
        /\ Escape(Append(first \o t, d)) = Escape(first \o t) \o Written(d)
        /\ Escape(t) \in Seq(Characters)
    BY <2>1, EscapeAppend
  <2>4. (Written(c) \o Escape(t)) \o Written(d) = Written(c) \o (Escape(t) \o Written(d))
    <3>. DEFINE u == Written(c)  v == Escape(t)  w == Written(d)
    <3>. HIDE DEF u, v, w
    <3>1. u \in Seq(Characters) /\ v \in Seq(Characters) /\ w \in Seq(Characters) =>
            (u \o v) \o w = u \o (v \o w)
      BY ConcatAssociative
    <3>. QED
      BY <1>0, <2>3, <3>1, Zenon DEF u, v, w
  <2>. QED
    BY <1>2, <2>1, <2>2, <2>3, <2>4
<1>. HIDE DEF G
<1>3. Seq(Characters) \subseteq G
  BY <1>1, <1>2, AllSequences
<1>. QED
  BY <1>3 DEF G, first

\* A sequence is made of its elements.
LEMMA FlattenSingles ==
  ASSUME NEW S, NEW seq \in Seq(S)
  PROVE  FlattenSeq([i \in DOMAIN seq |-> <<seq[i]>>]) = seq
<1>. DEFINE m == [x \in S |-> <<x>>]
            G == {s \in Seq(S) : Mapped(m, s) = s}
<1>0. m \in [S -> Seq(S)] /\ \A x \in S : m[x] = <<x>>
  OBVIOUS
<1>1. [i \in DOMAIN seq |-> <<seq[i]>>] = [i \in DOMAIN seq |-> m[seq[i]]]
  <2>1. \A i \in DOMAIN seq : seq[i] \in S
    OBVIOUS
  <2>. QED
    BY <2>1
<1>. HIDE DEF m
<1>2. <<>> \in G
  BY MappedEmpty, EmptySeq
<1>3. ASSUME NEW s \in Seq(S), NEW x \in S, s \in G PROVE Append(s, x) \in G
  <2>1. Mapped(m, Append(s, x)) = Mapped(m, s) \o m[x]
    BY <1>0, MappedAppend
  <2>2. Append(s, x) \in Seq(S) /\ Append(s, x) = s \o <<x>>
    BY AppendProperties, AppendIsConcat
  <2>. QED
    BY <1>0, <1>3, <2>1, <2>2, Zenon
<1>. HIDE DEF G
<1>4. Seq(S) \subseteq G
  BY <1>2, <1>3, AllSequences
<1>. QED
  BY <1>1, <1>4 DEF G, Mapped

\* Normalising line ends makes a body a body, and leaves one without carriage
\* returns as it is.
LEMMA NormaliseType ==
  ASSUME NEW body \in Seq(Characters)
  PROVE  NormaliseLineEnds(body) \in Seq(Characters)
<1>. DEFINE dropped == {i \in DOMAIN body : body[i] = "return"
                          /\ i < Len(body) /\ body[i + 1] = "newline"}
            pieces == [i \in DOMAIN body |-> IF i \in dropped THEN <<>> ELSE <<body[i]>>]
<1>1. \A i \in DOMAIN body : body[i] \in Characters
  OBVIOUS
<1>2. \A i \in DOMAIN body :
        (IF i \in dropped THEN <<>> ELSE <<body[i]>>) \in Seq(Characters)
  <2>. HIDE DEF dropped
  <2>. QED
    BY <1>1
<1>3. DOMAIN body = 1..Len(body) /\ Len(body) \in Nat
  BY LenProperties
<1>4. pieces \in Seq(Seq(Characters))
  <2>. DEFINE Piece(i) == IF i \in dropped THEN <<>> ELSE <<body[i]>>
  <2>1. \A i \in DOMAIN body : Piece(i) \in Seq(Characters)
    BY <1>2
  <2>. HIDE DEF Piece
  <2>2. [i \in DOMAIN body |-> Piece(i)] \in Seq(Seq(Characters))
    BY <1>3, <2>1
  <2>. QED
    BY <2>2 DEF Piece
<1>. HIDE DEF pieces
<1>5. FlattenSeq(pieces) \in Seq(Characters)
  BY <1>4, FlattenType
<1>. QED
  BY <1>5 DEF NormaliseLineEnds, pieces

\* Without carriage returns nothing changes.
LEMMA NormaliseNothing ==
  ASSUME NEW S, NEW body \in Seq(S), "return" \notin S
  PROVE  NormaliseLineEnds(body) = body
<1>1. \A i \in DOMAIN body : body[i] # "return"
  OBVIOUS
<1>2. [i \in DOMAIN body |->
         IF i \in {j \in DOMAIN body : body[j] = "return"
                     /\ j < Len(body) /\ body[j + 1] = "newline"}
         THEN <<>> ELSE <<body[i]>>] = [i \in DOMAIN body |-> <<body[i]>>]
  BY <1>1
<1>. QED
  BY <1>2, FlattenSingles DEF NormaliseLineEnds

\* A file is read or not, and what is read are characters TOML can hold.
LEMMA TomlReadType ==
  ASSUME NEW value, value.body \in Seq(Characters)
  PROVE  /\ TomlRead(value).ok \in BOOLEAN
         /\ TomlRead(value).ok => TomlRead(value).text \in Seq(Clean)
<1>. DEFINE body == Trim(value.quotes, NormaliseLineEnds(value.body))
            s == ReadAll(body)
<1>1. NormaliseLineEnds(value.body) \in Seq(Characters)
  BY NormaliseType
<1>2. body \in Seq(Characters)
  <2>. DEFINE normal == NormaliseLineEnds(value.body)
  <2>1. normal # <<>> => Tail(normal) \in Seq(Characters)
    <3>. HIDE DEF normal
    <3>1. normal \in Seq(Characters) => (normal # <<>> => Tail(normal) \in Seq(Characters))
      BY HeadTailProperties
    <3>. QED
      BY <1>1, <3>1 DEF normal
  <2>. QED
    BY <1>1, <2>1 DEF Trim
<1>. HIDE DEF body
<1>3. s.ok => s.text \in Seq(Clean)
  BY <1>2, ReadsClean
<1>4. TomlRead(value) = IF s.ok /\ ~s.escape THEN [ok |-> TRUE, text |-> s.text] ELSE Unreadable
  BY DEF TomlRead, ReadAll, body
<1>. HIDE DEF s
<1>5. CASE s.ok /\ ~s.escape
  BY <1>3, <1>4, <1>5
<1>6. CASE ~(s.ok /\ ~s.escape)
  BY <1>4, <1>6 DEF Unreadable
<1>. QED
  BY <1>5, <1>6

\* What stands for a character that is no line end does not begin with one.
LEMMA EscapedFirst ==
  ASSUME NEW c, c # "newline"
  PROVE  Written(c) # <<>> /\ Written(c)[1] # "newline"
<1>1. CASE c = "backslash"
  <2>1. Written(c) = <<"backslash", "backslash">>
    BY <1>1 DEF Written
  <2>. QED
    BY <2>1
<1>2. CASE c = "quote"
  <2>1. Written(c) = <<"backslash", "quote">>
    BY <1>2 DEF Written
  <2>. QED
    BY <2>1
<1>3. CASE c \notin {"backslash", "quote"}
  <2>1. Written(c) = <<c>>
    BY <1>3 DEF Written
  <2>. QED
    BY <2>1
<1>. QED
  BY <1>1, <1>2, <1>3

\* What is read of such a text: all but a line end at its beginning.
LEMMA CleanReads ==
  ASSUME NEW text \in Seq(Clean)
  PROVE  TomlRead(TomlValue(text))
           = [ok |-> TRUE,
              text |-> IF text # <<>> /\ Head(text) = "newline" THEN Tail(text) ELSE text]
<1>. DEFINE body == Escape(text)  quotes == TomlValue(text).quotes
<1>1. body \in Seq(Clean) /\ ReadAll(body) = Exactly(text)
  BY EscapeReads
<1>2. "return" \notin Clean /\ Clean \subseteq Characters
  BY DEF Clean, Characters
<1>3. NormaliseLineEnds(body) = body
  <2>. HIDE DEF body
  <2>. QED
    BY <1>1, <1>2, NormaliseNothing
<1>4. TomlRead(TomlValue(text))
        = LET s == ReadAll(Trim(quotes, body))
          IN  IF s.ok /\ ~s.escape THEN [ok |-> TRUE, text |-> s.text] ELSE Unreadable
  <2>1. TomlValue(text).body = body
    BY DEF TomlValue
  <2>. HIDE DEF body
  <2>. QED
    BY <1>3, <2>1 DEF TomlRead, ReadAll
<1>5. ASSUME NEW t, ReadAll(Trim(quotes, body)) = Exactly(t)
      PROVE  TomlRead(TomlValue(text)) = [ok |-> TRUE, text |-> t]
  <2>. HIDE DEF body, quotes
  <2>. QED
    BY <1>4, <1>5 DEF Exactly
<1>6. CASE text = <<>>
  <2>1. body = <<>>
    BY <1>6, EscapeEmpty
  <2>2. Trim(quotes, body) = body
    BY <2>1 DEF Trim
  <2>. HIDE DEF body, quotes
  <2>. QED
    BY <1>1, <1>5, <1>6, <2>2
<1>7. CASE text # <<>>
  <2>. DEFINE c == Head(text)  rest == Tail(text)
  <2>1. c \in Clean /\ rest \in Seq(Clean) /\ text = <<c>> \o rest
    BY <1>7, HeadTailProperties
  <2>2. c \in Characters /\ rest \in Seq(Characters)
    <3>. HIDE DEF rest, c
    <3>1. rest \in Seq(Clean) => rest \in Seq(Characters)
      BY <1>2
    <3>. QED
      BY <1>2, <2>1, <3>1
  <2>3. body = Written(c) \o Escape(rest)
    <3>. HIDE DEF rest, c
    <3>1. Escape(<<c>> \o rest) = Written(c) \o Escape(rest)
      BY <2>2, EscapePrepend
    <3>. QED
      BY <2>1, <3>1
  <2>4. Escape(rest) \in Seq(Clean) /\ ReadAll(Escape(rest)) = Exactly(rest)
    <3>. HIDE DEF rest
    <3>. QED
      BY <2>1, EscapeReads
  <2>5. CASE c = "newline"
    <3>1. quotes = 3
      <4>1. text[1] = "newline" /\ 1 \in DOMAIN text
        BY <1>7, <2>5, EmptySeq, HeadTailProperties
      <4>2. "newline" \in ToSet(text)
        BY <4>1 DEF ToSet
      <4>. QED
        BY <4>2 DEF TomlValue
    <3>2. body = <<"newline">> \o Escape(rest)
      BY <2>3, <2>5 DEF Written
    <3>3. body # <<>> /\ Head(body) = "newline" /\ Tail(body) = Escape(rest)
      <4>. DEFINE later == Escape(rest)
      <4>. HIDE DEF later, body
      <4>1. later \in Seq(Clean) /\ "newline" \in Clean => LET b == <<"newline">> \o later
                                     IN  b # <<>> /\ Head(b) = "newline" /\ Tail(b) = later
        OBVIOUS
      <4>. QED
        BY <2>4, <3>2, <4>1 DEF later, Clean
    <3>4. Trim(quotes, body) = Escape(rest)
      <4>. HIDE DEF body, quotes, rest
      <4>. QED
        BY <3>1, <3>3 DEF Trim
    <3>. HIDE DEF body, quotes, rest
    <3>5. TomlRead(TomlValue(text)) = [ok |-> TRUE, text |-> rest]
      BY <1>5, <2>4, <3>4
    <3>. QED
      BY <1>7, <2>5, <3>5 DEF rest
  <2>6. CASE c # "newline"
    <3>1. ~(body # <<>> /\ Head(body) = "newline")
      <4>. DEFINE later == Escape(rest)  first == Written(c)
      <4>1. first \in Seq(Clean) /\ first # <<>> /\ first[1] # "newline"
        <5>. HIDE DEF c
        <5>1. first \in Seq(Clean)
          BY <2>1, EscapedType DEF Clean
        <5>2. Written(c) # <<>> /\ Written(c)[1] # "newline"
          BY <2>1, <2>6, EscapedFirst DEF Clean
        <5>. QED
          BY <5>1, <5>2
      <4>. HIDE DEF later, first, body
      <4>2. first \in Seq(Clean) /\ later \in Seq(Clean) /\ first # <<>>
              => Head(first \o later) = first[1]
        OBVIOUS
      <4>. QED
        BY <2>3, <2>4, <4>1, <4>2 DEF later, first
    <3>2. Trim(quotes, body) = body
      <4>. HIDE DEF body, quotes
      <4>. QED
        BY <3>1 DEF Trim
    <3>. HIDE DEF body, quotes, rest
    <3>. QED
      BY <1>1, <1>5, <2>6, <3>2
  <2>. QED
    BY <2>5, <2>6
<1>. QED
  BY <1>6, <1>7

\* A text that is saved in the configuration file is read back as it was exactly
\* if it has no control character, no carriage return and no line end at its
\* beginning (_toml_value in config.py, tomllib in load_config).
THEOREM TextsRoundTrip ==
  ASSUME NEW text \in Seq(Characters)
  PROVE  LET back == TomlRead(TomlValue(text))
         IN  (back.ok /\ back.text = text) <=> Savable(text)
<1>. DEFINE back == TomlRead(TomlValue(text))
<1>1. text \in Seq(Clean) <=> \A i \in DOMAIN text : text[i] \notin {"return", "control"}
  <2>1. \A i \in DOMAIN text : text[i] \in Characters
    OBVIOUS
  <2>2. text \in Seq(Clean) <=> \A i \in DOMAIN text : text[i] \in Clean
    OBVIOUS
  <2>. QED
    BY <2>1, <2>2 DEF Clean, Characters
<1>2. CASE text \in Seq(Clean)
  <2>1. back = [ok |-> TRUE,
                text |-> IF text # <<>> /\ Head(text) = "newline" THEN Tail(text) ELSE text]
    BY <1>2, CleanReads
  <2>2. text # <<>> => Tail(text) # text
    <3>1. text # <<>> => Len(Tail(text)) = Len(text) - 1 /\ Len(text) \in Nat
      BY HeadTailProperties, LenProperties
    <3>. QED
      BY <3>1
  <2>. HIDE DEF back
  <2>3. back.ok /\ (back.text = text <=> ~(text # <<>> /\ Head(text) = "newline"))
    BY <2>1, <2>2
  <2>. QED
    BY <1>1, <1>2, <2>3 DEF Savable, back
<1>3. CASE text \notin Seq(Clean)
  <2>1. TomlValue(text).body \in Seq(Characters)
    BY EscapeType DEF TomlValue
  <2>2. back.ok => back.text \in Seq(Clean)
    <3>. DEFINE value == TomlValue(text)
    <3>. HIDE DEF value
    <3>1. value.body \in Seq(Characters) => (TomlRead(value).ok => TomlRead(value).text \in Seq(Clean))
      BY TomlReadType
    <3>. QED
      BY <2>1, <3>1 DEF value
  <2>. QED
    BY <1>1, <1>3, <2>2 DEF Savable
<1>. QED
  BY <1>2, <1>3

====
