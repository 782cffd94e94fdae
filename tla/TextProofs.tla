---- MODULE TextProofs ----
(***************************************************************************)
(* What ModelFacingText says of texts, for texts of any length: messages,  *)
(* made of a block of terminal text and a question, in which compaction    *)
(* and redaction find the block again by its tags; markup, whose tags      *)
(* nest; captured output, in which a selection is found and redacted; and  *)
(* the stream of a terminal, which is rendered as a terminal shows it and, *)
(* at a line end, in two parts as in one.                                  *)
(***************************************************************************)
EXTENDS ModelFacingText, TomlProofs

----------------------------------------------------------------------------
(* Where the tokens of a message stand.                                    *)

Token == MessageTokens \cup {"no context", "marker", "<user_question>", "</user_question>"}

\* What follows the terminal text in a message.
Question(q) ==
  <<"lf", "lf", "<user_question>", "lf">> \o q \o <<"lf", "</user_question>">>

\* The places of two sequences one after the other.
LEMMA ConcatPlaces ==
  ASSUME NEW S, NEW s \in Seq(S), NEW t \in Seq(S)
  PROVE  /\ s \o t \in Seq(S) /\ Len(s \o t) = Len(s) + Len(t)
         /\ Len(s) \in Nat /\ Len(t) \in Nat
         /\ \A i \in 1..Len(s) : (s \o t)[i] = s[i]
         /\ \A i \in 1..Len(t) : (s \o t)[Len(s) + i] = t[i]
<1>1. /\ s \o t \in Seq(S) /\ Len(s \o t) = Len(s) + Len(t)
      /\ \A i \in 1..Len(s) + Len(t) :
           (s \o t)[i] = IF i <= Len(s) THEN s[i] ELSE t[i - Len(s)]
  BY ConcatProperties
<1>2. Len(s) \in Nat /\ Len(t) \in Nat
  BY LenProperties
<1>3. /\ \A i \in 1..Len(s) : i \in 1..Len(s) + Len(t) /\ i <= Len(s)
      /\ \A i \in 1..Len(t) : /\ Len(s) + i \in 1..Len(s) + Len(t)
                              /\ ~(Len(s) + i <= Len(s)) /\ (Len(s) + i) - Len(s) = i
  BY <1>2
<1>. QED
  BY <1>1, <1>2, <1>3

\* Two tokens, and four.
LEMMA TokenTuples ==
  /\ \A x, y \in Token :
       <<x, y>> \in Seq(Token) /\ Len(<<x, y>>) = 2 /\ <<x, y>>[1] = x /\ <<x, y>>[2] = y
  /\ \A x, y, z, u \in Token :
       /\ <<x, y, z, u>> \in Seq(Token) /\ Len(<<x, y, z, u>>) = 4
       /\ <<x, y, z, u>>[1] = x /\ <<x, y, z, u>>[2] = y
       /\ <<x, y, z, u>>[3] = z /\ <<x, y, z, u>>[4] = u
  /\ {"lf", "<terminal_context>", "</terminal_context>", "<user_question>",
      "</user_question>", "marker", "no context"} \subseteq Token
<1>1. {"lf", "<terminal_context>", "</terminal_context>", "<user_question>",
       "</user_question>", "marker", "no context"} \subseteq Token
  BY DEF Token, MessageTokens
<1>2. \A x, y \in Token :
        <<x, y>> \in Seq(Token) /\ Len(<<x, y>>) = 2 /\ <<x, y>>[1] = x /\ <<x, y>>[2] = y
  OBVIOUS
<1>3. \A x, y, z, u \in Token :
        /\ <<x, y, z, u>> \in Seq(Token) /\ Len(<<x, y, z, u>>) = 4
        /\ <<x, y, z, u>>[1] = x /\ <<x, y, z, u>>[2] = y
        /\ <<x, y, z, u>>[3] = z /\ <<x, y, z, u>>[4] = u
  OBVIOUS
<1>. QED
  BY <1>1, <1>2, <1>3

\* The tokens of a block,
LEMMA BlockPlaces ==
  ASSUME NEW c \in Seq(Token)
  PROVE  /\ Block(c) \in Seq(Token) /\ Len(Block(c)) = Len(c) + 4 /\ Len(c) \in Nat
         /\ Block(c)[1] = "<terminal_context>" /\ Block(c)[2] = "lf"
         /\ \A i \in 1..Len(c) : Block(c)[i + 2] = c[i]
         /\ Block(c)[Len(c) + 3] = "lf" /\ Block(c)[Len(c) + 4] = "</terminal_context>"
<1>. DEFINE a == <<"<terminal_context>", "lf">>  b == <<"lf", "</terminal_context>">>
            ac == a \o c  n == Len(c)
<1>1. /\ a \in Seq(Token) /\ Len(a) = 2 /\ a[1] = "<terminal_context>" /\ a[2] = "lf"
      /\ b \in Seq(Token) /\ Len(b) = 2 /\ b[1] = "lf" /\ b[2] = "</terminal_context>"
  BY TokenTuples
<1>2. Block(c) = ac \o b
  BY DEF Block
<1>3. n \in Nat
  BY LenProperties
<1>. HIDE DEF a, b, ac
<1>4. /\ ac \in Seq(Token) /\ Len(ac) = n + 2
      /\ ac[1] = "<terminal_context>" /\ ac[2] = "lf"
      /\ \A i \in 1..n : ac[i + 2] = c[i]
  <2>1. a \in Seq(Token) /\ c \in Seq(Token) =>
          /\ a \o c \in Seq(Token) /\ Len(a \o c) = Len(a) + Len(c)
          /\ \A i \in 1..Len(a) : (a \o c)[i] = a[i]
          /\ \A i \in 1..Len(c) : (a \o c)[Len(a) + i] = c[i]
    BY ConcatPlaces
  <2>2. 1 \in 1..2 /\ 2 \in 1..2 /\ \A i \in 1..n : 2 + i = i + 2
    BY <1>3
  <2>. QED
    BY <1>1, <1>3, <2>1, <2>2 DEF ac
<1>5. /\ ac \o b \in Seq(Token) /\ Len(ac \o b) = n + 4
      /\ \A i \in 1..n + 2 : (ac \o b)[i] = ac[i]
      /\ (ac \o b)[n + 3] = b[1] /\ (ac \o b)[n + 4] = b[2]
  <2>1. ac \in Seq(Token) /\ b \in Seq(Token) =>
          /\ ac \o b \in Seq(Token) /\ Len(ac \o b) = Len(ac) + Len(b)
          /\ \A i \in 1..Len(ac) : (ac \o b)[i] = ac[i]
          /\ \A i \in 1..Len(b) : (ac \o b)[Len(ac) + i] = b[i]
    BY ConcatPlaces
  <2>2. 1 \in 1..2 /\ 2 \in 1..2 /\ n + 2 + 1 = n + 3 /\ n + 2 + 2 = n + 4
    BY <1>3
  <2>. QED
    BY <1>1, <1>3, <1>4, <2>1, <2>2
<1>6. 1 \in 1..n + 2 /\ 2 \in 1..n + 2 /\ \A i \in 1..n : i + 2 \in 1..n + 2
  BY <1>3
<1>. QED
  BY <1>1, <1>2, <1>3, <1>4, <1>5, <1>6

\* and of what follows it.
LEMMA QuestionPlaces ==
  ASSUME NEW q \in Seq(Token)
  PROVE  /\ Question(q) \in Seq(Token) /\ Len(Question(q)) = Len(q) + 6 /\ Len(q) \in Nat
         /\ Question(q)[1] = "lf" /\ Question(q)[2] = "lf"
         /\ Question(q)[3] = "<user_question>" /\ Question(q)[4] = "lf"
         /\ \A i \in 1..Len(q) : Question(q)[i + 4] = q[i]
         /\ Question(q)[Len(q) + 5] = "lf" /\ Question(q)[Len(q) + 6] = "</user_question>"
<1>. DEFINE a == <<"lf", "lf", "<user_question>", "lf">>  b == <<"lf", "</user_question>">>
            aq == a \o q  n == Len(q)
<1>1. /\ a \in Seq(Token) /\ Len(a) = 4
      /\ a[1] = "lf" /\ a[2] = "lf" /\ a[3] = "<user_question>" /\ a[4] = "lf"
      /\ b \in Seq(Token) /\ Len(b) = 2 /\ b[1] = "lf" /\ b[2] = "</user_question>"
  BY TokenTuples
<1>2. Question(q) = aq \o b
  BY DEF Question
<1>3. n \in Nat
  BY LenProperties
<1>. HIDE DEF a, b, aq
<1>4. /\ aq \in Seq(Token) /\ Len(aq) = n + 4
      /\ aq[1] = "lf" /\ aq[2] = "lf" /\ aq[3] = "<user_question>" /\ aq[4] = "lf"
      /\ \A i \in 1..n : aq[i + 4] = q[i]
  <2>1. a \in Seq(Token) /\ q \in Seq(Token) =>
          /\ a \o q \in Seq(Token) /\ Len(a \o q) = Len(a) + Len(q)
          /\ \A i \in 1..Len(a) : (a \o q)[i] = a[i]
          /\ \A i \in 1..Len(q) : (a \o q)[Len(a) + i] = q[i]
    BY ConcatPlaces
  <2>2. 1 \in 1..4 /\ 2 \in 1..4 /\ 3 \in 1..4 /\ 4 \in 1..4 /\ \A i \in 1..n : 4 + i = i + 4
    BY <1>3
  <2>. QED
    BY <1>1, <1>3, <2>1, <2>2 DEF aq
<1>5. /\ aq \o b \in Seq(Token) /\ Len(aq \o b) = n + 6
      /\ \A i \in 1..n + 4 : (aq \o b)[i] = aq[i]
      /\ (aq \o b)[n + 5] = b[1] /\ (aq \o b)[n + 6] = b[2]
  <2>1. aq \in Seq(Token) /\ b \in Seq(Token) =>
          /\ aq \o b \in Seq(Token) /\ Len(aq \o b) = Len(aq) + Len(b)
          /\ \A i \in 1..Len(aq) : (aq \o b)[i] = aq[i]
          /\ \A i \in 1..Len(b) : (aq \o b)[Len(aq) + i] = b[i]
    BY ConcatPlaces
  <2>2. 1 \in 1..2 /\ 2 \in 1..2 /\ n + 4 + 1 = n + 5 /\ n + 4 + 2 = n + 6
    BY <1>3
  <2>. QED
    BY <1>1, <1>3, <1>4, <2>1, <2>2
<1>6. 1 \in 1..n + 4 /\ 2 \in 1..n + 4 /\ 3 \in 1..n + 4 /\ 4 \in 1..n + 4
      /\ \A i \in 1..n : i + 4 \in 1..n + 4
  BY <1>3
<1>. QED
  BY <1>1, <1>2, <1>3, <1>4, <1>5, <1>6

\* A message is a block and what follows it.
LEMMA MessageIs ==
  ASSUME NEW c \in Seq(Token), NEW q \in Seq(Token), c # <<>>
  PROVE  BuildRequest(c, q) = Block(c) \o Question(q)
<1>. DEFINE w == Block(c)  a == <<"lf", "lf", "<user_question>", "lf">>
            b == <<"lf", "</user_question>">>
<1>1. BuildRequest(c, q) = ((w \o a) \o q) \o b
  BY DEF BuildRequest
<1>2. Question(q) = (a \o q) \o b
  BY DEF Question
<1>3. w \in Seq(Token) /\ a \in Seq(Token) /\ b \in Seq(Token)
  BY BlockPlaces, TokenTuples
<1>. HIDE DEF w, a, b
<1>4. (w \o a) \o q = w \o (a \o q)
  BY <1>3, ConcatAssociative
<1>5. a \o q \in Seq(Token)
  BY <1>3, ConcatProperties
<1>. DEFINE aq == a \o q
<1>6. aq \in Seq(Token)
  BY <1>5
<1>. HIDE DEF aq
<1>7. (w \o aq) \o b = w \o (aq \o b)
  <2>1. w \in Seq(Token) /\ aq \in Seq(Token) /\ b \in Seq(Token)
          => (w \o aq) \o b = w \o (aq \o b)
    BY ConcatAssociative
  <2>. QED
    BY <1>3, <1>6, <2>1
<1>. QED
  BY <1>1, <1>2, <1>4, <1>7 DEF aq, w

\* The tokens of a message.
LEMMA MessagePlaces ==
  ASSUME NEW c \in Seq(Token), NEW q \in Seq(Token), c # <<>>
  PROVE  LET m == BuildRequest(c, q)
             n == Len(c)
         IN  /\ m \in Seq(Token) /\ Len(m) = n + 10 + Len(q) /\ Len(q) \in Nat /\ n \in Nat \ {0}
             /\ m[1] = "<terminal_context>" /\ m[2] = "lf"
             /\ \A i \in 1..n : m[i + 2] = c[i]
             /\ m[n + 3] = "lf" /\ m[n + 4] = "</terminal_context>"
             /\ m[n + 5] = "lf" /\ m[n + 6] = "lf" /\ m[n + 7] = "<user_question>" /\ m[n + 8] = "lf"
             /\ \A i \in 1..Len(q) : m[n + 8 + i] = q[i]
             /\ m[n + Len(q) + 9] = "lf" /\ m[n + Len(q) + 10] = "</user_question>"
             /\ SubSeq(m, n + 5, Len(m)) = Question(q)
<1>. DEFINE w == Block(c)  v == Question(q)  m == BuildRequest(c, q)  n == Len(c)  k == Len(q)
<1>1. m = w \o v
  BY MessageIs
<1>2. /\ w \in Seq(Token) /\ Len(w) = n + 4 /\ n \in Nat
      /\ w[1] = "<terminal_context>" /\ w[2] = "lf"
      /\ \A i \in 1..n : w[i + 2] = c[i]
      /\ w[n + 3] = "lf" /\ w[n + 4] = "</terminal_context>"
  BY BlockPlaces
<1>3. /\ v \in Seq(Token) /\ Len(v) = k + 6 /\ k \in Nat
      /\ v[1] = "lf" /\ v[2] = "lf" /\ v[3] = "<user_question>" /\ v[4] = "lf"
      /\ \A i \in 1..k : v[i + 4] = q[i]
      /\ v[k + 5] = "lf" /\ v[k + 6] = "</user_question>"
  BY QuestionPlaces
<1>4. n # 0 /\ n = Len(c) /\ k = Len(q)
  BY EmptySeq
<1>. HIDE DEF w, v, m, n, k
<1>5. /\ m \in Seq(Token) /\ Len(m) = n + 4 + (k + 6)
      /\ \A i \in 1..n + 4 : m[i] = w[i]
      /\ \A i \in 1..k + 6 : m[n + 4 + i] = v[i]
  <2>1. w \in Seq(Token) /\ v \in Seq(Token) =>
          /\ w \o v \in Seq(Token) /\ Len(w \o v) = Len(w) + Len(v)
          /\ \A i \in 1..Len(w) : (w \o v)[i] = w[i]
          /\ \A i \in 1..Len(v) : (w \o v)[Len(w) + i] = v[i]
    BY ConcatPlaces
  <2>. QED
    BY <1>1, <1>2, <1>3, <2>1
<1>6. /\ m[1] = "<terminal_context>" /\ m[2] = "lf"
      /\ m[n + 3] = "lf" /\ m[n + 4] = "</terminal_context>"
  <2>1. 1 \in 1..n + 4 /\ 2 \in 1..n + 4 /\ n + 3 \in 1..n + 4 /\ n + 4 \in 1..n + 4
    BY <1>2
  <2>. QED
    BY <1>2, <1>5, <2>1
<1>7. \A i \in 1..n : m[i + 2] = c[i]
  <2>1. \A i \in 1..n : i + 2 \in 1..n + 4
    BY <1>2
  <2>. QED
    BY <1>2, <1>5, <2>1
<1>8. m[n + 5] = "lf" /\ m[n + 6] = "lf" /\ m[n + 7] = "<user_question>" /\ m[n + 8] = "lf"
  <2>1. /\ 1 \in 1..k + 6 /\ 2 \in 1..k + 6 /\ 3 \in 1..k + 6 /\ 4 \in 1..k + 6
        /\ n + 5 = n + 4 + 1 /\ n + 6 = n + 4 + 2 /\ n + 7 = n + 4 + 3 /\ n + 8 = n + 4 + 4
    BY <1>2, <1>3
  <2>. QED
    BY <1>3, <1>5, <2>1
<1>9. \A i \in 1..k : m[n + 8 + i] = q[i]
  <2>1. \A i \in 1..k : i + 4 \in 1..k + 6 /\ n + 4 + (i + 4) = n + 8 + i
    BY <1>2, <1>3
  <2>. QED
    BY <1>3, <1>5, <2>1
<1>10. m[n + k + 9] = "lf" /\ m[n + k + 10] = "</user_question>"
  <2>1. /\ k + 5 \in 1..k + 6 /\ k + 6 \in 1..k + 6
        /\ n + 4 + (k + 5) = n + k + 9 /\ n + 4 + (k + 6) = n + k + 10
    BY <1>2, <1>3
  <2>. QED
    BY <1>3, <1>5, <2>1
<1>11. SubSeq(m, n + 5, Len(m)) = v
  <2>1. /\ n + 5 \in Int /\ Len(m) \in Int /\ \A i \in (n + 5)..Len(m) : i \in 1..Len(m)
        /\ n + 5 <= Len(m) /\ Len(m) - (n + 5) + 1 = k + 6
    BY <1>2, <1>3, <1>5
  <2>2. \A i \in (n + 5)..Len(m) : m[i] \in Token
    BY <1>5, <2>1, ElementOfSeq
  <2>. DEFINE part == SubSeq(m, n + 5, Len(m))
  <2>3. /\ part \in Seq(Token) /\ Len(part) = k + 6
        /\ \A i \in 1..k + 6 : part[i] = m[n + 5 + i - 1]
    BY <2>1, <2>2, SubSeqProperties
  <2>. HIDE DEF part
  <2>4. \A i \in 1..k + 6 : n + 5 + i - 1 = n + 4 + i
    BY <1>2, <1>3
  <2>5. \A i \in 1..Len(part) : part[i] = v[i]
    BY <1>5, <2>3, <2>4
  <2>6. part = v
    BY <1>3, <2>3, <2>5, SeqEqual
  <2>. QED
    BY <2>6 DEF part
<1>12. Len(m) = n + 10 + k /\ n \in Nat \ {0}
  BY <1>2, <1>3, <1>4, <1>5 DEF n
<1>. QED
  BY <1>3, <1>5, <1>6, <1>7, <1>8, <1>9, <1>10, <1>11, <1>12 DEF m, n, k, v

----------------------------------------------------------------------------
(* SubBlocks, one match at a time.                                         *)

\* f[i] is the text from i on with the block that begins at each match i' replaced
\* by a block of b[i'].
Substitutes(f, m, b) ==
  f = [i \in 1..(Len(m) + 1) |->
        IF i > Len(m) THEN <<>>
        ELSE IF BlockEnds(m, i) = {} THEN <<m[i]>> \o f[i + 1]
        ELSE Block(b[i]) \o f[MatchEnd(BlockEnds(m, i)) + 1]]

\* The end of a match is the first that is possible.
LEMMA MatchEndIs ==
  ASSUME NEW m, NEW i \in Nat, Len(m) \in Nat, BlockEnds(m, i) # {}
  PROVE  /\ MatchEnd(BlockEnds(m, i)) \in BlockEnds(m, i)
         /\ MatchEnd(BlockEnds(m, i)) \in (i + 3)..Len(m)
         /\ \A j \in BlockEnds(m, i) : MatchEnd(BlockEnds(m, i)) <= j
<1>. DEFINE ends == BlockEnds(m, i)
<1>1. ends \subseteq (i + 3)..Len(m)
  BY DEF BlockEnds
<1>2. ends \subseteq Nat
  BY <1>1
<1>3. \E j \in ends : \A k \in ends : j <= k
  <2>. HIDE DEF ends
  <2>. QED
    BY <1>2, LeastNatural DEF ends
<1>4. MatchEnd(ends) \in ends /\ \A k \in ends : MatchEnd(ends) <= k
  <2>. HIDE DEF ends
  <2>. QED
    BY <1>3 DEF MatchEnd, Min
<1>. QED
  BY <1>1, <1>4

\* Some function substitutes.
LEMMA SubstituteExists ==
  ASSUME NEW m, NEW b, Len(m) \in Nat
  PROVE  \E f : Substitutes(f, m, b)
<1>. DEFINE L == Len(m)
            Step(f, i) == IF i > L THEN <<>>
                          ELSE IF BlockEnds(m, i) = {} THEN <<m[i]>> \o f[i + 1]
                          ELSE Block(b[i]) \o f[MatchEnd(BlockEnds(m, i)) + 1]
            From(f, p) == f = [i \in p..(L + 1) |-> Step(f, i)]
            G == {n \in Nat : n <= L => \E f : From(f, L + 1 - n)}
<1>1. 0 \in G
  <2>. DEFINE f == [i \in (L + 1)..(L + 1) |-> <<>>]
  <2>1. \A g : [i \in (L + 1)..(L + 1) |-> Step(g, i)] = f
    <3>1. \A g : \A i \in (L + 1)..(L + 1) : Step(g, i) = <<>>
      OBVIOUS
    <3>. HIDE DEF Step
    <3>. QED
      BY <3>1
  <2>. HIDE DEF Step, f
  <2>2. From(f, L + 1)
    BY <2>1
  <2>3. L + 1 - 0 = L + 1
    OBVIOUS
  <2>. QED
    BY <2>2, <2>3
<1>2. ASSUME NEW n \in Nat, n \in G PROVE n + 1 \in G
  <2>. SUFFICES ASSUME n + 1 <= L PROVE \E f : From(f, L + 1 - (n + 1))
    <3>. HIDE DEF From
    <3>. QED
      OBVIOUS
  <2>. DEFINE p == L - n
  <2>1. p \in 1..L /\ L + 1 - (n + 1) = p /\ L + 1 - n = p + 1 /\ n <= L
    OBVIOUS
  <2>. HIDE DEF p
  <2>2. PICK f : From(f, p + 1)
    BY <1>2, <2>1
  <2>. DEFINE g == [i \in p..(L + 1) |-> IF i = p THEN Step(f, p) ELSE f[i]]
  <2>3. \A i \in (p + 1)..(L + 1) : g[i] = f[i] /\ i # p /\ i \in p..(L + 1)
    BY <2>1
  <2>4. g[p] = Step(f, p)
    <3>1. p \in p..(L + 1)
      BY <2>1
    <3>. HIDE DEF Step
    <3>. QED
      BY <3>1
  <2>. HIDE DEF g
  <2>5. \A i \in p..(L + 1) : Step(f, i) = Step(g, i)
    <3>. SUFFICES ASSUME NEW i \in p..(L + 1) PROVE Step(f, i) = Step(g, i)
      OBVIOUS
    <3>1. CASE i > L
      BY <3>1
    <3>2. CASE i <= L /\ BlockEnds(m, i) = {}
      <4>1. i + 1 \in (p + 1)..(L + 1) /\ ~(i > L)
        BY <2>1, <3>2
      <4>. QED
        BY <2>3, <3>2, <4>1
    <3>3. CASE i <= L /\ BlockEnds(m, i) # {}
      <4>. DEFINE e == MatchEnd(BlockEnds(m, i))
      <4>1. i \in Nat
        BY <2>1
      <4>2. e \in (i + 3)..L
        BY <3>3, <4>1, MatchEndIs
      <4>. HIDE DEF e
      <4>3. e + 1 \in (p + 1)..(L + 1) /\ ~(i > L)
        BY <2>1, <3>3, <4>2
      <4>4. f[e + 1] = g[e + 1]
        BY <2>3, <4>3
      <4>. QED
        BY <3>3, <4>3, <4>4 DEF e
    <3>. QED
      BY <2>1, <3>1, <3>2, <3>3
  <2>6. \A i \in (p + 1)..(L + 1) : f[i] = Step(f, i)
    <3>. HIDE DEF Step
    <3>. QED
      BY <2>2
  <2>7. \A i \in p..(L + 1) : g[i] = Step(g, i)
    <3>. HIDE DEF Step
    <3>1. \A i \in p..(L + 1) : i = p \/ i \in (p + 1)..(L + 1)
      BY <2>1
    <3>. QED
      BY <2>3, <2>4, <2>5, <2>6, <3>1
  <2>8. g = [i \in p..(L + 1) |-> Step(g, i)]
    <3>1. g = [i \in p..(L + 1) |-> g[i]]
      <4>. HIDE DEF Step
      <4>. QED
        BY DEF g
    <3>. HIDE DEF Step
    <3>. QED
      BY <2>7, <3>1
  <2>9. From(g, p)
    <3>. HIDE DEF Step
    <3>. QED
      BY <2>8
  <2>. QED
    BY <2>1, <2>9
<1>3. Nat \subseteq G
  <2>. HIDE DEF G
  <2>. QED
    BY <1>1, <1>2, AllNaturals
<1>4. \E f : From(f, 1)
  <2>1. L \in G /\ L + 1 - L = 1 /\ L <= L
    <3>. HIDE DEF G
    <3>. QED
      BY <1>3
  <2>. HIDE DEF From
  <2>. QED
    BY <2>1
<1>. QED
  BY <1>4 DEF Substitutes

\* What such a function is at each place.
LEMMA SubstituteSteps ==
  ASSUME NEW f, NEW m, NEW b, Len(m) \in Nat, Substitutes(f, m, b)
  PROVE  /\ f[Len(m) + 1] = <<>>
         /\ \A i \in 1..Len(m) :
              /\ BlockEnds(m, i) = {} => f[i] = <<m[i]>> \o f[i + 1]
              /\ BlockEnds(m, i) # {} =>
                   f[i] = Block(b[i]) \o f[MatchEnd(BlockEnds(m, i)) + 1]
<1>1. \A i \in 1..(Len(m) + 1) :
        f[i] = IF i > Len(m) THEN <<>>
               ELSE IF BlockEnds(m, i) = {} THEN <<m[i]>> \o f[i + 1]
               ELSE Block(b[i]) \o f[MatchEnd(BlockEnds(m, i)) + 1]
  BY DEF Substitutes
<1>2. /\ Len(m) + 1 \in 1..(Len(m) + 1) /\ Len(m) + 1 > Len(m)
      /\ \A i \in 1..Len(m) : i \in 1..(Len(m) + 1) /\ ~(i > Len(m))
  OBVIOUS
<1>. QED
  BY <1>1, <1>2

\* Scrub substitutes blocks of the marker,
LEMMA ScrubSubstitutes ==
  ASSUME NEW m, Len(m) \in Nat
  PROVE  \E f, b : /\ Substitutes(f, m, b) /\ Scrub(m) = f[1]
                   /\ \A i \in 1..Len(m) : b[i] = Marker
<1>. DEFINE b == [i \in 1..Len(m) |-> Marker]
            Step(f, i) == IF i > Len(m) THEN <<>>
                          ELSE IF BlockEnds(m, i) = {} THEN <<m[i]>> \o f[i + 1]
                          ELSE Block(Marker) \o f[MatchEnd(BlockEnds(m, i)) + 1]
            Sub(f) == f = [i \in 1..(Len(m) + 1) |-> Step(f, i)]
            rest == CHOOSE f : Sub(f)
<1>1. \A f : Substitutes(f, m, b) <=> Sub(f)
  <2>1. \A i \in 1..(Len(m) + 1) : ~(i > Len(m)) => b[i] = Marker
    OBVIOUS
  <2>2. ASSUME NEW f
        PROVE  [i \in 1..(Len(m) + 1) |->
                 IF i > Len(m) THEN <<>>
                 ELSE IF BlockEnds(m, i) = {} THEN <<m[i]>> \o f[i + 1]
                 ELSE Block(b[i]) \o f[MatchEnd(BlockEnds(m, i)) + 1]]
               = [i \in 1..(Len(m) + 1) |-> Step(f, i)]
    <3>. HIDE DEF b
    <3>. QED
      BY <2>1
  <2>. QED
    BY <2>2 DEF Substitutes
<1>2. \E f : Sub(f)
  BY <1>1, SubstituteExists
<1>3. Sub(rest)
  <2>. HIDE DEF Sub
  <2>. QED
    BY <1>2
<1>4. Scrub(m) = rest[1]
  BY DEF Scrub, SubBlocks
<1>5. \A i \in 1..Len(m) : b[i] = Marker
  OBVIOUS
<1>. HIDE DEF b, rest, Sub
<1>. QED
  BY <1>1, <1>3, <1>4, <1>5

\* redaction blocks of what they held without the word.
LEMMA RedactionSubstitutes ==
  ASSUME NEW m, Len(m) \in Nat, NEW word
  PROVE  \E f, b :
           /\ Substitutes(f, m, b) /\ RedactTerminalContext(m, word) = f[1]
           /\ \A i \in 1..Len(m) :
                b[i] = Without(SubSeq(m, i + 2, MatchEnd(BlockEnds(m, i)) - 2), word)
<1>. DEFINE body(i) == Without(SubSeq(m, i + 2, MatchEnd(BlockEnds(m, i)) - 2), word)
            b == [i \in 1..Len(m) |-> body(i)]
            Step(f, i) == IF i > Len(m) THEN <<>>
                          ELSE IF BlockEnds(m, i) = {} THEN <<m[i]>> \o f[i + 1]
                          ELSE Block(body(i)) \o f[MatchEnd(BlockEnds(m, i)) + 1]
            Sub(f) == f = [i \in 1..(Len(m) + 1) |-> Step(f, i)]
            rest == CHOOSE f : Sub(f)
<1>1. \A f : Substitutes(f, m, b) <=> Sub(f)
  <2>1. \A i \in 1..(Len(m) + 1) : ~(i > Len(m)) => b[i] = body(i)
    <3>. HIDE DEF body
    <3>. QED
      OBVIOUS
  <2>2. ASSUME NEW f
        PROVE  [i \in 1..(Len(m) + 1) |->
                 IF i > Len(m) THEN <<>>
                 ELSE IF BlockEnds(m, i) = {} THEN <<m[i]>> \o f[i + 1]
                 ELSE Block(b[i]) \o f[MatchEnd(BlockEnds(m, i)) + 1]]
               = [i \in 1..(Len(m) + 1) |-> Step(f, i)]
    <3>. HIDE DEF b, body
    <3>. QED
      BY <2>1
  <2>. HIDE DEF body
  <2>. QED
    BY <2>2 DEF Substitutes
<1>2. \E f : Sub(f)
  BY <1>1, SubstituteExists
<1>3. Sub(rest)
  <2>. HIDE DEF Sub
  <2>. QED
    BY <1>2
<1>4. RedactTerminalContext(m, word) = rest[1]
  BY DEF RedactTerminalContext, SubBlocks
<1>5. \A i \in 1..Len(m) : b[i] = body(i)
  <2>. HIDE DEF body
  <2>. QED
    OBVIOUS
<1>. HIDE DEF b, rest, Sub
<1>. QED
  BY <1>1, <1>3, <1>4, <1>5

\* From a place after the last match on the text stays.
LEMMA SubstituteTail ==
  ASSUME NEW m \in Seq(Token), NEW f, NEW b, Substitutes(f, m, b),
         NEW p \in 1..Len(m) + 1, \A i \in p..Len(m) : BlockEnds(m, i) = {}
  PROVE  f[p] = SubSeq(m, p, Len(m))
<1>. DEFINE L == Len(m)
            G == {n \in Nat : L + 1 - n >= p => f[L + 1 - n] = SubSeq(m, L + 1 - n, L)}
<1>1. L \in Nat
  BY LenProperties
<1>2. 0 \in G
  <2>1. L + 1 - 0 = L + 1 /\ L + 1 \in Int /\ L \in Int /\ L < L + 1
    BY <1>1
  <2>2. f[L + 1] = <<>>
    BY <1>1, SubstituteSteps
  <2>3. SubSeq(m, L + 1, L) = <<>>
    BY <2>1, SubSeqEmpty
  <2>. QED
    BY <2>1, <2>2, <2>3
<1>3. ASSUME NEW n \in Nat, n \in G PROVE n + 1 \in G
  <2>. SUFFICES ASSUME L + 1 - (n + 1) >= p
                PROVE f[L + 1 - (n + 1)] = SubSeq(m, L + 1 - (n + 1), L)
    OBVIOUS
  <2>. DEFINE i == L - n
  <2>1. /\ i \in 1..L /\ L \in i..L /\ i \in p..L
        /\ L + 1 - (n + 1) = i /\ L + 1 - n = i + 1 /\ i + 1 >= p
    BY <1>1
  <2>. HIDE DEF i
  <2>2. f[i + 1] = SubSeq(m, i + 1, L)
    BY <1>3, <2>1
  <2>3. f[i] = <<m[i]>> \o f[i + 1]
    BY <1>1, <2>1, SubstituteSteps
  <2>4. SubSeq(m, i, L) = <<m[i]>> \o SubSeq(m, i + 1, L)
    BY <2>1, SubSeqRecursiveFirst
  <2>. QED
    BY <2>1, <2>2, <2>3, <2>4
<1>. HIDE DEF G
<1>4. Nat \subseteq G
  BY <1>2, <1>3, AllNaturals
<1>5. L + 1 - p \in G
  BY <1>1, <1>4
<1>6. L + 1 - (L + 1 - p) = p /\ p >= p
  BY <1>1
<1>. QED
  BY <1>5, <1>6 DEF G

\* Is the marker in a text?
Marked(s) == \E i \in 1..Len(s) : s[i] = "marker"

\* What is substituted from a place on has the marker, unless no match begins there.
LEMMA SubstituteMarks ==
  ASSUME NEW m \in Seq(Token), NEW f, NEW b, Substitutes(f, m, b),
         \A i \in 1..Len(m) : b[i] = Marker, NEW p \in 1..Len(m) + 1
  PROVE  /\ f[p] \in Seq(Token)
         /\ (\A i \in p..Len(m) : BlockEnds(m, i) = {}) \/ Marked(f[p])
<1>. DEFINE L == Len(m)
            Good(i) == /\ f[i] \in Seq(Token)
                       /\ (\A k \in i..L : BlockEnds(m, k) = {}) \/ Marked(f[i])
            G == {n \in Nat : \A i \in 1..L + 1 : i >= L + 1 - n => Good(i)}
<1>1. L \in Nat
  BY LenProperties
<1>6. \A i \in 1..L :
        BlockEnds(m, i) # {} => f[i] = Block(b[i]) \o f[MatchEnd(BlockEnds(m, i)) + 1]
  <2>1. \A i \in 1..L : i \in 1..(Len(m) + 1) /\ ~(i > Len(m))
    BY <1>1
  <2>. QED
    BY <2>1 DEF Substitutes
<1>2. 0 \in G
  <2>1. \A i \in 1..L + 1 : i >= L + 1 - 0 => i = L + 1
    BY <1>1
  <2>2. f[L + 1] = <<>>
    BY <1>1, SubstituteSteps
  <2>3. <<>> \in Seq(Token) /\ \A k \in (L + 1)..L : FALSE
    BY <1>1, EmptySeq
  <2>. QED
    BY <2>1, <2>2, <2>3
<1>3. ASSUME NEW n \in Nat, n \in G PROVE n + 1 \in G
  <2>. SUFFICES ASSUME NEW i \in 1..L + 1, i >= L + 1 - (n + 1) PROVE Good(i)
    <3>. HIDE DEF Good
    <3>. QED
      OBVIOUS
  <2>1. CASE i >= L + 1 - n
    <3>. HIDE DEF Good
    <3>. QED
      BY <1>3, <2>1
  <2>2. CASE ~(i >= L + 1 - n)
    <3>1. /\ i \in 1..L /\ i \in Nat
          /\ \A k \in 1..L + 1 : k > i => k >= L + 1 - n
      BY <1>1, <2>2
    <3>2. \A k \in 1..L + 1 : k > i => Good(k)
      <4>. HIDE DEF Good
      <4>. QED
        BY <1>3, <3>1
    <3>3. CASE BlockEnds(m, i) = {}
      <4>1. i + 1 \in 1..L + 1 /\ i + 1 > i /\ \A k \in i..L : k = i \/ k \in (i + 1)..L
        BY <1>1, <3>1
      <4>2. Good(i + 1)
        BY <3>2, <4>1
      <4>3. f[i] = <<m[i]>> \o f[i + 1]
        BY <1>1, <3>1, <3>3, SubstituteSteps
      <4>. DEFINE one == <<m[i]>>  tail == f[i + 1]
      <4>4. m[i] \in Token
        BY <3>1, ElementOfSeq
      <4>5. one \in Seq(Token) /\ Len(one) = 1
        BY <4>4
      <4>. HIDE DEF one, tail
      <4>6. one \in Seq(Token) /\ tail \in Seq(Token) =>
              /\ one \o tail \in Seq(Token) /\ Len(one \o tail) = Len(one) + Len(tail)
              /\ Len(tail) \in Nat
              /\ \A k \in 1..Len(tail) : (one \o tail)[Len(one) + k] = tail[k]
        BY ConcatPlaces
      <4>7. tail \in Seq(Token) /\ Marked(tail) => Marked(one \o tail)
        <5>. SUFFICES ASSUME tail \in Seq(Token), NEW k \in 1..Len(tail), tail[k] = "marker"
                      PROVE Marked(one \o tail)
          BY DEF Marked
        <5>1. 1 + k \in 1..Len(one \o tail) /\ (one \o tail)[1 + k] = "marker"
          BY <4>5, <4>6
        <5>. QED
          BY <5>1 DEF Marked
      <4>8. /\ f[i] = one \o tail /\ tail \in Seq(Token)
            /\ (\A k \in (i + 1)..L : BlockEnds(m, k) = {}) \/ Marked(tail)
        BY <4>2, <4>3 DEF one, tail
      <4>9. f[i] \in Seq(Token)
        BY <4>5, <4>6, <4>8
      <4>. QED
        BY <3>3, <4>1, <4>7, <4>8, <4>9
    <3>4. CASE BlockEnds(m, i) # {}
      <4>. DEFINE e == MatchEnd(BlockEnds(m, i))  block == Block(Marker)  tail == f[e + 1]
      <4>1. e \in (i + 3)..L
        BY <1>1, <3>1, <3>4, MatchEndIs
      <4>2. e + 1 \in 1..L + 1 /\ e + 1 > i
        <5>. HIDE DEF e
        <5>. QED
          BY <1>1, <3>1, <4>1
      <4>3. Good(e + 1)
        BY <3>2, <4>2
      <4>4. f[i] = Block(b[i]) \o f[e + 1]
        BY <1>6, <3>1, <3>4
      <4>5. b[i] = Marker
        BY <3>1
      <4>6. Marker \in Seq(Token) /\ Len(Marker) = 1 /\ Marker[1] = "marker"
        <5>1. "marker" \in Token
          BY TokenTuples
        <5>. QED
          BY <5>1 DEF Marker
      <4>7. /\ block \in Seq(Token) /\ Len(block) = 5 /\ block[3] = "marker"
        <5>1. /\ Block(Marker) \in Seq(Token) /\ Len(Block(Marker)) = Len(Marker) + 4
              /\ \A k \in 1..Len(Marker) : Block(Marker)[k + 2] = Marker[k]
          BY <4>6, BlockPlaces
        <5>2. 1 \in 1..1 /\ 1 + 2 = 3 /\ 1 + 4 = 5
          OBVIOUS
        <5>. HIDE DEF block
        <5>. QED
          BY <4>6, <5>1, <5>2 DEF block
      <4>8. tail \in Seq(Token)
        BY <4>3
      <4>9. f[i] = block \o tail
        BY <4>4, <4>5
      <4>. HIDE DEF block, tail, e
      <4>10. /\ block \o tail \in Seq(Token) /\ Len(block \o tail) = Len(block) + Len(tail)
             /\ Len(tail) \in Nat
             /\ \A k \in 1..Len(block) : (block \o tail)[k] = block[k]
        BY <4>7, <4>8, ConcatPlaces
      <4>11. Marked(block \o tail)
        <5>1. 3 \in 1..Len(block) /\ 3 \in 1..Len(block \o tail)
          BY <4>7, <4>10
        <5>. QED
          BY <4>7, <4>10, <5>1 DEF Marked
      <4>. QED
        BY <4>9, <4>10, <4>11
    <3>. QED
      BY <3>3, <3>4
  <2>. QED
    BY <2>1, <2>2
<1>4. Nat \subseteq G
  <2>. HIDE DEF G
  <2>. QED
    BY <1>2, <1>3, AllNaturals
<1>5. L + 1 \in G /\ p >= L + 1 - (L + 1)
  <2>. HIDE DEF G
  <2>. QED
    BY <1>1, <1>4
<1>7. Good(p)
  <2>. HIDE DEF Good
  <2>. QED
    BY <1>5
<1>. QED
  BY <1>7

----------------------------------------------------------------------------
(* The matches in a message.                                               *)

\* Does a line of the terminal text, after the first, begin with the closing tag?
Closes(c) == \E i \in 1..(Len(c) - 1) : c[i] = "lf" /\ c[i + 1] = "</terminal_context>"

\* The first match begins a message and ends with its block, unless it is closed
\* before.
LEMMA FirstMatch ==
  ASSUME NEW c \in Seq(Token), NEW q \in Seq(Token), c # <<>>
  PROVE  LET m == BuildRequest(c, q)
             ends == BlockEnds(m, 1)
         IN  /\ ends # {}
             /\ MatchEnd(ends) \in 4..(Len(c) + 4)
             /\ MatchEnd(ends) = Len(c) + 4 <=> ~Closes(c)
<1>. DEFINE m == BuildRequest(c, q)  n == Len(c)  ends == BlockEnds(m, 1)  e == MatchEnd(ends)
<1>1. /\ m \in Seq(Token) /\ Len(m) = n + 10 + Len(q) /\ Len(q) \in Nat /\ n \in Nat \ {0}
      /\ m[1] = "<terminal_context>" /\ m[2] = "lf"
      /\ \A i \in 1..n : m[i + 2] = c[i]
      /\ m[n + 3] = "lf" /\ m[n + 4] = "</terminal_context>"
  BY MessagePlaces
<1>. HIDE DEF m, n
<1>0. n \in Nat \ {0} /\ Len(m) \in Nat /\ n + 10 <= Len(m)
  BY <1>1
<1>2. \A j : j \in ends <=> /\ j \in 4..Len(m)
                            /\ m[j - 1] = "lf" /\ m[j] = "</terminal_context>"
  <2>1. 1 + 3 = 4 /\ 1 + 1 = 2
    OBVIOUS
  <2>. QED
    BY <1>1, <2>1 DEF BlockEnds
<1>. HIDE DEF ends
<1>3. n + 4 \in ends
  <2>1. n + 4 \in 4..Len(m) /\ n + 4 - 1 = n + 3
    BY <1>1
  <2>. QED
    BY <1>1, <1>2, <2>1
<1>4. e \in ends /\ \A j \in ends : e <= j
  <2>1. BlockEnds(m, 1) # {} /\ Len(m) \in Nat /\ 1 \in Nat
    BY <1>1, <1>3 DEF ends
  <2>. QED
    BY <2>1, MatchEndIs DEF ends
<1>. HIDE DEF e
<1>5. e \in 4..(n + 4)
  BY <1>1, <1>2, <1>3, <1>4
<1>6. ASSUME Closes(c) PROVE e # n + 4
  <2>1. PICK i \in 1..(n - 1) : c[i] = "lf" /\ c[i + 1] = "</terminal_context>"
    BY <1>6 DEF Closes, n
  <2>. HIDE DEF Closes
  <2>2. /\ i \in 1..n /\ i + 1 \in 1..n /\ i + 3 \in 4..Len(m) /\ i + 3 - 1 = i + 2
        /\ i + 1 + 2 = i + 3 /\ i + 3 < n + 4
    <3>1. i \in 1..(n - 1)
      BY <2>1
    <3>. QED
      BY <1>0, <3>1
  <2>3. i + 3 \in ends
    <3>1. m[i + 2] = c[i] /\ m[i + 1 + 2] = c[i + 1]
      BY <1>1, <2>2
    <3>2. m[i + 3 - 1] = "lf" /\ m[i + 3] = "</terminal_context>"
      BY <2>1, <2>2, <3>1
    <3>. QED
      BY <1>2, <2>2, <3>2
  <2>4. e <= i + 3
    BY <1>4, <2>3
  <2>. QED
    BY <1>1, <1>5, <2>2, <2>4
<1>7. ASSUME e # n + 4 PROVE Closes(c)
  <2>1. /\ e \in 4..(n + 3) /\ m[e - 1] = "lf" /\ m[e] = "</terminal_context>"
    BY <1>1, <1>2, <1>4, <1>5, <1>7
  <2>2. e # n + 3
    BY <1>1, <2>1
  <2>. DEFINE i == e - 3
  <2>3. /\ i \in 1..(n - 1) /\ i \in 1..n /\ i + 1 \in 1..n
        /\ i + 2 = e - 1 /\ i + 1 + 2 = e
    BY <1>1, <2>1, <2>2
  <2>4. c[i] = "lf" /\ c[i + 1] = "</terminal_context>"
    <3>. HIDE DEF i
    <3>. QED
      BY <1>1, <2>1, <2>3
  <2>. QED
    BY <2>3, <2>4 DEF Closes, n
<1>. QED
  BY <1>3, <1>5, <1>6, <1>7 DEF e, ends, m, n

\* After the block of a message the matches are those in its question.
LEMMA LaterMatches ==
  ASSUME NEW c \in Seq(Token), NEW q \in Seq(Token), c # <<>>
  PROVE  LET m == BuildRequest(c, q)
         IN  (\A i \in (Len(c) + 5)..Len(m) : BlockEnds(m, i) = {})
               <=> \A a \in DOMAIN q : BlockEnds(q, a) = {}
<1>. DEFINE m == BuildRequest(c, q)  n == Len(c)  k == Len(q)
<1>1. /\ Len(m) = n + 10 + k /\ k \in Nat /\ n \in Nat \ {0}
      /\ m[n + 5] = "lf" /\ m[n + 6] = "lf" /\ m[n + 7] = "<user_question>" /\ m[n + 8] = "lf"
      /\ \A i \in 1..k : m[n + 8 + i] = q[i]
      /\ m[n + k + 9] = "lf" /\ m[n + k + 10] = "</user_question>"
  BY MessagePlaces
<1>2. DOMAIN q = 1..k
  BY LenProperties
<1>. HIDE DEF m, n
<1>3. ASSUME NEW i \in (n + 5)..Len(m), BlockEnds(m, i) # {}
      PROVE  \E a \in 1..k : BlockEnds(q, a) # {}
  <2>1. PICK j \in (i + 3)..Len(m) :
          /\ m[i] = "<terminal_context>" /\ m[i + 1] = "lf"
          /\ m[j - 1] = "lf" /\ m[j] = "</terminal_context>"
    BY <1>3 DEF BlockEnds
  <2>2. i # n + 5 /\ i # n + 6 /\ i # n + 7 /\ i # n + 8 /\ j # n + k + 9 /\ j # n + k + 10
    BY <1>1, <2>1
  <2>. DEFINE a == i - n - 8  d == j - n - 8
  <2>3. /\ a \in 1..k /\ a + 1 \in 1..k /\ d \in (a + 3)..k /\ d \in 1..k /\ d - 1 \in 1..k
        /\ n + 8 + a = i /\ n + 8 + (a + 1) = i + 1 /\ n + 8 + (d - 1) = j - 1 /\ n + 8 + d = j
    <3>1. /\ i \in (n + 5)..(n + 10 + k) /\ j \in (i + 3)..(n + 10 + k)
          /\ n \in Nat /\ k \in Nat
      BY <1>1, <1>3, <2>1
    <3>. HIDE DEF k
    <3>. QED
      BY <2>2, <3>1
  <2>. HIDE DEF a, d
  <2>4. /\ q[a] = "<terminal_context>" /\ q[a + 1] = "lf"
        /\ q[d - 1] = "lf" /\ q[d] = "</terminal_context>"
    BY <1>1, <2>1, <2>3
  <2>5. d \in BlockEnds(q, a)
    BY <2>3, <2>4 DEF BlockEnds
  <2>. QED
    BY <2>3, <2>5
<1>4. ASSUME NEW a \in 1..k, BlockEnds(q, a) # {}
      PROVE  \E i \in (n + 5)..Len(m) : BlockEnds(m, i) # {}
  <2>1. PICK d \in (a + 3)..k :
          /\ q[a] = "<terminal_context>" /\ q[a + 1] = "lf"
          /\ q[d - 1] = "lf" /\ q[d] = "</terminal_context>"
    BY <1>4 DEF BlockEnds
  <2>. DEFINE i == n + 8 + a  j == n + 8 + d
  <2>2. /\ i \in (n + 5)..Len(m) /\ j \in (i + 3)..Len(m)
        /\ a + 1 \in 1..k /\ d \in 1..k /\ d - 1 \in 1..k
        /\ n + 8 + (a + 1) = i + 1 /\ n + 8 + (d - 1) = j - 1
    BY <1>1, <2>1
  <2>3. /\ m[i] = "<terminal_context>" /\ m[i + 1] = "lf"
        /\ m[j - 1] = "lf" /\ m[j] = "</terminal_context>"
    BY <1>1, <2>1, <2>2
  <2>. HIDE DEF i, j
  <2>4. j \in BlockEnds(m, i)
    BY <2>2, <2>3 DEF BlockEnds
  <2>. QED
    BY <2>2, <2>4
<1>. QED
  BY <1>2, <1>3, <1>4 DEF m, n

\* A line end after a question makes no match.
LEMMA QuestionMatches ==
  ASSUME NEW q \in Seq(Token), NEW a \in DOMAIN q
  PROVE  BlockEnds(q \o <<"lf">>, a) = {} <=> BlockEnds(q, a) = {}
<1>. DEFINE t == <<"lf">>  s == q \o t  k == Len(q)
<1>1. t \in Seq(Token) /\ Len(t) = 1 /\ t[1] = "lf"
  <2>1. "lf" \in Token
    BY TokenTuples
  <2>. QED
    BY <2>1
<1>2. a \in 1..k
  BY LenProperties
<1>. HIDE DEF t
<1>3. /\ Len(s) = k + 1 /\ k \in Nat
      /\ \A i \in 1..k : s[i] = q[i]
      /\ s[k + 1] = "lf"
  <2>1. q \in Seq(Token) /\ t \in Seq(Token) =>
          /\ Len(q \o t) = Len(q) + Len(t) /\ Len(q) \in Nat
          /\ \A i \in 1..Len(q) : (q \o t)[i] = q[i]
          /\ \A i \in 1..Len(t) : (q \o t)[Len(q) + i] = t[i]
    BY ConcatPlaces
  <2>2. 1 \in 1..1
    OBVIOUS
  <2>. QED
    BY <1>1, <2>1, <2>2
<1>. HIDE DEF s, k
<1>4. BlockEnds(s, a) = BlockEnds(q, a)
  <2>1. ASSUME NEW j \in BlockEnds(s, a) PROVE j \in BlockEnds(q, a)
    <3>1. /\ j \in (a + 3)..(k + 1) /\ s[a] = "<terminal_context>" /\ s[a + 1] = "lf"
          /\ s[j - 1] = "lf" /\ s[j] = "</terminal_context>"
      BY <1>3, <2>1 DEF BlockEnds
    <3>2. j # k + 1
      BY <1>3, <3>1
    <3>3. j \in (a + 3)..k /\ j \in 1..k /\ j - 1 \in 1..k /\ a + 1 \in 1..k
      BY <1>2, <1>3, <3>1, <3>2
    <3>4. /\ q[a] = "<terminal_context>" /\ q[a + 1] = "lf"
          /\ q[j - 1] = "lf" /\ q[j] = "</terminal_context>"
      BY <1>2, <1>3, <3>1, <3>3
    <3>. QED
      BY <3>3, <3>4 DEF BlockEnds, k
  <2>2. ASSUME NEW j \in BlockEnds(q, a) PROVE j \in BlockEnds(s, a)
    <3>1. /\ j \in (a + 3)..k /\ q[a] = "<terminal_context>" /\ q[a + 1] = "lf"
          /\ q[j - 1] = "lf" /\ q[j] = "</terminal_context>"
      BY <2>2 DEF BlockEnds, k
    <3>3. j \in (a + 3)..(k + 1) /\ j \in 1..k /\ j - 1 \in 1..k /\ a + 1 \in 1..k
      BY <1>2, <1>3, <3>1
    <3>4. /\ s[a] = "<terminal_context>" /\ s[a + 1] = "lf"
          /\ s[j - 1] = "lf" /\ s[j] = "</terminal_context>"
      BY <1>2, <1>3, <3>1, <3>3
    <3>. QED
      BY <1>3, <3>3, <3>4 DEF BlockEnds
  <2>. QED
    BY <2>1, <2>2
<1>. QED
  BY <1>4 DEF s, t

\* Compaction of a message with terminal text.
LEMMA ScrubsMessage ==
  ASSUME NEW c \in Seq(Token), NEW q \in Seq(MessageTokens), c # <<>>
  PROVE  (Scrub(BuildRequest(c, q)) = BuildRequest(Marker, q)) <=>
           /\ ~Closes(c)
           /\ \A a \in DOMAIN q : BlockEnds(q, a) = {}
<1>. DEFINE m == BuildRequest(c, q)  n == Len(c)  e == MatchEnd(BlockEnds(m, 1))
            block == Block(Marker)  v == Question(q)
<1>1. q \in Seq(Token)
  BY SeqMonotonic DEF Token
<1>2. /\ m \in Seq(Token) /\ Len(m) = n + 10 + Len(q) /\ Len(q) \in Nat /\ n \in Nat \ {0}
      /\ SubSeq(m, n + 5, Len(m)) = v
  BY <1>1, MessagePlaces
<1>3. /\ BlockEnds(m, 1) # {} /\ e \in 4..(n + 4)
      /\ e = n + 4 <=> ~Closes(c)
  BY <1>1, FirstMatch
<1>4. (\A i \in (n + 5)..Len(m) : BlockEnds(m, i) = {})
        <=> \A a \in DOMAIN q : BlockEnds(q, a) = {}
  BY <1>1, LaterMatches
<1>5. Marker \in Seq(Token) /\ Marker # <<>>
  <2>1. "marker" \in Token
    BY TokenTuples
  <2>. QED
    BY <2>1 DEF Marker
<1>6. BuildRequest(Marker, q) = block \o v
  BY <1>1, <1>5, MessageIs
<1>7. v \in Seq(Token) /\ Len(v) = Len(q) + 6 /\ ~Marked(v)
  <2>1. /\ v \in Seq(Token) /\ Len(v) = Len(q) + 6
        /\ v[1] = "lf" /\ v[2] = "lf" /\ v[3] = "<user_question>" /\ v[4] = "lf"
        /\ \A i \in 1..Len(q) : v[i + 4] = q[i]
        /\ v[Len(q) + 5] = "lf" /\ v[Len(q) + 6] = "</user_question>"
    BY <1>1, QuestionPlaces
  <2>2. ASSUME NEW i \in 1..Len(v), v[i] = "marker" PROVE FALSE
    <3>1. /\ i = 1 \/ i = 2 \/ i = 3 \/ i = 4 \/ i = Len(q) + 5 \/ i = Len(q) + 6
             \/ (i - 4 \in 1..Len(q) /\ (i - 4) + 4 = i)
      BY <1>2, <2>1
    <3>2. i - 4 \in 1..Len(q) /\ (i - 4) + 4 = i
      BY <2>1, <2>2, <3>1
    <3>3. q[i - 4] = "marker"
      BY <2>1, <2>2, <3>2
    <3>4. q[i - 4] \in MessageTokens
      BY <3>2, ElementOfSeq
    <3>. QED
      BY <3>3, <3>4 DEF MessageTokens
  <2>. QED
    BY <2>1, <2>2 DEF Marked
<1>8. block \in Seq(Token)
  BY <1>5, BlockPlaces
<1>. HIDE DEF m, n, v, block
<1>9. PICK f, b : /\ Substitutes(f, m, b) /\ Scrub(m) = f[1]
                  /\ \A i \in 1..Len(m) : b[i] = Marker
  BY <1>2, ScrubSubstitutes
<1>10. f[1] = block \o f[e + 1]
  <2>1. 1 \in 1..(Len(m) + 1) /\ ~(1 > Len(m)) /\ 1 \in 1..Len(m)
    BY <1>2
  <2>. HIDE DEF e
  <2>2. f[1] = Block(b[1]) \o f[MatchEnd(BlockEnds(m, 1)) + 1]
    BY <1>3, <1>9, <2>1 DEF Substitutes
  <2>. QED
    BY <1>9, <2>1, <2>2 DEF e, block
<1>. HIDE DEF e
<1>11. /\ e + 1 \in 1..Len(m) + 1 /\ n + 5 \in 1..Len(m) + 1 /\ e + 1 <= Len(m)
       /\ Len(m) \in Int
  BY <1>2, <1>3
<1>12. /\ f[e + 1] \in Seq(Token)
       /\ (\A i \in (e + 1)..Len(m) : BlockEnds(m, i) = {}) \/ Marked(f[e + 1])
  BY <1>2, <1>9, <1>11, SubstituteMarks
<1>13. ASSUME Scrub(m) = block \o v
       PROVE  ~Closes(c) /\ \A i \in (n + 5)..Len(m) : BlockEnds(m, i) = {}
  <2>. DEFINE tail == f[e + 1]
  <2>1. block \o tail = block \o v
    BY <1>9, <1>10, <1>13
  <2>. HIDE DEF tail
  <2>2. tail \in Seq(Token)
    BY <1>12 DEF tail
  <2>3. tail = v
    BY <1>7, <1>8, <2>1, <2>2, ConcatSimplifications
  <2>4. \A i \in (e + 1)..Len(m) : BlockEnds(m, i) = {}
    BY <1>7, <1>12, <2>3 DEF tail
  <2>5. tail = SubSeq(m, e + 1, Len(m))
    BY <1>2, <1>9, <1>11, <2>4, SubstituteTail DEF tail
  <2>6. Len(SubSeq(m, e + 1, Len(m))) = Len(m) - (e + 1) + 1
    <3>1. \A i \in (e + 1)..Len(m) : i \in 1..Len(m)
      BY <1>11
    <3>2. e + 1 \in Int /\ \A i \in (e + 1)..Len(m) : m[i] \in Token
      BY <1>2, <1>11, <3>1, ElementOfSeq
    <3>. QED
      BY <1>11, <3>2, SubSeqProperties
  <2>7. Len(m) - (e + 1) + 1 = Len(q) + 6
    BY <1>7, <2>3, <2>5, <2>6
  <2>8. e = n + 4 /\ e + 1 = n + 5
    BY <1>2, <1>3, <2>7
  <2>. QED
    BY <1>3, <2>4, <2>8
<1>14. ASSUME ~Closes(c), \A i \in (n + 5)..Len(m) : BlockEnds(m, i) = {}
       PROVE  Scrub(m) = block \o v
  <2>1. e = n + 4 /\ e + 1 = n + 5
    BY <1>2, <1>3, <1>14
  <2>2. f[n + 5] = SubSeq(m, n + 5, Len(m))
    BY <1>2, <1>9, <1>11, <1>14, SubstituteTail
  <2>. QED
    BY <1>2, <1>9, <1>10, <2>1, <2>2
<1>. QED
  BY <1>4, <1>6, <1>13, <1>14 DEF m, n

\* Redaction of a message with terminal text.
LEMMA RedactsMessage ==
  ASSUME NEW c \in Seq(Token), NEW q \in Seq(Token), c # <<>>, NEW word,
         ~Closes(c), \A a \in DOMAIN q : BlockEnds(q, a) = {}
  PROVE  RedactTerminalContext(BuildRequest(c, q), word)
           = Block(Without(c, word)) \o SubSeq(BuildRequest(c, q), Len(c) + 5,
                                               Len(BuildRequest(c, q)))
<1>. DEFINE m == BuildRequest(c, q)  n == Len(c)  e == MatchEnd(BlockEnds(m, 1))
<1>1. /\ m \in Seq(Token) /\ Len(m) = n + 10 + Len(q) /\ Len(q) \in Nat /\ n \in Nat \ {0}
      /\ \A i \in 1..n : m[i + 2] = c[i]
  BY MessagePlaces
<1>2. BlockEnds(m, 1) # {} /\ e = n + 4
  BY FirstMatch
<1>3. \A i \in (n + 5)..Len(m) : BlockEnds(m, i) = {}
  BY LaterMatches
<1>. HIDE DEF m, n
<1>4. PICK f, b :
        /\ Substitutes(f, m, b) /\ RedactTerminalContext(m, word) = f[1]
        /\ \A i \in 1..Len(m) :
             b[i] = Without(SubSeq(m, i + 2, MatchEnd(BlockEnds(m, i)) - 2), word)
  <2>1. Len(m) \in Nat
    BY <1>1
  <2>2. \A x, y : Len(x) \in Nat => \E f, b :
        /\ Substitutes(f, x, b) /\ RedactTerminalContext(x, y) = f[1]
        /\ \A i \in 1..Len(x) :
             b[i] = Without(SubSeq(x, i + 2, MatchEnd(BlockEnds(x, i)) - 2), y)
    BY RedactionSubstitutes
  <2>. QED
    BY <2>1, <2>2
<1>5. b[1] = Without(c, word)
  <2>1. 1 \in 1..Len(m) /\ 1 + 2 = 3 /\ (n + 4) - 2 = n + 2
    BY <1>1
  <2>2. b[1] = Without(SubSeq(m, 1 + 2, e - 2), word)
    BY <1>4, <2>1
  <2>3. SubSeq(m, 3, n + 2) = c
    <3>. DEFINE lo == 3  hi == n + 2  part == SubSeq(m, lo, hi)
    <3>1. /\ lo \in Int /\ hi \in Int /\ lo <= hi /\ hi - lo + 1 = n
          /\ \A i \in lo..hi : i \in 1..Len(m)
          /\ \A i \in 1..n : lo + i - 1 = i + 2
      BY <1>1
    <3>2. \A i \in lo..hi : m[i] \in Token
      BY <1>1, <3>1, ElementOfSeq
    <3>. HIDE DEF lo, hi
    <3>3. /\ part \in Seq(Token)
          /\ Len(part) = IF lo <= hi THEN hi - lo + 1 ELSE 0
          /\ \A i \in 1..hi - lo + 1 : part[i] = m[lo + i - 1]
      BY <3>1, <3>2, SubSeqProperties
    <3>. HIDE DEF part
    <3>4. Len(c) = n /\ \A i \in 1..n : part[i] = c[i]
      BY <1>1, <3>1, <3>3 DEF n
    <3>5. part = c
      BY <3>1, <3>3, <3>4, SeqEqual
    <3>. QED
      BY <3>5 DEF part, lo, hi
  <2>. HIDE DEF e
  <2>. QED
    BY <1>2, <2>1, <2>2, <2>3
<1>6. f[1] = Block(b[1]) \o f[n + 5]
  <2>1. 1 \in 1..(Len(m) + 1) /\ ~(1 > Len(m)) /\ (n + 4) + 1 = n + 5
    BY <1>1
  <2>2. f[1] = Block(b[1]) \o f[MatchEnd(BlockEnds(m, 1)) + 1]
    BY <1>2, <1>4, <2>1 DEF Substitutes
  <2>. QED
    BY <1>2, <2>1, <2>2
<1>7. f[n + 5] = SubSeq(m, n + 5, Len(m))
  <2>1. n + 5 \in 1..Len(m) + 1
    BY <1>1
  <2>. QED
    BY <1>1, <1>3, <1>4, <2>1, SubstituteTail
<1>. QED
  BY <1>4, <1>5, <1>6, <1>7 DEF m, n

----------------------------------------------------------------------------
(* Markup that nests.                                                      *)

EndTags == {"</b>", "</i>", "</tt>"}
Tags == {"<b>", "<i>", "<tt>"} \cup EndTags

\* What Nest does with a tag, and with anything else.
LEMMA NestIs ==
  /\ \A due : Nest(due, "<b>") = Append(due, "</b>")
  /\ \A due : Nest(due, "<i>") = Append(due, "</i>")
  /\ \A due : Nest(due, "<tt>") = Append(due, "</tt>")
  /\ \A due : \A x : x \notin Tags => Nest(due, x) = due
  /\ \A due \in Seq(EndTags) : \A x \in EndTags : Nest(Append(due, x), x) = due
<1>1. /\ DOMAIN EndTag = {"<b>", "<i>", "<tt>"}
      /\ EndTag["<b>"] = "</b>" /\ EndTag["<i>"] = "</i>" /\ EndTag["<tt>"] = "</tt>"
  BY DEF EndTag
<1>. HIDE DEF EndTag
<1>2. Range(EndTag) = EndTags
  BY <1>1 DEF Range, EndTags
<1>3. \A due : /\ Nest(due, "<b>") = Append(due, "</b>")
               /\ Nest(due, "<i>") = Append(due, "</i>")
               /\ Nest(due, "<tt>") = Append(due, "</tt>")
  <2>1. "<b>" \in DOMAIN EndTag /\ "<i>" \in DOMAIN EndTag /\ "<tt>" \in DOMAIN EndTag
    BY <1>1
  <2>2. \A x \in DOMAIN EndTag : x \notin Range(EndTag)
    BY <1>1, <1>2 DEF EndTags
  <2>3. \A due : \A x \in DOMAIN EndTag : Nest(due, x) = Append(due, EndTag[x])
    BY <2>2 DEF Nest
  <2>. QED
    BY <1>1, <2>1, <2>3, Zenon
<1>4. \A due : \A x : x \notin Tags => Nest(due, x) = due
  BY <1>1, <1>2 DEF Nest, Tags
<1>5. ASSUME NEW due \in Seq(EndTags), NEW x \in EndTags
      PROVE  Nest(Append(due, x), x) = due
  <2>. DEFINE more == Append(due, x)
  <2>1. /\ more \in Seq(EndTags) /\ Len(more) = Len(due) + 1 /\ more[Len(due) + 1] = x
        /\ \A i \in 1..Len(due) : more[i] = due[i]
        /\ Len(due) \in Nat
    BY AppendProperties, LenProperties
  <2>2. x \notin DOMAIN EndTag
    BY <1>1 DEF EndTags
  <2>. HIDE DEF more
  <2>3. more # <<>> /\ Last(more) = x
    BY <2>1, EmptySeq DEF Last
  <2>4. Front(more) = due
    <3>1. 1 \in Int /\ Len(due) \in Int /\ Len(due) + 1 - 1 = Len(due)
      BY <2>1
    <3>. DEFINE n == Len(due)  part == SubSeq(more, 1, n)
    <3>2. Front(more) = part
      BY <2>1, <3>1 DEF Front
    <3>3. \A i \in 1..n : more[i] \in EndTags
      BY <2>1, ElementOfSeq
    <3>. HIDE DEF n
    <3>4. n \in Nat /\ n = Len(due)
      BY <2>1 DEF n
    <3>5. part \in Seq(EndTags) /\ Len(part) = n /\ \A i \in 1..n : part[i] = more[i]
      <4>1. /\ part \in Seq(EndTags)
            /\ Len(part) = IF 1 <= n THEN n - 1 + 1 ELSE 0
            /\ \A i \in 1..n - 1 + 1 : part[i] = more[1 + i - 1]
        BY <3>3, <3>4, SubSeqProperties
      <4>2. (IF 1 <= n THEN n - 1 + 1 ELSE 0) = n /\ n - 1 + 1 = n
            /\ \A i \in 1..n : 1 + i - 1 = i
        BY <3>4
      <4>. HIDE DEF part
      <4>. QED
        BY <4>1, <4>2
    <3>. HIDE DEF part
    <3>6. part = due
      BY <2>1, <3>4, <3>5, SeqEqual
    <3>. QED
      BY <3>2, <3>6
  <2>5. Nest(more, x) = Front(more)
    BY <1>2, <2>2, <2>3 DEF Nest
  <2>. QED
    BY <2>4, <2>5 DEF more
<1>. QED
  BY <1>3, <1>4, <1>5

\* What is due after each token.
Dues(f, markup) == \A k \in 1..Len(markup) : f[k] = Nest(f[k - 1], markup[k])

\* Some function says it, whatever is due at first.
LEMMA DuesExist ==
  ASSUME NEW markup, NEW before, NEW n \in Nat
  PROVE  \E f : f = [k \in 0..n |-> IF k = 0 THEN before ELSE Nest(f[k - 1], markup[k])]
<1>. DEFINE Step(f, k) == IF k = 0 THEN before ELSE Nest(f[k - 1], markup[k])
            Is0(f, m) == f = [k \in 0..m |-> Step(f, k)]
            G == {m \in Nat : \E f : Is0(f, m)}
<1>1. 0 \in G
  <2>. DEFINE f == [k \in 0..0 |-> before]
  <2>1. \A g : [k \in 0..0 |-> Step(g, k)] = f
    OBVIOUS
  <2>. HIDE DEF f, Step
  <2>. QED
    BY <2>1
<1>2. ASSUME NEW m \in Nat, m \in G PROVE m + 1 \in G
  <2>1. PICK f : Is0(f, m)
    BY <1>2
  <2>. DEFINE g == [k \in 0..(m + 1) |-> IF k = m + 1 THEN Step(f, k) ELSE f[k]]
  <2>2. \A k \in 0..m : f[k] = Step(f, k)
    <3>. HIDE DEF Step
    <3>. QED
      BY <2>1
  <2>3. \A k \in 0..(m + 1) : k # 0 => k - 1 \in 0..m
    OBVIOUS
  <2>4. \A k \in 0..m : g[k] = f[k]
    <3>1. \A k \in 0..m : k \in 0..(m + 1) /\ k # m + 1
      OBVIOUS
    <3>. HIDE DEF Step
    <3>. QED
      BY <3>1
  <2>5. g[m + 1] = Step(f, m + 1)
    <3>1. m + 1 \in 0..(m + 1)
      OBVIOUS
    <3>. HIDE DEF Step
    <3>. QED
      BY <3>1
  <2>6. g = [k \in 0..(m + 1) |-> g[k]]
    <3>. HIDE DEF Step
    <3>. QED
      OBVIOUS
  <2>. HIDE DEF g
  <2>7. \A k \in 0..(m + 1) : Step(f, k) = Step(g, k)
    BY <2>3, <2>4
  <2>8. \A k \in 0..(m + 1) : k = m + 1 \/ k \in 0..m
    OBVIOUS
  <2>. HIDE DEF Step
  <2>9. \A k \in 0..(m + 1) : g[k] = Step(g, k)
    BY <2>2, <2>4, <2>5, <2>7, <2>8
  <2>. QED
    BY <2>6, <2>9
<1>. HIDE DEF G
<1>3. Nat \subseteq G
  BY <1>1, <1>2, AllNaturals
<1>. QED
  BY <1>3 DEF G

\* Nesting is such a function.
LEMMA NestingIs ==
  ASSUME NEW markup, Len(markup) \in Nat
  PROVE  Nesting(markup)[0] = <<>> /\ Dues(Nesting(markup), markup)
<1>. DEFINE n == Len(markup)
            Sub(f) == f = [k \in 0..n |-> IF k = 0 THEN <<>> ELSE Nest(f[k - 1], markup[k])]
            due == CHOOSE f : Sub(f)
<1>1. \E f : Sub(f)
  <2>1. \E f : f = [k \in 0..Len(markup) |->
                      IF k = 0 THEN <<>> ELSE Nest(f[k - 1], markup[k])]
    <3>1. \A before : \A m \in Nat : \E f :
            f = [k \in 0..m |-> IF k = 0 THEN before ELSE Nest(f[k - 1], markup[k])]
      BY DuesExist
    <3>. QED
      BY <3>1, Zenon
  <2>. QED
    BY <2>1
<1>2. Sub(due)
  <2>. HIDE DEF Sub
  <2>. QED
    BY <1>1
<1>3. Nesting(markup) = due
  BY DEF Nesting
<1>. HIDE DEF due
<1>4. \A k \in 0..n : due[k] = IF k = 0 THEN <<>> ELSE Nest(due[k - 1], markup[k])
  BY <1>2
<1>5. 0 \in 0..n /\ \A k \in 1..n : k \in 0..n /\ k # 0
  OBVIOUS
<1>. QED
  BY <1>3, <1>4, <1>5 DEF Dues

\* From what is due before a text to what is due after it.
Nests(markup, before, after) ==
  \E f : f[0] = before /\ Dues(f, markup) /\ f[Len(markup)] = after

\* A text that leads from nothing to nothing can be shown.
LEMMA NestsParses ==
  ASSUME NEW markup, Len(markup) \in Nat, Nests(markup, <<>>, <<>>)
  PROVE  Parses(markup)
<1>1. PICK f : f[0] = <<>> /\ Dues(f, markup) /\ f[Len(markup)] = <<>>
  BY DEF Nests
<1>. DEFINE g == Nesting(markup)  n == Len(markup)
            G == {k \in Nat : k <= n => f[k] = g[k]}
<1>2. g[0] = <<>> /\ Dues(g, markup)
  BY NestingIs
<1>. HIDE DEF g
<1>3. 0 \in G
  BY <1>1, <1>2
<1>4. ASSUME NEW k \in Nat, k \in G PROVE k + 1 \in G
  <2>. SUFFICES ASSUME k + 1 <= n PROVE f[k + 1] = g[k + 1]
    OBVIOUS
  <2>1. k + 1 \in 1..n /\ (k + 1) - 1 = k /\ k <= n
    OBVIOUS
  <2>. QED
    BY <1>1, <1>2, <1>4, <2>1 DEF Dues
<1>. HIDE DEF G
<1>5. Nat \subseteq G
  BY <1>3, <1>4, AllNaturals
<1>6. n \in G /\ n <= n
  BY <1>5
<1>. QED
  BY <1>1, <1>6 DEF Parses, g, G

\* One token leads to what Nest says,
LEMMA NestsOne ==
  ASSUME NEW x, NEW before
  PROVE  Nests(<<x>>, before, Nest(before, x))
<1>. DEFINE f == [k \in 0..1 |-> IF k = 0 THEN before ELSE Nest(before, x)]
<1>1. f[0] = before /\ f[1] = Nest(before, x) /\ Len(<<x>>) = 1 /\ <<x>>[1] = x /\ 1 - 1 = 0
      /\ \A k \in 1..1 : k = 1
  OBVIOUS
<1>. HIDE DEF f
<1>. QED
  BY <1>1 DEF Nests, Dues

\* a text without tags to where it begins,
LEMMA NestsSame ==
  ASSUME NEW markup, Len(markup) \in Nat, NEW before,
         \A k \in 1..Len(markup) : markup[k] \notin Tags
  PROVE  Nests(markup, before, before)
<1>. DEFINE f == [k \in 0..Len(markup) |-> before]
<1>1. \A k \in 0..Len(markup) : f[k] = before
  OBVIOUS
<1>. HIDE DEF f
<1>2. 0 \in 0..Len(markup) /\ Len(markup) \in 0..Len(markup)
      /\ \A k \in 1..Len(markup) : k \in 0..Len(markup) /\ k - 1 \in 0..Len(markup)
  OBVIOUS
<1>3. \A k \in 1..Len(markup) : Nest(before, markup[k]) = before
  BY NestIs
<1>4. Dues(f, markup)
  BY <1>1, <1>2, <1>3 DEF Dues
<1>. QED
  BY <1>1, <1>2, <1>4 DEF Nests

\* two texts to where the second leads from where the first leads.
LEMMA NestsConcat ==
  ASSUME NEW S, NEW s \in Seq(S), NEW t \in Seq(S), NEW a, NEW b, NEW c,
         Nests(s, a, b), Nests(t, b, c)
  PROVE  Nests(s \o t, a, c)
<1>1. PICK f : f[0] = a /\ Dues(f, s) /\ f[Len(s)] = b
  BY DEF Nests
<1>2. PICK g : g[0] = b /\ Dues(g, t) /\ g[Len(t)] = c
  BY DEF Nests
<1>. DEFINE st == s \o t  m == Len(s)  n == Len(t)
            h == [k \in 0..(m + n) |-> IF k <= m THEN f[k] ELSE g[k - m]]
<1>3. /\ Len(st) = m + n /\ m \in Nat /\ n \in Nat
      /\ \A i \in 1..m : st[i] = s[i]
      /\ \A i \in 1..n : st[m + i] = t[i]
  BY ConcatPlaces
<1>. HIDE DEF st, m, n
<1>4. \A k \in 0..m : h[k] = f[k]
  BY <1>3
<1>5. \A k \in 0..n : h[m + k] = g[k]
  <2>. SUFFICES ASSUME NEW k \in 0..n PROVE h[m + k] = g[k]
    OBVIOUS
  <2>1. m + k \in 0..(m + n) /\ (m + k) - m = k /\ (m + k <= m => k = 0 /\ m + k = m)
    BY <1>3
  <2>2. h[m + k] = IF m + k <= m THEN f[m + k] ELSE g[(m + k) - m]
    BY <2>1
  <2>. HIDE DEF h
  <2>. QED
    BY <1>1, <1>2, <2>1, <2>2 DEF m
<1>. HIDE DEF h
<1>6. \A k \in 1..(m + n) : h[k] = Nest(h[k - 1], st[k])
  <2>. SUFFICES ASSUME NEW k \in 1..(m + n) PROVE h[k] = Nest(h[k - 1], st[k])
    OBVIOUS
  <2>1. CASE k <= m
    <3>1. k \in 1..m /\ k \in 0..m /\ k - 1 \in 0..m
      BY <1>3, <2>1
    <3>2. f[k] = Nest(f[k - 1], s[k])
      BY <1>1, <3>1 DEF Dues, m
    <3>. QED
      BY <1>3, <1>4, <3>1, <3>2
  <2>2. CASE ~(k <= m)
    <3>. DEFINE i == k - m
    <3>1. i \in 1..n /\ i \in 0..n /\ i - 1 \in 0..n /\ m + i = k /\ m + (i - 1) = k - 1
      BY <1>3, <2>2
    <3>. HIDE DEF i
    <3>2. g[i] = Nest(g[i - 1], t[i])
      BY <1>2, <3>1 DEF Dues, n
    <3>3. h[k] = g[i] /\ h[k - 1] = g[i - 1] /\ st[k] = t[i]
      BY <1>3, <1>5, <3>1
    <3>. QED
      BY <3>2, <3>3
  <2>. QED
    BY <2>1, <2>2
<1>7. h[0] = a /\ h[m + n] = c
  <2>1. 0 \in 0..m /\ n \in 0..n
    BY <1>3
  <2>. QED
    BY <1>1, <1>2, <1>4, <1>5, <2>1 DEF n
<1>. QED
  BY <1>3, <1>6, <1>7 DEF Nests, Dues, st

----------------------------------------------------------------------------
(* SubSpans, one match at a time.                                          *)

\* f[i] is the text from i on with the span that begins at each i', if ends[i'] has
\* an end for it, between tags.
Spans(f, text1, ends, open, close, width) ==
  f = [i \in 1..(Len(text1) + 1) |->
        IF i > Len(text1) THEN <<>>
        ELSE IF ends[i] = {} THEN <<text1[i]>> \o f[i + 1]
        ELSE <<open>> \o SubSeq(text1, i + width, Min(ends[i]) - width)
               \o <<close>> \o f[Min(ends[i]) + 1]]

\* f[i] is a piece, followed by what stands further on.
Pieces(f, L, piece, next) ==
  f = [i \in 1..(L + 1) |-> IF i > L THEN <<>> ELSE piece[i] \o f[next[i]]]

\* Some function is.
LEMMA PiecesExist ==
  ASSUME NEW L \in Nat, NEW piece, NEW next, \A i \in 1..L : next[i] \in (i + 1)..(L + 1)
  PROVE  \E f : Pieces(f, L, piece, next)
<1>. DEFINE Step(f, i) == IF i > L THEN <<>> ELSE piece[i] \o f[next[i]]
            From(f, p) == f = [i \in p..(L + 1) |-> Step(f, i)]
            G == {n \in Nat : n <= L => \E f : From(f, L + 1 - n)}
<1>1. 0 \in G
  <2>. DEFINE f == [i \in (L + 1)..(L + 1) |-> <<>>]
  <2>1. \A g : [i \in (L + 1)..(L + 1) |-> Step(g, i)] = f
    <3>1. \A g : \A i \in (L + 1)..(L + 1) : Step(g, i) = <<>>
      OBVIOUS
    <3>. HIDE DEF Step
    <3>. QED
      BY <3>1
  <2>. HIDE DEF Step, f
  <2>2. From(f, L + 1)
    BY <2>1
  <2>3. L + 1 - 0 = L + 1
    OBVIOUS
  <2>. QED
    BY <2>2, <2>3
<1>2. ASSUME NEW n \in Nat, n \in G PROVE n + 1 \in G
  <2>. SUFFICES ASSUME n + 1 <= L PROVE \E f : From(f, L + 1 - (n + 1))
    <3>. HIDE DEF From
    <3>. QED
      OBVIOUS
  <2>. DEFINE p == L - n
  <2>1. p \in 1..L /\ L + 1 - (n + 1) = p /\ L + 1 - n = p + 1 /\ n <= L
    OBVIOUS
  <2>. HIDE DEF p
  <2>2. PICK f : From(f, p + 1)
    BY <1>2, <2>1
  <2>. DEFINE g == [i \in p..(L + 1) |-> IF i = p THEN Step(f, p) ELSE f[i]]
  <2>3. \A i \in (p + 1)..(L + 1) : g[i] = f[i] /\ i # p /\ i \in p..(L + 1)
    BY <2>1
  <2>4. g[p] = Step(f, p)
    <3>1. p \in p..(L + 1)
      BY <2>1
    <3>. HIDE DEF Step
    <3>. QED
      BY <3>1
  <2>5. g = [i \in p..(L + 1) |-> g[i]]
    <3>. HIDE DEF Step
    <3>. QED
      OBVIOUS
  <2>. HIDE DEF g
  <2>6. \A i \in p..(L + 1) : Step(f, i) = Step(g, i)
    <3>1. \A i \in p..L : i \in 1..L /\ next[i] \in (p + 1)..(L + 1)
      <4>. SUFFICES ASSUME NEW i \in p..L PROVE i \in 1..L /\ next[i] \in (p + 1)..(L + 1)
        OBVIOUS
      <4>1. i \in 1..L
        BY <2>1
      <4>2. next[i] \in (i + 1)..(L + 1)
        BY <4>1
      <4>. QED
        BY <2>1, <4>1, <4>2
    <3>2. \A i \in p..(L + 1) : i > L \/ (i \in p..L /\ ~(i > L))
      BY <2>1
    <3>. QED
      BY <2>3, <3>1, <3>2
  <2>7. \A i \in (p + 1)..(L + 1) : f[i] = Step(f, i)
    <3>. HIDE DEF Step
    <3>. QED
      BY <2>2
  <2>8. \A i \in p..(L + 1) : i = p \/ i \in (p + 1)..(L + 1)
    BY <2>1
  <2>. HIDE DEF Step
  <2>9. \A i \in p..(L + 1) : g[i] = Step(g, i)
    BY <2>3, <2>4, <2>6, <2>7, <2>8
  <2>10. From(g, p)
    BY <2>5, <2>9
  <2>. HIDE DEF From
  <2>. QED
    BY <2>1, <2>10
<1>. HIDE DEF G
<1>3. Nat \subseteq G
  BY <1>1, <1>2, AllNaturals
<1>4. L \in G /\ L + 1 - L = 1 /\ L <= L
  BY <1>3
<1>5. \E f : From(f, 1)
  <2>. HIDE DEF From
  <2>. QED
    BY <1>4 DEF G
<1>. QED
  BY <1>5 DEF Pieces

\* The end of a span is the first that is possible.
LEMMA SpanEnd ==
  ASSUME NEW L \in Nat, NEW i \in 1..L, NEW set, set \subseteq i..L, set # {}
  PROVE  Min(set) \in set /\ Min(set) \in i..L /\ \A j \in set : Min(set) <= j
<1>1. set \subseteq Nat
  OBVIOUS
<1>2. \E j \in set : \A k \in set : j <= k
  BY <1>1, LeastNatural
<1>. QED
  BY <1>2 DEF Min

\* Some function has spans between tags.
LEMMA SpansExist ==
  ASSUME NEW h, Len(h) \in Nat, NEW ends, \A i \in 1..Len(h) : ends[i] \subseteq i..Len(h),
         NEW open, NEW close, NEW width
  PROVE  \E f : Spans(f, h, ends, open, close, width)
<1>. DEFINE L == Len(h)
            Tagged(i) == <<open>> \o SubSeq(h, i + width, Min(ends[i]) - width) \o <<close>>
            Piece(i) == IF ends[i] = {} THEN <<h[i]>> ELSE Tagged(i)
            Next1(i) == IF ends[i] = {} THEN i + 1 ELSE Min(ends[i]) + 1
            piece == [i \in 1..L |-> Piece(i)]
            next == [i \in 1..L |-> Next1(i)]
<1>1. \A i \in 1..L : Next1(i) \in (i + 1)..(L + 1)
  <2>. SUFFICES ASSUME NEW i \in 1..L PROVE Next1(i) \in (i + 1)..(L + 1)
    OBVIOUS
  <2>1. CASE ends[i] = {}
    BY <2>1
  <2>2. CASE ends[i] # {}
    <3>1. Min(ends[i]) \in i..L
      BY <2>2, SpanEnd
    <3>. QED
      BY <2>2, <3>1
  <2>. QED
    BY <2>1, <2>2
<1>. HIDE DEF L
<1>2. \A i \in 1..L : piece[i] = Piece(i) /\ next[i] = Next1(i)
  <2>. HIDE DEF Piece, Next1
  <2>. QED
    OBVIOUS
<1>3. \A i \in 1..L : next[i] \in (i + 1)..(L + 1)
  <2>. HIDE DEF Next1, next
  <2>. QED
    BY <1>1, <1>2
<1>. HIDE DEF piece, next
<1>4. PICK f : Pieces(f, L, piece, next)
  <2>1. L \in Nat
    BY DEF L
  <2>. QED
    BY <1>3, <2>1, PiecesExist
<1>5. \A i \in 1..(L + 1) :
        (IF i > L THEN <<>> ELSE piece[i] \o f[next[i]])
          = IF i > L THEN <<>>
            ELSE IF ends[i] = {} THEN <<h[i]>> \o f[i + 1]
            ELSE Tagged(i) \o f[Min(ends[i]) + 1]
  <2>1. \A i \in 1..(L + 1) : i > L \/ (i \in 1..L /\ ~(i > L))
    BY DEF L
  <2>2. \A i \in 1..L : piece[i] \o f[next[i]]
          = IF ends[i] = {} THEN <<h[i]>> \o f[i + 1] ELSE Tagged(i) \o f[Min(ends[i]) + 1]
    <3>. HIDE DEF Tagged
    <3>. QED
      BY <1>2
  <2>. HIDE DEF Tagged, Piece, Next1
  <2>. QED
    BY <2>1, <2>2
<1>. HIDE DEF Piece, Next1
<1>6. f = [i \in 1..(L + 1) |->
            IF i > L THEN <<>>
            ELSE IF ends[i] = {} THEN <<h[i]>> \o f[i + 1]
            ELSE Tagged(i) \o f[Min(ends[i]) + 1]]
  <2>. HIDE DEF Tagged
  <2>. QED
    BY <1>4, <1>5 DEF Pieces
<1>. QED
  BY <1>6 DEF Spans, L

\* Without spans the text stays.
LEMMA SpansNone ==
  ASSUME NEW S, NEW h \in Seq(S), NEW ends, \A i \in 1..Len(h) : ends[i] = {},
         NEW open, NEW close, NEW width, NEW f, Spans(f, h, ends, open, close, width)
  PROVE  f[1] = h
<1>. DEFINE L == Len(h)
            G == {n \in Nat : L + 1 - n >= 1 => f[L + 1 - n] = SubSeq(h, L + 1 - n, L)}
<1>1. L \in Nat
  BY LenProperties
<1>2. f[L + 1] = <<>> /\ \A i \in 1..L : f[i] = <<h[i]>> \o f[i + 1]
  <2>1. L + 1 \in 1..(L + 1) /\ L + 1 > L /\ \A i \in 1..L : i \in 1..(L + 1) /\ ~(i > L)
    BY <1>1
  <2>2. \A i \in 1..(Len(h) + 1) : f[i] =
          IF i > Len(h) THEN <<>>
          ELSE IF ends[i] = {} THEN <<h[i]>> \o f[i + 1]
          ELSE <<open>> \o SubSeq(h, i + width, Min(ends[i]) - width)
                 \o <<close>> \o f[Min(ends[i]) + 1]
    BY DEF Spans
  <2>. QED
    BY <2>1, <2>2
<1>3. 0 \in G
  <2>1. L + 1 - 0 = L + 1 /\ L + 1 \in Int /\ L \in Int /\ L < L + 1
    BY <1>1
  <2>2. SubSeq(h, L + 1, L) = <<>>
    BY <2>1, SubSeqEmpty
  <2>. QED
    BY <1>2, <2>1, <2>2
<1>4. ASSUME NEW n \in Nat, n \in G PROVE n + 1 \in G
  <2>. SUFFICES ASSUME L + 1 - (n + 1) >= 1
                PROVE f[L + 1 - (n + 1)] = SubSeq(h, L + 1 - (n + 1), L)
    OBVIOUS
  <2>. DEFINE i == L - n
  <2>1. /\ i \in 1..L /\ L \in i..L
        /\ L + 1 - (n + 1) = i /\ L + 1 - n = i + 1 /\ i + 1 >= 1
    BY <1>1
  <2>. HIDE DEF i
  <2>2. f[i + 1] = SubSeq(h, i + 1, L)
    BY <1>4, <2>1
  <2>3. SubSeq(h, i, L) = <<h[i]>> \o SubSeq(h, i + 1, L)
    BY <2>1, SubSeqRecursiveFirst
  <2>. QED
    BY <1>2, <2>1, <2>2, <2>3
<1>. HIDE DEF G
<1>5. Nat \subseteq G
  BY <1>3, <1>4, AllNaturals
<1>6. L \in G /\ L + 1 - L = 1 /\ 1 >= 1
  BY <1>1, <1>5
<1>. QED
  BY <1>6, SubSeqFull DEF G

----------------------------------------------------------------------------
(* Text with headings, token by token.                                     *)

Quiet == {"word", "*", "tick", "head", "&lt;b&gt;"}
Untagged == Quiet \cup {"lf"}
Markup == Untagged \cup Tags

\* From where a token leads to where: the start of a line, a line without a
\* heading, a heading and what follows a heading.
Goes(q, x, r) ==
  \/ x = "<b>" /\ q = "start" /\ r = "heading"
  \/ x = "</b>" /\ q = "heading" /\ r = "closed"
  \/ x = "lf" /\ q \in {"start", "plain", "closed"} /\ r = "start"
  \/ x \in Quiet /\ q \in {"start", "plain"} /\ r = "plain"
  \/ x \in Quiet /\ q = "heading" /\ r = "heading"

Ruled(h, q) == q[0] = "start" /\ \A k \in 1..Len(h) : Goes(q[k - 1], h[k], q[k])

\* What is due there.
Due(q) == IF q = "heading" THEN <<"</b>">> ELSE <<>>

\* Nest keeps account of it.
LEMMA NestGoes ==
  ASSUME NEW q, NEW x, NEW r, Goes(q, x, r)
  PROVE  Nest(Due(q), x) = Due(r) /\ x \in Markup /\ Due(q) \in Seq(EndTags)
<1>1. Append(<<>>, "</b>") = <<"</b>">>
  OBVIOUS
<1>2. <<>> \in Seq(EndTags) /\ "</b>" \in EndTags
  BY EmptySeq DEF EndTags
<1>3. Nest(<<>>, "<b>") = <<"</b>">> /\ Nest(<<"</b>">>, "</b>") = <<>>
  BY <1>1, <1>2, NestIs
<1>4. \A due : \A y \in Untagged : Nest(due, y) = due
  <2>1. \A y \in Untagged : y \notin Tags
    BY DEF Untagged, Quiet, Tags, EndTags
  <2>. QED
    BY <2>1, NestIs
<1>5. <<"</b>">> \in Seq(EndTags)
  BY <1>1, <1>2, AppendProperties
<1>6. Due("heading") = <<"</b>">> /\ Due("start") = <<>> /\ Due("plain") = <<>>
      /\ Due("closed") = <<>>
  BY DEF Due
<1>7. {"<b>", "</b>"} \subseteq Markup /\ Untagged \subseteq Markup
      /\ Quiet \subseteq Untagged /\ "lf" \in Untagged
  BY DEF Markup, Tags, EndTags, Untagged
<1>8. CASE x = "<b>" /\ q = "start" /\ r = "heading"
  BY <1>2, <1>3, <1>6, <1>7, <1>8
<1>9. CASE x = "</b>" /\ q = "heading" /\ r = "closed"
  BY <1>3, <1>5, <1>6, <1>7, <1>9
<1>10. CASE x = "lf" /\ q \in {"start", "plain", "closed"} /\ r = "start"
  <2>1. Due(q) = <<>> /\ Due(r) = <<>>
    BY <1>6, <1>10
  <2>. QED
    BY <1>2, <1>4, <1>7, <1>10, <2>1
<1>11. CASE x \in Quiet /\ q \in {"start", "plain"} /\ r = "plain"
  <2>1. Due(q) = <<>> /\ Due(r) = <<>>
    BY <1>6, <1>11
  <2>. QED
    BY <1>2, <1>4, <1>7, <1>11, <2>1
<1>12. CASE x \in Quiet /\ q = "heading" /\ r = "heading"
  BY <1>4, <1>5, <1>6, <1>7, <1>12
<1>. QED
  BY <1>8, <1>9, <1>10, <1>11, <1>12 DEF Goes

\* A span of emphasis has no tags inside, and ends where it begins: both in a
\* heading or neither.
LEMMA SpanInside ==
  ASSUME NEW h, NEW q, Len(h) \in Nat, Ruled(h, q), NEW sign \in {"*", "tick"},
         NEW i \in 1..Len(h), NEW j \in 1..Len(h), Enclosed(h, i, j, sign)
  PROVE  /\ \A k \in (i + 1)..(j - 1) : h[k] \notin Tags
         /\ Due(q[j]) = Due(q[i - 1])
<1>1. /\ j >= i + 2 /\ h[i] = sign /\ h[j] = sign
      /\ \A k \in (i + 1)..(j - 1) : h[k] # "lf"
  BY DEF Enclosed
<1>2. /\ sign \in Quiet /\ sign # "lf" /\ sign # "<b>" /\ sign # "</b>"
      /\ \A x \in Quiet : x \notin Tags
  BY DEF Quiet, Tags, EndTags
<1>3. \A k \in 1..Len(h) : Goes(q[k - 1], h[k], q[k])
  BY DEF Ruled
<1>. DEFINE In(k) == q[k] \in {"plain", "heading"} /\ Due(q[k]) = Due(q[i - 1])
            G == {k \in Nat : i + k <= j - 1 => In(i + k)}
<1>4. \A k \in 1..Len(h) :
        q[k - 1] \in {"start", "plain", "heading"} /\ h[k] \in Quiet /\ h[k] # "lf"
          => q[k] \in {"plain", "heading"} /\ Due(q[k]) = Due(q[k - 1])
  <2>. SUFFICES ASSUME NEW k \in 1..Len(h),
                       q[k - 1] \in {"start", "plain", "heading"}, h[k] \in Quiet, h[k] # "lf"
                PROVE  q[k] \in {"plain", "heading"} /\ Due(q[k]) = Due(q[k - 1])
    OBVIOUS
  <2>1. h[k] # "<b>" /\ h[k] # "</b>"
    BY <1>2 DEF Quiet
  <2>2. Goes(q[k - 1], h[k], q[k])
    BY <1>3
  <2>3. \/ q[k - 1] \in {"start", "plain"} /\ q[k] = "plain"
        \/ q[k - 1] = "heading" /\ q[k] = "heading"
    BY <2>1, <2>2 DEF Goes
  <2>. QED
    BY <2>3 DEF Due
<1>5. 0 \in G
  <2>1. i + 0 = i
    OBVIOUS
  <2>2. q[i - 1] \in {"start", "plain", "heading"}
    BY <1>1, <1>2, <1>3 DEF Goes
  <2>3. In(i)
    BY <1>1, <1>2, <1>4, <2>2
  <2>. QED
    BY <2>1, <2>3
<1>6. \A p \in (i + 1)..(j - 1) : In(p - 1) => h[p] \in Quiet
  <2>. SUFFICES ASSUME NEW p \in (i + 1)..(j - 1), In(p - 1) PROVE h[p] \in Quiet
    OBVIOUS
  <2>1. p \in 1..Len(h) /\ p + 1 \in 1..Len(h) /\ (p + 1) - 1 = p
        /\ (p + 1 = j \/ p + 1 \in (i + 1)..(j - 1))
    OBVIOUS
  <2>2. Goes(q[p - 1], h[p], q[p]) /\ Goes(q[p], h[p + 1], q[p + 1])
    BY <1>3, <2>1
  <2>3. h[p] # "lf" /\ h[p + 1] # "lf"
    BY <1>1, <1>2, <2>1
  <2>4. q[p] # "closed"
    BY <2>2, <2>3 DEF Goes
  <2>5. h[p] # "</b>"
    BY <2>2, <2>4 DEF Goes, Quiet
  <2>6. h[p] # "<b>"
    BY <2>2 DEF Goes, Quiet
  <2>. QED
    BY <2>2, <2>3, <2>5, <2>6 DEF Goes
<1>7. ASSUME NEW k \in Nat, k \in G PROVE k + 1 \in G
  <2>. SUFFICES ASSUME i + (k + 1) <= j - 1 PROVE In(i + (k + 1))
    <3>. HIDE DEF In
    <3>. QED
      OBVIOUS
  <2>. DEFINE p == i + (k + 1)
  <2>1. p \in (i + 1)..(j - 1) /\ p \in 1..Len(h) /\ p - 1 = i + k /\ i + k <= j - 1
    OBVIOUS
  <2>. HIDE DEF p
  <2>2. In(p - 1)
    <3>. HIDE DEF In
    <3>. QED
      BY <1>7, <2>1
  <2>3. h[p] \in Quiet /\ h[p] # "lf"
    BY <1>1, <1>6, <2>1, <2>2
  <2>4. In(p)
    BY <1>4, <2>1, <2>2, <2>3
  <2>. HIDE DEF In
  <2>. QED
    BY <2>4 DEF p
<1>. HIDE DEF G
<1>8. Nat \subseteq G
  BY <1>5, <1>7, AllNaturals
<1>9. \A p \in i..(j - 1) : In(p)
  <2>. SUFFICES ASSUME NEW p \in i..(j - 1) PROVE In(p)
    <3>. HIDE DEF In
    <3>. QED
      OBVIOUS
  <2>1. p - i \in Nat /\ i + (p - i) = p /\ p <= j - 1
    OBVIOUS
  <2>2. p - i \in G
    BY <1>8, <2>1
  <2>. HIDE DEF In
  <2>. QED
    BY <2>1, <2>2 DEF G
<1>10. \A k \in (i + 1)..(j - 1) : h[k] \notin Tags
  <2>1. \A k \in (i + 1)..(j - 1) : k - 1 \in i..(j - 1)
    OBVIOUS
  <2>. HIDE DEF In
  <2>. QED
    BY <1>2, <1>6, <1>9, <2>1
<1>11. Due(q[j]) = Due(q[i - 1])
  <2>1. j - 1 \in i..(j - 1)
    BY <1>1
  <2>2. In(j - 1)
    <3>. HIDE DEF In
    <3>. QED
      BY <1>9, <2>1
  <2>. QED
    BY <1>1, <1>2, <1>4, <2>2
<1>. QED
  BY <1>10, <1>11

\* The tags of emphasis nest in a ruled text.
LEMMA SpansNest ==
  ASSUME NEW T, T \subseteq Markup, NEW h \in Seq(T), NEW q, Ruled(h, q), NEW sign \in {"*", "tick"},
         NEW open \in T, NEW close \in T,
         \/ open = "<i>" /\ close = "</i>"
         \/ open = "<tt>" /\ close = "</tt>",
         NEW ends, \A i \in 1..Len(h) : ends[i] \subseteq i..Len(h),
         \A i \in 1..Len(h) : \A j \in ends[i] : Enclosed(h, i, j, sign),
         NEW f, Spans(f, h, ends, open, close, 1)
  PROVE  f[1] \in Seq(T) /\ Nests(f[1], <<>>, Due(q[Len(h)]))
<1>. DEFINE L == Len(h)
            Good(i) == f[i] \in Seq(T) /\ Nests(f[i], Due(q[i - 1]), Due(q[L]))
            G == {n \in Nat : \A i \in 1..L + 1 : i >= L + 1 - n => Good(i)}
<1>1. L \in Nat
  BY LenProperties
<1>2. /\ f[L + 1] = <<>>
      /\ \A i \in 1..L : f[i] =
           IF ends[i] = {} THEN <<h[i]>> \o f[i + 1]
           ELSE <<open>> \o SubSeq(h, i + 1, Min(ends[i]) - 1)
                  \o <<close>> \o f[Min(ends[i]) + 1]
  <2>1. L + 1 \in 1..(L + 1) /\ L + 1 > L /\ \A i \in 1..L : i \in 1..(L + 1) /\ ~(i > L)
    BY <1>1
  <2>2. \A i \in 1..(Len(h) + 1) : f[i] =
          IF i > Len(h) THEN <<>>
          ELSE IF ends[i] = {} THEN <<h[i]>> \o f[i + 1]
          ELSE <<open>> \o SubSeq(h, i + 1, Min(ends[i]) - 1)
                 \o <<close>> \o f[Min(ends[i]) + 1]
    BY DEF Spans
  <2>. QED
    BY <2>1, <2>2
<1>3. /\ \A k \in 1..L : Goes(q[k - 1], h[k], q[k])
      /\ q[0] = "start"
  BY DEF Ruled
<1>4. \A x \in T : <<x>> \in Seq(T)
  OBVIOUS
<1>5. close \in EndTags
      /\ \A due : Nest(due, open) = Append(due, close)
  <2>1. {"</i>", "</tt>"} \subseteq EndTags
    BY DEF EndTags
  <2>. QED
    BY <2>1, NestIs
<1>6. 0 \in G
  <2>. SUFFICES Good(L + 1)
    <3>1. \A i \in 1..L + 1 : i >= L + 1 - 0 => i = L + 1
      BY <1>1
    <3>. HIDE DEF Good
    <3>. QED
      BY <3>1
  <2>1. Len(<<>>) = 0 /\ <<>> \in Seq(T) /\ L + 1 - 1 = L /\ \A k \in 1..0 : FALSE
    BY <1>1, EmptySeq
  <2>2. Nests(<<>>, Due(q[L]), Due(q[L]))
    BY <2>1, NestsSame
  <2>. QED
    BY <1>2, <2>1, <2>2
<1>7. ASSUME NEW n \in Nat, n \in G PROVE n + 1 \in G
  <2>. SUFFICES ASSUME NEW i \in 1..L + 1, i >= L + 1 - (n + 1) PROVE Good(i)
    <3>. HIDE DEF Good
    <3>. QED
      OBVIOUS
  <2>1. CASE i >= L + 1 - n
    <3>. HIDE DEF Good
    <3>. QED
      BY <1>7, <2>1
  <2>2. CASE ~(i >= L + 1 - n)
    <3>1. i \in 1..L /\ \A k \in 1..L + 1 : k > i => k >= L + 1 - n
      BY <1>1, <2>2
    <3>2. \A k \in 1..L + 1 : k > i => Good(k)
      <4>. HIDE DEF Good
      <4>. QED
        BY <1>7, <3>1
    <3>3. CASE ends[i] = {}
      <4>. DEFINE one == <<h[i]>>  tail == f[i + 1]
      <4>1. i + 1 \in 1..L + 1 /\ i + 1 > i /\ (i + 1) - 1 = i
        BY <3>1
      <4>2. tail \in Seq(T) /\ Nests(tail, Due(q[i]), Due(q[L]))
        BY <3>2, <4>1
      <4>3. f[i] = one \o tail
        BY <1>2, <3>1, <3>3
      <4>4. one \in Seq(T)
        BY <1>4, <3>1, ElementOfSeq
      <4>5. Nest(Due(q[i - 1]), h[i]) = Due(q[i])
        BY <1>3, <3>1, NestGoes
      <4>6. Nests(one, Due(q[i - 1]), Due(q[i]))
        <5>1. Nests(<<h[i]>>, Due(q[i - 1]), Nest(Due(q[i - 1]), h[i]))
          BY NestsOne
        <5>. QED
          BY <4>5, <5>1
      <4>. HIDE DEF one, tail
      <4>7. one \o tail \in Seq(T)
        BY <4>2, <4>4, ConcatProperties
      <4>8. Nests(one \o tail, Due(q[i - 1]), Due(q[L]))
        BY <4>2, <4>4, <4>6, NestsConcat
      <4>. QED
        BY <4>3, <4>7, <4>8
    <3>4. CASE ends[i] # {}
      <4>. DEFINE j == Min(ends[i])  due == Due(q[i - 1])
                  first == <<open>>  mid == SubSeq(h, i + 1, j - 1)  last == <<close>>
                  tail == f[j + 1]
      <4>1. j \in ends[i] /\ j \in i..L
        BY <1>1, <3>1, <3>4, SpanEnd
      <4>2. f[i] = first \o mid \o last \o tail
        BY <1>2, <3>1, <3>4
      <4>. HIDE DEF j
      <4>3. Enclosed(h, i, j, sign) /\ j \in 1..Len(h)
        BY <3>1, <4>1
      <4>4. (\A k \in (i + 1)..(j - 1) : h[k] \notin Tags) /\ Due(q[j]) = due
        BY <1>1, <3>1, <4>3, SpanInside
      <4>5. tail \in Seq(T) /\ Nests(tail, due, Due(q[L]))
        <5>1. j + 1 \in 1..L + 1 /\ j + 1 > i /\ (j + 1) - 1 = j
          BY <1>1, <3>1, <4>1
        <5>2. Good(j + 1)
          <6>. HIDE DEF Good
          <6>. QED
            BY <3>2, <5>1
        <5>. QED
          BY <4>4, <5>1, <5>2
      <4>6. mid \in Seq(T) /\ Len(mid) \in Nat /\ \A k \in 1..Len(mid) : mid[k] \notin Tags
        <5>1. i + 1 \in Int /\ j - 1 \in Int /\ \A k \in (i + 1)..(j - 1) : k \in 1..Len(h)
          BY <3>1, <4>3
        <5>2. \A k \in (i + 1)..(j - 1) : h[k] \in T \ Tags
          BY <4>4, <5>1, ElementOfSeq
        <5>3. mid \in Seq(T \ Tags)
          BY <5>1, <5>2, SubSeqProperties
        <5>. HIDE DEF mid
        <5>4. mid \in Seq(T)
          BY <5>3, SeqMonotonic
        <5>5. \A k \in 1..Len(mid) : mid[k] \in T \ Tags
          BY <5>3, ElementOfSeq
        <5>. QED
          BY <5>4, <5>5, LenProperties
      <4>7. first \in Seq(T) /\ last \in Seq(T)
        BY <1>4, <1>5
      <4>8. due \in Seq(EndTags)
        BY <1>3, <3>1, NestGoes
      <4>. DEFINE more == Append(due, close)
      <4>9. Nests(first, due, more)
        <5>1. Nests(<<open>>, due, Nest(due, open))
          BY NestsOne
        <5>. QED
          BY <1>5, <5>1
      <4>10. Nests(last, more, due)
        <5>1. Nests(<<close>>, more, Nest(more, close))
          BY NestsOne
        <5>2. Nest(more, close) = due
          BY <1>5, <4>8, NestIs
        <5>. QED
          BY <5>1, <5>2
      <4>11. Nests(mid, more, more)
        <5>. HIDE DEF mid, more
        <5>. QED
          BY <4>6, NestsSame
      <4>. DEFINE fm == first \o mid
      <4>. HIDE DEF first, mid, last, tail, more, due
      <4>12. fm \in Seq(T) /\ Nests(fm, due, more)
        BY <4>6, <4>7, <4>9, <4>11, NestsConcat, ConcatProperties
      <4>. DEFINE fml == fm \o last
      <4>. HIDE DEF fm
      <4>13. fml \in Seq(T) /\ Nests(fml, due, due)
        BY <4>7, <4>10, <4>12, NestsConcat, ConcatProperties
      <4>. HIDE DEF fml
      <4>14. fml \o tail \in Seq(T) /\ Nests(fml \o tail, due, Due(q[L]))
        BY <4>5, <4>13, NestsConcat, ConcatProperties
      <4>. QED
        BY <4>2, <4>14 DEF fml, fm, due
    <3>. QED
      BY <3>3, <3>4
  <2>. QED
    BY <2>1, <2>2
<1>. HIDE DEF G
<1>8. Nat \subseteq G
  BY <1>6, <1>7, AllNaturals
<1>9. Good(1)
  <2>1. L \in G /\ 1 \in 1..L + 1 /\ 1 >= L + 1 - L
    BY <1>1, <1>8
  <2>. HIDE DEF Good
  <2>. QED
    BY <2>1 DEF G
<1>10. 1 - 1 = 0 /\ Due("start") = <<>>
  BY DEF Due
<1>. QED
  BY <1>3, <1>9, <1>10

----------------------------------------------------------------------------
(* Headings.                                                               *)

HeadStarts(t) ==
  {i \in DOMAIN t : /\ t[i] = "head" /\ (i = 1 \/ t[i - 1] = "lf")
                    /\ i < Len(t) /\ t[i + 1] # "lf"}

HeadEnd(t, i) == Min({j \in i..Len(t) : j = Len(t) \/ t[j + 1] = "lf"})

HeadCloses(t) == {HeadEnd(t, i) : i \in HeadStarts(t)}

Headed(t) ==
  [k \in DOMAIN t |-> (IF k \in HeadStarts(t) THEN <<"<b>">> ELSE <<t[k]>>)
                        \o (IF k \in HeadCloses(t) THEN <<"</b>">> ELSE <<>>)]

\* A heading has no line end, and a line end or nothing behind it.
LEMMA HeadIs ==
  ASSUME NEW S, NEW t \in Seq(S), NEW i \in HeadStarts(t)
  PROVE  /\ i \in 1..Len(t) /\ t[i] = "head" /\ (i = 1 \/ t[i - 1] = "lf")
         /\ HeadEnd(t, i) \in (i + 1)..Len(t)
         /\ \A p \in i..HeadEnd(t, i) : t[p] # "lf"
         /\ HeadEnd(t, i) = Len(t) \/ t[HeadEnd(t, i) + 1] = "lf"
<1>. DEFINE L == Len(t)  set == {j \in i..L : j = L \/ t[j + 1] = "lf"}  e == HeadEnd(t, i)
<1>1. /\ L \in Nat /\ DOMAIN t = 1..L
      /\ i \in 1..L /\ t[i] = "head" /\ (i = 1 \/ t[i - 1] = "lf")
      /\ i < L /\ t[i + 1] # "lf"
  BY LenProperties DEF HeadStarts
<1>2. L \in set
  BY <1>1
<1>3. set \subseteq i..L
  OBVIOUS
<1>4. e = Min(set)
  BY DEF HeadEnd
<1>. HIDE DEF e
<1>5. e \in set /\ e \in i..L /\ \A j \in set : e <= j
  <2>. HIDE DEF set, L
  <2>1. set # {}
    BY <1>2
  <2>. QED
    BY <1>1, <1>3, <1>4, <2>1, SpanEnd
<1>6. e = L \/ t[e + 1] = "lf"
  BY <1>5
<1>7. \A j \in i..L : t[j + 1] = "lf" => e <= j
  BY <1>5
<1>8. e \in i..L
  BY <1>5
<1>9. L \in Nat /\ i \in 1..L /\ i < L
  BY <1>1
<1>. HIDE DEF set, L
<1>10. e # i
  BY <1>1, <1>6, <1>9
<1>11. ASSUME NEW p \in i..e, t[p] = "lf" PROVE FALSE
  <2>1. p # i
    BY <1>1, <1>11
  <2>2. p - 1 \in i..L /\ (p - 1) + 1 = p /\ ~(e <= p - 1)
    BY <1>8, <1>9, <2>1
  <2>. QED
    BY <1>7, <1>11, <2>2
<1>12. e \in (i + 1)..L
  BY <1>8, <1>9, <1>10
<1>. QED
  BY <1>1, <1>6, <1>11, <1>12 DEF e, L

\* Where a text stands after k tokens.
Standing(t, k) ==
  IF k = 0 \/ (k # 0 /\ t[k] = "lf") THEN "start"
  ELSE IF k \in HeadCloses(t) THEN "closed"
  ELSE IF \E s \in HeadStarts(t) : s <= k /\ k < HeadEnd(t, s) THEN "heading"
  ELSE "plain"

\* One token further.
LEMMA StandingNext ==
  ASSUME NEW t \in Seq(Untagged), NEW k \in Nat, k + 1 \in 1..Len(t)
  PROVE  /\ k + 1 \in HeadStarts(t) =>
              /\ k + 1 \notin HeadCloses(t)
              /\ Standing(t, k) = "start" /\ Standing(t, k + 1) = "heading"
         /\ k + 1 \in HeadCloses(t) =>
              /\ k + 1 \notin HeadStarts(t) /\ t[k + 1] \in Quiet
              /\ Standing(t, k) = "heading" /\ Standing(t, k + 1) = "closed"
         /\ k + 1 \notin HeadStarts(t) /\ k + 1 \notin HeadCloses(t) =>
              Goes(Standing(t, k), t[k + 1], Standing(t, k + 1))
<1>. DEFINE L == Len(t)  starts == HeadStarts(t)  end(s) == HeadEnd(t, s)
            closes == HeadCloses(t)  n == k + 1
            Inner(s, p) == s \in starts /\ s <= p /\ p < end(s)
<1>1. /\ L \in Nat /\ n \in 1..L /\ n # 0 /\ n \in Nat /\ n - 1 = k
      /\ k = 0 \/ k \in 1..L
  BY LenProperties
<1>2. /\ t[n] \in Untagged /\ (t[n] = "lf" \/ t[n] \in Quiet)
      /\ "lf" \notin Quiet
  <2>1. t[n] \in Untagged
    BY ElementOfSeq
  <2>. QED
    BY <2>1 DEF Untagged, Quiet
<1>3. \A s \in starts :
        /\ s \in 1..L /\ t[s] = "head" /\ (s = 1 \/ t[s - 1] = "lf")
        /\ end(s) \in (s + 1)..L
        /\ \A p \in s..end(s) : t[p] # "lf"
        /\ end(s) = L \/ t[end(s) + 1] = "lf"
  BY HeadIs
<1>4. \A c \in closes : \E s \in starts : c = end(s)
  BY DEF HeadCloses
<1>5. \A s \in starts : end(s) \in closes
  BY DEF HeadCloses
<1>6. Standing(t, 0) = "start" /\ (t[n] = "lf" => Standing(t, n) = "start")
  BY <1>1 DEF Standing
<1>7. \A p \in 1..L : t[p] # "lf" =>
        /\ p \in closes => Standing(t, p) = "closed"
        /\ p \notin closes /\ (\E s \in starts : Inner(s, p)) => Standing(t, p) = "heading"
        /\ p \notin closes /\ ~(\E s \in starts : Inner(s, p)) => Standing(t, p) = "plain"
  BY <1>1 DEF Standing
<1>8. k # 0 /\ t[k] = "lf" => Standing(t, k) = "start"
  BY DEF Standing
<1>. HIDE DEF starts, closes, end, n, L
\* Of which heading a token is the last, and inside of which it is.
<1>9. \A s \in starts : \A p \in 1..L : Inner(s, p) => p \notin closes
  <2>. SUFFICES ASSUME NEW s \in starts, NEW p \in 1..L, Inner(s, p), p \in closes PROVE FALSE
    OBVIOUS
  <2>1. PICK u \in starts : p = end(u)
    BY <1>4
  <2>2. p + 1 \in s..end(s) /\ p # L
    BY <1>1, <1>3
  <2>. QED
    BY <1>3, <2>1, <2>2
<1>10. \A s \in starts : \A p \in 1..L : Inner(s, p) => Standing(t, p) = "heading" /\ t[p] # "lf"
  <2>. SUFFICES ASSUME NEW s \in starts, NEW p \in 1..L, Inner(s, p)
                PROVE Standing(t, p) = "heading" /\ t[p] # "lf"
    OBVIOUS
  <2>1. p \in s..end(s)
    BY <1>3
  <2>2. t[p] # "lf"
    BY <1>3, <2>1
  <2>. QED
    BY <1>7, <1>9, <2>2
<1>11. ASSUME n \in starts
       PROVE  n \notin closes /\ Standing(t, k) = "start" /\ Standing(t, n) = "heading"
  <2>1. Inner(n, n)
    BY <1>1, <1>3, <1>11
  <2>2. k = 0 \/ (k # 0 /\ t[k] = "lf")
    BY <1>1, <1>3, <1>11
  <2>. QED
    BY <1>1, <1>6, <1>8, <1>9, <1>10, <1>11, <2>1, <2>2
<1>12. ASSUME n \in closes
       PROVE  /\ n \notin starts /\ t[n] \in Quiet
              /\ Standing(t, k) = "heading" /\ Standing(t, n) = "closed"
  <2>1. PICK s \in starts : n = end(s)
    BY <1>4, <1>12
  <2>2. n \in s..end(s) /\ Inner(s, k) /\ k \in 1..L
    BY <1>1, <1>3, <2>1
  <2>3. t[n] # "lf"
    BY <1>3, <2>1, <2>2
  <2>. QED
    BY <1>1, <1>2, <1>7, <1>10, <1>11, <1>12, <2>2, <2>3
<1>13. ASSUME n \notin starts, n \notin closes
       PROVE  Goes(Standing(t, k), t[n], Standing(t, n))
  <2>1. \A s \in starts : Inner(s, k) => Inner(s, n)
    BY <1>1, <1>3, <1>5, <1>13
  <2>2. \A s \in starts : Inner(s, n) => Inner(s, k)
    BY <1>1, <1>3, <1>13
  <2>3. CASE \E s \in starts : Inner(s, n)
    <3>1. Standing(t, n) = "heading" /\ t[n] # "lf"
      BY <1>1, <1>10, <2>3
    <3>2. PICK s \in starts : Inner(s, k)
      BY <2>2, <2>3
    <3>3. k \in 1..L
      BY <1>1, <1>3, <3>2
    <3>4. Standing(t, k) = "heading"
      BY <1>10, <3>2, <3>3
    <3>. QED
      BY <1>2, <3>1, <3>4 DEF Goes
  <2>4. CASE ~\E s \in starts : Inner(s, n)
    <3>1. ~\E s \in starts : Inner(s, k)
      BY <2>1, <2>4
    <3>2. Standing(t, k) \in {"start", "closed", "plain"}
      BY <1>1, <1>6, <1>7, <1>8, <3>1
    <3>3. CASE t[n] = "lf"
      BY <1>6, <3>2, <3>3 DEF Goes
    <3>4. CASE t[n] # "lf"
      <4>1. Standing(t, n) = "plain"
        BY <1>1, <1>7, <1>13, <2>4, <3>4
      <4>2. Standing(t, k) # "closed"
        <5>. SUFFICES ASSUME Standing(t, k) = "closed" PROVE FALSE
          OBVIOUS
        <5>1. k \in 1..L /\ k \in closes
          BY <1>1, <1>6, <1>7, <1>8, <3>1
        <5>2. PICK s \in starts : k = end(s)
          BY <1>4, <5>1
        <5>3. k # L /\ k + 1 = n
          BY <1>1 DEF n
        <5>. QED
          BY <1>3, <3>4, <5>2, <5>3
      <4>3. t[n] \in Quiet
        BY <1>2, <3>4
      <4>. QED
        BY <3>2, <4>1, <4>2, <4>3 DEF Goes
    <3>. QED
      BY <3>3, <3>4
  <2>. QED
    BY <2>3, <2>4
<1>. QED
  BY <1>11, <1>12, <1>13 DEF starts, closes, n

\* At the end no heading is open.
LEMMA StandingEnd ==
  ASSUME NEW t \in Seq(Untagged)
  PROVE  Due(Standing(t, Len(t))) = <<>>
<1>1. \A s \in HeadStarts(t) : HeadEnd(t, s) \in (s + 1)..Len(t) /\ s \in 1..Len(t)
  BY HeadIs
<1>2. Len(t) \in Nat
  BY LenProperties
<1>3. ~\E s \in HeadStarts(t) : s <= Len(t) /\ Len(t) < HeadEnd(t, s)
  BY <1>1, <1>2
<1>. QED
  BY <1>3 DEF Standing, Due

\* What a text is after some tokens more.
Reached(h, r) == \E q : Ruled(h, q) /\ q[Len(h)] = r

\* One token more is one step more.
LEMMA ReachedMore ==
  ASSUME NEW S, NEW h \in Seq(S), NEW x \in S, NEW a, NEW b, Reached(h, a), Goes(a, x, b)
  PROVE  Reached(Append(h, x), b)
<1>. DEFINE n == Len(h)  more == Append(h, x)
<1>1. PICK q : q[0] = "start" /\ (\A k \in 1..n : Goes(q[k - 1], h[k], q[k])) /\ q[n] = a
  BY DEF Reached, Ruled
<1>. DEFINE p == [k \in 0..(n + 1) |-> IF k = n + 1 THEN b ELSE q[k]]
<1>2. /\ Len(more) = n + 1 /\ n \in Nat /\ more[n + 1] = x
      /\ \A k \in 1..n : more[k] = h[k]
  BY AppendProperties, LenProperties
<1>. HIDE DEF more, n
<1>3. p[n + 1] = b /\ \A k \in 0..n : p[k] = q[k]
  BY <1>2
<1>. HIDE DEF p
<1>4. /\ 0 \in 0..n /\ n \in 0..n /\ (n + 1) - 1 = n
      /\ \A k \in 1..n : k \in 0..n /\ k - 1 \in 0..n
      /\ \A k \in 1..(n + 1) : k = n + 1 \/ k \in 1..n
  BY <1>2
<1>5. \A k \in 1..(n + 1) : Goes(p[k - 1], more[k], p[k])
  BY <1>1, <1>2, <1>3, <1>4
<1>6. p[0] = "start"
  BY <1>1, <1>3, <1>4
<1>. QED
  BY <1>2, <1>3, <1>5, <1>6 DEF Reached, Ruled, more

\* No two stars are next to each other.
Single(h) == \A k \in 1..(Len(h) - 1) : ~(h[k] = "*" /\ h[k + 1] = "*")
EndsStar(h) == Len(h) # 0 /\ h[Len(h)] = "*"

\* A token that is not a second star leaves stars single.
LEMMA SingleMore ==
  ASSUME NEW S, NEW h \in Seq(S), NEW x \in S, Single(h), ~(EndsStar(h) /\ x = "*")
  PROVE  Single(Append(h, x)) /\ (EndsStar(Append(h, x)) <=> x = "*")
<1>. DEFINE n == Len(h)  more == Append(h, x)
<1>1. /\ Len(more) = n + 1 /\ n \in Nat /\ more[n + 1] = x
      /\ \A k \in 1..n : more[k] = h[k]
  BY AppendProperties, LenProperties
<1>2. /\ \A k \in 1..(n - 1) : ~(h[k] = "*" /\ h[k + 1] = "*")
      /\ ~(n # 0 /\ h[n] = "*" /\ x = "*")
  BY DEF Single, EndsStar
<1>. HIDE DEF more, n
<1>3. ASSUME NEW k \in 1..((n + 1) - 1), more[k] = "*", more[k + 1] = "*" PROVE FALSE
  <2>1. k = n \/ k \in 1..(n - 1)
    BY <1>1
  <2>2. CASE k = n
    <3>1. n # 0 /\ n \in 1..n
      BY <1>1, <2>2
    <3>. QED
      BY <1>1, <1>2, <1>3, <2>2, <3>1
  <2>3. CASE k \in 1..(n - 1)
    <3>1. k \in 1..n /\ k + 1 \in 1..n
      BY <1>1, <2>3
    <3>. QED
      BY <1>1, <1>2, <1>3, <2>3, <3>1
  <2>. QED
    BY <2>1, <2>2, <2>3
<1>4. n + 1 # 0
  BY <1>1
<1>. QED
  BY <1>1, <1>3, <1>4 DEF Single, EndsStar, more

\* The first pieces of a flattened text.
LEMMA FlattenPrefix ==
  ASSUME NEW S, NEW seqs \in Seq(Seq(S)), NEW k \in Nat, k + 1 \in 1..Len(seqs)
  PROVE  /\ SubSeq(seqs, 1, k) \in Seq(Seq(S)) /\ SubSeq(seqs, 1, k + 1) \in Seq(Seq(S))
         /\ seqs[k + 1] \in Seq(S)
         /\ FlattenSeq(SubSeq(seqs, 1, k)) \in Seq(S)
         /\ FlattenSeq(SubSeq(seqs, 1, k + 1))
              = FlattenSeq(SubSeq(seqs, 1, k)) \o seqs[k + 1]
<1>. DEFINE a == SubSeq(seqs, 1, k)  b == SubSeq(seqs, 1, k + 1)  x == seqs[k + 1]
<1>1. x \in Seq(S) /\ \A i \in 1..Len(seqs) : seqs[i] \in Seq(S)
  BY ElementOfSeq
<1>2. /\ Len(seqs) \in Nat /\ k \in Int /\ k + 1 \in Int
      /\ \A i \in 1..(k + 1) : i \in 1..Len(seqs)
      /\ \A i \in 1..k : i \in 1..Len(seqs)
  BY LenProperties
<1>3. \A m \in Int : (\A i \in 1..m : seqs[i] \in Seq(S)) =>
        /\ SubSeq(seqs, 1, m) \in Seq(Seq(S))
        /\ Len(SubSeq(seqs, 1, m)) = IF 1 <= m THEN m - 1 + 1 ELSE 0
        /\ \A i \in 1..(m - 1 + 1) : SubSeq(seqs, 1, m)[i] = seqs[1 + i - 1]
  <2>1. 1 \in Int
    OBVIOUS
  <2>. QED
    BY <2>1, SubSeqProperties
<1>4. a \in Seq(Seq(S)) /\ b \in Seq(Seq(S))
      /\ Len(a) = (IF 1 <= k THEN k - 1 + 1 ELSE 0)
      /\ Len(b) = (IF 1 <= k + 1 THEN (k + 1) - 1 + 1 ELSE 0)
      /\ (\A i \in 1..(k - 1 + 1) : a[i] = seqs[1 + i - 1])
      /\ (\A i \in 1..((k + 1) - 1 + 1) : b[i] = seqs[1 + i - 1])
  BY <1>1, <1>2, <1>3
<1>. HIDE DEF a, b, x
<1>5. Len(a) = k /\ Len(b) = k + 1
  BY <1>4
<1>6. (\A i \in 1..k : a[i] = b[i]) /\ b[k + 1] = x
  <2>1. \A i \in 1..k : i \in 1..(k - 1 + 1) /\ i \in 1..((k + 1) - 1 + 1)
    OBVIOUS
  <2>2. k + 1 \in 1..((k + 1) - 1 + 1) /\ 1 + (k + 1) - 1 = k + 1
    OBVIOUS
  <2>. QED
    BY <1>4, <2>1, <2>2 DEF x
<1>. DEFINE c == Append(a, x)
<1>7. /\ c \in Seq(Seq(S)) /\ Len(c) = Len(a) + 1 /\ c[Len(a) + 1] = x
      /\ \A i \in 1..Len(a) : c[i] = a[i]
  BY <1>1, <1>4, AppendProperties
<1>. HIDE DEF c
<1>8. b = c
  <2>1. \A i \in 1..(k + 1) : i = k + 1 \/ i \in 1..k
    OBVIOUS
  <2>2. \A i \in 1..Len(b) : b[i] = c[i]
    BY <1>5, <1>6, <1>7, <2>1
  <2>. QED
    BY <1>4, <1>5, <1>7, <2>2, SeqEqual
<1>9. FlattenSeq(a) \in Seq(S)
  BY <1>4, FlattenType
<1>10. FlattenSeq(c) = FlattenSeq(a) \o x
  BY <1>1, <1>4, <1>9, FlattenAppend DEF c, x
<1>. QED
  BY <1>1, <1>4, <1>8, <1>9, <1>10 DEF a, b, x

\* Headings make a ruled text, without two stars next to each other where the text
\* had none, and without signs that the text did not have.
LEMMA HeadingsRuled ==
  ASSUME NEW S, S \subseteq Untagged, NEW t \in Seq(S),
         \A i \in 1..(Len(t) - 1) : ~(t[i] = "*" /\ t[i + 1] = "*")
  PROVE  /\ Headings(t) \in Seq(S \cup {"<b>", "</b>"})
         /\ \E q : Ruled(Headings(t), q) /\ Due(q[Len(Headings(t))]) = <<>>
         /\ Single(Headings(t))
<1>. DEFINE L == Len(t)  T == S \cup {"<b>", "</b>"}  seqs == Headed(t)
            Begin(k) == IF k \in HeadStarts(t) THEN <<"<b>">> ELSE <<t[k]>>
            Finish(k) == IF k \in HeadCloses(t) THEN <<"</b>">> ELSE <<>>
            Build(k) == FlattenSeq(SubSeq(seqs, 1, k))
            Good(k) == /\ Reached(Build(k), Standing(t, k)) /\ Single(Build(k))
                       /\ EndsStar(Build(k)) => k # 0 /\ t[k] = "*"
            G == {k \in Nat : k <= L => Good(k)}
<1>1. /\ L \in Nat /\ DOMAIN t = 1..L
      /\ \A i \in 1..L : t[i] \in S
      /\ t \in Seq(Untagged)
  BY LenProperties, ElementOfSeq, SeqMonotonic
<1>2. \A x \in T : <<x>> \in Seq(T) /\ Len(<<x>>) = 1 /\ <<x>>[1] = x
  OBVIOUS
<1>3. "<b>" \in T /\ "</b>" \in T /\ (\A i \in 1..L : t[i] \in T) /\ <<>> \in Seq(T)
  BY <1>1, EmptySeq
<1>4. \A k \in 1..L : Begin(k) \in Seq(T) /\ Finish(k) \in Seq(T)
  BY <1>2, <1>3
<1>5. seqs = [k \in 1..L |-> Begin(k) \o Finish(k)]
  BY <1>1 DEF Headed
<1>. HIDE DEF Begin, Finish, T
<1>6. \A k \in 1..L : Begin(k) \o Finish(k) \in Seq(T)
  BY <1>4, ConcatProperties
<1>7. seqs \in Seq(Seq(T)) /\ Len(seqs) = L /\ \A k \in 1..L : seqs[k] = Begin(k) \o Finish(k)
  BY <1>1, <1>5, <1>6
<1>. HIDE DEF seqs
<1>8. Headings(t) = FlattenSeq(seqs)
  BY DEF Headings, seqs, Headed, HeadStarts, HeadCloses, HeadEnd
<1>9. Headings(t) \in Seq(T)
  BY <1>7, <1>8, FlattenType
<1>10. 0 \in G
  <2>1. SubSeq(seqs, 1, 0) = <<>>
    BY SubSeqEmpty
  <2>2. Build(0) = <<>>
    BY <2>1, FlattenEmpty
  <2>3. Reached(<<>>, "start")
    <3>. DEFINE q == [k \in 0..0 |-> "start"]
    <3>1. q[0] = "start" /\ Len(<<>>) = 0 /\ \A k \in 1..0 : FALSE
      BY EmptySeq
    <3>. HIDE DEF q
    <3>. QED
      BY <3>1 DEF Reached, Ruled
  <2>4. Single(<<>>) /\ ~EndsStar(<<>>)
    <3>1. Len(<<>>) = 0 /\ \A k \in 1..(0 - 1) : FALSE
      BY EmptySeq
    <3>. QED
      BY <3>1 DEF Single, EndsStar
  <2>5. Standing(t, 0) = "start"
    BY DEF Standing
  <2>. QED
    BY <2>2, <2>3, <2>4, <2>5
<1>11. ASSUME NEW k \in Nat, k \in G PROVE k + 1 \in G
  <2>. SUFFICES ASSUME k + 1 <= L PROVE Good(k + 1)
    <3>. HIDE DEF Good
    <3>. QED
      OBVIOUS
  <2>. DEFINE n == k + 1  a == Build(k)  x == t[n]
  <2>1. n \in 1..L /\ k <= L /\ (k # 0 => k \in 1..(L - 1)) /\ n # 0
    BY <1>1
  <2>2. Good(k)
    <3>. HIDE DEF Good
    <3>. QED
      BY <1>11, <2>1
  <2>3. a \in Seq(T) /\ Build(n) = a \o (Begin(n) \o Finish(n))
    BY <1>7, <2>1, FlattenPrefix
  <2>. HIDE DEF Build
  <2>4. /\ n \in HeadStarts(t) =>
             /\ n \notin HeadCloses(t)
             /\ Standing(t, k) = "start" /\ Standing(t, n) = "heading"
        /\ n \in HeadCloses(t) =>
             /\ n \notin HeadStarts(t) /\ x \in Quiet
             /\ Standing(t, k) = "heading" /\ Standing(t, n) = "closed"
        /\ n \notin HeadStarts(t) /\ n \notin HeadCloses(t) =>
             Goes(Standing(t, k), x, Standing(t, n))
    BY <1>1, <2>1, StandingNext
  <2>5. /\ Reached(a, Standing(t, k)) /\ Single(a)
        /\ EndsStar(a) => x # "*"
    <3>1. EndsStar(a) => t[k] = "*" /\ k \in 1..(L - 1)
      BY <2>1, <2>2
    <3>. QED
      BY <2>2, <3>1
  <2>6. x \in T
    BY <1>3, <2>1
  <2>. SUFFICES Good(n)
    <3>. HIDE DEF Good
    <3>. QED
      OBVIOUS
  <2>. HIDE DEF a, x, n, L
  <2>7. CASE n \in HeadStarts(t)
    <3>. DEFINE b == Append(a, "<b>")
    <3>1. Build(n) = b
      <4>1. Begin(n) = <<"<b>">> /\ Finish(n) = <<>>
        BY <2>4, <2>7 DEF Begin, Finish
      <4>2. <<"<b>">> \in Seq(T) /\ <<"<b>">> \o <<>> = <<"<b>">>
        BY <1>2, <1>3, ConcatEmptySeq
      <4>. QED
        BY <1>3, <2>3, <4>1, <4>2, AppendIsConcat
    <3>2. Goes("start", "<b>", "heading")
      BY DEF Goes
    <3>3. Reached(b, "heading")
      BY <1>3, <2>3, <2>4, <2>5, <2>7, <3>2, ReachedMore
    <3>4. Single(b) /\ ~EndsStar(b)
      BY <1>3, <2>3, <2>5, SingleMore
    <3>. QED
      BY <2>4, <2>7, <3>1, <3>3, <3>4
  <2>8. CASE n \in HeadCloses(t)
    <3>. DEFINE b == Append(a, x)  c == Append(b, "</b>")
    <3>1. Build(n) = c
      <4>1. Begin(n) = <<x>> /\ Finish(n) = <<"</b>">>
        BY <2>4, <2>8 DEF Begin, Finish, x
      <4>. DEFINE u == <<x>>  v == <<"</b>">>
      <4>2. u \in Seq(T) /\ v \in Seq(T)
        BY <1>2, <1>3, <2>6
      <4>3. b = a \o u
        BY <2>3, <2>6, AppendIsConcat
      <4>4. b \in Seq(T)
        BY <2>3, <2>6, AppendProperties
      <4>5. c = b \o v
        <5>. HIDE DEF b
        <5>. QED
          BY <1>3, <4>4, AppendIsConcat
      <4>. HIDE DEF u, v, b, c
      <4>6. (a \o u) \o v = a \o (u \o v)
        BY <2>3, <4>2, ConcatAssociative
      <4>. QED
        BY <2>3, <4>1, <4>3, <4>5, <4>6 DEF u, v
    <3>2. Goes("heading", x, "heading") /\ Goes("heading", "</b>", "closed")
      BY <2>4, <2>8 DEF Goes
    <3>3. Reached(b, "heading") /\ b \in Seq(T)
      BY <2>3, <2>4, <2>5, <2>6, <2>8, <3>2, ReachedMore, AppendProperties
    <3>4. Single(b)
      BY <2>3, <2>5, <2>6, SingleMore
    <3>. HIDE DEF b
    <3>5. Reached(c, "closed")
      BY <1>3, <3>2, <3>3, ReachedMore
    <3>6. Single(c) /\ ~EndsStar(c)
      BY <1>3, <3>3, <3>4, SingleMore
    <3>. QED
      BY <2>4, <2>8, <3>1, <3>5, <3>6
  <2>9. CASE n \notin HeadStarts(t) /\ n \notin HeadCloses(t)
    <3>. DEFINE b == Append(a, x)
    <3>1. Build(n) = b
      <4>1. Begin(n) = <<x>> /\ Finish(n) = <<>>
        BY <2>9 DEF Begin, Finish, x
      <4>2. <<x>> \in Seq(T) /\ <<x>> \o <<>> = <<x>>
        BY <1>2, <2>6, ConcatEmptySeq
      <4>. QED
        BY <2>3, <2>6, <4>1, <4>2, AppendIsConcat
    <3>2. Reached(b, Standing(t, n))
      <4>. DEFINE from == Standing(t, k)  to == Standing(t, n)
      <4>1. Reached(a, from) /\ Goes(from, x, to)
        BY <2>4, <2>5, <2>9
      <4>. HIDE DEF from, to
      <4>2. Reached(b, to)
        BY <2>3, <2>6, <4>1, ReachedMore
      <4>. QED
        BY <4>2 DEF to
    <3>3. Single(b) /\ (EndsStar(b) => x = "*")
      BY <2>3, <2>5, <2>6, SingleMore
    <3>. QED
      BY <2>1, <3>1, <3>2, <3>3 DEF x
  <2>. HIDE DEF Good
  <2>. QED
    BY <2>7, <2>8, <2>9
<1>. HIDE DEF G
<1>12. Nat \subseteq G
  BY <1>10, <1>11, AllNaturals
<1>13. Good(L)
  <2>1. L \in G /\ L <= L
    BY <1>1, <1>12
  <2>. HIDE DEF Good
  <2>. QED
    BY <2>1 DEF G
<1>14. Build(L) = Headings(t)
  <2>1. SubSeq(seqs, 1, Len(seqs)) = seqs
    BY <1>7, SubSeqFull
  <2>. QED
    BY <1>7, <1>8, <2>1
<1>15. Due(Standing(t, L)) = <<>>
  BY <1>1, StandingEnd
<1>. HIDE DEF Build
<1>16. PICK q : Ruled(Headings(t), q) /\ q[Len(Headings(t))] = Standing(t, L)
  BY <1>13, <1>14 DEF Reached
<1>. QED
  BY <1>9, <1>13, <1>14, <1>15, <1>16 DEF T

----------------------------------------------------------------------------
(* ProseToPango.                                                           *)

\* Bold has spans between tags,
LEMMA BoldSpans ==
  ASSUME NEW h, Len(h) \in Nat
  PROVE  \E f, ends :
           /\ Spans(f, h, ends, "<b>", "</b>", 2) /\ Bold(h) = f[1]
           /\ \A i \in 1..Len(h) : ends[i] = {j \in i..Len(h) : 
             /\ j >= i + 4
             /\ h[i] = "*" /\ h[i + 1] = "*" /\ h[j - 1] = "*" /\ h[j] = "*"}
<1>. DEFINE Ends(i) == {j \in i..Len(h) : 
             /\ j >= i + 4
             /\ h[i] = "*" /\ h[i + 1] = "*" /\ h[j - 1] = "*" /\ h[j] = "*"}
            ends == [i \in 1..Len(h) |-> Ends(i)]
            Step(f, i) == IF i > Len(h) THEN <<>>
                          ELSE IF Ends(i) = {} THEN <<h[i]>> \o f[i + 1]
                          ELSE <<"<b>">> \o SubSeq(h, i + 2, Min(Ends(i)) - 2)
                                 \o <<"</b>">> \o f[Min(Ends(i)) + 1]
            Sub(f) == f = [i \in 1..(Len(h) + 1) |-> Step(f, i)]
            rest == CHOOSE f : Sub(f)
<1>1. \A i \in 1..Len(h) : ends[i] = Ends(i) /\ Ends(i) \subseteq i..Len(h)
  <2>1. \A i : Ends(i) \subseteq i..Len(h)
    OBVIOUS
  <2>. HIDE DEF Ends
  <2>. QED
    BY <2>1
<1>2. \A i \in 1..(Len(h) + 1) : ~(i > Len(h)) => ends[i] = Ends(i)
  <2>. HIDE DEF Ends, ends
  <2>. QED
    BY <1>1
<1>3. ASSUME NEW f PROVE Spans(f, h, ends, "<b>", "</b>", 2) <=> Sub(f)
  <2>. HIDE DEF Ends, ends
  <2>. QED
    BY <1>2 DEF Spans
<1>. HIDE DEF Step
<1>4. Bold(h) = rest[1]
  BY DEF Bold, SubSpans, Step
<1>. HIDE DEF ends, Sub
<1>5. \E f : Spans(f, h, ends, "<b>", "</b>", 2)
  <2>1. \A i \in 1..Len(h) : ends[i] \subseteq i..Len(h)
    <3>. HIDE DEF Ends
    <3>. QED
      BY <1>1
  <2>. QED
    BY <2>1, SpansExist
<1>6. Sub(rest)
  BY <1>3, <1>5
<1>. HIDE DEF rest
<1>7. Spans(rest, h, ends, "<b>", "</b>", 2)
  BY <1>3, <1>6
<1>. HIDE DEF Ends
<1>8. \A i \in 1..Len(h) : ends[i] = Ends(i)
  BY <1>1
<1>. QED
  BY <1>4, <1>7, <1>8 DEF Ends

\* and Italic,
LEMMA ItalicSpans ==
  ASSUME NEW h, Len(h) \in Nat
  PROVE  \E f, ends :
           /\ Spans(f, h, ends, "<i>", "</i>", 1) /\ Italic(h) = f[1]
           /\ \A i \in 1..Len(h) : ends[i] = {j \in i..Len(h) : 
             Enclosed(h, i, j, "*") /\ ~Is(h, i - 1, "*") /\ ~Is(h, j + 1, "*")}
<1>. DEFINE Ends(i) == {j \in i..Len(h) : 
             Enclosed(h, i, j, "*") /\ ~Is(h, i - 1, "*") /\ ~Is(h, j + 1, "*")}
            ends == [i \in 1..Len(h) |-> Ends(i)]
            Step(f, i) == IF i > Len(h) THEN <<>>
                          ELSE IF Ends(i) = {} THEN <<h[i]>> \o f[i + 1]
                          ELSE <<"<i>">> \o SubSeq(h, i + 1, Min(Ends(i)) - 1)
                                 \o <<"</i>">> \o f[Min(Ends(i)) + 1]
            Sub(f) == f = [i \in 1..(Len(h) + 1) |-> Step(f, i)]
            rest == CHOOSE f : Sub(f)
<1>1. \A i \in 1..Len(h) : ends[i] = Ends(i) /\ Ends(i) \subseteq i..Len(h)
  <2>1. \A i : Ends(i) \subseteq i..Len(h)
    OBVIOUS
  <2>. HIDE DEF Ends
  <2>. QED
    BY <2>1
<1>2. \A i \in 1..(Len(h) + 1) : ~(i > Len(h)) => ends[i] = Ends(i)
  <2>. HIDE DEF Ends, ends
  <2>. QED
    BY <1>1
<1>3. ASSUME NEW f PROVE Spans(f, h, ends, "<i>", "</i>", 1) <=> Sub(f)
  <2>. HIDE DEF Ends, ends
  <2>. QED
    BY <1>2 DEF Spans
<1>. HIDE DEF Step
<1>4. Italic(h) = rest[1]
  BY DEF Italic, SubSpans, Step
<1>. HIDE DEF ends, Sub
<1>5. \E f : Spans(f, h, ends, "<i>", "</i>", 1)
  <2>1. \A i \in 1..Len(h) : ends[i] \subseteq i..Len(h)
    <3>. HIDE DEF Ends
    <3>. QED
      BY <1>1
  <2>. QED
    BY <2>1, SpansExist
<1>6. Sub(rest)
  BY <1>3, <1>5
<1>. HIDE DEF rest
<1>7. Spans(rest, h, ends, "<i>", "</i>", 1)
  BY <1>3, <1>6
<1>. HIDE DEF Ends
<1>8. \A i \in 1..Len(h) : ends[i] = Ends(i)
  BY <1>1
<1>. QED
  BY <1>4, <1>7, <1>8 DEF Ends

\* and Code.
LEMMA CodeSpans ==
  ASSUME NEW h, Len(h) \in Nat
  PROVE  \E f, ends :
           /\ Spans(f, h, ends, "<tt>", "</tt>", 1) /\ Code(h) = f[1]
           /\ \A i \in 1..Len(h) : ends[i] = {j \in i..Len(h) : Enclosed(h, i, j, "tick")}
<1>. DEFINE Ends(i) == {j \in i..Len(h) : Enclosed(h, i, j, "tick")}
            ends == [i \in 1..Len(h) |-> Ends(i)]
            Step(f, i) == IF i > Len(h) THEN <<>>
                          ELSE IF Ends(i) = {} THEN <<h[i]>> \o f[i + 1]
                          ELSE <<"<tt>">> \o SubSeq(h, i + 1, Min(Ends(i)) - 1)
                                 \o <<"</tt>">> \o f[Min(Ends(i)) + 1]
            Sub(f) == f = [i \in 1..(Len(h) + 1) |-> Step(f, i)]
            rest == CHOOSE f : Sub(f)
<1>1. \A i \in 1..Len(h) : ends[i] = Ends(i) /\ Ends(i) \subseteq i..Len(h)
  <2>1. \A i : Ends(i) \subseteq i..Len(h)
    OBVIOUS
  <2>. HIDE DEF Ends
  <2>. QED
    BY <2>1
<1>2. \A i \in 1..(Len(h) + 1) : ~(i > Len(h)) => ends[i] = Ends(i)
  <2>. HIDE DEF Ends, ends
  <2>. QED
    BY <1>1
<1>3. ASSUME NEW f PROVE Spans(f, h, ends, "<tt>", "</tt>", 1) <=> Sub(f)
  <2>. HIDE DEF Ends, ends
  <2>. QED
    BY <1>2 DEF Spans
<1>. HIDE DEF Step
<1>4. Code(h) = rest[1]
  BY DEF Code, SubSpans, Step
<1>. HIDE DEF ends, Sub
<1>5. \E f : Spans(f, h, ends, "<tt>", "</tt>", 1)
  <2>1. \A i \in 1..Len(h) : ends[i] \subseteq i..Len(h)
    <3>. HIDE DEF Ends
    <3>. QED
      BY <1>1
  <2>. QED
    BY <2>1, SpansExist
<1>6. Sub(rest)
  BY <1>3, <1>5
<1>. HIDE DEF rest
<1>7. Spans(rest, h, ends, "<tt>", "</tt>", 1)
  BY <1>3, <1>6
<1>. HIDE DEF Ends
<1>8. \A i \in 1..Len(h) : ends[i] = Ends(i)
  BY <1>1
<1>. QED
  BY <1>4, <1>7, <1>8 DEF Ends

\* Of a text without two stars next to each other nothing becomes bold.
LEMMA NothingBold ==
  ASSUME NEW S, NEW h \in Seq(S), Single(h)
  PROVE  Bold(h) = h
<1>1. Len(h) \in Nat
  BY LenProperties
<1>2. PICK f, ends :
        /\ Spans(f, h, ends, "<b>", "</b>", 2) /\ Bold(h) = f[1]
        /\ \A i \in 1..Len(h) : ends[i] = {j \in i..Len(h) :
             /\ j >= i + 4
             /\ h[i] = "*" /\ h[i + 1] = "*" /\ h[j - 1] = "*" /\ h[j] = "*"}
  BY <1>1, BoldSpans
<1>3. \A i \in 1..Len(h) : ends[i] = {}
  <2>1. ASSUME NEW i \in 1..Len(h), NEW j \in i..Len(h), j >= i + 4, h[i] = "*", h[i + 1] = "*"
        PROVE  FALSE
    <3>1. i \in 1..(Len(h) - 1)
      BY <1>1, <2>1
    <3>. QED
      BY <2>1, <3>1 DEF Single
  <2>. QED
    BY <1>2, <2>1
<1>4. Spans(f, h, ends, "<b>", "</b>", 2) /\ Bold(h) = f[1]
  BY <1>2
<1>5. f[1] = h
  BY <1>3, <1>4, SpansNone
<1>. QED
  BY <1>4, <1>5

\* A text without a sign.
Lacks(h, sign) == \A i \in 1..Len(h) : h[i] # sign

\* Of a text without stars nothing is emphasised, of one without ticks nothing is
\* code.
LEMMA NothingItalic ==
  ASSUME NEW S, NEW h \in Seq(S), Lacks(h, "*")
  PROVE  Italic(h) = h
<1>1. Len(h) \in Nat
  BY LenProperties
<1>2. PICK f, ends :
        /\ Spans(f, h, ends, "<i>", "</i>", 1) /\ Italic(h) = f[1]
        /\ \A i \in 1..Len(h) : ends[i] = {j \in i..Len(h) :
             Enclosed(h, i, j, "*") /\ ~Is(h, i - 1, "*") /\ ~Is(h, j + 1, "*")}
  BY <1>1, ItalicSpans
<1>3. \A i \in 1..Len(h) : \A j : ~Enclosed(h, i, j, "*")
  BY <1>1 DEF Enclosed, Lacks
<1>4. \A i \in 1..Len(h) : ends[i] = {}
  BY <1>2, <1>3
<1>5. Spans(f, h, ends, "<i>", "</i>", 1) /\ Italic(h) = f[1]
  BY <1>2
<1>6. f[1] = h
  BY <1>4, <1>5, SpansNone
<1>. QED
  BY <1>5, <1>6

\* Without backticks there is no code.
LEMMA NothingCode ==
  ASSUME NEW S, NEW h \in Seq(S), Lacks(h, "tick")
  PROVE  Code(h) = h
<1>1. Len(h) \in Nat
  BY LenProperties
<1>2. PICK f, ends :
        /\ Spans(f, h, ends, "<tt>", "</tt>", 1) /\ Code(h) = f[1]
        /\ \A i \in 1..Len(h) : ends[i] = {j \in i..Len(h) : Enclosed(h, i, j, "tick")}
  BY <1>1, CodeSpans
<1>3. \A i \in 1..Len(h) : \A j : ~Enclosed(h, i, j, "tick")
  BY <1>1 DEF Enclosed, Lacks
<1>4. \A i \in 1..Len(h) : ends[i] = {}
  BY <1>2, <1>3
<1>5. Spans(f, h, ends, "<tt>", "</tt>", 1) /\ Code(h) = f[1]
  BY <1>2
<1>6. f[1] = h
  BY <1>4, <1>5, SpansNone
<1>. QED
  BY <1>5, <1>6

\* The tokens of an escaped text: the language model's own tags are none of them.
LEMMA ProseEscapedType ==
  ASSUME NEW t \in Seq(ProseTokens), NEW sign \in {"*", "tick"}, sign \notin ToSet(t)
  PROVE  Escaped(t) \in Seq(Untagged \ {sign})
<1>. DEFINE S == Untagged \ {sign}
            Pieces1(i) == IF t[i] \in {"own <tt>", "own <b>"} THEN <<>> ELSE <<t[i]>>
            Sole(i) == IF t[i] = "own <b>" THEN "&lt;b&gt;" ELSE t[i]
<1>1. /\ Len(t) \in Nat /\ DOMAIN t = 1..Len(t)
      /\ \A i \in 1..Len(t) : t[i] \in ProseTokens
  BY LenProperties, ElementOfSeq
<1>2. \A i \in 1..Len(t) : t[i] # sign
  BY <1>1 DEF ToSet
<1>3. \A i \in 1..Len(t) : t[i] \notin {"own <tt>", "own <b>"} => t[i] \in S
  BY <1>1, <1>2 DEF ProseTokens, Untagged, Quiet
<1>4. "&lt;b&gt;" \in S
  BY DEF Untagged, Quiet
<1>. HIDE DEF S
<1>5. CASE "own <tt>" \in ToSet(t)
  <2>1. \A x \in S : <<x>> \in Seq(S)
    OBVIOUS
  <2>2. \A i \in 1..Len(t) : Pieces1(i) \in Seq(S)
    BY <1>3, <2>1, EmptySeq
  <2>. HIDE DEF Pieces1
  <2>3. [i \in 1..Len(t) |-> Pieces1(i)] \in Seq(Seq(S))
    BY <1>1, <2>2
  <2>4. FlattenSeq([i \in 1..Len(t) |-> Pieces1(i)]) \in Seq(S)
    BY <2>3, FlattenType
  <2>5. Escaped(t) = FlattenSeq([i \in 1..Len(t) |-> Pieces1(i)])
    BY <1>1, <1>5 DEF Escaped, Pieces1
  <2>. QED
    BY <2>4, <2>5 DEF S
<1>6. CASE "own <tt>" \notin ToSet(t)
  <2>1. \A i \in 1..Len(t) : t[i] # "own <tt>"
    BY <1>1, <1>6 DEF ToSet
  <2>2. \A i \in 1..Len(t) : Sole(i) \in S
    BY <1>3, <1>4, <2>1
  <2>. HIDE DEF Sole
  <2>3. [i \in 1..Len(t) |-> Sole(i)] \in Seq(S)
    BY <1>1, <2>2
  <2>4. Escaped(t) = [i \in 1..Len(t) |-> Sole(i)]
    BY <1>1, <1>6 DEF Escaped, Sole
  <2>. QED
    BY <2>3, <2>4 DEF S
<1>. QED
  BY <1>5, <1>6

\* Markup with one kind of emphasis nests.
LEMMA ProseNests ==
  ASSUME NEW t \in Seq(ProseTokens), ~({"*", "tick"} \subseteq ToSet(t)),
         ~\E i \in DOMAIN Escaped(t) : Is(Escaped(t), i, "*") /\ Is(Escaped(t), i + 1, "*")
  PROVE  Parses(ProseToPango(t))
<1>1. PICK sign \in {"*", "tick"} : sign \notin ToSet(t)
  OBVIOUS
<1>. DEFINE S == Untagged \ {sign}  e == Escaped(t)  h == Headings(e)
            T == S \cup {"<b>", "</b>"}
<1>2. e \in Seq(S)
  BY <1>1, ProseEscapedType
<1>3. \A i \in 1..(Len(e) - 1) : ~(e[i] = "*" /\ e[i + 1] = "*")
  <2>1. Len(e) \in Nat /\ DOMAIN e = 1..Len(e)
    BY <1>2, LenProperties
  <2>2. \A i \in 1..(Len(e) - 1) : i \in 1..Len(e) /\ i + 1 \in 1..Len(e)
    BY <2>1
  <2>. QED
    BY <2>1, <2>2 DEF Is
<1>4. S \subseteq Untagged
  OBVIOUS
<1>5. /\ h \in Seq(T) /\ Single(h)
      /\ \E q : Ruled(h, q) /\ Due(q[Len(h)]) = <<>>
  <2>. HIDE DEF S, e
  <2>. QED
    BY <1>2, <1>3, <1>4, HeadingsRuled
<1>6. ProseToPango(t) = Code(Italic(Bold(h)))
  BY DEF ProseToPango
<1>. HIDE DEF h
<1>7. Bold(h) = h
  BY <1>5, NothingBold
<1>8. PICK q : Ruled(h, q) /\ Due(q[Len(h)]) = <<>>
  BY <1>5
<1>9. h \in Seq(Markup) /\ Len(h) \in Nat
  <2>1. T \subseteq Markup
    BY DEF Markup, Tags, EndTags
  <2>. QED
    BY <1>5, <2>1, SeqMonotonic, LenProperties
<1>10. CASE sign = "tick"
  <2>1. PICK f, ends :
          /\ Spans(f, h, ends, "<i>", "</i>", 1) /\ Italic(h) = f[1]
          /\ \A i \in 1..Len(h) : ends[i] = {j \in i..Len(h) :
               Enclosed(h, i, j, "*") /\ ~Is(h, i - 1, "*") /\ ~Is(h, j + 1, "*")}
    BY <1>9, ItalicSpans
  <2>. DEFINE M == Markup \ {"tick"}
  <2>2. f[1] \in Seq(M) /\ Nests(f[1], <<>>, Due(q[Len(h)]))
    <3>1. /\ \A i \in 1..Len(h) : ends[i] \subseteq i..Len(h)
          /\ \A i \in 1..Len(h) : \A j \in ends[i] : Enclosed(h, i, j, "*")
          /\ Spans(f, h, ends, "<i>", "</i>", 1)
      BY <2>1
    <3>2. T \subseteq M /\ M \subseteq Markup /\ "<i>" \in M /\ "</i>" \in M
      BY <1>10 DEF Markup, Untagged, Quiet, Tags, EndTags
    <3>. HIDE DEF M, T
    <3>3. h \in Seq(M)
      BY <1>5, <3>2, SeqMonotonic
    <3>. QED
      BY <1>8, <3>1, <3>2, <3>3, SpansNest
  <2>3. \A x \in M : x # "tick"
    OBVIOUS
  <2>. HIDE DEF M
  <2>4. Code(f[1]) = f[1]
    <3>. DEFINE g == f[1]
    <3>1. g \in Seq(M)
      BY <2>2
    <3>. HIDE DEF g
    <3>2. Lacks(g, "tick")
      BY <2>3, <3>1, ElementOfSeq DEF Lacks
    <3>3. Code(g) = g
      BY <3>1, <3>2, NothingCode
    <3>. QED
      BY <3>3 DEF g
  <2>5. Len(f[1]) \in Nat
    BY <2>2, LenProperties
  <2>. QED
    BY <1>6, <1>7, <1>8, <2>1, <2>2, <2>4, <2>5, NestsParses
<1>11. CASE sign = "*"
  <2>1. Italic(h) = h
    <3>1. \A x \in T : x # "*"
      BY <1>11
    <3>2. Lacks(h, "*")
      BY <1>5, <3>1, ElementOfSeq DEF Lacks
    <3>. QED
      BY <1>5, <3>2, NothingItalic
  <2>2. PICK f, ends :
          /\ Spans(f, h, ends, "<tt>", "</tt>", 1) /\ Code(h) = f[1]
          /\ \A i \in 1..Len(h) : ends[i] = {j \in i..Len(h) : Enclosed(h, i, j, "tick")}
    BY <1>9, CodeSpans
  <2>3. f[1] \in Seq(Markup) /\ Nests(f[1], <<>>, Due(q[Len(h)]))
    <3>1. /\ \A i \in 1..Len(h) : ends[i] \subseteq i..Len(h)
          /\ \A i \in 1..Len(h) : \A j \in ends[i] : Enclosed(h, i, j, "tick")
          /\ Spans(f, h, ends, "<tt>", "</tt>", 1)
      BY <2>2
    <3>2. Markup \subseteq Markup /\ "<tt>" \in Markup /\ "</tt>" \in Markup
      BY DEF Markup, Tags, EndTags
    <3>. QED
      BY <1>8, <1>9, <3>1, <3>2, SpansNest
  <2>4. Len(f[1]) \in Nat
    BY <2>3, LenProperties
  <2>. QED
    BY <1>6, <1>7, <1>8, <2>1, <2>2, <2>3, <2>4, NestsParses
<1>. QED
  BY <1>10, <1>11

----------------------------------------------------------------------------
(* The screen, token by token.                                             *)

Steps(f, stream) == \A k \in 1..Len(stream) : f[k] = Interpret(f[k - 1], stream[k])

\* What the screen is after a text.
Shows(stream, screen) ==
  \E f : f[0] = Screen /\ Steps(f, stream) /\ f[Len(stream)] = screen

\* Some function has the screen after each token.
LEMMA ScreensExist ==
  ASSUME NEW stream, NEW n \in Nat
  PROVE  \E f : f = [k \in 0..n |-> IF k = 0 THEN Screen ELSE Interpret(f[k - 1], stream[k])]
<1>. DEFINE Step(f, k) == IF k = 0 THEN Screen ELSE Interpret(f[k - 1], stream[k])
            Is0(f, m) == f = [k \in 0..m |-> Step(f, k)]
            G == {m \in Nat : \E f : Is0(f, m)}
<1>1. 0 \in G
  <2>. DEFINE f == [k \in 0..0 |-> Screen]
  <2>1. \A g : [k \in 0..0 |-> Step(g, k)] = f
    OBVIOUS
  <2>. HIDE DEF f, Step
  <2>. QED
    BY <2>1
<1>2. ASSUME NEW m \in Nat, m \in G PROVE m + 1 \in G
  <2>1. PICK f : Is0(f, m)
    BY <1>2
  <2>. DEFINE g == [k \in 0..(m + 1) |-> IF k = m + 1 THEN Step(f, k) ELSE f[k]]
  <2>2. \A k \in 0..m : f[k] = Step(f, k)
    <3>. HIDE DEF Step
    <3>. QED
      BY <2>1
  <2>3. \A k \in 0..(m + 1) : k # 0 => k - 1 \in 0..m
    OBVIOUS
  <2>4. \A k \in 0..m : g[k] = f[k]
    <3>1. \A k \in 0..m : k \in 0..(m + 1) /\ k # m + 1
      OBVIOUS
    <3>. HIDE DEF Step
    <3>. QED
      BY <3>1
  <2>5. g[m + 1] = Step(f, m + 1)
    <3>1. m + 1 \in 0..(m + 1)
      OBVIOUS
    <3>. HIDE DEF Step
    <3>. QED
      BY <3>1
  <2>6. g = [k \in 0..(m + 1) |-> g[k]]
    <3>. HIDE DEF Step
    <3>. QED
      OBVIOUS
  <2>. HIDE DEF g
  <2>7. \A k \in 0..(m + 1) : Step(f, k) = Step(g, k)
    BY <2>3, <2>4
  <2>8. \A k \in 0..(m + 1) : k = m + 1 \/ k \in 0..m
    OBVIOUS
  <2>. HIDE DEF Step
  <2>9. \A k \in 0..(m + 1) : g[k] = Step(g, k)
    BY <2>2, <2>4, <2>5, <2>7, <2>8
  <2>. QED
    BY <2>6, <2>9
<1>. HIDE DEF G
<1>3. Nat \subseteq G
  BY <1>1, <1>2, AllNaturals
<1>. QED
  BY <1>3 DEF G

\* It is one screen only,
LEMMA ShowsOnce ==
  ASSUME NEW stream, Len(stream) \in Nat, NEW a, NEW b, Shows(stream, a), Shows(stream, b)
  PROVE  a = b
<1>. DEFINE n == Len(stream)
<1>1. PICK f : f[0] = Screen /\ Steps(f, stream) /\ f[n] = a
  BY DEF Shows
<1>2. PICK g : g[0] = Screen /\ Steps(g, stream) /\ g[n] = b
  BY DEF Shows
<1>. DEFINE G == {k \in Nat : k <= n => f[k] = g[k]}
<1>3. 0 \in G
  BY <1>1, <1>2
<1>4. ASSUME NEW k \in Nat, k \in G PROVE k + 1 \in G
  <2>. SUFFICES ASSUME k + 1 <= n PROVE f[k + 1] = g[k + 1]
    OBVIOUS
  <2>1. k + 1 \in 1..n /\ (k + 1) - 1 = k /\ k <= n
    OBVIOUS
  <2>. QED
    BY <1>1, <1>2, <1>4, <2>1 DEF Steps
<1>. HIDE DEF G
<1>5. Nat \subseteq G
  BY <1>3, <1>4, AllNaturals
<1>6. n \in G /\ n <= n
  BY <1>5
<1>. QED
  BY <1>1, <1>2, <1>6 DEF G

\* what Interpreted says,
LEMMA InterpretedShows ==
  ASSUME NEW stream, Len(stream) \in Nat
  PROVE  Shows(stream, Interpreted(stream))
<1>. DEFINE n == Len(stream)
            Sub(f) == f = [k \in 0..n |-> IF k = 0 THEN Screen ELSE Interpret(f[k - 1], stream[k])]
            s == CHOOSE f : Sub(f)
<1>1. \E f : Sub(f)
  <2>1. \E f : f = [k \in 0..Len(stream) |->
                      IF k = 0 THEN Screen ELSE Interpret(f[k - 1], stream[k])]
    <3>1. \A m \in Nat : \E f :
            f = [k \in 0..m |-> IF k = 0 THEN Screen ELSE Interpret(f[k - 1], stream[k])]
      BY ScreensExist
    <3>. QED
      BY <3>1, Zenon
  <2>. QED
    BY <2>1
<1>2. Sub(s)
  <2>. HIDE DEF Sub
  <2>. QED
    BY <1>1
<1>3. Interpreted(stream) = s[n]
  BY DEF Interpreted
<1>. HIDE DEF s
<1>4. \A k \in 0..n : s[k] = IF k = 0 THEN Screen ELSE Interpret(s[k - 1], stream[k])
  BY <1>2
<1>5. 0 \in 0..n /\ \A k \in 1..n : k \in 0..n /\ k # 0
  OBVIOUS
<1>6. s[0] = Screen /\ Steps(s, stream)
  BY <1>4, <1>5 DEF Steps
<1>. QED
  BY <1>3, <1>6 DEF Shows

\* at first the empty screen,
LEMMA InterpretedNothing == Interpreted(<<>>) = Screen
<1>. DEFINE f == [k \in 0..0 |-> Screen]
<1>1. f[0] = Screen /\ Len(<<>>) = 0 /\ \A k \in 1..0 : FALSE
  BY EmptySeq
<1>. HIDE DEF f
<1>2. Shows(<<>>, Screen)
  BY <1>1 DEF Shows, Steps
<1>3. Shows(<<>>, Interpreted(<<>>))
  BY <1>1, InterpretedShows
<1>. QED
  BY <1>1, <1>2, <1>3, ShowsOnce

\* and after one token more what Interpret says.
LEMMA InterpretedAppend ==
  ASSUME NEW S, NEW t \in Seq(S), NEW x \in S
  PROVE  Interpreted(Append(t, x)) = Interpret(Interpreted(t), x)
<1>. DEFINE n == Len(t)  more == Append(t, x)
<1>1. /\ Len(more) = n + 1 /\ n \in Nat /\ more[n + 1] = x
      /\ \A k \in 1..n : more[k] = t[k]
  BY AppendProperties, LenProperties
<1>2. PICK f : f[0] = Screen /\ Steps(f, t) /\ f[n] = Interpreted(t)
  BY <1>1, InterpretedShows DEF Shows
<1>. DEFINE g == [k \in 0..(n + 1) |-> IF k = n + 1 THEN Interpret(f[n], x) ELSE f[k]]
<1>. HIDE DEF more, n
<1>3. g[n + 1] = Interpret(f[n], x) /\ \A k \in 0..n : g[k] = f[k]
  <2>1. n + 1 \in 0..(n + 1) /\ \A k \in 0..n : k \in 0..(n + 1) /\ k # n + 1
    BY <1>1
  <2>. QED
    BY <2>1
<1>. HIDE DEF g
<1>4. /\ 0 \in 0..n /\ n \in 0..n /\ (n + 1) - 1 = n
      /\ \A k \in 1..n : k \in 0..n /\ k - 1 \in 0..n
      /\ \A k \in 1..(n + 1) : k = n + 1 \/ k \in 1..n
  BY <1>1
<1>5. \A k \in 1..n : f[k] = Interpret(f[k - 1], t[k])
  BY <1>2 DEF Steps, n
<1>6. \A k \in 1..(n + 1) : g[k] = Interpret(g[k - 1], more[k])
  BY <1>1, <1>3, <1>4, <1>5
<1>7. Shows(more, g[n + 1])
  BY <1>1, <1>2, <1>3, <1>4, <1>6 DEF Shows, Steps
<1>8. Len(more) \in Nat
  BY <1>1
<1>9. Shows(more, Interpreted(more))
  BY <1>8, InterpretedShows
<1>10. Interpreted(more) = g[n + 1]
  BY <1>7, <1>8, <1>9, ShowsOnce
<1>. QED
  BY <1>2, <1>3, <1>10 DEF more

\* The greater and the lesser of two numbers.
LEMMA TwoNumbers ==
  ASSUME NEW a \in Int, NEW b \in Int
  PROVE  /\ Max({a, b}) = IF a >= b THEN a ELSE b
         /\ Min({a, b}) = IF a <= b THEN a ELSE b
<1>1. \E x \in {a, b} : \A y \in {a, b} : x >= y
  OBVIOUS
<1>2. Max({a, b}) \in {a, b} /\ \A y \in {a, b} : Max({a, b}) >= y
  BY <1>1 DEF Max
<1>3. \E x \in {a, b} : \A y \in {a, b} : x <= y
  OBVIOUS
<1>4. Min({a, b}) \in {a, b} /\ \A y \in {a, b} : Min({a, b}) <= y
  BY <1>3 DEF Min
<1>5. Max({a, b}) = IF a >= b THEN a ELSE b
  BY <1>2
<1>6. Min({a, b}) = IF a <= b THEN a ELSE b
  BY <1>4
<1>. QED
  BY <1>5, <1>6

Cells == Printed
Strings == {"no", "osc", "dcs"}
Screens == [completed : Seq(Seq(Cells)), line : Seq(Cells), cursor : Nat, string : Strings]

\* What is in a column of a line.
InColumn(line, c) == IF c + 1 \in 1..Len(line) THEN line[c + 1] ELSE Blank

\* A screen with another line and cursor, or with other lines that are complete too.
Lined(s, m, d) == [s EXCEPT !.line = m, !.cursor = d]
Ended(s, v, m, d) == [s EXCEPT !.completed = v, !.line = m, !.cursor = d]

\* They have the fields they are given.
LEMMA LineAndCursor ==
  ASSUME NEW s, NEW u, NEW l, NEW c, NEW g, NEW v, NEW m, NEW d,
         s = [completed |-> u, line |-> l, cursor |-> c, string |-> g]
  PROVE  /\ Lined(s, m, d) = [completed |-> u, line |-> m, cursor |-> d, string |-> g]
         /\ Ended(s, v, m, d) = [completed |-> v, line |-> m, cursor |-> d, string |-> g]
<1>1. PICK t : t = [s EXCEPT !.line = m]
  OBVIOUS
<1>2. t = [completed |-> u, line |-> m, cursor |-> c, string |-> g]
  BY <1>1
<1>3. [t EXCEPT !.cursor = d] = [completed |-> u, line |-> m, cursor |-> d, string |-> g]
  BY <1>2
<1>4. Lined(s, m, d) = [t EXCEPT !.cursor = d]
  BY <1>1, Zenon DEF Lined
<1>5. PICK w : w = [s EXCEPT !.completed = v]
  OBVIOUS
<1>6. w = [completed |-> v, line |-> l, cursor |-> c, string |-> g]
  BY <1>5
<1>7. PICK y : y = [w EXCEPT !.line = m]
  OBVIOUS
<1>8. y = [completed |-> v, line |-> m, cursor |-> c, string |-> g]
  BY <1>6, <1>7
<1>9. [y EXCEPT !.cursor = d] = [completed |-> v, line |-> m, cursor |-> d, string |-> g]
  BY <1>8
<1>10. Ended(s, v, m, d) = [y EXCEPT !.cursor = d]
  BY <1>5, <1>7, Zenon DEF Ended
<1>. QED
  BY <1>3, <1>4, <1>9, <1>10, Zenon

\* Padding adds blanks.
LEMMA PaddedIs ==
  ASSUME NEW line \in Seq(Cells), NEW width \in Nat
  PROVE  /\ Padded(line, width) \in Seq(Cells)
         /\ Len(Padded(line, width)) = IF width > Len(line) THEN width ELSE Len(line)
         /\ \A c \in Nat : InColumn(Padded(line, width), c) = InColumn(line, c)
         /\ width <= Len(line) => Padded(line, width) = line
<1>. DEFINE n == Len(line)  m == Max({0, width - n})
            blanks == [i \in 1..m |-> Blank]  padded == line \o blanks
<1>1. n \in Nat
  BY LenProperties
<1>2. m = IF width > n THEN width - n ELSE 0
  <2>1. width - n \in Int /\ 0 \in Int
    BY <1>1
  <2>. HIDE DEF n
  <2>2. m = IF 0 >= width - n THEN 0 ELSE width - n
    BY <2>1, TwoNumbers
  <2>. HIDE DEF m
  <2>. QED
    BY <1>1, <2>2
<1>. HIDE DEF m
<1>3. m \in Nat
  BY <1>1, <1>2
<1>4. Blank \in Cells
  BY DEF Cells, Printed
<1>5. blanks \in Seq(Cells) /\ Len(blanks) = m /\ \A i \in 1..m : blanks[i] = Blank
  BY <1>3, <1>4
<1>6. Padded(line, width) = padded
  BY DEF Padded, m
<1>. HIDE DEF blanks, n
<1>7. /\ padded \in Seq(Cells) /\ Len(padded) = n + m
      /\ \A i \in 1..n : padded[i] = line[i]
      /\ \A i \in 1..m : padded[n + i] = blanks[i]
  <2>1. line \in Seq(Cells) /\ blanks \in Seq(Cells) =>
          /\ line \o blanks \in Seq(Cells) /\ Len(line \o blanks) = Len(line) + Len(blanks)
          /\ \A i \in 1..Len(line) : (line \o blanks)[i] = line[i]
          /\ \A i \in 1..Len(blanks) : (line \o blanks)[Len(line) + i] = blanks[i]
    BY ConcatPlaces
  <2>. QED
    BY <1>5, <2>1 DEF n
<1>. HIDE DEF padded
<1>8. ASSUME NEW c \in Nat PROVE InColumn(padded, c) = InColumn(line, c)
  <2>1. CASE c + 1 \in 1..n
    <3>1. c + 1 \in 1..Len(padded)
      BY <1>1, <1>3, <1>7, <2>1
    <3>. QED
      BY <1>7, <2>1, <3>1 DEF InColumn, n
  <2>2. CASE c + 1 \notin 1..n
    <3>1. CASE c + 1 \in 1..(n + m)
      <4>. DEFINE i == c + 1 - n
      <4>1. i \in 1..m /\ n + i = c + 1
        BY <1>1, <1>3, <2>2, <3>1
      <4>. HIDE DEF i
      <4>2. padded[c + 1] = Blank
        BY <1>5, <1>7, <4>1
      <4>. QED
        BY <1>7, <2>2, <3>1, <4>2 DEF InColumn, n
    <3>2. CASE c + 1 \notin 1..(n + m)
      BY <1>7, <2>2, <3>2 DEF InColumn, n
    <3>. QED
      BY <3>1, <3>2
  <2>. QED
    BY <2>1, <2>2
<1>9. ASSUME width <= n PROVE padded = line
  <2>1. m = 0 /\ n + 0 = n
    BY <1>1, <1>2, <1>9
  <2>. QED
    BY <1>7, <2>1, SeqEqual DEF n
<1>10. n + m = IF width > n THEN width ELSE n
  BY <1>1, <1>2
<1>. QED
  BY <1>6, <1>7, <1>8, <1>9, <1>10 DEF n

\* Writing puts a character into the column of the cursor,
LEMMA WriteIs ==
  ASSUME NEW s \in Screens, NEW x \in Cells
  PROVE  /\ Write(s, x) \in Screens
         /\ Write(s, x).completed = s.completed /\ Write(s, x).string = s.string
         /\ Write(s, x).cursor = s.cursor + 1
         /\ \A c \in Nat : InColumn(Write(s, x).line, c)
                             = IF c = s.cursor THEN x ELSE InColumn(s.line, c)
         /\ s.cursor = Len(s.line) => Write(s, x).line = Append(s.line, x)
<1>. DEFINE padded == Padded(s.line, s.cursor)  n == Len(padded)  w == s.cursor
            new == IF w = n THEN Append(padded, x) ELSE [padded EXCEPT ![w + 1] = x]
<1>1. /\ s.line \in Seq(Cells) /\ w \in Nat /\ s.completed \in Seq(Seq(Cells))
      /\ s.string \in Strings /\ Len(s.line) \in Nat
      /\ s = [completed |-> s.completed, line |-> s.line, cursor |-> s.cursor,
              string |-> s.string]
  BY LenProperties DEF Screens
<1>2. /\ padded \in Seq(Cells)
      /\ n = IF w > Len(s.line) THEN w ELSE Len(s.line)
      /\ \A c \in Nat : InColumn(padded, c) = InColumn(s.line, c)
      /\ w <= Len(s.line) => padded = s.line
  BY <1>1, PaddedIs
<1>3. Write(s, x) = [completed |-> s.completed, line |-> new, cursor |-> s.cursor + 1,
                     string |-> s.string]
  <2>1. \A l, c : Lined(s, l, c)
          = [completed |-> s.completed, line |-> l, cursor |-> c, string |-> s.string]
    <3>1. s = [completed |-> s.completed, line |-> s.line, cursor |-> s.cursor,
               string |-> s.string]
      BY <1>1
    <3>. QED
      BY <3>1, LineAndCursor
  <2>2. Write(s, x) = Lined(s, new, s.cursor + 1)
    BY DEF Write, Lined
  <2>. QED
    BY <2>1, <2>2, Zenon
<1>. HIDE DEF padded, w
<1>4. n \in Nat /\ w <= n
  BY <1>1, <1>2
<1>5. /\ new \in Seq(Cells)
      /\ \A c \in Nat : InColumn(new, c) = IF c = w THEN x ELSE InColumn(padded, c)
  <2>1. CASE w = n
    <3>1. /\ new \in Seq(Cells) /\ Len(new) = n + 1 /\ new[n + 1] = x
          /\ \A i \in 1..n : new[i] = padded[i]
      BY <1>2, <2>1, AppendProperties
    <3>. HIDE DEF new, n
    <3>2. ASSUME NEW c \in Nat PROVE InColumn(new, c) = IF c = w THEN x ELSE InColumn(padded, c)
      <4>1. CASE c = w
        <5>1. c + 1 \in 1..(n + 1)
          BY <1>4, <2>1, <4>1
        <5>. QED
          BY <2>1, <3>1, <4>1, <5>1 DEF InColumn
      <4>2. CASE c # w
        <5>1. c + 1 \in 1..(n + 1) <=> c + 1 \in 1..n
          BY <1>4, <2>1, <4>2
        <5>. QED
          BY <3>1, <4>2, <5>1 DEF InColumn, n
      <4>. QED
        BY <4>1, <4>2
    <3>. QED
      BY <3>1, <3>2
  <2>2. CASE w # n
    <3>1. w + 1 \in 1..n
      BY <1>1, <1>4, <2>2
    <3>2. /\ new \in Seq(Cells) /\ Len(new) = n
          /\ \A i \in 1..n : new[i] = IF i = w + 1 THEN x ELSE padded[i]
      BY <1>2, <2>2, <3>1, ExceptSeq
    <3>. HIDE DEF new, n
    <3>3. \A c \in Nat : (c + 1 = w + 1 <=> c = w)
      BY <1>1
    <3>4. ASSUME NEW c \in Nat PROVE InColumn(new, c) = IF c = w THEN x ELSE InColumn(padded, c)
      BY <3>1, <3>2, <3>3 DEF InColumn, n
    <3>. QED
      BY <3>2, <3>4
  <2>. QED
    BY <2>1, <2>2
<1>6. w = Len(s.line) => new = Append(s.line, x)
  <2>1. w = Len(s.line) => w <= Len(s.line) /\ n = w
    BY <1>1, <1>2
  <2>. HIDE DEF n
  <2>. QED
    BY <1>2, <2>1
<1>. HIDE DEF new
<1>7. w + 1 \in Nat
  BY <1>1
<1>8. Write(s, x) \in Screens
  BY <1>1, <1>3, <1>5, <1>7 DEF Screens, w
<1>. QED
  BY <1>2, <1>3, <1>5, <1>6, <1>8 DEF w

\* erasing to the end of the line makes it blank from the cursor on,
LEMMA EraseIs ==
  ASSUME NEW s \in Screens, NEW mode \in 0..2
  PROVE  /\ EraseLine(s, mode) \in Screens
         /\ EraseLine(s, mode).completed = s.completed
         /\ EraseLine(s, mode).string = s.string
         /\ mode = 0 =>
              /\ EraseLine(s, mode).cursor = s.cursor
              /\ \A c \in Nat : InColumn(EraseLine(s, mode).line, c)
                                  = IF c >= s.cursor THEN Blank ELSE InColumn(s.line, c)
<1>. DEFINE n == Len(s.line)  lo == Min({s.cursor + 1, n}) + 1  hi == Min({s.cursor, n})
            left == SubSeq(s.line, 1, hi)  right == SubSeq(s.line, lo, n)
<1>1. /\ s.line \in Seq(Cells) /\ s.cursor \in Nat /\ s.completed \in Seq(Seq(Cells))
      /\ s.string \in Strings /\ n \in Nat
      /\ s = [completed |-> s.completed, line |-> s.line, cursor |-> s.cursor,
              string |-> s.string]
  BY LenProperties DEF Screens
<1>2. /\ lo = (IF s.cursor + 1 <= n THEN s.cursor + 1 ELSE n) + 1
      /\ hi = IF s.cursor <= n THEN s.cursor ELSE n
  <2>1. s.cursor \in Int /\ s.cursor + 1 \in Int /\ n \in Int
    BY <1>1
  <2>. HIDE DEF n
  <2>. QED
    BY <2>1, TwoNumbers
<1>3. /\ mode = 0 => EraseLine(s, mode) =
           [completed |-> s.completed, line |-> left, cursor |-> s.cursor, string |-> s.string]
      /\ mode = 1 => EraseLine(s, mode) =
           [completed |-> s.completed, line |-> right, cursor |-> 0, string |-> s.string]
      /\ mode = 2 => EraseLine(s, mode) =
           [completed |-> s.completed, line |-> <<>>, cursor |-> 0, string |-> s.string]
  <2>1. \A l, c : Lined(s, l, c)
          = [completed |-> s.completed, line |-> l, cursor |-> c, string |-> s.string]
    <3>1. s = [completed |-> s.completed, line |-> s.line, cursor |-> s.cursor,
               string |-> s.string]
      BY <1>1
    <3>. QED
      BY <3>1, LineAndCursor
  <2>4. \A l : [s EXCEPT !.line = l]
          = [completed |-> s.completed, line |-> l, cursor |-> s.cursor, string |-> s.string]
    <3>. SUFFICES ASSUME NEW l
                  PROVE  [s EXCEPT !.line = l] = [completed |-> s.completed, line |-> l,
                                                  cursor |-> s.cursor, string |-> s.string]
      OBVIOUS
    <3>. QED
      BY <1>1
  <2>2. /\ mode = 0 => EraseLine(s, mode) = [s EXCEPT !.line = left]
        /\ mode = 1 => EraseLine(s, mode) = Lined(s, right, 0)
        /\ mode = 2 => EraseLine(s, mode) = Lined(s, <<>>, 0)
    <3>1. mode = 0 => EraseLine(s, mode) = [s EXCEPT !.line = left]
      BY DEF EraseLine
    <3>2. mode = 1 => EraseLine(s, mode) = Lined(s, right, 0)
      BY DEF EraseLine, Lined
    <3>3. mode = 2 => EraseLine(s, mode) = Lined(s, <<>>, 0)
      BY DEF EraseLine, Lined
    <3>. QED
      BY <3>1, <3>2, <3>3
  <2>. HIDE DEF left, right
  <2>. QED
    BY <2>1, <2>2, <2>4, Zenon
<1>. HIDE DEF lo, hi
<1>4. lo \in 1..(n + 1) /\ hi \in 0..n /\ lo \in Int /\ hi \in Int /\ n \in Int
  BY <1>1, <1>2
<1>5. /\ \A i \in lo..n : s.line[i] \in Cells
      /\ \A i \in 1..hi : s.line[i] \in Cells
  <2>1. (\A i \in lo..n : i \in 1..n) /\ \A i \in 1..hi : i \in 1..n
    BY <1>4
  <2>. QED
    BY <1>1, <2>1, ElementOfSeq
<1>6. right \in Seq(Cells)
  BY <1>4, <1>5, SubSeqProperties
<1>. DEFINE line == s.line
<1>7. left \in Seq(Cells) /\ Len(left) = hi /\ \A i \in 1..hi : left[i] = line[i]
  <2>. HIDE DEF line, n
  <2>1. 1 \in Int
    OBVIOUS
  <2>2. \A l : (\A i \in 1..hi : l[i] \in Cells) =>
          /\ SubSeq(l, 1, hi) \in Seq(Cells)
          /\ Len(SubSeq(l, 1, hi)) = (IF 1 <= hi THEN hi - 1 + 1 ELSE 0)
          /\ \A i \in 1..(hi - 1 + 1) : SubSeq(l, 1, hi)[i] = l[1 + i - 1]
    BY <1>4, <2>1, SubSeqProperties
  <2>3. (IF 1 <= hi THEN hi - 1 + 1 ELSE 0) = hi /\ hi - 1 + 1 = hi
        /\ \A i \in 1..hi : 1 + i - 1 = i
    BY <1>4
  <2>. QED
    BY <1>5, <2>2, <2>3 DEF line
<1>. HIDE DEF left, right
<1>8. ASSUME NEW c \in Nat
      PROVE  InColumn(left, c) = IF c >= s.cursor THEN Blank ELSE InColumn(line, c)
  <2>1. c + 1 \in 1..hi <=> (c + 1 \in 1..n /\ ~(c >= s.cursor))
    BY <1>1, <1>2
  <2>. HIDE DEF line
  <2>. QED
    BY <1>7, <2>1 DEF InColumn, n, line
<1>9. EraseLine(s, mode) \in Screens
  <2>1. \A l \in Seq(Cells) : \A c \in Nat :
          [completed |-> s.completed, line |-> l, cursor |-> c, string |-> s.string] \in Screens
    BY <1>1 DEF Screens
  <2>2. <<>> \in Seq(Cells) /\ 0 \in Nat /\ (mode = 0 \/ mode = 1 \/ mode = 2)
    BY EmptySeq
  <2>3. CASE mode = 0
    BY <1>1, <1>3, <1>7, <2>1, <2>3, Zenon
  <2>4. CASE mode = 1
    BY <1>3, <1>6, <2>1, <2>2, <2>4, Zenon
  <2>5. CASE mode = 2
    BY <1>3, <2>1, <2>2, <2>5, Zenon
  <2>. QED
    BY <2>2, <2>3, <2>4, <2>5
<1>10. mode = 0 \/ mode = 1 \/ mode = 2
  OBVIOUS
<1>. QED
  BY <1>3, <1>8, <1>9, <1>10

\* a line end completes it,
LEMMA NewLineIs ==
  ASSUME NEW s \in Screens
  PROVE  /\ NewLine(s) \in Screens
         /\ NewLine(s) = [completed |-> Append(s.completed, s.line), line |-> <<>>,
                          cursor |-> 0, string |-> s.string]
<1>1. /\ s.line \in Seq(Cells) /\ s.completed \in Seq(Seq(Cells)) /\ s.string \in Strings
      /\ s = [completed |-> s.completed, line |-> s.line, cursor |-> s.cursor,
              string |-> s.string]
  BY DEF Screens
<1>2. \A u, l, c : Ended(s, u, l, c)
        = [completed |-> u, line |-> l, cursor |-> c, string |-> s.string]
  BY <1>1, LineAndCursor
<1>3. NewLine(s) = [completed |-> Append(s.completed, s.line), line |-> <<>>, cursor |-> 0,
                    string |-> s.string]
  <2>1. NewLine(s) = Ended(s, Append(s.completed, s.line), <<>>, 0)
    BY DEF NewLine, Ended
  <2>. QED
    BY <1>2, <2>1, Zenon
<1>. DEFINE more == Append(s.completed, s.line)
<1>4. more \in Seq(Seq(Cells)) /\ <<>> \in Seq(Cells) /\ 0 \in Nat
  BY <1>1, AppendProperties, EmptySeq
<1>. HIDE DEF more
<1>5. \A u \in Seq(Seq(Cells)) : \A l \in Seq(Cells) : \A c \in Nat :
        [completed |-> u, line |-> l, cursor |-> c, string |-> s.string] \in Screens
  BY <1>1 DEF Screens
<1>6. [completed |-> more, line |-> <<>>, cursor |-> 0, string |-> s.string] \in Screens
  BY <1>4, <1>5, Zenon
<1>. QED
  BY <1>3, <1>6 DEF more

\* and a token makes a screen a screen.
LEMMA InterpretType ==
  ASSUME NEW s \in Screens, NEW x \in StreamTokens
  PROVE  Interpret(s, x) \in Screens
<1>1. /\ s.line \in Seq(Cells) /\ s.cursor \in Nat /\ s.completed \in Seq(Seq(Cells))
      /\ s.string \in Strings
      /\ s = [completed |-> s.completed, line |-> s.line, cursor |-> s.cursor,
              string |-> s.string]
  BY DEF Screens
<1>2. CASE s.string # "no" \/ x \in {"osc", "dcs"}
  <2>1. Inside(s.string, x) \in Strings
    BY <1>1, <1>2 DEF Inside, Strings
  <2>2. Interpret(s, x) = [s EXCEPT !.string = Inside(s.string, x)]
    BY <1>2 DEF Interpret
  <2>. QED
    BY <1>1, <2>1, <2>2 DEF Screens
<1>3. CASE ~(s.string # "no" \/ x \in {"osc", "dcs"})
  <2>1. CASE x = "lf"
    <3>1. Interpret(s, x) = NewLine(s)
      BY <1>3, <2>1 DEF Interpret, Letters, Printed, Blank, EraseModes
    <3>. QED
      BY <3>1, NewLineIs
  <2>2. CASE x \in Printed
    <3>1. Interpret(s, x) = Write(s, x) /\ x \in Cells
      BY <1>3, <2>2 DEF Interpret, Letters, Printed, Blank, EraseModes, Cells
    <3>. QED
      BY <3>1, WriteIs
  <2>3. CASE x \in DOMAIN EraseModes
    <3>1. x \in {"K0", "K1", "K2"}
      BY <2>3 DEF EraseModes
    <3>2. Interpret(s, x) = EraseLine(s, EraseModes[x]) /\ EraseModes[x] \in 0..2
      BY <1>3, <3>1 DEF Interpret, Letters, Printed, Blank, EraseModes
    <3>. QED
      BY <3>2, EraseIs
  <2>4. CASE x # "lf" /\ x \notin Printed /\ x \notin DOMAIN EraseModes
    <3>2. Interpret(s, x) = [s EXCEPT !.cursor = Column(s.cursor, x)]
      BY <1>3, <2>4 DEF Interpret
    <3>3. Column(s.cursor, x) \in Nat
      <4>1. /\ Max({0, s.cursor - 1}) \in Nat /\ Max({0, s.cursor - 2}) \in Nat
        <5>1. \A a \in Int : Max({0, a}) = IF 0 >= a THEN 0 ELSE a
          BY TwoNumbers
        <5>2. s.cursor - 1 \in Int /\ s.cursor - 2 \in Int
          BY <1>1
        <5>. QED
          BY <5>1, <5>2
      <4>2. 0 \in Nat /\ s.cursor + 2 \in Nat /\ 2 - 1 \in Nat /\ s.cursor \in Nat
        BY <1>1
      <4>. QED
        BY <4>1, <4>2 DEF Column
    <3>. QED
      BY <1>1, <3>2, <3>3 DEF Screens
  <2>. QED
    BY <2>1, <2>2, <2>3, <2>4
<1>. QED
  BY <1>2, <1>3

----------------------------------------------------------------------------
(* What is rendered of a screen.                                           *)

\* One element more, at the end of a sequence that follows another.
LEMMA AppendConcat ==
  ASSUME NEW S, NEW s \in Seq(S), NEW t \in Seq(S), NEW x \in S
  PROVE  s \o Append(t, x) = Append(s \o t, x)
<1>1. /\ <<x>> \in Seq(S) /\ s \o t \in Seq(S)
  BY ConcatProperties
<1>2. Append(t, x) = t \o <<x>> /\ Append(s \o t, x) = (s \o t) \o <<x>>
  BY <1>1, AppendIsConcat
<1>3. (s \o t) \o <<x>> = s \o (t \o <<x>>)
  BY <1>1, ConcatAssociative
<1>. QED
  BY <1>2, <1>3

\* What the elements of two sequences are mapped to, one after the other.
LEMMA MappedConcat ==
  ASSUME NEW S, NEW T, NEW m \in [S -> Seq(T)], NEW s \in Seq(S), NEW t \in Seq(S)
  PROVE  Mapped(m, s \o t) = Mapped(m, s) \o Mapped(m, t)
<1>. DEFINE G == {u \in Seq(S) : Mapped(m, s \o u) = Mapped(m, s) \o Mapped(m, u)}
<1>1. <<>> \in G
  <2>1. s \o <<>> = s /\ <<>> \in Seq(S)
    BY ConcatEmptySeq, EmptySeq
  <2>2. Mapped(m, s) \o <<>> = Mapped(m, s)
    BY MappedType, ConcatEmptySeq
  <2>3. Mapped(m, <<>>) = <<>>
    BY MappedEmpty
  <2>. QED
    BY <2>1, <2>2, <2>3
<1>2. ASSUME NEW u \in Seq(S), NEW x \in S, u \in G PROVE Append(u, x) \in G
  <2>1. s \o Append(u, x) = Append(s \o u, x) /\ s \o u \in Seq(S) /\ Append(u, x) \in Seq(S)
    BY AppendConcat, ConcatProperties, AppendProperties
  <2>2. Mapped(m, Append(s \o u, x)) = Mapped(m, s \o u) \o m[x]
    BY <2>1, MappedAppend
  <2>3. Mapped(m, Append(u, x)) = Mapped(m, u) \o m[x]
    BY MappedAppend
  <2>4. Mapped(m, s) \in Seq(T) /\ Mapped(m, u) \in Seq(T) /\ m[x] \in Seq(T)
    BY MappedType
  <2>5. (Mapped(m, s) \o Mapped(m, u)) \o m[x] = Mapped(m, s) \o (Mapped(m, u) \o m[x])
    BY <2>4, ConcatAssociative
  <2>. QED
    BY <1>2, <2>1, <2>2, <2>3, <2>5
<1>. HIDE DEF G
<1>3. Seq(S) \subseteq G
  BY <1>1, <1>2, AllSequences
<1>. QED
  BY <1>3 DEF G

\* Lines are joined one after the other.
LEMMA JoinedAppend ==
  ASSUME NEW S, "lf" \in S, NEW lines \in Seq(Seq(S)), NEW line \in Seq(S)
  PROVE  /\ Joined(lines) \in Seq(S)
         /\ Joined(Append(lines, line))
              = IF lines = <<>> THEN line ELSE Joined(lines) \o (<<"lf">> \o line)
<1>. DEFINE Piece(i, l) == IF i = 1 THEN l ELSE <<"lf">> \o l
            pieces == [i \in DOMAIN lines |-> Piece(i, lines[i])]
            more == Append(lines, line)  n == Len(lines)
            last == Piece(n + 1, line)
<1>0. \A l \in Seq(S) : <<"lf">> \o l \in Seq(S)
  <2>1. <<"lf">> \in Seq(S)
    OBVIOUS
  <2>. QED
    BY <2>1, ConcatProperties
<1>1. /\ n \in Nat /\ DOMAIN lines = 1..n /\ \A i \in 1..n : lines[i] \in Seq(S)
      /\ more \in Seq(Seq(S)) /\ DOMAIN more = 1..(n + 1)
      /\ \A i \in 1..n : more[i] = lines[i]
      /\ more[n + 1] = line
  <2>1. /\ more \in Seq(Seq(S)) /\ Len(more) = n + 1
        /\ \A i \in 1..n : more[i] = lines[i]
        /\ more[n + 1] = line
    BY AppendProperties
  <2>2. n \in Nat /\ DOMAIN lines = 1..n /\ \A i \in 1..n : lines[i] \in Seq(S)
    BY LenProperties, ElementOfSeq
  <2>3. DOMAIN more = 1..Len(more)
    BY <2>1, LenProperties
  <2>. QED
    BY <2>1, <2>2, <2>3
<1>. HIDE DEF more, n
<1>2. last \in Seq(S) /\ \A i \in 1..n : Piece(i, lines[i]) \in Seq(S)
  BY <1>0, <1>1
<1>3. pieces \in Seq(Seq(S)) /\ Len(pieces) = n /\ \A i \in 1..n : pieces[i] = Piece(i, lines[i])
  <2>. HIDE DEF Piece
  <2>. QED
    BY <1>1, <1>2
<1>4. Joined(lines) = FlattenSeq(pieces)
  BY DEF Joined
<1>5. Joined(more) = FlattenSeq([i \in DOMAIN more |-> Piece(i, more[i])])
  BY DEF Joined
<1>. HIDE DEF pieces, last
<1>6. [i \in DOMAIN more |-> Piece(i, more[i])] = Append(pieces, last)
  <2>1. /\ Append(pieces, last) \in Seq(Seq(S)) /\ Len(Append(pieces, last)) = n + 1
        /\ \A i \in 1..n : Append(pieces, last)[i] = pieces[i]
        /\ Append(pieces, last)[n + 1] = last
    BY <1>2, <1>3, AppendProperties
  <2>2. \A i \in 1..(n + 1) : i = n + 1 \/ i \in 1..n
    BY <1>1
  <2>. HIDE DEF Piece
  <2>3. \A i \in 1..(n + 1) : Append(pieces, last)[i] = Piece(i, more[i])
    BY <1>1, <1>3, <2>1, <2>2 DEF last
  <2>4. Append(pieces, last) = [i \in 1..(n + 1) |-> Append(pieces, last)[i]]
    <3>1. DOMAIN Append(pieces, last) = 1..(n + 1)
      BY <2>1, LenProperties
    <3>2. Append(pieces, last) \in [1..(n + 1) -> Seq(S)]
      BY <2>1, <3>1, LenProperties
    <3>. QED
      BY <3>2
  <2>. QED
    BY <1>1, <2>3, <2>4
<1>7. FlattenSeq(pieces) \in Seq(S)
  BY <1>3, FlattenType
<1>8. FlattenSeq(Append(pieces, last)) = FlattenSeq(pieces) \o last
  BY <1>2, <1>3, <1>7, FlattenAppend
<1>9. CASE lines = <<>>
  <2>1. n = 0 /\ pieces = <<>>
    BY <1>3, <1>9, EmptySeq DEF n
  <2>2. last = line /\ FlattenSeq(pieces) = <<>>
    BY <2>1, FlattenEmpty DEF last
  <2>. QED
    BY <1>4, <1>5, <1>6, <1>7, <1>8, <1>9, <2>2, ConcatEmptySeq DEF more
<1>10. CASE lines # <<>>
  <2>1. n + 1 # 1
    BY <1>1, <1>10, EmptySeq DEF n
  <2>2. last = <<"lf">> \o line
    BY <2>1 DEF last
  <2>. QED
    BY <1>4, <1>5, <1>6, <1>7, <1>8, <1>10, <2>2 DEF more
<1>. QED
  BY <1>9, <1>10

\* Of no lines nothing.
LEMMA JoinedNothing == Joined(<<>>) = <<>>
<1>1. DOMAIN <<>> = {}
  BY EmptySeq
<1>2. [i \in DOMAIN <<>> |-> IF i = 1 THEN <<>>[i] ELSE <<"lf">> \o <<>>[i]] = <<>>
  BY <1>1
<1>. QED
  BY <1>2, FlattenEmpty DEF Joined

\* All that is on a screen.
Content(s) ==
  IF s.completed = <<>> THEN s.line ELSE Joined(s.completed) \o (<<"lf">> \o s.line)

\* A single empty line before the last is lost.
Loses(s) == s.line # <<>> /\ s.completed # <<>> /\ Joined(s.completed) = <<>>

\* That is what is rendered.
LEMMA RenderIs ==
  ASSUME NEW stream, Interpreted(stream) \in Screens
  PROVE  RenderTerminalStream(stream)
           = IF Loses(Interpreted(stream)) THEN Interpreted(stream).line
             ELSE Content(Interpreted(stream))
<1>. DEFINE s == Interpreted(stream)  S == Cells \cup {"lf"}  r == Joined(s.completed)
<1>1. s.completed \in Seq(Seq(Cells)) /\ s.line \in Seq(Cells)
  BY DEF Screens
<1>2. s.line \in Seq(S) /\ s.completed \in Seq(Seq(S)) /\ <<"lf">> \in Seq(S) /\ "lf" \in S
  <2>1. Seq(Cells) \subseteq Seq(S)
    BY SeqMonotonic
  <2>2. s.completed \in Seq(Seq(S))
    BY <1>1, <2>1, SeqMonotonic
  <2>. QED
    BY <1>1, <2>1, <2>2
<1>. HIDE DEF s, S
<1>3. r \in Seq(S)
  BY <1>2, JoinedAppend
<1>4. RenderTerminalStream(stream)
        = IF s.line # <<>> THEN (IF r # <<>> THEN r \o <<"lf">> ELSE <<>>) \o s.line
          ELSE IF s.completed # <<>> THEN r \o <<"lf">> ELSE <<>>
  BY DEF RenderTerminalStream, s
<1>5. s.completed = <<>> => r = <<>>
  BY JoinedNothing
<1>. HIDE DEF r
<1>6. /\ <<"lf">> \o <<>> = <<"lf">> /\ <<>> \o s.line = s.line
      /\ (r \o <<"lf">>) \o s.line = r \o (<<"lf">> \o s.line)
  <2>1. /\ \A t \in Seq(S) : t \o <<>> = t /\ <<>> \o t = t
        /\ \A t, u, v \in Seq(S) : (t \o u) \o v = t \o (u \o v)
    BY ConcatEmptySeq, ConcatAssociative
  <2>. QED
    BY <1>2, <1>3, <2>1
<1>7. CASE s.line # <<>>
  BY <1>4, <1>5, <1>6, <1>7 DEF Loses, Content, s, r
<1>8. CASE s.line = <<>>
  BY <1>4, <1>5, <1>6, <1>8 DEF Loses, Content, s, r
<1>. QED
  BY <1>7, <1>8

----------------------------------------------------------------------------
(* What the operator sees of an output, and what of it is selected.        *)

RawTokens == {"a", "b", "cr", "lf", "m", "bs"}
PlainTokens == Cells \cup {"lf"}
RawPieces == [x \in OutputTokens |-> IF x = "crlf" THEN <<"cr", "lf">> ELSE <<x>>]

\* Raw maps every token,
LEMMA RawMaps ==
  ASSUME NEW t \in Seq(OutputTokens)
  PROVE  /\ RawPieces \in [OutputTokens -> Seq(RawTokens)]
         /\ \A x \in OutputTokens : RawPieces[x] = IF x = "crlf" THEN <<"cr", "lf">> ELSE <<x>>
         /\ Raw(t) = Mapped(RawPieces, t) /\ Raw(t) \in Seq(RawTokens)
<1>1. \A x \in OutputTokens : RawPieces[x] = IF x = "crlf" THEN <<"cr", "lf">> ELSE <<x>>
  BY DEF RawPieces
<1>2. RawPieces \in [OutputTokens -> Seq(RawTokens)]
  <2>1. /\ "cr" \in RawTokens /\ "lf" \in RawTokens
        /\ \A x \in OutputTokens : x = "crlf" \/ x \in RawTokens
    BY DEF RawTokens, OutputTokens
  <2>2. /\ \A x \in RawTokens : <<x>> \in Seq(RawTokens)
        /\ \A x, y \in RawTokens : <<x, y>> \in Seq(RawTokens)
    OBVIOUS
  <2>3. \A x \in OutputTokens :
          (IF x = "crlf" THEN <<"cr", "lf">> ELSE <<x>>) \in Seq(RawTokens)
    <3>. SUFFICES ASSUME NEW x \in OutputTokens
                  PROVE  (IF x = "crlf" THEN <<"cr", "lf">> ELSE <<x>>) \in Seq(RawTokens)
      OBVIOUS
    <3>1. CASE x = "crlf"
      BY <2>1, <2>2, <3>1, Zenon
    <3>2. CASE x # "crlf"
      BY <2>1, <2>2, <3>2, Zenon
    <3>. QED
      BY <3>1, <3>2
  <2>. QED
    BY <2>3, Zenon DEF RawPieces
<1>3. Raw(t) = Mapped(RawPieces, t)
  <2>1. \A i \in DOMAIN t : t[i] \in OutputTokens
    BY LenProperties, ElementOfSeq
  <2>2. [i \in DOMAIN t |-> IF t[i] = "crlf" THEN <<"cr", "lf">> ELSE <<t[i]>>]
          = [i \in DOMAIN t |-> RawPieces[t[i]]]
    BY <1>1, <2>1
  <2>. QED
    BY <2>2, Zenon DEF Raw, Mapped
<1>. HIDE DEF RawPieces
<1>. QED
  BY <1>1, <1>2, <1>3, MappedType

\* and one more adds a character, or a carriage return and a line feed.
LEMMA RawAppend ==
  ASSUME NEW t \in Seq(OutputTokens), NEW x \in OutputTokens
  PROVE  /\ x # "crlf" => /\ x \in RawTokens /\ x # "cr"
                           /\ Raw(Append(t, x)) = Append(Raw(t), x)
         /\ x = "crlf" => Raw(Append(t, x)) = Append(Append(Raw(t), "cr"), "lf")
<1>1. Append(t, x) \in Seq(OutputTokens)
  BY AppendProperties
<1>2. /\ RawPieces \in [OutputTokens -> Seq(RawTokens)]
      /\ RawPieces[x] = IF x = "crlf" THEN <<"cr", "lf">> ELSE <<x>>
      /\ Raw(t) = Mapped(RawPieces, t) /\ Raw(t) \in Seq(RawTokens)
      /\ Raw(Append(t, x)) = Mapped(RawPieces, Append(t, x))
  BY <1>1, RawMaps
<1>3. Raw(Append(t, x)) = Raw(t) \o RawPieces[x]
  BY <1>2, MappedAppend
<1>. DEFINE r == Raw(t)
<1>4. r \in Seq(RawTokens) /\ "cr" \in RawTokens /\ "lf" \in RawTokens
  BY <1>2 DEF RawTokens
<1>. HIDE DEF r
<1>5. /\ \A y \in RawTokens : r \o <<y>> = Append(r, y)
      /\ r \o <<"cr", "lf">> = Append(Append(r, "cr"), "lf")
  <2>1. \A y \in RawTokens : Append(r, y) = r \o <<y>> /\ Append(r, y) \in Seq(RawTokens)
    BY <1>4, AppendIsConcat, AppendProperties
  <2>2. Append(Append(r, "cr"), "lf") = Append(r, "cr") \o <<"lf">>
    BY <1>4, <2>1, AppendIsConcat
  <2>3. /\ <<"cr">> \in Seq(RawTokens) /\ <<"lf">> \in Seq(RawTokens)
    BY <1>4
  <2>4. (r \o <<"cr">>) \o <<"lf">> = r \o (<<"cr">> \o <<"lf">>)
    BY <1>4, <2>3, ConcatAssociative
  <2>5. <<"cr">> \o <<"lf">> = <<"cr", "lf">>
    <3>. DEFINE u == <<"cr">>  v == <<"lf">>  w == <<"cr", "lf">>
    <3>1. /\ \A y \in RawTokens : <<y>> \in Seq(RawTokens) /\ Len(<<y>>) = 1 /\ <<y>>[1] = y
          /\ \A y, z \in RawTokens : /\ <<y, z>> \in Seq(RawTokens) /\ Len(<<y, z>>) = 2
                                     /\ <<y, z>>[1] = y /\ <<y, z>>[2] = z
      OBVIOUS
    <3>2. /\ u \in Seq(RawTokens) /\ Len(u) = 1 /\ u[1] = "cr"
          /\ v \in Seq(RawTokens) /\ Len(v) = 1 /\ v[1] = "lf"
          /\ w \in Seq(RawTokens) /\ Len(w) = 2 /\ w[1] = "cr" /\ w[2] = "lf"
      BY <1>4, <3>1, Zenon
    <3>. HIDE DEF u, v, w
    <3>3. /\ u \o v \in Seq(RawTokens) /\ Len(u \o v) = Len(u) + Len(v)
          /\ \A i \in 1..Len(u) : (u \o v)[i] = u[i]
          /\ \A i \in 1..Len(v) : (u \o v)[Len(u) + i] = v[i]
      BY <3>2, ConcatPlaces
    <3>4. 1 \in 1..1 /\ 1 + 1 = 2 /\ \A i \in 1..2 : i = 1 \/ i = 2
      OBVIOUS
    <3>5. \A i \in 1..Len(w) : (u \o v)[i] = w[i]
      BY <3>2, <3>3, <3>4
    <3>6. u \o v = w
      BY <3>2, <3>3, <3>4, <3>5, SeqEqual
    <3>. QED
      BY <3>6 DEF u, v, w
  <2>. QED
    BY <1>4, <2>1, <2>2, <2>4, <2>5
<1>6. x # "crlf" => x \in RawTokens /\ x # "cr"
  BY DEF OutputTokens, RawTokens
<1>. QED
  BY <1>2, <1>3, <1>5, <1>6 DEF r

\* Of nothing it makes nothing.
LEMMA RawNothing == Raw(<<>>) = <<>>
<1>1. <<>> \in Seq(OutputTokens)
  BY EmptySeq
<1>. QED
  BY <1>1, RawMaps, MappedEmpty

\* What a token does outside of strings, and inside.
LEMMA InterpretIs ==
  ASSUME NEW s \in Screens, NEW x \in StreamTokens
  PROVE  /\ s.string # "no" \/ x \in {"osc", "dcs"} =>
              /\ Interpret(s, x).completed = s.completed /\ Interpret(s, x).line = s.line
              /\ Interpret(s, x).cursor = s.cursor
              /\ Interpret(s, x).string = Inside(s.string, x)
         /\ ~(s.string # "no" \/ x \in {"osc", "dcs"}) =>
              /\ x = "lf" => Interpret(s, x) = NewLine(s)
              /\ x \in Printed => Interpret(s, x) = Write(s, x)
              /\ x \in DOMAIN EraseModes => Interpret(s, x) = EraseLine(s, EraseModes[x])
              /\ x # "lf" /\ x \notin Printed /\ x \notin DOMAIN EraseModes =>
                   /\ Interpret(s, x).completed = s.completed /\ Interpret(s, x).line = s.line
                   /\ Interpret(s, x).cursor = Column(s.cursor, x)
                   /\ Interpret(s, x).string = s.string
<1>1. s = [completed |-> s.completed, line |-> s.line, cursor |-> s.cursor,
           string |-> s.string]
  BY DEF Screens
<1>2. \A c : LET r == [s EXCEPT !.cursor = c]
             IN  /\ r.completed = s.completed /\ r.line = s.line /\ r.cursor = c
                 /\ r.string = s.string
  BY <1>1
<1>3. \A c : LET r == [s EXCEPT !.string = c]
             IN  /\ r.completed = s.completed /\ r.line = s.line /\ r.cursor = s.cursor
                 /\ r.string = c
  BY <1>1
<1>4. ASSUME s.string # "no" \/ x \in {"osc", "dcs"}
      PROVE  Interpret(s, x) = [s EXCEPT !.string = Inside(s.string, x)]
  BY <1>4 DEF Interpret
<1>5. ASSUME ~(s.string # "no" \/ x \in {"osc", "dcs"})
      PROVE  /\ x = "lf" => Interpret(s, x) = NewLine(s)
             /\ x \in Printed => Interpret(s, x) = Write(s, x)
             /\ x \in DOMAIN EraseModes => Interpret(s, x) = EraseLine(s, EraseModes[x])
             /\ x # "lf" /\ x \notin Printed /\ x \notin DOMAIN EraseModes =>
                  Interpret(s, x) = [s EXCEPT !.cursor = Column(s.cursor, x)]
  <2>1. DOMAIN EraseModes = {"K0", "K1", "K2"}
    BY DEF EraseModes
  <2>2. Printed = {"a", "b", "blank", "tab"}
    BY DEF Printed, Letters, Blank
  <2>3. x = "lf" => Interpret(s, x) = NewLine(s)
    BY <1>5, <2>1, <2>2 DEF Interpret
  <2>4. x \in Printed => Interpret(s, x) = Write(s, x)
    BY <1>5, <2>1, <2>2 DEF Interpret
  <2>5. x \in DOMAIN EraseModes => Interpret(s, x) = EraseLine(s, EraseModes[x])
    BY <1>5, <2>1, <2>2 DEF Interpret
  <2>6. x # "lf" /\ x \notin Printed /\ x \notin DOMAIN EraseModes =>
          Interpret(s, x) = [s EXCEPT !.cursor = Column(s.cursor, x)]
    BY <1>5, <2>1, <2>2 DEF Interpret
  <2>. QED
    BY <2>3, <2>4, <2>5, <2>6
<1>6. s.string # "no" \/ x \in {"osc", "dcs"} =>
        /\ Interpret(s, x).completed = s.completed /\ Interpret(s, x).line = s.line
        /\ Interpret(s, x).cursor = s.cursor
        /\ Interpret(s, x).string = Inside(s.string, x)
  BY <1>3, <1>4, Zenon
<1>7. ~(s.string # "no" \/ x \in {"osc", "dcs"}) =>
        (x # "lf" /\ x \notin Printed /\ x \notin DOMAIN EraseModes =>
           /\ Interpret(s, x).completed = s.completed /\ Interpret(s, x).line = s.line
           /\ Interpret(s, x).cursor = Column(s.cursor, x)
           /\ Interpret(s, x).string = s.string)
  BY <1>2, <1>5, Zenon
<1>. QED
  BY <1>5, <1>6, <1>7, Zenon

\* The empty screen.
LEMMA ScreenIs ==
  /\ Screen \in Screens /\ Screen.completed = <<>> /\ Screen.line = <<>>
  /\ Screen.cursor = 0 /\ Screen.string = "no"
<1>1. <<>> \in Seq(Cells) /\ <<>> \in Seq(Seq(Cells)) /\ "no" \in Strings
  BY EmptySeq DEF Strings
<1>. QED
  BY <1>1 DEF Screen, Screens

\* Every text makes a screen.
LEMMA InterpretedType ==
  ASSUME NEW t \in Seq(StreamTokens)
  PROVE  Interpreted(t) \in Screens
<1>. DEFINE G == {u \in Seq(StreamTokens) : Interpreted(u) \in Screens}
<1>1. <<>> \in G
  BY InterpretedNothing, ScreenIs, EmptySeq
<1>2. ASSUME NEW u \in Seq(StreamTokens), NEW x \in StreamTokens, u \in G
      PROVE  Append(u, x) \in G
  <2>1. Interpreted(Append(u, x)) = Interpret(Interpreted(u), x)
    BY InterpretedAppend
  <2>2. Interpreted(u) \in Screens /\ Append(u, x) \in Seq(StreamTokens)
    BY <1>2, AppendProperties
  <2>. QED
    BY <2>1, <2>2, InterpretType
<1>. HIDE DEF G
<1>3. Seq(StreamTokens) \subseteq G
  BY <1>1, <1>2, AllSequences
<1>. QED
  BY <1>3 DEF G

\* What the operator selects of an output has no carriage returns, so that its line
\* ends stay as they are.
LEMMA SelectionIs ==
  ASSUME NEW t \in Seq(OutputTokens), NEW selection \in Selections(t)
  PROVE  /\ selection \in Seq(PlainTokens) /\ Len(selection) \in Nat /\ selection # <<>>
         /\ Len(selection) # 0 /\ Normalized(selection) = selection
<1>. DEFINE seen == RenderTerminalStream(Raw(t))  s == Interpreted(Raw(t))
            above == Joined(s.completed)  l == <<"lf">>
<1>1. s \in Screens
  <2>1. Raw(t) \in Seq(RawTokens) /\ RawTokens \subseteq StreamTokens
    BY RawMaps DEF RawTokens, StreamTokens, Letters
  <2>2. Raw(t) \in Seq(StreamTokens)
    BY <2>1, SeqMonotonic
  <2>. QED
    BY <2>2, InterpretedType
<1>2. /\ s.line \in Seq(PlainTokens) /\ s.completed \in Seq(Seq(PlainTokens))
      /\ l \in Seq(PlainTokens) /\ "lf" \in PlainTokens
  <2>1. s.line \in Seq(Cells) /\ s.completed \in Seq(Seq(Cells))
    BY <1>1 DEF Screens
  <2>2. Cells \subseteq PlainTokens /\ "lf" \in PlainTokens
    BY DEF PlainTokens
  <2>3. Seq(Cells) \subseteq Seq(PlainTokens)
    BY <2>2, SeqMonotonic
  <2>4. s.completed \in Seq(Seq(PlainTokens))
    BY <2>1, <2>3, SeqMonotonic
  <2>. QED
    BY <2>1, <2>2, <2>3, <2>4
<1>3. seen = IF Loses(s) THEN s.line ELSE Content(s)
  BY <1>1, RenderIs
<1>. HIDE DEF s, l, seen
<1>4. above \in Seq(PlainTokens)
  BY <1>2, JoinedAppend
<1>. HIDE DEF above
<1>5. seen \in Seq(PlainTokens)
  <2>1. l \o s.line \in Seq(PlainTokens)
    BY <1>2, ConcatProperties
  <2>2. above \o (l \o s.line) \in Seq(PlainTokens)
    BY <1>4, <2>1, ConcatProperties
  <2>3. Content(s) \in Seq(PlainTokens)
    BY <1>2, <2>2 DEF Content, above, l
  <2>. QED
    BY <1>2, <1>3, <2>3
<1>6. PICK i \in DOMAIN seen, j \in DOMAIN seen : selection = SubSeq(seen, i, j)
  BY DEF Selections, seen
<1>7. selection # <<>>
  BY DEF Selections
<1>8. selection \in Seq(PlainTokens)
  <2>1. i \in 1..Len(seen) /\ j \in 1..Len(seen) /\ Len(seen) \in Nat
    BY <1>5, <1>6, LenProperties
  <2>2. i \in Int /\ j \in Int /\ \A k \in i..j : k \in 1..Len(seen)
    BY <2>1
  <2>3. \A k \in i..j : seen[k] \in PlainTokens
    BY <1>5, <2>2, ElementOfSeq
  <2>. QED
    BY <1>6, <2>2, <2>3, SubSeqProperties
<1>9. Normalized(selection) = selection
  <2>1. \A k \in DOMAIN selection : selection[k] \in PlainTokens
    BY <1>8, LenProperties, ElementOfSeq
  <2>2. \A x \in PlainTokens : x # "cr"
    BY DEF PlainTokens, Cells, Printed, Letters, Blank
  <2>3. \A k \in DOMAIN selection :
          (CASE selection[k] # "cr" -> <<selection[k]>>
             [] selection[k] = "cr" /\ k < Len(selection) /\ selection[k + 1] = "lf" -> <<>>
             [] OTHER -> <<"lf">>) = <<selection[k]>>
    BY <2>1, <2>2
  <2>4. [k \in DOMAIN selection |->
           CASE selection[k] # "cr" -> <<selection[k]>>
             [] selection[k] = "cr" /\ k < Len(selection) /\ selection[k + 1] = "lf" -> <<>>
             [] OTHER -> <<"lf">>] = [k \in DOMAIN selection |-> <<selection[k]>>]
    BY <2>3, Zenon
  <2>5. Normalized(selection) = FlattenSeq([k \in DOMAIN selection |-> <<selection[k]>>])
    BY <2>4, Zenon DEF Normalized
  <2>. QED
    BY <1>8, <2>5, FlattenSingles
<1>10. Len(selection) \in Nat /\ Len(selection) # 0
  BY <1>7, <1>8, LenProperties, EmptySeq
<1>. QED
  BY <1>7, <1>8, <1>9, <1>10

\* p holds the place in the raw output at which each token ends; all but the
\* carriage returns are such ends.
Width(x) == IF x = "crlf" THEN 2 ELSE 1
EndsAt(p, t, r) ==
  /\ p[0] = 0 /\ p[Len(t)] = Len(r)
  /\ \A k \in 1..Len(t) :
       /\ p[k] \in 1..Len(r) /\ p[k] = p[k - 1] + Width(t[k])
       /\ r[p[k]] = (IF t[k] = "crlf" THEN "lf" ELSE t[k])
       /\ t[k] = "crlf" => r[p[k] - 1] = "cr"
  /\ \A c \in 1..Len(r) : r[c] # "cr" => \E k \in 1..Len(t) : p[k] = c

\* Some function does.
LEMMA TokensEnd ==
  ASSUME NEW t \in Seq(OutputTokens)
  PROVE  \E p \in [0..Len(t) -> Nat] : EndsAt(p, t, Raw(t))
<1>. DEFINE G == {u \in Seq(OutputTokens) :
                    \E p \in [0..Len(u) -> Nat] : EndsAt(p, u, Raw(u))}
<1>1. <<>> \in G
  <2>1. <<>> \in Seq(OutputTokens) /\ Len(<<>>) = 0 /\ Raw(<<>>) = <<>>
    BY EmptySeq, RawNothing
  <2>. DEFINE p == [k \in 0..0 |-> 0]
  <2>2. p \in [0..0 -> Nat] /\ p[0] = 0 /\ \A k \in 1..0 : FALSE
    OBVIOUS
  <2>. HIDE DEF p
  <2>3. EndsAt(p, <<>>, <<>>)
    BY <2>1, <2>2 DEF EndsAt
  <2>. QED
    BY <2>1, <2>2, <2>3
<1>2. ASSUME NEW u \in Seq(OutputTokens), NEW x \in OutputTokens, u \in G
      PROVE  Append(u, x) \in G
  <2>. DEFINE v == Append(u, x)  n == Len(u)  r == Raw(u)  s == Raw(v)  m == Len(r)
  <2>1. PICK p \in [0..n -> Nat] : EndsAt(p, u, r)
    BY <1>2
  <2>2. /\ v \in Seq(OutputTokens) /\ Len(v) = n + 1 /\ v[n + 1] = x /\ n \in Nat
        /\ \A k \in 1..n : v[k] = u[k]
    BY AppendProperties, LenProperties
  <2>3. r \in Seq(RawTokens) /\ m \in Nat
    BY RawMaps, LenProperties
  <2>4. /\ x # "crlf" => x \in RawTokens /\ x # "cr" /\ s = Append(r, x)
        /\ x = "crlf" => s = Append(Append(r, "cr"), "lf")
    BY RawAppend
  <2>5. /\ Len(s) = m + Width(x) /\ Width(x) \in {1, 2}
        /\ s[m + Width(x)] = (IF x = "crlf" THEN "lf" ELSE x)
        /\ x = "crlf" => s[m + 1] = "cr"
        /\ \A c \in 1..m : s[c] = r[c]
    <3>. HIDE DEF r, s, m
    <3>1. CASE x # "crlf"
      <4>1. x \in RawTokens /\ s = Append(r, x) /\ Width(x) = 1
        BY <2>4, <3>1 DEF Width
      <4>2. Len(s) = Len(r) + 1 /\ s[Len(r) + 1] = x /\ \A c \in 1..Len(r) : s[c] = r[c]
        BY <2>3, <4>1, AppendProperties
      <4>. QED
        BY <3>1, <4>1, <4>2 DEF m
    <3>2. CASE x = "crlf"
      <4>. DEFINE q == Append(r, "cr")
      <4>1. "cr" \in RawTokens /\ "lf" \in RawTokens /\ Width(x) = 2
        BY <3>2 DEF RawTokens, Width
      <4>2. /\ q \in Seq(RawTokens) /\ Len(q) = Len(r) + 1 /\ q[Len(r) + 1] = "cr"
            /\ \A c \in 1..Len(r) : q[c] = r[c]
        BY <2>3, <4>1, AppendProperties
      <4>3. s = Append(q, "lf")
        BY <2>4, <3>2
      <4>. HIDE DEF q
      <4>4. Len(s) = Len(q) + 1 /\ s[Len(q) + 1] = "lf" /\ \A c \in 1..Len(q) : s[c] = q[c]
        BY <4>1, <4>2, <4>3, AppendProperties
      <4>5. m + 1 \in 1..(m + 1) /\ m + 1 + 1 = m + 2 /\ \A c \in 1..m : c \in 1..(m + 1)
        BY <2>3
      <4>. QED
        BY <3>2, <4>1, <4>2, <4>4, <4>5 DEF m
    <3>. QED
      BY <3>1, <3>2
  <2>. DEFINE q == [k \in 0..(n + 1) |-> IF k = n + 1 THEN m + Width(x) ELSE p[k]]
  <2>6. /\ \A k \in 0..n : k \in 0..(n + 1) /\ k # n + 1
        /\ n + 1 \in 0..(n + 1) /\ 0 \in 0..n /\ n \in 0..n /\ (n + 1) - 1 = n
        /\ \A k \in 1..n : k \in 0..n /\ k - 1 \in 0..n
        /\ \A k \in 1..(n + 1) : k = n + 1 \/ k \in 1..n
        /\ \A k \in 1..n : k \in 1..(n + 1)
        /\ n + 1 \in 1..(n + 1)
    BY <2>2
  <2>7. /\ q \in [0..(n + 1) -> Nat] /\ q[n + 1] = m + Width(x)
        /\ \A k \in 0..n : q[k] = p[k]
    BY <2>3, <2>5, <2>6
  <2>. HIDE DEF q, n, m, r, s, v
  <2>8. /\ p[0] = 0 /\ p[n] = m
        /\ \A k \in 1..n :
             /\ p[k] \in 1..m /\ p[k] = p[k - 1] + Width(u[k])
             /\ r[p[k]] = (IF u[k] = "crlf" THEN "lf" ELSE u[k])
             /\ u[k] = "crlf" => r[p[k] - 1] = "cr"
        /\ \A c \in 1..m : r[c] # "cr" => \E k \in 1..n : p[k] = c
    BY <2>1 DEF EndsAt, n, m
  <2>9. \A c \in 1..m : c \in 1..(m + Width(x))
    BY <2>3, <2>5
  <2>10. q[0] = 0 /\ q[n + 1] = Len(s)
    BY <2>5, <2>6, <2>7, <2>8
  <2>11. ASSUME NEW k \in 1..(n + 1)
         PROVE  /\ q[k] \in 1..Len(s) /\ q[k] = q[k - 1] + Width(v[k])
                /\ s[q[k]] = (IF v[k] = "crlf" THEN "lf" ELSE v[k])
                /\ v[k] = "crlf" => s[q[k] - 1] = "cr"
    <3>1. CASE k = n + 1
      <4>1. q[k] = m + Width(x) /\ q[k - 1] = m /\ v[k] = x
        BY <2>2, <2>6, <2>7, <2>8, <3>1
      <4>2. m + Width(x) \in 1..Len(s)
        BY <2>3, <2>5
      <4>3. q[k] \in 1..Len(s) /\ q[k] = q[k - 1] + Width(v[k])
        BY <4>1, <4>2
      <4>4. s[q[k]] = (IF v[k] = "crlf" THEN "lf" ELSE v[k])
        BY <2>5, <4>1
      <4>5. v[k] = "crlf" => s[q[k] - 1] = "cr"
        <5>. SUFFICES ASSUME x = "crlf" PROVE s[q[k] - 1] = "cr"
          BY <4>1
        <5>1. q[k] = m + 2
          BY <4>1 DEF Width
        <5>2. q[k] - 1 = m + 1
          BY <2>3, <5>1
        <5>. QED
          BY <2>5, <5>2
      <4>. QED
        BY <4>3, <4>4, <4>5
    <3>2. CASE k # n + 1
      <4>1. k \in 1..n /\ v[k] = u[k] /\ q[k] = p[k] /\ q[k - 1] = p[k - 1] /\ p[k] \in 1..m
        BY <2>2, <2>6, <2>7, <2>8, <3>2
      <4>2. s[q[k]] = r[p[k]] /\ q[k] \in 1..Len(s) /\ q[k] = q[k - 1] + Width(v[k])
        BY <2>5, <2>8, <2>9, <4>1
      <4>3. v[k] = "crlf" => s[q[k] - 1] = "cr"
        <5>. SUFFICES ASSUME v[k] = "crlf" PROVE s[q[k] - 1] = "cr"
          OBVIOUS
        <5>1. p[k] = p[k - 1] + 2 /\ p[k - 1] \in Nat
          BY <2>6, <2>8, <4>1 DEF Width
        <5>2. p[k] - 1 \in 1..m
          BY <2>3, <4>1, <5>1
        <5>. QED
          BY <2>5, <2>8, <4>1, <5>2
      <4>. QED
        BY <2>8, <4>1, <4>2, <4>3
    <3>. QED
      BY <3>1, <3>2
  <2>12. ASSUME NEW c \in 1..Len(s), s[c] # "cr" PROVE \E k \in 1..(n + 1) : q[k] = c
    <3>1. CASE c \in 1..m
      <4>1. PICK k \in 1..n : p[k] = c
        BY <2>5, <2>8, <2>12, <3>1
      <4>. QED
        BY <2>6, <2>7, <4>1
    <3>2. CASE c \notin 1..m
      <4>1. c = m + 1 \/ c = m + Width(x)
        BY <2>3, <2>5, <3>2
      <4>2. c = m + Width(x)
        BY <2>5, <2>12, <4>1 DEF Width
      <4>. QED
        BY <2>6, <2>7, <4>2
    <3>. QED
      BY <3>1, <3>2
  <2>13. EndsAt(q, v, s)
    BY <2>2, <2>10, <2>11, <2>12 DEF EndsAt
  <2>. QED
    BY <2>2, <2>7, <2>13 DEF s, v
<1>. HIDE DEF G
<1>3. Seq(OutputTokens) \subseteq G
  BY <1>1, <1>2, AllSequences
<1>. QED
  BY <1>3 DEF G

\* A selection is found where the shell wrote it in one go, and nowhere else.
LEMMA FoundInOneGo ==
  ASSUME NEW t \in Seq(OutputTokens), NEW selection \in Seq(PlainTokens),
         Len(selection) # 0
  PROVE  Starts(Raw(t), selection) # {} <=> InOneGo(t, selection)
<1>. DEFINE r == Raw(t)  n == Len(t)  m == Len(selection)  N == Len(r)
<1>1. /\ r \in Seq(RawTokens) /\ N \in Nat /\ n \in Nat /\ m \in Nat /\ m # 0
      /\ DOMAIN t = 1..n /\ DOMAIN selection = 1..m
      /\ \A j \in 1..m : selection[j] \in PlainTokens
      /\ \A x \in PlainTokens : x # "cr" /\ x # "crlf"
  <2>1. \A x \in PlainTokens : x # "cr" /\ x # "crlf"
    BY DEF PlainTokens, Cells, Printed, Letters, Blank
  <2>. QED
    BY <2>1, RawMaps, LenProperties, ElementOfSeq
<1>2. PICK p \in [0..n -> Nat] : EndsAt(p, t, r)
  BY TokensEnd
<1>. HIDE DEF r, n, m, N
<1>3. /\ p[0] = 0 /\ p[n] = N
      /\ \A k \in 1..n :
           /\ p[k] \in 1..N /\ p[k] = p[k - 1] + Width(t[k])
           /\ r[p[k]] = (IF t[k] = "crlf" THEN "lf" ELSE t[k])
           /\ t[k] = "crlf" => r[p[k] - 1] = "cr"
      /\ \A c \in 1..N : r[c] # "cr" => \E k \in 1..n : p[k] = c
  BY <1>2 DEF EndsAt, n, N
<1>4. \A b \in 1..(N - m + 1) :
        SubSeq(r, b, b + m - 1) = selection <=> \A j \in 1..m : r[b + j - 1] = selection[j]
  <2>. SUFFICES ASSUME NEW b \in 1..(N - m + 1)
                PROVE  SubSeq(r, b, b + m - 1) = selection
                         <=> \A j \in 1..m : r[b + j - 1] = selection[j]
    OBVIOUS
  <2>. DEFINE u == SubSeq(r, b, b + m - 1)  S == RawTokens \cup PlainTokens
  <2>1. /\ b \in Int /\ b + m - 1 \in Int /\ b <= b + m - 1 /\ (b + m - 1) - b + 1 = m
        /\ \A k \in b..(b + m - 1) : k \in 1..N
    BY <1>1
  <2>2. \A k \in b..(b + m - 1) : r[k] \in RawTokens
    BY <1>1, <2>1, ElementOfSeq DEF N
  <2>3. /\ u \in Seq(RawTokens)
        /\ Len(u) = (IF b <= b + m - 1 THEN (b + m - 1) - b + 1 ELSE 0)
        /\ \A k \in 1..((b + m - 1) - b + 1) : u[k] = r[b + k - 1]
    <3>1. \A e, f \in Int : (\A k \in e..f : r[k] \in RawTokens) =>
            /\ SubSeq(r, e, f) \in Seq(RawTokens)
            /\ Len(SubSeq(r, e, f)) = (IF e <= f THEN f - e + 1 ELSE 0)
            /\ \A k \in 1..(f - e + 1) : SubSeq(r, e, f)[k] = r[e + k - 1]
      BY SubSeqProperties
    <3>. QED
      BY <2>1, <2>2, <3>1
  <2>. HIDE DEF u
  <2>4. Len(u) = m /\ \A k \in 1..m : u[k] = r[b + k - 1]
    BY <2>1, <2>3
  <2>5. u \in Seq(S) /\ selection \in Seq(S)
    <3>1. RawTokens \subseteq S /\ PlainTokens \subseteq S
      OBVIOUS
    <3>. HIDE DEF S
    <3>. QED
      BY <2>3, <3>1, SeqMonotonic
  <2>. HIDE DEF S
  <2>6. u = selection <=> \A k \in 1..m : u[k] = selection[k]
    BY <2>4, <2>5, SeqEqual DEF m
  <2>. QED
    BY <2>4, <2>6 DEF u
<1>5. ASSUME NEW b \in Starts(r, selection) PROVE InOneGo(t, selection)
  <2>1. b \in 1..(N - m + 1) /\ \A j \in 1..m : r[b + j - 1] = selection[j]
    BY <1>4 DEF Starts, N, m
  <2>2. /\ 1 \in 1..m /\ b + 1 - 1 = b /\ b \in Nat
        /\ \A j \in 1..m : b + j - 1 \in 1..N
    BY <1>1, <2>1
  <2>3. r[b] # "cr"
    BY <1>1, <2>1, <2>2
  <2>4. PICK i \in 1..n : p[i] = b
    <3>1. b \in 1..N
      BY <2>2
    <3>. QED
      BY <1>3, <2>3, <3>1
  <2>. DEFINE Good(j) == i + j - 1 \in 1..n /\ p[i + j - 1] = b + j - 1
              G == {j \in Nat : j + 1 \in 1..m => Good(j + 1)}
  <2>5. ASSUME NEW j \in 1..m, Good(j), j + 1 \in 1..m
        PROVE  /\ i + (j + 1) - 1 \in 1..n /\ t[i + (j + 1) - 1] # "crlf"
               /\ p[i + (j + 1) - 1] = b + (j + 1) - 1
    <3>. DEFINE k == i + (j + 1) - 1  c == b + (j + 1) - 1
    <3>1. i + j - 1 # n
      <4>1. b + (j + 1) - 1 \in 1..N
        BY <2>2, <2>5
      <4>2. b + j - 1 # N
        BY <1>1, <2>2, <4>1
      <4>. QED
        BY <1>3, <2>5, <4>2
    <3>2. k \in 1..n /\ k - 1 = i + j - 1 /\ c - 1 = b + j - 1 /\ c \in Nat
      BY <1>1, <2>2, <2>5, <3>1
    <3>. HIDE DEF k, c
    <3>4. p[k] = c - 1 + Width(t[k])
      BY <1>3, <2>5, <3>2
    <3>5. t[k] # "crlf"
      <4>. SUFFICES ASSUME t[k] = "crlf" PROVE FALSE
        OBVIOUS
      <4>1. p[k] - 1 = c
        BY <3>2, <3>4 DEF Width
      <4>2. r[c] = "cr"
        BY <1>3, <3>2, <4>1
      <4>3. r[c] = selection[j + 1]
        BY <2>1, <2>5 DEF c
      <4>. QED
        BY <1>1, <2>5, <4>2, <4>3
    <3>6. p[k] = c
      BY <3>2, <3>4, <3>5 DEF Width
    <3>. QED
      BY <3>2, <3>5, <3>6 DEF k, c
  <2>6. 0 \in G
    <3>1. i + (0 + 1) - 1 = i /\ b + (0 + 1) - 1 = b
      BY <2>2
    <3>. QED
      BY <2>4, <3>1
  <2>7. ASSUME NEW j \in Nat, j \in G PROVE j + 1 \in G
    <3>. SUFFICES ASSUME (j + 1) + 1 \in 1..m PROVE Good((j + 1) + 1)
      <4>. HIDE DEF Good
      <4>. QED
        OBVIOUS
    <3>1. j + 1 \in 1..m
      BY <1>1
    <3>2. Good(j + 1)
      BY <2>7, <3>1
    <3>. QED
      BY <2>5, <3>1, <3>2
  <2>. HIDE DEF G, Good
  <2>8. Nat \subseteq G
    BY <2>6, <2>7, AllNaturals
  <2>9. \A j \in 1..m : Good(j)
    <3>1. \A j \in 1..m : j - 1 \in Nat /\ (j - 1) + 1 = j
      BY <1>1
    <3>2. ASSUME NEW j \in 1..m PROVE Good(j)
      <4>1. j - 1 \in G /\ (j - 1) + 1 = j
        BY <2>8, <3>1
      <4>. QED
        BY <4>1 DEF G
    <3>. QED
      BY <3>2
  <2>10. ASSUME NEW j \in 1..m
         PROVE  /\ i + j - 1 \in 1..n
                /\ \/ t[i + j - 1] = selection[j]
                   \/ j = 1 /\ selection[j] = "lf" /\ t[i] = "crlf"
    <3>1. i + j - 1 \in 1..n /\ p[i + j - 1] = b + j - 1
      BY <2>9 DEF Good
    <3>2. selection[j] = IF t[i + j - 1] = "crlf" THEN "lf" ELSE t[i + j - 1]
      BY <1>3, <2>1, <3>1
    <3>3. CASE j = 1
      <4>1. i + j - 1 = i
        BY <3>3
      <4>. QED
        BY <3>1, <3>2, <3>3, <4>1
    <3>4. CASE j # 1
      <4>1. j - 1 \in 1..m /\ (j - 1) + 1 = j /\ (j - 1) + 1 \in 1..m
        BY <1>1, <3>4
      <4>2. Good(j - 1)
        BY <2>9, <4>1
      <4>3. t[i + j - 1] # "crlf"
        BY <2>5, <4>1, <4>2
      <4>. QED
        BY <3>1, <3>2, <4>3
    <3>. QED
      BY <3>3, <3>4
  <2>. QED
    BY <1>1, <2>10 DEF InOneGo
<1>6. ASSUME InOneGo(t, selection) PROVE Starts(r, selection) # {}
  <2>1. PICK i \in 1..n : \A j \in 1..m :
          /\ i + j - 1 \in 1..n
          /\ \/ t[i + j - 1] = selection[j]
             \/ j = 1 /\ selection[j] = "lf" /\ t[i] = "crlf"
    BY <1>1, <1>6 DEF InOneGo
  <2>. DEFINE b == p[i]  Good(j) == p[i + j - 1] = b + j - 1
              G == {j \in Nat : j + 1 \in 1..m => Good(j + 1)}
  <2>2. b \in 1..N /\ 1 \in 1..m
    BY <1>1, <1>3
  <2>. HIDE DEF b
  <2>3. 0 \in G
    <3>1. i + (0 + 1) - 1 = i /\ b + (0 + 1) - 1 = b
      BY <2>2
    <3>. QED
      BY <3>1 DEF b
  <2>4. ASSUME NEW j \in Nat, j \in G PROVE j + 1 \in G
    <3>. SUFFICES ASSUME (j + 1) + 1 \in 1..m PROVE Good((j + 1) + 1)
      <4>. HIDE DEF Good
      <4>. QED
        OBVIOUS
    <3>. DEFINE k == i + ((j + 1) + 1) - 1
    <3>1. j + 1 \in 1..m /\ k - 1 = i + (j + 1) - 1 /\ (j + 1) + 1 # 1
      BY <1>1
    <3>2. p[k - 1] = b + (j + 1) - 1
      BY <2>4, <3>1
    <3>3. k \in 1..n /\ t[k] = selection[(j + 1) + 1]
      BY <2>1, <3>1
    <3>. HIDE DEF k
    <3>4. t[k] # "crlf"
      BY <1>1, <3>3
    <3>5. p[k] = p[k - 1] + 1
      BY <1>3, <3>3, <3>4 DEF Width
    <3>6. b + (j + 1) - 1 + 1 = b + ((j + 1) + 1) - 1
      BY <2>2
    <3>. QED
      BY <3>2, <3>5, <3>6 DEF k
  <2>. HIDE DEF G, Good
  <2>5. Nat \subseteq G
    BY <2>3, <2>4, AllNaturals
  <2>6. ASSUME NEW j \in 1..m PROVE p[i + j - 1] = b + j - 1
    <3>1. j - 1 \in Nat /\ (j - 1) + 1 = j
      BY <1>1
    <3>2. j - 1 \in G
      BY <2>5, <3>1
    <3>. QED
      BY <3>1, <3>2 DEF G, Good
  <2>7. ASSUME NEW j \in 1..m PROVE r[b + j - 1] = selection[j]
    <3>1. /\ i + j - 1 \in 1..n
          /\ r[b + j - 1] = IF t[i + j - 1] = "crlf" THEN "lf" ELSE t[i + j - 1]
      BY <1>3, <2>1, <2>6
    <3>2. CASE t[i + j - 1] = selection[j]
      BY <1>1, <3>1, <3>2
    <3>3. CASE j = 1 /\ selection[j] = "lf" /\ t[i] = "crlf"
      <4>1. i + j - 1 = i
        BY <3>3
      <4>. QED
        BY <3>1, <3>3, <4>1
    <3>. QED
      BY <2>1, <3>2, <3>3
  <2>8. b \in 1..(N - m + 1)
    <3>1. m \in 1..m
      BY <1>1
    <3>2. p[i + m - 1] = b + m - 1 /\ i + m - 1 \in 1..n
      BY <2>1, <2>6, <3>1
    <3>3. b + m - 1 \in 1..N
      BY <1>3, <3>2
    <3>. QED
      BY <1>1, <2>2, <3>3
  <2>9. SubSeq(r, b, b + m - 1) = selection
    BY <1>4, <2>7, <2>8
  <2>. QED
    BY <2>8, <2>9 DEF Starts, N, m
<1>. QED
  BY <1>5, <1>6 DEF r

\* A sequence without its elements from a place to another.
LEMMA DroppedIs ==
  ASSUME NEW S, NEW e \in Seq(S), NEW from \in Nat, NEW to \in Int, to <= Len(e)
  PROVE  FlattenSeq([i \in DOMAIN e |-> IF from < i /\ i <= to THEN <<>> ELSE <<e[i]>>])
           = IF from < to THEN SubSeq(e, 1, from) \o SubSeq(e, to + 1, Len(e)) ELSE e
<1>. DEFINE n == Len(e)
            seqs == [i \in DOMAIN e |-> IF from < i /\ i <= to THEN <<>> ELSE <<e[i]>>]
            Some(k) == FlattenSeq(SubSeq(seqs, 1, k))
            Left(k) == IF k <= from \/ to <= from THEN SubSeq(e, 1, k)
                       ELSE SubSeq(e, 1, from) \o SubSeq(e, to + 1, k)
            G == {k \in Nat : k <= n => Some(k) = Left(k)}
<1>1. n \in Nat /\ DOMAIN e = 1..n /\ \A i \in 1..n : e[i] \in S
  BY LenProperties, ElementOfSeq
<1>2. /\ seqs \in Seq(Seq(S)) /\ Len(seqs) = n
      /\ \A i \in 1..n : seqs[i] = IF from < i /\ i <= to THEN <<>> ELSE <<e[i]>>
  <2>1. <<>> \in Seq(S) /\ \A x \in S : <<x>> \in Seq(S)
    BY EmptySeq
  <2>2. \A i \in 1..n : (IF from < i /\ i <= to THEN <<>> ELSE <<e[i]>>) \in Seq(S)
    BY <1>1, <2>1
  <2>. QED
    BY <1>1, <2>2
<1>. HIDE DEF seqs, n
<1>3. \A a \in Int : \A k \in Int : 1 <= a /\ k <= n => SubSeq(e, a, k) \in Seq(S)
  <2>. SUFFICES ASSUME NEW a \in Int, NEW k \in Int, 1 <= a, k <= n PROVE SubSeq(e, a, k) \in Seq(S)
    OBVIOUS
  <2>1. \A i \in a..k : i \in 1..n
    BY <1>1
  <2>2. \A i \in a..k : e[i] \in S
    BY <1>1, <2>1
  <2>. QED
    BY <2>2, SubSeqProperties
<1>4. 0 \in G
  <2>1. SubSeq(seqs, 1, 0) = <<>> /\ SubSeq(e, 1, 0) = <<>>
    BY SubSeqEmpty
  <2>2. Some(0) = <<>> /\ Left(0) = <<>>
    <3>1. Some(0) = FlattenSeq(<<>>)
      BY <2>1
    <3>2. 0 <= from
      OBVIOUS
    <3>. QED
      BY <2>1, <3>1, <3>2, FlattenEmpty
  <2>. HIDE DEF Some, Left
  <2>. QED
    BY <2>2
<1>5. ASSUME NEW k \in Nat, k \in G PROVE k + 1 \in G
  <2>. SUFFICES ASSUME k + 1 <= n PROVE Some(k + 1) = Left(k + 1)
    <3>. HIDE DEF Some, Left
    <3>. QED
      OBVIOUS
  <2>1. k + 1 \in 1..n /\ k \in Int /\ k + 1 \in Int /\ k <= n /\ k + 1 - 1 = k
    BY <1>1
  <2>2. Some(k) = Left(k)
    <3>. HIDE DEF Some, Left
    <3>. QED
      BY <1>5, <2>1
  <2>3. Some(k + 1) = Some(k) \o seqs[k + 1]
    <3>1. \A v \in Seq(Seq(S)) : k + 1 \in 1..Len(v) =>
            FlattenSeq(SubSeq(v, 1, k + 1)) = FlattenSeq(SubSeq(v, 1, k)) \o v[k + 1]
      BY FlattenPrefix
    <3>. QED
      BY <1>2, <2>1, <3>1
  <2>. DEFINE x == <<e[k + 1]>>
  <2>4. x \in Seq(S)
    BY <1>1, <2>1
  <2>5. ASSUME NEW a \in 1..(k + 1) PROVE SubSeq(e, a, k + 1) = SubSeq(e, a, k) \o x
    <3>1. a \in 1..Len(e) /\ k + 1 \in a..Len(e)
      BY <2>1 DEF n
    <3>2. SubSeq(e, a, k + 1) = SubSeq(e, a, k + 1 - 1) \o <<e[k + 1]>>
      BY <3>1, SubSeqRecursiveSecond
    <3>. QED
      BY <2>1, <3>2
  <2>. HIDE DEF x, Some
  <2>6. \A u \in Seq(S) : u \o <<>> = u
    BY ConcatEmptySeq
  <2>7. CASE k + 1 <= from \/ to <= from
    <3>1. ~(from < k + 1 /\ k + 1 <= to) /\ (k <= from \/ to <= from)
      BY <2>7
    <3>2. seqs[k + 1] = x
      BY <1>2, <2>1, <3>1 DEF x
    <3>3. Left(k) = SubSeq(e, 1, k) /\ Left(k + 1) = SubSeq(e, 1, k + 1)
      BY <2>7, <3>1
    <3>4. 1 \in 1..(k + 1)
      OBVIOUS
    <3>5. SubSeq(e, 1, k + 1) = SubSeq(e, 1, k) \o x
      BY <2>5, <3>4
    <3>. QED
      BY <2>2, <2>3, <3>2, <3>3, <3>5
  <2>8. CASE ~(k + 1 <= from \/ to <= from)
    <3>1. /\ from < k + 1 /\ from < to /\ from \in Int /\ from <= n /\ from <= k
      BY <2>1, <2>8, <1>1 DEF n
    <3>2. SubSeq(e, 1, from) \in Seq(S)
      BY <1>3, <3>1
    <3>3. Left(k + 1) = SubSeq(e, 1, from) \o SubSeq(e, to + 1, k + 1)
      BY <2>8
    <3>4. CASE k + 1 <= to
      <4>1. seqs[k + 1] = <<>>
        BY <1>2, <2>1, <3>1, <3>4
      <4>2. SubSeq(e, to + 1, k + 1) = <<>> /\ SubSeq(e, to + 1, k) = <<>>
        <5>1. k + 1 < to + 1 /\ k < to + 1 /\ to + 1 \in Int
          BY <3>4
        <5>. QED
          BY <2>1, <5>1, SubSeqEmpty
      <4>3. Left(k) = SubSeq(e, 1, from)
        <5>1. CASE k <= from
          <6>1. k = from
            BY <3>1, <5>1
          <6>. QED
            BY <6>1
        <5>2. CASE ~(k <= from)
          <6>1. ~(k <= from \/ to <= from)
            BY <3>1, <5>2
          <6>2. Left(k) = SubSeq(e, 1, from) \o SubSeq(e, to + 1, k)
            BY <6>1
          <6>. HIDE DEF Left
          <6>. QED
            BY <2>6, <3>2, <4>2, <6>2
        <5>. QED
          BY <5>1, <5>2
      <4>. HIDE DEF Left
      <4>4. Left(k + 1) = SubSeq(e, 1, from)
        BY <2>6, <3>2, <3>3, <4>2
      <4>. QED
        BY <2>2, <2>3, <2>6, <3>2, <4>1, <4>3, <4>4
    <3>5. CASE ~(k + 1 <= to)
      <4>1. ~(from < k + 1 /\ k + 1 <= to) /\ ~(k <= from \/ to <= from)
            /\ to + 1 \in 1..(k + 1) /\ to + 1 \in Int /\ 1 <= to + 1
        BY <3>1, <3>5
      <4>2. seqs[k + 1] = x
        BY <1>2, <2>1, <4>1 DEF x
      <4>3. Left(k) = SubSeq(e, 1, from) \o SubSeq(e, to + 1, k)
        BY <4>1
      <4>4. SubSeq(e, to + 1, k + 1) = SubSeq(e, to + 1, k) \o x
        BY <2>5, <4>1
      <4>5. SubSeq(e, to + 1, k) \in Seq(S)
        BY <1>3, <2>1, <4>1
      <4>. HIDE DEF Left
      <4>. DEFINE u == SubSeq(e, 1, from)  v == SubSeq(e, to + 1, k)
      <4>6. (u \o v) \o x = u \o (v \o x)
        <5>1. u \in Seq(S) /\ v \in Seq(S)
          BY <3>2, <4>5
        <5>. HIDE DEF u, v
        <5>. QED
          BY <2>4, <5>1, ConcatAssociative
      <4>. QED
        BY <2>2, <2>3, <3>3, <4>2, <4>3, <4>4, <4>6
    <3>. QED
      BY <3>4, <3>5
  <2>. HIDE DEF Left
  <2>. QED
    BY <2>7, <2>8
<1>. HIDE DEF G
<1>6. Nat \subseteq G
  BY <1>4, <1>5, AllNaturals
<1>7. n \in G /\ n <= n
  BY <1>1, <1>6
<1>8. Some(n) = Left(n)
  <2>. HIDE DEF Some, Left
  <2>. QED
    BY <1>7 DEF G
<1>9. SubSeq(seqs, 1, n) = seqs /\ SubSeq(e, 1, n) = e
  <2>1. SubSeq(seqs, 1, Len(seqs)) = seqs
    BY <1>2, SubSeqFull
  <2>2. SubSeq(e, 1, Len(e)) = e
    BY SubSeqFull
  <2>. QED
    BY <1>2, <2>1, <2>2 DEF n
<1>10. FlattenSeq(seqs) = Left(n)
  BY <1>8, <1>9
<1>11. CASE from < to
  <2>1. ~(n <= from \/ to <= from)
    BY <1>1, <1>11 DEF n
  <2>2. Left(n) = SubSeq(e, 1, from) \o SubSeq(e, to + 1, n)
    BY <2>1
  <2>. QED
    BY <1>10, <1>11, <2>2 DEF seqs, n
<1>12. CASE ~(from < to)
  <2>1. to <= from
    BY <1>12
  <2>2. Left(n) = e
    BY <1>9, <2>1
  <2>. QED
    BY <1>10, <1>12, <2>2 DEF seqs
<1>. QED
  BY <1>11, <1>12

\* Captured events are the output, cut in two places.
LEMMA CapturedWhole ==
  ASSUME NEW t \in Seq(OutputTokens), NEW events \in Captures(t)
  PROVE  /\ events \in Seq(Seq(RawTokens)) /\ FlattenSeq(events) = Raw(t)
<1>. DEFINE r == Raw(t)  n == Len(r)
<1>1. r \in Seq(RawTokens) /\ n \in Nat
  BY RawMaps, LenProperties
<1>2. PICK cut \in {c \in (0..n) \X (0..n) : c[1] <= c[2]} :
        events = <<SubSeq(r, 1, cut[1]), SubSeq(r, cut[1] + 1, cut[2]), SubSeq(r, cut[2] + 1, n)>>
  BY DEF Captures
<1>. DEFINE i == cut[1]  j == cut[2]  a == SubSeq(r, 1, i)  b == SubSeq(r, i + 1, j)
            c == SubSeq(r, j + 1, n)
<1>3. i \in 0..n /\ j \in 0..n /\ i <= j
  BY <1>2
<1>4. events = <<a, b, c>>
  BY <1>2
<1>. HIDE DEF i, j
<1>. HIDE DEF r, n
<1>5. \A p \in Int : \A q \in Int : 1 <= p /\ q <= n => SubSeq(r, p, q) \in Seq(RawTokens)
  <2>. SUFFICES ASSUME NEW p \in Int, NEW q \in Int, 1 <= p, q <= n
                PROVE  SubSeq(r, p, q) \in Seq(RawTokens)
    OBVIOUS
  <2>1. \A k \in p..q : k \in 1..Len(r)
    BY <1>1 DEF n
  <2>2. \A k \in p..q : r[k] \in RawTokens
    BY <1>1, <2>1, ElementOfSeq
  <2>. QED
    BY <2>2, SubSeqProperties
<1>6. a \in Seq(RawTokens) /\ b \in Seq(RawTokens) /\ c \in Seq(RawTokens)
  <2>1. /\ 1 \in Int /\ i \in Int /\ i + 1 \in Int /\ j \in Int /\ j + 1 \in Int /\ n \in Int
        /\ 1 <= 1 /\ 1 <= i + 1 /\ 1 <= j + 1 /\ i <= n /\ j <= n /\ n <= n
    BY <1>1, <1>3
  <2>. QED
    BY <1>5, <2>1
<1>7. (a \o b) \o c = r
  <2>1. /\ 1 \in 1..(Len(r) + 1) /\ i \in (1 - 1)..Len(r) /\ j \in i..Len(r)
        /\ j \in (1 - 1)..Len(r) /\ Len(r) \in j..Len(r)
    BY <1>1, <1>3 DEF n
  <2>2. SubSeq(r, 1, i) \o SubSeq(r, i + 1, j) = SubSeq(r, 1, j)
    BY <1>1, <2>1, ConcatAdjacentSubSeq
  <2>3. SubSeq(r, 1, j) \o SubSeq(r, j + 1, Len(r)) = SubSeq(r, 1, Len(r))
    BY <1>1, <2>1, ConcatAdjacentSubSeq
  <2>4. SubSeq(r, 1, Len(r)) = r
    BY <1>1, SubSeqFull
  <2>. QED
    BY <2>2, <2>3, <2>4 DEF n
<1>. HIDE DEF a, b, c
<1>8. /\ events \in Seq(Seq(RawTokens)) /\ Len(events) = 3
      /\ events[1] = a /\ events[2] = b /\ events[3] = c
  BY <1>4, <1>6
<1>9. FlattenSeq(events) = (a \o b) \o c
  <2>1. \A k \in Nat : k + 1 \in 1..Len(events) =>
          FlattenSeq(SubSeq(events, 1, k + 1)) = FlattenSeq(SubSeq(events, 1, k)) \o events[k + 1]
    BY <1>8, FlattenPrefix
  <2>2. 0 + 1 \in 1..3 /\ 1 + 1 \in 1..3 /\ 2 + 1 \in 1..3 /\ 0 + 1 = 1 /\ 1 + 1 = 2 /\ 2 + 1 = 3
    OBVIOUS
  <2>3. SubSeq(events, 1, 0) = <<>> /\ SubSeq(events, 1, 3) = events
    <3>1. SubSeq(events, 1, 0) = <<>>
      BY SubSeqEmpty
    <3>2. SubSeq(events, 1, Len(events)) = events
      BY <1>8, SubSeqFull
    <3>. QED
      BY <1>8, <3>1, <3>2
  <2>4. FlattenSeq(SubSeq(events, 1, 0)) = <<>> /\ <<>> \o a = a
    BY <1>6, <2>3, FlattenEmpty, ConcatEmptySeq
  <2>5. FlattenSeq(SubSeq(events, 1, 1)) = a
    BY <1>8, <2>1, <2>2, <2>4
  <2>6. FlattenSeq(SubSeq(events, 1, 2)) = a \o b
    BY <1>8, <2>1, <2>2, <2>5
  <2>7. FlattenSeq(SubSeq(events, 1, 3)) = (a \o b) \o c
    BY <1>8, <2>1, <2>2, <2>6
  <2>. QED
    BY <2>3, <2>7
<1>. QED
  BY <1>7, <1>8, <1>9 DEF r

\* What event n keeps when some places of the combined output are taken.
Keeps(events, n, taken) ==
  FlattenSeq([i \in DOMAIN events[n] |->
    IF Len(FlattenSeq(SubSeq(events, 1, n - 1))) + i \in taken THEN <<>> ELSE <<events[n][i]>>])

\* An event without the occurrence keeps its characters outside of it.
LEMMA CutKeeps ==
  ASSUME NEW S, NEW events \in Seq(Seq(S)), NEW n \in DOMAIN events,
         NEW first \in Nat, first # 0, NEW m \in Nat
  PROVE  CutEvent(events, n, first - 1, first - 1 + m)
           = Keeps(events, n, first..(first + m - 1))
<1>. DEFINE e == events[n]  offset == Len(FlattenSeq(SubSeq(events, 1, n - 1)))
            from == Max({0, first - 1 - offset})
            to == Min({Len(e), first - 1 + m - offset})
<1>1. e \in Seq(S) /\ Len(e) \in Nat /\ DOMAIN e = 1..Len(e) /\ n \in 1..Len(events)
      /\ Len(events) \in Nat
  <2>1. n \in 1..Len(events) /\ Len(events) \in Nat
    BY LenProperties
  <2>. QED
    BY <2>1, ElementOfSeq, LenProperties
<1>2. offset \in Nat
  <2>1. n - 1 \in Int /\ \A i \in 1..(n - 1) : i \in 1..Len(events)
    BY <1>1
  <2>2. \A i \in 1..(n - 1) : events[i] \in Seq(S)
    BY <2>1, ElementOfSeq
  <2>3. SubSeq(events, 1, n - 1) \in Seq(Seq(S))
    BY <2>1, <2>2, SubSeqProperties
  <2>4. FlattenSeq(SubSeq(events, 1, n - 1)) \in Seq(S)
    BY <2>3, FlattenType
  <2>. QED
    BY <2>4, LenProperties
<1>3. CutEvent(events, n, first - 1, first - 1 + m)
        = IF from < to THEN SubSeq(e, 1, from) \o SubSeq(e, to + 1, Len(e)) ELSE e
  BY DEF CutEvent
<1>4. /\ from = (IF 0 >= first - 1 - offset THEN 0 ELSE first - 1 - offset)
      /\ to = (IF Len(e) <= first - 1 + m - offset THEN Len(e) ELSE first - 1 + m - offset)
  <2>. HIDE DEF e, offset
  <2>1. first - 1 - offset \in Int /\ first - 1 + m - offset \in Int /\ Len(e) \in Int /\ 0 \in Int
    BY <1>1, <1>2
  <2>. QED
    BY <2>1, TwoNumbers
<1>. HIDE DEF from, to, offset, e
<1>5. from \in Nat /\ to \in Int /\ to <= Len(e)
  BY <1>1, <1>2, <1>4
<1>6. \A i \in 1..Len(e) : offset + i \in first..(first + m - 1) <=> from < i /\ i <= to
  BY <1>1, <1>2, <1>4
<1>7. [i \in DOMAIN e |-> IF offset + i \in first..(first + m - 1) THEN <<>> ELSE <<e[i]>>]
        = [i \in DOMAIN e |-> IF from < i /\ i <= to THEN <<>> ELSE <<e[i]>>]
  <2>1. \A i \in DOMAIN e : offset + i \in first..(first + m - 1) <=> from < i /\ i <= to
    BY <1>1, <1>6
  <2>. QED
    BY <2>1, Zenon
<1>8. FlattenSeq([i \in DOMAIN e |-> IF from < i /\ i <= to THEN <<>> ELSE <<e[i]>>])
        = IF from < to THEN SubSeq(e, 1, from) \o SubSeq(e, to + 1, Len(e)) ELSE e
  BY <1>1, <1>5, DroppedIs
<1>. QED
  BY <1>3, <1>7, <1>8, Zenon DEF e, offset, Keeps

\* A selection goes out of what was captured.
LEMMA SelectionRedacted ==
  ASSUME NEW t \in Seq(OutputTokens), NEW selection \in Selections(t), NEW events \in Captures(t)
  PROVE  LET result == RedactText(events, selection)
             Before(n) == Len(FlattenSeq(SubSeq(events, 1, n - 1)))
             Kept(n, taken) == FlattenSeq([i \in DOMAIN events[n] |->
               IF Before(n) + i \in taken THEN <<>> ELSE <<events[n][i]>>])
         IN  /\ result.redacted <=> InOneGo(t, selection)
             /\ result.redacted =>
                  \E first \in Starts(Raw(t), selection) :
                    \A n \in DOMAIN events :
                      result.events[n] = Kept(n, first..(first + Len(selection) - 1))
<1>. DEFINE result == RedactText(events, selection)
            Before(n) == Len(FlattenSeq(SubSeq(events, 1, n - 1)))
            Kept(n, taken) == FlattenSeq([p \in DOMAIN events[n] |->
              IF Before(n) + p \in taken THEN <<>> ELSE <<events[n][p]>>])
            starts == Starts(Raw(t), selection)  first == Min(starts)  m == Len(selection)
<1>2. /\ selection \in Seq(PlainTokens) /\ Normalized(selection) = selection
      /\ selection # <<>> /\ m \in Nat /\ m # 0
  BY SelectionIs
<1>3. starts # {} <=> InOneGo(t, selection)
  BY <1>2, FoundInOneGo
<1>4. events \in Seq(Seq(RawTokens)) /\ FlattenSeq(events) = Raw(t)
  BY CapturedWhole
<1>5. result = IF starts = {} THEN Unredacted(events)
               ELSE Redacted(events, first - 1, first - 1 + m)
  BY <1>2, <1>4 DEF RedactText
<1>6. CASE starts = {}
  <2>1. result.redacted = FALSE
    BY <1>5, <1>6 DEF Unredacted
  <2>. HIDE DEF result
  <2>. QED
    BY <1>3, <1>6, <2>1 DEF result
<1>7. CASE starts # {}
  <2>1. /\ result.redacted = TRUE
        /\ \A n \in DOMAIN events :
             result.events[n] = CutEvent(events, n, first - 1, first - 1 + m)
    <3>. HIDE DEF first, m
    <3>1. result = Redacted(events, first - 1, first - 1 + m)
      BY <1>5, <1>7 DEF first, m
    <3>. HIDE DEF result
    <3>. QED
      BY <3>1 DEF Redacted
  <2>2. first \in starts /\ first \in Nat /\ first # 0
    <3>1. \A k \in starts : k \in Nat /\ k # 0
      BY DEF Starts
    <3>2. \E k \in starts : \A l \in starts : k <= l
      <4>1. starts \subseteq Nat
        BY <3>1
      <4>. HIDE DEF starts
      <4>. QED
        BY <1>7, <4>1, LeastNatural
    <3>. HIDE DEF starts
    <3>3. first \in starts
      BY <3>2 DEF Min
    <3>. QED
      BY <3>1, <3>3
  <2>3. ASSUME NEW n \in DOMAIN events
        PROVE  result.events[n] = Kept(n, first..(first + m - 1))
    <3>. HIDE DEF first, m, result, starts
    <3>1. CutEvent(events, n, first - 1, first - 1 + m) = Keeps(events, n, first..(first + m - 1))
      BY <1>2, <1>4, <2>2, CutKeeps
    <3>2. result.events[n] = CutEvent(events, n, first - 1, first - 1 + m)
      BY <2>1
    <3>3. Kept(n, first..(first + m - 1)) = Keeps(events, n, first..(first + m - 1))
      BY Zenon DEF Keeps
    <3>. QED
      BY <3>1, <3>2, <3>3, Zenon
  <2>. HIDE DEF result, Kept, starts, first
  <2>4. result.redacted /\ \E f \in starts : \A n \in DOMAIN events :
          result.events[n] = Kept(n, f..(f + m - 1))
    BY <2>1, <2>2, <2>3
  <2>5. (result.redacted <=> InOneGo(t, selection))
    BY <1>3, <1>7, <2>1
  <2>. QED
    BY <2>4, <2>5 DEF result, Kept, starts
<1>. QED
  BY <1>6, <1>7

----------------------------------------------------------------------------
(* Recursion over the places of a text.                                    *)

Recurs(f, n, base, step) == f[0] = base /\ \A k \in 1..n : f[k] = step[k][f[k - 1]]
StaysIn(V, n, step) == \A k \in 1..n : \A v \in V : step[k][v] \in V

\* Where each value is made of the one before, there is a function of all.
LEMMA ValuesExist ==
  ASSUME NEW n \in Nat, NEW V, NEW base \in V, NEW step, StaysIn(V, n, step)
  PROVE  \E f \in [0..n -> V] : Recurs(f, n, base, step)
<1>. DEFINE Is0(f, m) == f[0] = base /\ \A k \in 1..m : f[k] = step[k][f[k - 1]]
            G == {m \in Nat : m <= n => \E f \in [0..m -> V] : Is0(f, m)}
<1>1. 0 \in G
  <2>. DEFINE f == [k \in 0..0 |-> base]
  <2>1. f \in [0..0 -> V] /\ f[0] = base /\ \A k \in 1..0 : FALSE
    OBVIOUS
  <2>. HIDE DEF f
  <2>. QED
    BY <2>1
<1>2. ASSUME NEW m \in Nat, m \in G PROVE m + 1 \in G
  <2>. SUFFICES ASSUME m + 1 <= n PROVE \E f \in [0..(m + 1) -> V] : Is0(f, m + 1)
    <3>. HIDE DEF Is0
    <3>. QED
      OBVIOUS
  <2>1. /\ m <= n /\ m + 1 \in 1..n /\ (m + 1) - 1 = m /\ m + 1 \in 0..(m + 1) /\ 0 \in 0..m
        /\ \A k \in 0..m : k \in 0..(m + 1) /\ k # m + 1
        /\ \A k \in 1..m : k \in 0..m /\ k - 1 \in 0..m
        /\ \A k \in 1..(m + 1) : k = m + 1 \/ k \in 1..m
        /\ m \in 0..m
        /\ \A k \in 0..(m + 1) : k = m + 1 \/ k \in 0..m
    OBVIOUS
  <2>2. PICK f \in [0..m -> V] : Is0(f, m)
    <3>. HIDE DEF Is0
    <3>. QED
      BY <1>2, <2>1
  <2>. DEFINE x == step[m + 1][f[m]]
              g == [k \in 0..(m + 1) |-> IF k = m + 1 THEN x ELSE f[k]]
  <2>3. x \in V
    BY <2>1 DEF StaysIn
  <2>. HIDE DEF x
  <2>4. g \in [0..(m + 1) -> V] /\ g[m + 1] = x /\ \A k \in 0..m : g[k] = f[k]
    BY <2>1, <2>3
  <2>. HIDE DEF g
  <2>5. Is0(g, m + 1)
    BY <2>1, <2>2, <2>4 DEF x
  <2>. HIDE DEF Is0
  <2>. QED
    BY <2>4, <2>5
<1>. HIDE DEF G
<1>3. Nat \subseteq G
  BY <1>1, <1>2, AllNaturals
<1>4. n \in G /\ n <= n
  BY <1>3
<1>. QED
  BY <1>4 DEF G, Recurs

Alike(f, g, n) == f[0] = g[0] /\ \A k \in 1..n : f[k - 1] = g[k - 1] => f[k] = g[k]

\* Functions that begin alike and go on alike are alike.
LEMMA ValuesAgree ==
  \A n \in Nat : \A f, g : Alike(f, g, n) => \A k \in 0..n : f[k] = g[k]
<1>. SUFFICES ASSUME NEW n \in Nat, NEW f, NEW g, Alike(f, g, n)
              PROVE  \A k \in 0..n : f[k] = g[k]
  BY Zenon
<1>0. f[0] = g[0] /\ \A k \in 1..n : f[k - 1] = g[k - 1] => f[k] = g[k]
  BY DEF Alike
<1>. DEFINE G == {k \in Nat : k <= n => f[k] = g[k]}
<1>1. 0 \in G
  BY <1>0
<1>2. ASSUME NEW k \in Nat, k \in G PROVE k + 1 \in G
  <2>. SUFFICES ASSUME k + 1 <= n PROVE f[k + 1] = g[k + 1]
    OBVIOUS
  <2>1. k + 1 \in 1..n /\ (k + 1) - 1 = k /\ k <= n
    OBVIOUS
  <2>. QED
    BY <1>0, <1>2, <2>1
<1>. HIDE DEF G
<1>3. Nat \subseteq G
  BY <1>1, <1>2, AllNaturals
<1>4. \A k \in 0..n : k \in Nat /\ k <= n
  OBVIOUS
<1>. QED
  BY <1>3, <1>4 DEF G

\* The places of a text with one token more.
LEMMA PlacesMore ==
  ASSUME NEW S, NEW t \in Seq(S), NEW x \in S
  PROVE  /\ Append(t, x) \in Seq(S) /\ Len(Append(t, x)) = Len(t) + 1
         /\ Append(t, x)[Len(t) + 1] = x /\ Len(t) \in Nat
         /\ \A k \in 1..Len(t) : Append(t, x)[k] = t[k] /\ k \in 1..(Len(t) + 1)
         /\ (Len(t) + 1) - 1 = Len(t) /\ Len(t) + 1 \in 1..(Len(t) + 1)
         /\ Len(t) \in 0..Len(t) /\ Len(t) \in 0..(Len(t) + 1)
<1>1. /\ Append(t, x) \in Seq(S) /\ Len(Append(t, x)) = Len(t) + 1
      /\ Append(t, x)[Len(t) + 1] = x /\ Len(t) \in Nat
      /\ \A k \in 1..Len(t) : Append(t, x)[k] = t[k]
  BY AppendProperties, LenProperties
<1>. DEFINE n == Len(t)
<1>2. n \in Nat
  BY <1>1
<1>. HIDE DEF n
<1>3. /\ (n + 1) - 1 = n /\ n + 1 \in 1..(n + 1) /\ n \in 0..n /\ n \in 0..(n + 1)
      /\ \A k \in 1..n : k \in 1..(n + 1)
  BY <1>2
<1>. QED
  BY <1>1, <1>3 DEF n

----------------------------------------------------------------------------
(* Lines of a text.                                                        *)

\* The first and the last of a sequence with one element more.
LEMMA FrontLast ==
  ASSUME NEW S, NEW s \in Seq(S), NEW x \in S
  PROVE  Front(Append(s, x)) = s /\ Last(Append(s, x)) = x
<1>. DEFINE more == Append(s, x)  n == Len(s)
<1>1. /\ more \in Seq(S) /\ Len(more) = n + 1 /\ n \in Nat /\ more[n + 1] = x
      /\ \A i \in 1..n : more[i] = s[i] /\ s[i] \in S
  BY AppendProperties, LenProperties, ElementOfSeq
<1>. HIDE DEF more, n
<1>2. Last(more) = x
  BY <1>1 DEF Last
<1>3. Front(more) = SubSeq(more, 1, n)
  <2>1. n + 1 - 1 = n
    BY <1>1
  <2>. QED
    BY <1>1, <2>1 DEF Front
<1>4. /\ SubSeq(more, 1, n) \in Seq(S) /\ Len(SubSeq(more, 1, n)) = n
      /\ \A i \in 1..n : SubSeq(more, 1, n)[i] = s[i]
  <2>1. 1 \in Int /\ n \in Int /\ n - 1 + 1 = n /\ (IF 1 <= n THEN n - 1 + 1 ELSE 0) = n
        /\ \A i \in 1..n : 1 + i - 1 = i
    BY <1>1
  <2>2. \A i \in 1..n : more[i] \in S
    BY <1>1
  <2>3. /\ SubSeq(more, 1, n) \in Seq(S)
        /\ Len(SubSeq(more, 1, n)) = (IF 1 <= n THEN n - 1 + 1 ELSE 0)
        /\ \A i \in 1..(n - 1 + 1) : SubSeq(more, 1, n)[i] = more[1 + i - 1]
    BY <2>1, <2>2, SubSeqProperties
  <2>. QED
    BY <1>1, <2>1, <2>3
<1>5. SubSeq(more, 1, n) = s
  BY <1>4, SeqEqual DEF n
<1>. QED
  BY <1>2, <1>3, <1>5 DEF more

\* One token more, at the end of the last line or on a new one.
LineStep(lines, x) ==
  IF x = "lf" THEN Append(lines, <<>>) ELSE Append(Front(lines), Append(Last(lines), x))

\* f has the lines after each token.
Splits(f, t) ==
  f[0] = <<<<>>>> /\ \A k \in 1..Len(t) : f[k] = LineStep(f[k - 1], t[k])

\* Lines are what such a function ends with.
LEMMA LinesSplit ==
  ASSUME NEW S, NEW t \in Seq(S)
  PROVE  \E f : Splits(f, t) /\ Lines(t) = f[Len(t)]
<1>. DEFINE n == Len(t)  V == Seq(Seq(S)) \ {<<>>}  base == <<<<>>>>
            step == [k \in 1..n |-> [v \in V |-> LineStep(v, t[k])]]
            Sub(f) == f = [k \in 0..n |-> IF k = 0 THEN base
                             ELSE IF t[k] = "lf" THEN Append(f[k - 1], <<>>)
                             ELSE Append(Front(f[k - 1]), Append(Last(f[k - 1]), t[k]))]
            Is0(f) == f = [k \in 0..n |-> IF k = 0 THEN base ELSE LineStep(f[k - 1], t[k])]
<1>1. n \in Nat /\ \A k \in 1..n : t[k] \in S
  BY LenProperties, ElementOfSeq
<1>2. base \in V
  <2>1. <<>> \in Seq(S)
    BY EmptySeq
  <2>2. \A x \in Seq(S) : <<x>> \in Seq(Seq(S)) /\ <<x>> # <<>>
    OBVIOUS
  <2>. QED
    BY <2>1, <2>2, Zenon
<1>3. \A v \in V : \A x \in S : LineStep(v, x) \in V
  <2>. SUFFICES ASSUME NEW v \in Seq(Seq(S)), v # <<>>, NEW x \in S
                PROVE  LineStep(v, x) \in V
    OBVIOUS
  <2>1. PICK u \in Seq(Seq(S)), l \in Seq(S) : v = Append(u, l)
    BY SequenceEmptyOrAppend
  <2>2. Front(v) = u /\ Last(v) = l
    BY <2>1, FrontLast
  <2>3. \A c \in Seq(Seq(S)) : \A d \in Seq(S) : Append(c, d) \in V
    BY AppendProperties
  <2>4. <<>> \in Seq(S) /\ Append(l, x) \in Seq(S)
    BY EmptySeq, AppendProperties
  <2>. HIDE DEF V
  <2>5. CASE x = "lf"
    <3>1. LineStep(v, x) = Append(v, <<>>)
      BY <2>5 DEF LineStep
    <3>. QED
      BY <2>3, <2>4, <3>1
  <2>6. CASE x # "lf"
    <3>1. LineStep(v, x) = Append(u, Append(l, x))
      BY <2>2, <2>6 DEF LineStep
    <3>. QED
      BY <2>3, <2>4, <3>1
  <2>. QED
    BY <2>5, <2>6
<1>. HIDE DEF V, base
<1>4. \A k \in 1..n : \A v \in V : step[k][v] = LineStep(v, t[k]) /\ step[k][v] \in V
  BY <1>1, <1>3
<1>. HIDE DEF step
<1>5. PICK f \in [0..n -> V] : f[0] = base /\ \A k \in 1..n : f[k] = step[k][f[k - 1]]
  <2>1. n \in Nat /\ StaysIn(V, n, step)
    BY <1>1, <1>4 DEF StaysIn
  <2>2. \A m \in Nat : \A W, st : \A b \in W :
          StaysIn(W, m, st) => \E f \in [0..m -> W] : Recurs(f, m, b, st)
    BY ValuesExist
  <2>. HIDE DEF n
  <2>3. \E f \in [0..n -> V] : Recurs(f, n, base, step)
    BY <1>2, <2>1, <2>2, Zenon
  <2>. QED
    BY <2>3, Zenon DEF Recurs
<1>6. Is0(f)
  <2>1. \A k \in 1..n : k - 1 \in 0..n
    BY <1>1
  <2>2. \A k \in 1..n : f[k] = LineStep(f[k - 1], t[k])
    BY <1>4, <1>5, <2>1
  <2>3. \A k \in 0..n : k = 0 \/ k \in 1..n
    BY <1>1
  <2>4. \A k \in 0..n : f[k] = IF k = 0 THEN base ELSE LineStep(f[k - 1], t[k])
    BY <1>5, <2>2, <2>3
  <2>5. f = [k \in 0..n |-> f[k]]
    OBVIOUS
  <2>. QED
    BY <2>4, <2>5
<1>7. \A g : Is0(g) <=> Sub(g)
  BY DEF LineStep
<1>. DEFINE g == CHOOSE h : Sub(h)
<1>8. Sub(g)
  <2>. HIDE DEF Sub, Is0
  <2>. QED
    BY <1>6, <1>7
<1>9. Lines(t) = g[n]
  BY DEF Lines, base
<1>. HIDE DEF g
<1>10. Is0(g)
  <2>. HIDE DEF Sub, Is0
  <2>. QED
    BY <1>7, <1>8
<1>11. \A k \in 0..n : g[k] = IF k = 0 THEN base ELSE LineStep(g[k - 1], t[k])
  BY <1>10
<1>12. 0 \in 0..n /\ \A k \in 1..n : k \in 0..n /\ k # 0
  BY <1>1
<1>13. Splits(g, t)
  BY <1>11, <1>12 DEF Splits, base
<1>. QED
  BY <1>9, <1>13

\* At first there is one line.
LEMMA LinesNothing == Lines(<<>>) = <<<<>>>>
<1>1. <<>> \in Seq({}) /\ Len(<<>>) = 0
  BY EmptySeq
<1>2. PICK f : Splits(f, <<>>) /\ Lines(<<>>) = f[0]
  BY <1>1, LinesSplit
<1>3. f[0] = <<<<>>>>
  BY <1>2, Zenon DEF Splits
<1>. QED
  BY <1>2, <1>3, Zenon

\* One token more is at the end of the last line or makes a new one.
LEMMA LinesAppend ==
  ASSUME NEW S, NEW t \in Seq(S), NEW x \in S
  PROVE  Lines(Append(t, x)) = LineStep(Lines(t), x)
<1>. DEFINE n == Len(t)  more == Append(t, x)
<1>1. /\ more \in Seq(S) /\ Len(more) = n + 1 /\ more[n + 1] = x /\ n \in Nat
      /\ \A k \in 1..n : more[k] = t[k] /\ k \in 1..(n + 1)
      /\ (n + 1) - 1 = n /\ n + 1 \in 1..(n + 1) /\ n \in 0..n
  BY PlacesMore
<1>. HIDE DEF more
<1>2. PICK f : Splits(f, t) /\ Lines(t) = f[n]
  BY LinesSplit
<1>3. PICK g : Splits(g, more) /\ Lines(more) = g[n + 1]
  BY <1>1, LinesSplit
<1>. HIDE DEF n
<1>4. f[0] = g[0] /\ \A k \in 1..n : f[k - 1] = g[k - 1] => f[k] = g[k]
  <2>1. f[0] = <<<<>>>> /\ \A k \in 1..n : f[k] = LineStep(f[k - 1], t[k])
    BY <1>2, Zenon DEF Splits, n
  <2>2. g[0] = <<<<>>>> /\ \A k \in 1..(n + 1) : g[k] = LineStep(g[k - 1], more[k])
    <3>1. g[0] = <<<<>>>> /\ \A k \in 1..Len(more) : g[k] = LineStep(g[k - 1], more[k])
      BY <1>3, Zenon DEF Splits
    <3>. QED
      BY <1>1, <3>1, Zenon
  <2>. QED
    BY <1>1, <2>1, <2>2, Zenon
<1>5. \A k \in 0..n : f[k] = g[k]
  <2>1. n \in Nat
    BY <1>1
  <2>. QED
    BY <2>1, <1>4, ValuesAgree, Zenon DEF Alike
<1>6. g[n + 1] = LineStep(g[n], x)
  BY <1>1, <1>3 DEF Splits
<1>. QED
  BY <1>1, <1>2, <1>3, <1>5, <1>6 DEF more

\* Lines with a last one: what stands after a line end, and after a character.
LEMMA LinesShown ==
  ASSUME NEW t \in Seq(Cells \cup {"lf"}), NEW lines \in Seq(Seq(Cells)),
         NEW line \in Seq(Cells), Lines(t) = Append(lines, line)
  PROVE  /\ Lines(Append(t, "lf")) = Append(Append(lines, line), <<>>)
         /\ \A x \in Cells : Lines(Append(t, x)) = Append(lines, Append(line, x))
<1>. DEFINE S == Cells \cup {"lf"}
<1>1. t \in Seq(S) /\ "lf" \in S /\ \A x \in Cells : x \in S /\ x # "lf"
  BY DEF Cells, Printed, Letters, Blank
<1>. HIDE DEF S
<1>2. \A x \in S : Lines(Append(t, x)) = LineStep(Append(lines, line), x)
  BY <1>1, LinesAppend
<1>3. Front(Append(lines, line)) = lines /\ Last(Append(lines, line)) = line
  BY FrontLast
<1>. QED
  BY <1>1, <1>2, <1>3 DEF LineStep

\* The first and last of sequences with one element more tell them apart.
LEMMA AppendsDiffer ==
  ASSUME NEW S, NEW s \in Seq(S), NEW t \in Seq(S), NEW x \in S, NEW y \in S,
         Append(s, x) = Append(t, y)
  PROVE  s = t /\ x = y
<1>1. Front(Append(s, x)) = s /\ Last(Append(s, x)) = x
  BY FrontLast
<1>2. Front(Append(t, y)) = t /\ Last(Append(t, y)) = y
  BY FrontLast
<1>. QED
  BY <1>1, <1>2

\* What stands in a line of its own after whole lines is one line more.
LEMMA LinesConcat ==
  ASSUME NEW t \in Seq(Cells \cup {"lf"}), NEW lines \in Seq(Seq(Cells)),
         Lines(t) = Append(lines, <<>>)
  PROVE  \A line \in Seq(Cells) : /\ t \o line \in Seq(Cells \cup {"lf"})
                                  /\ Lines(t \o line) = Append(lines, line)
<1>. DEFINE S == Cells \cup {"lf"}
            G == {line \in Seq(Cells) : t \o line \in Seq(S) /\ Lines(t \o line) = Append(lines, line)}
<1>0. Seq(Cells) \subseteq Seq(S) /\ Cells \subseteq S /\ t \in Seq(S)
  BY SeqMonotonic
<1>. HIDE DEF S
<1>1. <<>> \in G
  <2>1. t \o <<>> = t /\ <<>> \in Seq(Cells)
    BY <1>0, ConcatEmptySeq, EmptySeq
  <2>. QED
    BY <1>0, <2>1
<1>2. ASSUME NEW line \in Seq(Cells), NEW x \in Cells, line \in G PROVE Append(line, x) \in G
  <2>1. t \o line \in Seq(S) /\ Lines(t \o line) = Append(lines, line)
    BY <1>2
  <2>2. t \o Append(line, x) = Append(t \o line, x) /\ x \in S
    BY <1>0, AppendConcat
  <2>. DEFINE u == t \o line
  <2>. HIDE DEF u
  <2>3. Append(u, x) \in Seq(S) /\ Append(line, x) \in Seq(Cells)
    BY <2>1, <2>2, AppendProperties DEF u
  <2>4. Lines(Append(u, x)) = Append(lines, Append(line, x))
    <3>1. u \in Seq(Cells \cup {"lf"}) /\ Lines(u) = Append(lines, line)
      BY <2>1 DEF u, S
    <3>. QED
      BY <3>1, LinesShown
  <2>. QED
    BY <2>2, <2>3, <2>4 DEF u
<1>. HIDE DEF G
<1>3. Seq(Cells) \subseteq G
  BY <1>1, <1>2, AllSequences
<1>. QED
  BY <1>3 DEF G, S

\* Joined lines are split at the same places again.
LEMMA LinesJoined ==
  ASSUME NEW lines \in Seq(Seq(Cells)), lines # <<>>
  PROVE  /\ Joined(lines) \o <<"lf">> \in Seq(Cells \cup {"lf"})
         /\ Lines(Joined(lines) \o <<"lf">>) = Append(lines, <<>>)
<1>. DEFINE S == Cells \cup {"lf"}
            Ends(c) == Joined(c) \o <<"lf">>
            G == {c \in Seq(Seq(Cells)) :
                    c # <<>> => Ends(c) \in Seq(S) /\ Lines(Ends(c)) = Append(c, <<>>)}
<1>1. <<>> \in G
  BY EmptySeq
<1>2. ASSUME NEW c \in Seq(Seq(Cells)), NEW line \in Seq(Cells), c \in G
      PROVE  Append(c, line) \in G
  <2>. DEFINE more == Append(c, line)
  <2>1. /\ Seq(Cells) \subseteq Seq(S) /\ line \in Seq(S) /\ "lf" \in S /\ c \in Seq(Seq(S))
        /\ more \in Seq(Seq(Cells)) /\ <<"lf">> \in Seq(S) /\ <<>> \in Seq(S)
    <3>1. Seq(Cells) \subseteq Seq(S)
      BY SeqMonotonic
    <3>2. c \in Seq(Seq(S))
      BY <3>1, SeqMonotonic
    <3>. QED
      BY <3>1, <3>2, AppendProperties, EmptySeq
  <2>2. Joined(more) \in Seq(S) /\ Joined(c) \in Seq(S)
        /\ Joined(more) = IF c = <<>> THEN line ELSE Joined(c) \o (<<"lf">> \o line)
    <3>1. more \in Seq(Seq(S))
      BY <2>1, AppendProperties
    <3>. HIDE DEF S
    <3>. QED
      BY <2>1, <3>1, JoinedAppend
  <2>3. Lines(Joined(more)) = more
    <3>1. CASE c = <<>>
      <4>1. Joined(more) = line /\ <<>> \o line = line
        BY <2>1, <2>2, <3>1, ConcatEmptySeq
      <4>2. Lines(<<>>) = Append(<<>>, <<>>) /\ <<>> \in Seq(Seq(Cells))
        BY LinesNothing, EmptySeq
      <4>3. Lines(<<>> \o line) = Append(<<>>, line)
        BY <2>1, <4>2, LinesConcat
      <4>. QED
        BY <3>1, <4>1, <4>3
    <3>2. CASE c # <<>>
      <4>1. Ends(c) \in Seq(S) /\ Lines(Ends(c)) = Append(c, <<>>)
        BY <1>2, <3>2
      <4>. HIDE DEF Ends
      <4>2. Lines(Ends(c) \o line) = Append(c, line)
        BY <4>1, LinesConcat
      <4>3. Ends(c) \o line = Joined(c) \o (<<"lf">> \o line)
        <5>1. \A a, b, d \in Seq(S) : (a \o b) \o d = a \o (b \o d)
          BY ConcatAssociative
        <5>. QED
          BY <2>1, <2>2, <5>1 DEF Ends
      <4>. QED
        BY <2>2, <3>2, <4>2, <4>3
    <3>. QED
      BY <3>1, <3>2
  <2>. HIDE DEF more
  <2>4. Ends(more) = Append(Joined(more), "lf")
    <3>1. \A a \in Seq(S) : \A z \in S : Append(a, z) = a \o <<z>>
      BY AppendIsConcat
    <3>. HIDE DEF S
    <3>. QED
      BY <2>1, <2>2, <3>1
  <2>5. Append(Joined(more), "lf") \in Seq(S)
    BY <2>1, <2>2, AppendProperties
  <2>. DEFINE j == Joined(more)
  <2>6. j \in Seq(S) /\ Lines(j) = Append(c, line)
    BY <2>2, <2>3 DEF more
  <2>. HIDE DEF j
  <2>7. Lines(Append(j, "lf")) = Append(Append(c, line), <<>>)
    <3>1. j \in Seq(Cells \cup {"lf"}) /\ Lines(j) = Append(c, line)
      BY <2>6
    <3>. QED
      BY <3>1, LinesShown
  <2>. QED
    BY <2>1, <2>4, <2>5, <2>7 DEF more, j
<1>. HIDE DEF G
<1>3. Seq(Seq(Cells)) \subseteq G
  BY <1>1, <1>2, AllSequences
<1>. QED
  BY <1>3 DEF G

\* The lines of all that is on a screen.
LEMMA LinesContent ==
  ASSUME NEW s \in Screens
  PROVE  Lines(Content(s)) = Append(s.completed, s.line)
<1>. DEFINE S == Cells \cup {"lf"}
<1>1. s.completed \in Seq(Seq(Cells)) /\ s.line \in Seq(Cells)
  BY DEF Screens
<1>2. /\ s.line \in Seq(S) /\ <<"lf">> \in Seq(S) /\ Joined(s.completed) \in Seq(S)
      /\ <<>> \in Seq(S)
  <2>1. Seq(Cells) \subseteq Seq(S) /\ "lf" \in S
    BY SeqMonotonic
  <2>2. s.completed \in Seq(Seq(S))
    BY <1>1, <2>1, SeqMonotonic
  <2>. QED
    BY <1>1, <2>1, <2>2, JoinedAppend, EmptySeq
<1>3. CASE s.completed = <<>>
  <2>1. Content(s) = s.line /\ <<>> \o s.line = s.line
    BY <1>2, <1>3, ConcatEmptySeq DEF Content
  <2>2. Lines(<<>>) = Append(<<>>, <<>>) /\ <<>> \in Seq(Seq(Cells))
    BY LinesNothing, EmptySeq
  <2>3. Lines(<<>> \o s.line) = Append(<<>>, s.line)
    BY <1>1, <1>2, <2>2, LinesConcat
  <2>. QED
    BY <1>3, <2>1, <2>3
<1>4. CASE s.completed # <<>>
  <2>. DEFINE e == Joined(s.completed) \o <<"lf">>
  <2>1. e \in Seq(S) /\ Lines(e) = Append(s.completed, <<>>)
    BY <1>1, <1>4, LinesJoined
  <2>. HIDE DEF e
  <2>2. Lines(e \o s.line) = Append(s.completed, s.line)
    BY <1>1, <2>1, LinesConcat
  <2>3. e \o s.line = Joined(s.completed) \o (<<"lf">> \o s.line)
    <3>1. \A a, b, d \in Seq(S) : (a \o b) \o d = a \o (b \o d)
      BY ConcatAssociative
    <3>. HIDE DEF S
    <3>. QED
      BY <1>2, <3>1 DEF e
  <2>. QED
    BY <1>4, <2>2, <2>3 DEF Content
<1>. QED
  BY <1>3, <1>4

\* What is lost is one empty line.
LEMMA LosesOne ==
  ASSUME NEW s \in Screens, Loses(s)
  PROVE  s.completed = Append(<<>>, <<>>)
<1>1. s.completed \in Seq(Seq(Cells)) /\ s.completed # <<>> /\ Joined(s.completed) = <<>>
  BY DEF Screens, Loses
<1>2. Lines(<<>> \o <<"lf">>) = Append(s.completed, <<>>)
  BY <1>1, LinesJoined
<1>3. <<>> \o <<"lf">> = Append(<<>>, "lf") /\ <<>> \in Seq(Cells \cup {"lf"})
  BY EmptySeq, ConcatEmptySeq
<1>4. Lines(<<>>) = Append(<<>>, <<>>) /\ <<>> \in Seq(Seq(Cells)) /\ <<>> \in Seq(Cells)
  BY LinesNothing, EmptySeq
<1>5. Lines(Append(<<>>, "lf")) = Append(Append(<<>>, <<>>), <<>>)
  BY <1>3, <1>4, LinesShown
<1>. DEFINE S == Seq(Cells)
            e == <<>>
            one == Append(<<>>, e)
<1>6. one \in Seq(S) /\ e \in S /\ s.completed \in Seq(S)
  BY <1>1, <1>4, AppendProperties
<1>7. Append(s.completed, e) = Append(one, e)
  BY <1>2, <1>3, <1>5
<1>. HIDE DEF S, e, one
<1>8. s.completed = one
  BY <1>6, <1>7, AppendsDiffer
<1>. QED
  BY <1>8 DEF one, e

\* The lines of what is rendered are those of the screen, but for the one lost.
LEMMA LinesRendered ==
  ASSUME NEW stream, Interpreted(stream) \in Screens
  PROVE  LET s == Interpreted(stream)
         IN  \/ Lines(RenderTerminalStream(stream)) = Append(s.completed, s.line)
             \/ /\ s.completed = Append(<<>>, <<>>)
                /\ Lines(RenderTerminalStream(stream)) = Append(<<>>, s.line)
<1>. DEFINE s == Interpreted(stream)  r == RenderTerminalStream(stream)
<1>1. r = IF Loses(s) THEN s.line ELSE Content(s)
  BY RenderIs
<1>2. s \in Screens
  OBVIOUS
<1>. HIDE DEF s, r
<1>3. CASE Loses(s)
  <2>1. s.line \in Seq(Cells) /\ <<>> \in Seq(Cells \cup {"lf"})
    BY <1>2, EmptySeq DEF Screens
  <2>2. Lines(<<>>) = Append(<<>>, <<>>) /\ <<>> \in Seq(Seq(Cells)) /\ <<>> \o s.line = s.line
    BY <2>1, LinesNothing, EmptySeq, ConcatEmptySeq
  <2>3. Lines(<<>> \o s.line) = Append(<<>>, s.line)
    BY <2>1, <2>2, LinesConcat
  <2>4. s.completed = Append(<<>>, <<>>)
    BY <1>2, <1>3, LosesOne
  <2>. QED
    BY <1>1, <1>3, <2>2, <2>3, <2>4 DEF s, r
<1>4. CASE ~Loses(s)
  BY <1>1, <1>2, <1>4, LinesContent DEF s, r
<1>. QED
  BY <1>3, <1>4

----------------------------------------------------------------------------
(* One text after another.                                                 *)

\* The line that a character or an erasure leaves, and the cursor.
LineWith(line, cursor, x) ==
  LET padded == Padded(line, cursor)
  IN  IF cursor = Len(padded) THEN Append(padded, x) ELSE [padded EXCEPT ![cursor + 1] = x]

LineErased(line, cursor, mode) ==
  IF mode = 1 THEN SubSeq(line, Min({cursor + 1, Len(line)}) + 1, Len(line))
  ELSE IF mode = 2 THEN <<>> ELSE SubSeq(line, 1, Min({cursor, Len(line)}))

CursorErased(cursor, mode) == IF mode = 0 THEN cursor ELSE 0

\* They depend on the line and the cursor only.
LEMMA LineIs ==
  ASSUME NEW s \in Screens
  PROVE  /\ \A x \in Cells : Write(s, x).line = LineWith(s.line, s.cursor, x)
         /\ \A mode \in 0..2 :
              /\ EraseLine(s, mode).line = LineErased(s.line, s.cursor, mode)
              /\ EraseLine(s, mode).cursor = CursorErased(s.cursor, mode)
<1>1. s = [completed |-> s.completed, line |-> s.line, cursor |-> s.cursor,
           string |-> s.string]
  BY DEF Screens
<1>2. \A l, c : Lined(s, l, c)
        = [completed |-> s.completed, line |-> l, cursor |-> c, string |-> s.string]
  BY <1>1, LineAndCursor
<1>3. \A l : [s EXCEPT !.line = l]
        = [completed |-> s.completed, line |-> l, cursor |-> s.cursor, string |-> s.string]
  <2>. SUFFICES ASSUME NEW l
                PROVE  [s EXCEPT !.line = l] = [completed |-> s.completed, line |-> l,
                                                cursor |-> s.cursor, string |-> s.string]
    OBVIOUS
  <2>. QED
    BY <1>1
<1>4. ASSUME NEW x \in Cells PROVE Write(s, x).line = LineWith(s.line, s.cursor, x)
  <2>1. Write(s, x) = Lined(s, LineWith(s.line, s.cursor, x), s.cursor + 1)
    BY DEF Write, Lined, LineWith
  <2>2. Write(s, x) = [completed |-> s.completed, line |-> LineWith(s.line, s.cursor, x),
                       cursor |-> s.cursor + 1, string |-> s.string]
    BY <1>2, <2>1, Zenon
  <2>. QED
    BY <2>2
<1>5. ASSUME NEW mode \in 0..2
      PROVE  /\ EraseLine(s, mode).line = LineErased(s.line, s.cursor, mode)
             /\ EraseLine(s, mode).cursor = CursorErased(s.cursor, mode)
  <2>. DEFINE l == LineErased(s.line, s.cursor, mode)
  <2>1. EraseLine(s, mode) = [completed |-> s.completed, line |-> l,
          cursor |-> CursorErased(s.cursor, mode), string |-> s.string]
    <3>1. CASE mode = 0
      <4>1. EraseLine(s, mode) = [s EXCEPT !.line = l] /\ CursorErased(s.cursor, mode) = s.cursor
        BY <3>1 DEF EraseLine, LineErased, CursorErased
      <4>. HIDE DEF l
      <4>. QED
        BY <1>3, <4>1, Zenon
    <3>2. CASE mode # 0
      <4>1. mode = 1 \/ mode = 2
        BY <3>2
      <4>2. EraseLine(s, mode) = Lined(s, l, 0) /\ CursorErased(s.cursor, mode) = 0
        <5>1. mode = 1 => EraseLine(s, mode) = Lined(s, l, 0)
          BY DEF EraseLine, Lined, LineErased
        <5>2. mode = 2 => EraseLine(s, mode) = Lined(s, l, 0)
          BY DEF EraseLine, Lined, LineErased
        <5>3. CursorErased(s.cursor, mode) = 0
          BY <3>2 DEF CursorErased
        <5>. HIDE DEF l
        <5>. QED
          BY <4>1, <5>1, <5>2, <5>3
      <4>. HIDE DEF l
      <4>. QED
        BY <1>2, <4>2, Zenon
    <3>. QED
      BY <3>1, <3>2
  <2>. HIDE DEF l
  <2>2. EraseLine(s, mode).line = l
        /\ EraseLine(s, mode).cursor = CursorErased(s.cursor, mode)
    BY <2>1
  <2>. QED
    BY <2>2 DEF l
<1>. QED
  BY <1>4, <1>5

\* A screen r that is s with more lines above.
Below(lines, s, r) ==
  /\ r.completed = lines \o s.completed /\ r.line = s.line
  /\ r.cursor = s.cursor /\ r.string = s.string

\* A token does the same to both.
LEMMA InterpretBelow ==
  ASSUME NEW lines \in Seq(Seq(Cells)), NEW s \in Screens, NEW r \in Screens,
         Below(lines, s, r), NEW x \in StreamTokens
  PROVE  Below(lines, Interpret(s, x), Interpret(r, x))
<1>1. /\ r.completed = lines \o s.completed /\ r.line = s.line
      /\ r.cursor = s.cursor /\ r.string = s.string
  BY DEF Below
<1>2. CASE s.string # "no" \/ x \in {"osc", "dcs"}
  <2>1. /\ Interpret(s, x).completed = s.completed /\ Interpret(s, x).line = s.line
        /\ Interpret(s, x).cursor = s.cursor
        /\ Interpret(s, x).string = Inside(s.string, x)
    BY <1>2, InterpretIs
  <2>2. /\ Interpret(r, x).completed = r.completed /\ Interpret(r, x).line = r.line
        /\ Interpret(r, x).cursor = r.cursor
        /\ Interpret(r, x).string = Inside(r.string, x)
    BY <1>1, <1>2, InterpretIs
  <2>. QED
    BY <1>1, <2>1, <2>2, Zenon DEF Below
<1>3. CASE ~(s.string # "no" \/ x \in {"osc", "dcs"})
  <2>1. CASE x = "lf"
    <3>1. Interpret(s, x) = NewLine(s) /\ Interpret(r, x) = NewLine(r)
      BY <1>1, <1>3, <2>1, InterpretIs
    <3>2. NewLine(s) = [completed |-> Append(s.completed, s.line), line |-> <<>>,
                        cursor |-> 0, string |-> s.string]
      BY NewLineIs
    <3>3. NewLine(r) = [completed |-> Append(r.completed, r.line), line |-> <<>>,
                        cursor |-> 0, string |-> r.string]
      BY NewLineIs
    <3>4. Append(r.completed, r.line) = lines \o Append(s.completed, s.line)
      <4>1. s.completed \in Seq(Seq(Cells)) /\ s.line \in Seq(Cells)
        BY DEF Screens
      <4>2. lines \o Append(s.completed, s.line) = Append(lines \o s.completed, s.line)
        BY <4>1, AppendConcat
      <4>. QED
        BY <1>1, <4>2
    <3>. DEFINE a == NewLine(s)  b == NewLine(r)
    <3>. HIDE DEF a, b
    <3>5. /\ a.completed = Append(s.completed, s.line) /\ a.line = <<>> /\ a.cursor = 0
          /\ a.string = s.string
      BY <3>2 DEF a
    <3>6. /\ b.completed = Append(r.completed, r.line) /\ b.line = <<>> /\ b.cursor = 0
          /\ b.string = r.string
      BY <3>3 DEF b
    <3>. QED
      BY <1>1, <3>1, <3>4, <3>5, <3>6, Zenon DEF Below, a, b
  <2>2. CASE x \in Printed
    <3>1. Interpret(s, x) = Write(s, x) /\ Interpret(r, x) = Write(r, x)
      BY <1>1, <1>3, <2>2, InterpretIs
    <3>2. x \in Cells
      BY <2>2 DEF Cells, Printed
    <3>3. /\ Write(s, x).line = LineWith(s.line, s.cursor, x)
          /\ Write(s, x).completed = s.completed /\ Write(s, x).string = s.string
          /\ Write(s, x).cursor = s.cursor + 1
      BY <3>2, LineIs, WriteIs
    <3>4. /\ Write(r, x).line = LineWith(r.line, r.cursor, x)
          /\ Write(r, x).completed = r.completed /\ Write(r, x).string = r.string
          /\ Write(r, x).cursor = r.cursor + 1
      BY <3>2, LineIs, WriteIs
    <3>. QED
      BY <1>1, <3>1, <3>3, <3>4, Zenon DEF Below
  <2>3. CASE x \in DOMAIN EraseModes
    <3>. DEFINE m == EraseModes[x]
    <3>1. m \in 0..2
      <4>1. x \in {"K0", "K1", "K2"}
        BY <2>3 DEF EraseModes
      <4>. QED
        BY <4>1 DEF EraseModes
    <3>2. Interpret(s, x) = EraseLine(s, m) /\ Interpret(r, x) = EraseLine(r, m)
      BY <1>1, <1>3, <2>3, InterpretIs
    <3>. HIDE DEF m
    <3>3. /\ EraseLine(s, m).line = LineErased(s.line, s.cursor, m)
          /\ EraseLine(s, m).cursor = CursorErased(s.cursor, m)
          /\ EraseLine(s, m).completed = s.completed /\ EraseLine(s, m).string = s.string
      BY <3>1, LineIs, EraseIs
    <3>4. /\ EraseLine(r, m).line = LineErased(r.line, r.cursor, m)
          /\ EraseLine(r, m).cursor = CursorErased(r.cursor, m)
          /\ EraseLine(r, m).completed = r.completed /\ EraseLine(r, m).string = r.string
      BY <3>1, LineIs, EraseIs
    <3>. QED
      BY <1>1, <3>2, <3>3, <3>4, Zenon DEF Below
  <2>4. CASE x # "lf" /\ x \notin Printed /\ x \notin DOMAIN EraseModes
    <3>1. /\ Interpret(s, x).completed = s.completed /\ Interpret(s, x).line = s.line
          /\ Interpret(s, x).cursor = Column(s.cursor, x)
          /\ Interpret(s, x).string = s.string
      BY <1>3, <2>4, InterpretIs
    <3>2. /\ Interpret(r, x).completed = r.completed /\ Interpret(r, x).line = r.line
          /\ Interpret(r, x).cursor = Column(r.cursor, x)
          /\ Interpret(r, x).string = r.string
      BY <1>1, <1>3, <2>4, InterpretIs
    <3>. QED
      BY <1>1, <3>1, <3>2, Zenon DEF Below
  <2>. QED
    BY <2>1, <2>2, <2>3, <2>4
<1>. QED
  BY <1>2, <1>3

\* At the beginning of a line outside of strings a text is interpreted as if it
\* stood alone, below the lines before.
LEMMA InterpretedConcat ==
  ASSUME NEW a \in Seq(StreamTokens), NEW b \in Seq(StreamTokens),
         Interpreted(a).line = <<>>, Interpreted(a).cursor = 0, Interpreted(a).string = "no"
  PROVE  Below(Interpreted(a).completed, Interpreted(b), Interpreted(a \o b))
<1>. DEFINE c == Interpreted(a).completed
            G == {t \in Seq(StreamTokens) : Below(c, Interpreted(t), Interpreted(a \o t))}
<1>0. c \in Seq(Seq(Cells))
  BY InterpretedType DEF Screens
<1>. HIDE DEF c
<1>1. <<>> \in G
  <2>1. a \o <<>> = a /\ <<>> \in Seq(StreamTokens) /\ c \o <<>> = c
    BY <1>0, ConcatEmptySeq, EmptySeq
  <2>2. Below(c, Screen, Interpreted(a))
    BY <2>1, ScreenIs DEF Below, c
  <2>. QED
    BY <2>1, <2>2, InterpretedNothing
<1>2. ASSUME NEW t \in Seq(StreamTokens), NEW x \in StreamTokens, t \in G
      PROVE  Append(t, x) \in G
  <2>1. a \o Append(t, x) = Append(a \o t, x) /\ a \o t \in Seq(StreamTokens)
        /\ Append(t, x) \in Seq(StreamTokens)
    BY AppendConcat, ConcatProperties, AppendProperties
  <2>. DEFINE u == a \o t
  <2>2. Below(c, Interpreted(t), Interpreted(u))
    BY <1>2
  <2>3. u \in Seq(StreamTokens)
    BY <2>1
  <2>. HIDE DEF u
  <2>4. /\ Interpreted(Append(t, x)) = Interpret(Interpreted(t), x)
        /\ Interpreted(Append(u, x)) = Interpret(Interpreted(u), x)
        /\ Interpreted(t) \in Screens /\ Interpreted(u) \in Screens
    BY <2>3, InterpretedAppend, InterpretedType
  <2>5. Below(c, Interpret(Interpreted(t), x), Interpret(Interpreted(u), x))
    BY <1>0, <2>2, <2>4, InterpretBelow
  <2>. QED
    BY <2>1, <2>4, <2>5 DEF u
<1>. HIDE DEF G
<1>3. Seq(StreamTokens) \subseteq G
  BY <1>1, <1>2, AllSequences
<1>. QED
  BY <1>3 DEF G, c

\* The beginnings of a text.
LEMMA PrefixIs ==
  ASSUME NEW S, NEW t \in Seq(S), NEW k \in 0..Len(t)
  PROVE  /\ SubSeq(t, 1, k) \in Seq(S) /\ Len(SubSeq(t, 1, k)) = k
         /\ \A i \in 1..k : SubSeq(t, 1, k)[i] = t[i]
<1>. DEFINE n == Len(t)
<1>1. n \in Nat /\ \A i \in 1..n : t[i] \in S
  BY LenProperties, ElementOfSeq
<1>. HIDE DEF n
<1>2. /\ 1 \in Int /\ k \in Int /\ k - 1 + 1 = k /\ (IF 1 <= k THEN k - 1 + 1 ELSE 0) = k
      /\ \A i \in 1..k : 1 + i - 1 = i /\ i \in 1..n
  BY <1>1 DEF n
<1>3. \A i \in 1..k : t[i] \in S
  BY <1>1, <1>2
<1>4. /\ SubSeq(t, 1, k) \in Seq(S)
      /\ Len(SubSeq(t, 1, k)) = (IF 1 <= k THEN k - 1 + 1 ELSE 0)
      /\ \A i \in 1..(k - 1 + 1) : SubSeq(t, 1, k)[i] = t[1 + i - 1]
  BY <1>2, <1>3, SubSeqProperties
<1>. QED
  BY <1>2, <1>4

\* Each is the one before with one token more; the last is the text.
LEMMA PrefixMore ==
  ASSUME NEW S, NEW t \in Seq(S)
  PROVE  /\ SubSeq(t, 1, 0) = <<>> /\ SubSeq(t, 1, Len(t)) = t
         /\ \A k \in 1..Len(t) : /\ SubSeq(t, 1, k) = Append(SubSeq(t, 1, k - 1), t[k])
                                 /\ SubSeq(t, 1, k - 1) \in Seq(S) /\ t[k] \in S
         /\ \A x \in S : \A k \in 0..Len(t) : SubSeq(Append(t, x), 1, k) = SubSeq(t, 1, k)
<1>1. SubSeq(t, 1, 0) = <<>> /\ SubSeq(t, 1, Len(t)) = t
  BY SubSeqEmpty, SubSeqFull
<1>2. ASSUME NEW k \in 1..Len(t)
      PROVE  /\ SubSeq(t, 1, k) = Append(SubSeq(t, 1, k - 1), t[k])
             /\ SubSeq(t, 1, k - 1) \in Seq(S) /\ t[k] \in S
  <2>. DEFINE a == SubSeq(t, 1, k - 1)  b == SubSeq(t, 1, k)
  <2>1. Len(t) \in Nat
    BY LenProperties
  <2>2. /\ k - 1 \in 0..Len(t) /\ k \in 0..Len(t) /\ (k - 1) + 1 = k /\ k - 1 \in Nat
        /\ \A i \in 1..k : i \in 1..(k - 1) \/ i = k
        /\ k \in 1..k /\ \A i \in 1..(k - 1) : i \in 1..k
    BY <2>1
  <2>3. /\ a \in Seq(S) /\ Len(a) = k - 1 /\ \A i \in 1..(k - 1) : a[i] = t[i]
    BY <2>2, PrefixIs
  <2>4. /\ b \in Seq(S) /\ Len(b) = k /\ \A i \in 1..k : b[i] = t[i]
    BY <2>2, PrefixIs
  <2>5. t[k] \in S
    BY ElementOfSeq
  <2>. HIDE DEF a, b
  <2>6. /\ Append(a, t[k]) \in Seq(S) /\ Len(Append(a, t[k])) = Len(a) + 1
        /\ \A i \in 1..Len(a) : Append(a, t[k])[i] = a[i]
        /\ Append(a, t[k])[Len(a) + 1] = t[k]
    BY <2>3, <2>5, AppendProperties
  <2>. DEFINE c == Append(a, t[k])
  <2>7. c \in Seq(S) /\ Len(c) = k /\ \A i \in 1..k : c[i] = b[i]
    BY <2>2, <2>3, <2>4, <2>6
  <2>. HIDE DEF c
  <2>8. c = b
    BY <2>4, <2>7, SeqEqual
  <2>. QED
    BY <2>3, <2>5, <2>8 DEF a, b, c
<1>3. ASSUME NEW x \in S, NEW k \in 0..Len(t)
      PROVE  SubSeq(Append(t, x), 1, k) = SubSeq(t, 1, k)
  <2>. DEFINE u == Append(t, x)  n == Len(t)
  <2>1. u \in Seq(S) /\ Len(u) = n + 1 /\ n \in Nat /\ \A i \in 1..n : u[i] = t[i]
    BY AppendProperties, LenProperties
  <2>. HIDE DEF u, n
  <2>2. k \in 0..Len(u) /\ \A i \in 1..k : i \in 1..n
    BY <2>1 DEF n
  <2>3. /\ SubSeq(u, 1, k) \in Seq(S) /\ Len(SubSeq(u, 1, k)) = k
        /\ \A i \in 1..k : SubSeq(u, 1, k)[i] = u[i]
    BY <2>1, <2>2, PrefixIs
  <2>4. /\ SubSeq(t, 1, k) \in Seq(S) /\ Len(SubSeq(t, 1, k)) = k
        /\ \A i \in 1..k : SubSeq(t, 1, k)[i] = t[i]
    BY PrefixIs
  <2>. DEFINE a == SubSeq(u, 1, k)  b == SubSeq(t, 1, k)
  <2>5. a \in Seq(S) /\ b \in Seq(S) /\ Len(a) = Len(b) /\ \A i \in 1..Len(a) : a[i] = b[i]
    BY <2>1, <2>2, <2>3, <2>4
  <2>. HIDE DEF a, b
  <2>6. a = b
    BY <2>5, SeqEqual
  <2>. QED
    BY <2>6 DEF a, b, u
<1>. QED
  BY <1>1, <1>2, <1>3

\* Strings begin and end with the tokens that Interpret says.
LEMMA StringNext ==
  ASSUME NEW s \in Screens, NEW x \in StreamTokens
  PROVE  Interpret(s, x).string = Inside(s.string, x)
<1>1. CASE s.string # "no" \/ x \in {"osc", "dcs"}
  BY <1>1, InterpretIs
<1>2. CASE ~(s.string # "no" \/ x \in {"osc", "dcs"})
  <2>1. Inside(s.string, x) = s.string
    BY <1>2 DEF Inside
  <2>2. CASE x = "lf"
    <3>1. Interpret(s, x) = NewLine(s)
      BY <1>2, <2>2, InterpretIs
    <3>2. NewLine(s) = [completed |-> Append(s.completed, s.line), line |-> <<>>,
                        cursor |-> 0, string |-> s.string]
      BY NewLineIs
    <3>. QED
      BY <2>1, <3>1, <3>2
  <2>3. CASE x \in Printed
    <3>1. Interpret(s, x) = Write(s, x) /\ x \in Cells
      BY <1>2, <2>3, InterpretIs DEF Cells, Printed
    <3>. QED
      BY <2>1, <3>1, WriteIs
  <2>4. CASE x \in DOMAIN EraseModes
    <3>. DEFINE m == EraseModes[x]
    <3>1. m \in 0..2
      <4>1. x \in {"K0", "K1", "K2"}
        BY <2>4 DEF EraseModes
      <4>. QED
        BY <4>1 DEF EraseModes
    <3>2. Interpret(s, x) = EraseLine(s, m)
      BY <1>2, <2>4, InterpretIs
    <3>. HIDE DEF m
    <3>. QED
      BY <2>1, <3>1, <3>2, EraseIs
  <2>5. CASE x # "lf" /\ x \notin Printed /\ x \notin DOMAIN EraseModes
    BY <1>2, <2>1, <2>5, InterpretIs
  <2>. QED
    BY <2>2, <2>3, <2>4, <2>5
<1>. QED
  BY <1>1, <1>2

\* InString says when one is open.
LEMMA InStringIs ==
  ASSUME NEW t \in Seq(StreamTokens)
  PROVE  \A k \in 0..Len(t) : InString(t)[k] <=> Interpreted(SubSeq(t, 1, k)).string # "no"
<1>. DEFINE n == Len(t)
            step == [k \in 1..n |-> [v \in Strings |-> Inside(v, t[k])]]
            Is0(f) == f = [k \in 0..n |-> IF k = 0 THEN "no" ELSE Inside(f[k - 1], t[k])]
            Said(k) == Interpreted(SubSeq(t, 1, k)).string
<1>1. n \in Nat /\ "no" \in Strings
  BY LenProperties DEF Strings
<1>2. \A v \in Strings : \A x : Inside(v, x) \in Strings
  BY DEF Inside, Strings
<1>3. \A k \in 1..n : \A v \in Strings : step[k][v] = Inside(v, t[k])
  BY <1>2
<1>4. StaysIn(Strings, n, step)
  BY <1>2, <1>3 DEF StaysIn
<1>. HIDE DEF step
<1>5. PICK f \in [0..n -> Strings] : Recurs(f, n, "no", step)
  <2>1. \A m \in Nat : \A W, st : \A b \in W :
          StaysIn(W, m, st) => \E f \in [0..m -> W] : Recurs(f, m, b, st)
    BY ValuesExist
  <2>. HIDE DEF n, Is0, Said
  <2>. QED
    BY <1>1, <1>4, <2>1, Zenon
<1>6. Is0(f)
  <2>1. \A k \in 1..n : k - 1 \in 0..n
    BY <1>1
  <2>2. f[0] = "no" /\ \A k \in 1..n : f[k] = step[k][f[k - 1]]
    BY <1>5, Zenon DEF Recurs
  <2>3. \A k \in 1..n : f[k] = Inside(f[k - 1], t[k])
    BY <1>3, <2>1, <2>2
  <2>4. \A k \in 0..n : k = 0 \/ k \in 1..n
    BY <1>1
  <2>5. \A k \in 0..n : f[k] = IF k = 0 THEN "no" ELSE Inside(f[k - 1], t[k])
    BY <2>2, <2>3, <2>4
  <2>6. f = [k \in 0..n |-> f[k]]
    OBVIOUS
  <2>. QED
    BY <2>5, <2>6
<1>. DEFINE g == CHOOSE h : Is0(h)
<1>7. Is0(g)
  <2>. HIDE DEF Is0
  <2>. QED
    BY <1>6
<1>8. InString(t) = [k \in 0..n |-> g[k] # "no"]
  BY DEF InString
<1>. HIDE DEF g
<1>9. g[0] = "no" /\ \A k \in 1..n : g[k] = Inside(g[k - 1], t[k])
  <2>1. 0 \in 0..n /\ \A k \in 1..n : k \in 0..n /\ k # 0
    BY <1>1
  <2>. QED
    BY <1>7, <2>1
<1>10. \A k \in 0..n : g[k] = Said(k)
  <2>. DEFINE h == [k \in 0..n |-> Said(k)]
  <2>1. g[0] = h[0]
    <3>1. SubSeq(t, 1, 0) = <<>>
      BY PrefixMore
    <3>2. Said(0) = "no"
      BY <3>1, InterpretedNothing, ScreenIs
    <3>3. 0 \in 0..n
      BY <1>1
    <3>. HIDE DEF Said
    <3>. QED
      BY <1>9, <3>2, <3>3
  <2>2. \A k \in 1..n : k \in 0..n /\ k - 1 \in 0..n
    BY <1>1
  <2>3. ASSUME NEW k \in 1..n, g[k - 1] = h[k - 1] PROVE g[k] = h[k]
    <3>. DEFINE p == SubSeq(t, 1, k - 1)
    <3>1. SubSeq(t, 1, k) = Append(p, t[k]) /\ p \in Seq(StreamTokens) /\ t[k] \in StreamTokens
      BY PrefixMore
    <3>2. h[k] = Interpreted(Append(p, t[k])).string /\ h[k - 1] = Interpreted(p).string
      BY <2>2, <3>1
    <3>. HIDE DEF p, h
    <3>3. Interpreted(Append(p, t[k])) = Interpret(Interpreted(p), t[k])
          /\ Interpreted(p) \in Screens
      BY <3>1, InterpretedAppend, InterpretedType
    <3>4. Interpret(Interpreted(p), t[k]).string = Inside(Interpreted(p).string, t[k])
      BY <3>1, <3>3, StringNext
    <3>. QED
      BY <1>9, <2>3, <3>2, <3>3, <3>4
  <2>4. \A k \in 0..n : h[k] = Said(k)
    OBVIOUS
  <2>. HIDE DEF h, n, Said
  <2>5. \A k \in 0..n : g[k] = h[k]
    <3>1. Alike(g, h, n)
      BY <2>1, <2>3, Zenon DEF Alike
    <3>. QED
      BY <1>1, <3>1, ValuesAgree, Zenon
  <2>. QED
    BY <2>4, <2>5
<1>. QED
  BY <1>8, <1>10

----------------------------------------------------------------------------
(* Boundaries.                                                             *)

NotEmpty == [line \in Seq(Cells) |-> IF line = <<>> THEN <<>> ELSE <<line>>]
SaidLines(lines) == Mapped(NotEmpty, lines)

\* Empty lines say nothing, others what stands in them.
LEMMA SaidLinesAre ==
  /\ NotEmpty \in [Seq(Cells) -> Seq(Seq(Cells))]
  /\ \A c \in Seq(Seq(Cells)) : SaidLines(c) \in Seq(Seq(Cells))
  /\ \A c \in Seq(Seq(Cells)) : SaidLines(Append(c, <<>>)) = SaidLines(c)
  /\ \A c, d \in Seq(Seq(Cells)) : SaidLines(c \o d) = SaidLines(c) \o SaidLines(d)
  /\ \A l \in Seq(Cells) : SaidLines(Append(Append(<<>>, <<>>), l)) = SaidLines(Append(<<>>, l))
  /\ \A lines \in Seq(Seq(Cells)) :
       FlattenSeq([i \in DOMAIN lines |-> IF lines[i] = <<>> THEN <<>> ELSE <<lines[i]>>])
         = SaidLines(lines)
<1>. DEFINE T == Seq(Cells)
<1>1. <<>> \in Seq(T) /\ <<>> \in T
  BY EmptySeq
<1>2. NotEmpty \in [T -> Seq(T)] /\ \A l \in T : NotEmpty[l] = IF l = <<>> THEN <<>> ELSE <<l>>
  <2>. HIDE DEF T
  <2>1. \A l \in T : <<l>> \in Seq(T)
    OBVIOUS
  <2>2. NotEmpty = [l \in T |-> IF l = <<>> THEN <<>> ELSE <<l>>]
    BY DEF NotEmpty, T
  <2>. QED
    BY <1>1, <2>1, <2>2
<1>. HIDE DEF T
<1>3. \A c \in Seq(T) : SaidLines(c) \in Seq(T)
  BY <1>2, MappedType DEF SaidLines
<1>4. \A c, d \in Seq(T) : SaidLines(c \o d) = SaidLines(c) \o SaidLines(d)
  <2>1. NotEmpty \in [T -> Seq(T)]
    BY <1>2
  <2>2. \A m \in [T -> Seq(T)] : \A c, d \in Seq(T) :
          Mapped(m, c \o d) = Mapped(m, c) \o Mapped(m, d)
    BY MappedConcat
  <2>. QED
    BY <2>1, <2>2, Zenon DEF SaidLines
<1>5. \A c \in Seq(T) : \A l \in T : SaidLines(Append(c, l)) = SaidLines(c) \o NotEmpty[l]
  BY <1>2, MappedAppend DEF SaidLines
<1>6. \A c \in Seq(T) : SaidLines(Append(c, <<>>)) = SaidLines(c)
  <2>1. \A d \in Seq(T) : d \o <<>> = d
    BY ConcatEmptySeq
  <2>2. NotEmpty[<<>>] = <<>>
    BY <1>1, <1>2
  <2>3. ASSUME NEW c \in Seq(T) PROVE SaidLines(Append(c, <<>>)) = SaidLines(c)
    <3>1. SaidLines(Append(c, <<>>)) = SaidLines(c) \o NotEmpty[<<>>]
      BY <1>1, <1>5, Zenon
    <3>2. SaidLines(c) \o <<>> = SaidLines(c)
      BY <1>3, <2>1, Zenon
    <3>. QED
      BY <2>2, <3>1, <3>2, Zenon
  <2>. QED
    BY <2>3, Zenon
<1>7. \A l \in T : SaidLines(Append(Append(<<>>, <<>>), l)) = SaidLines(Append(<<>>, l))
  <2>1. Append(<<>>, <<>>) \in Seq(T)
    BY <1>1, AppendProperties
  <2>. DEFINE one == Append(<<>>, <<>>)
  <2>2. SaidLines(one) = SaidLines(<<>>) /\ one \in Seq(T)
    BY <1>1, <1>6, <2>1
  <2>. HIDE DEF one
  <2>3. \A l \in T : SaidLines(Append(one, l)) = SaidLines(Append(<<>>, l))
    BY <1>1, <1>5, <2>2
  <2>. QED
    BY <2>3 DEF one
<1>8. ASSUME NEW lines \in Seq(T)
      PROVE  FlattenSeq([i \in DOMAIN lines |-> IF lines[i] = <<>> THEN <<>> ELSE <<lines[i]>>])
               = SaidLines(lines)
  <2>1. DOMAIN lines = 1..Len(lines) /\ \A i \in 1..Len(lines) : lines[i] \in T
    BY LenProperties, ElementOfSeq
  <2>2. \A i \in DOMAIN lines :
          (IF lines[i] = <<>> THEN <<>> ELSE <<lines[i]>>) = NotEmpty[lines[i]]
    BY <1>2, <2>1
  <2>3. [i \in DOMAIN lines |-> IF lines[i] = <<>> THEN <<>> ELSE <<lines[i]>>]
          = [i \in DOMAIN lines |-> NotEmpty[lines[i]]]
    BY <2>2, Zenon
  <2>. QED
    BY <2>3, Zenon DEF SaidLines, Mapped
<1>. QED
  BY <1>2, <1>3, <1>4, <1>6, <1>7, <1>8 DEF T

\* What the lines of what is rendered say is what the lines on the screen say.
LEMMA SaidRendered ==
  ASSUME NEW t \in Seq(StreamTokens)
  PROVE  LET lines == Lines(RenderTerminalStream(t))
             s == Interpreted(t)
         IN  FlattenSeq([i \in DOMAIN lines |-> IF lines[i] = <<>> THEN <<>> ELSE <<lines[i]>>])
               = SaidLines(Append(s.completed, s.line))
<1>. DEFINE lines == Lines(RenderTerminalStream(t))  s == Interpreted(t)
            said == FlattenSeq([i \in DOMAIN lines |->
                      IF lines[i] = <<>> THEN <<>> ELSE <<lines[i]>>])
<1>1. s \in Screens
  BY InterpretedType
<1>2. s.completed \in Seq(Seq(Cells)) /\ s.line \in Seq(Cells)
  BY <1>1 DEF Screens
<1>3. \/ lines = Append(s.completed, s.line)
      \/ s.completed = Append(<<>>, <<>>) /\ lines = Append(<<>>, s.line)
  BY <1>1, LinesRendered
<1>. HIDE DEF lines, s
<1>4. Append(s.completed, s.line) \in Seq(Seq(Cells)) /\ Append(<<>>, s.line) \in Seq(Seq(Cells))
  <2>1. <<>> \in Seq(Seq(Cells))
    BY EmptySeq
  <2>. QED
    BY <1>2, <2>1, AppendProperties
<1>5. lines \in Seq(Seq(Cells))
  BY <1>3, <1>4
<1>6. said = SaidLines(lines)
  BY <1>5, SaidLinesAre, Zenon
<1>7. SaidLines(lines) = SaidLines(Append(s.completed, s.line))
  <2>1. CASE lines = Append(s.completed, s.line)
    BY <2>1
  <2>2. CASE s.completed = Append(<<>>, <<>>) /\ lines = Append(<<>>, s.line)
    <3>1. SaidLines(Append(Append(<<>>, <<>>), s.line)) = SaidLines(Append(<<>>, s.line))
      BY <1>2, SaidLinesAre, Zenon
    <3>. QED
      BY <2>2, <3>1, Zenon
  <2>. QED
    BY <1>3, <2>1, <2>2
<1>. QED
  BY <1>6, <1>7, Zenon DEF said, lines, s

\* What is said before and after a line end is what is said in all.
LEMMA SaidAtLineEnd ==
  ASSUME NEW t \in Seq(StreamTokens), NEW k \in 1..Len(t), t[k] = "lf", ~InString(t)[k]
  PROVE  LET Said(u) == SaidLines(Append(Interpreted(u).completed, Interpreted(u).line))
             a == SubSeq(t, 1, k)
             b == SubSeq(t, k + 1, Len(t))
         IN  /\ a \in Seq(StreamTokens) /\ b \in Seq(StreamTokens)
             /\ Said(t) = Said(a) \o Said(b)
<1>. DEFINE Said(u) == SaidLines(Append(Interpreted(u).completed, Interpreted(u).line))
            a == SubSeq(t, 1, k)  b == SubSeq(t, k + 1, Len(t))  p == SubSeq(t, 1, k - 1)
<1>1. /\ a = Append(p, "lf") /\ p \in Seq(StreamTokens) /\ "lf" \in StreamTokens
      /\ a \in Seq(StreamTokens)
  <2>1. SubSeq(t, 1, k) = Append(SubSeq(t, 1, k - 1), t[k])
        /\ SubSeq(t, 1, k - 1) \in Seq(StreamTokens) /\ t[k] \in StreamTokens
    BY PrefixMore
  <2>. HIDE DEF p
  <2>2. Append(p, "lf") \in Seq(StreamTokens)
    BY <2>1, AppendProperties DEF p
  <2>. QED
    BY <2>1, <2>2 DEF p
<1>2. b \in Seq(StreamTokens) /\ t = a \o b
  <2>0. Len(t) \in Nat /\ \A i \in 1..Len(t) : t[i] \in StreamTokens
    BY LenProperties, ElementOfSeq
  <2>. DEFINE n == Len(t)
  <2>1. /\ 1 \in 1..(n + 1) /\ k \in (1 - 1)..n /\ n \in k..n /\ k + 1 \in Int /\ n \in Int
        /\ \A i \in (k + 1)..n : i \in 1..n
    BY <2>0
  <2>2. SubSeq(t, 1, k) \o SubSeq(t, k + 1, n) = SubSeq(t, 1, n)
    BY <2>1, ConcatAdjacentSubSeq
  <2>3. SubSeq(t, 1, n) = t
    BY SubSeqFull
  <2>4. SubSeq(t, k + 1, n) \in Seq(StreamTokens)
    <3>1. \A i \in (k + 1)..n : t[i] \in StreamTokens
      BY <2>0, <2>1
    <3>. HIDE DEF n
    <3>. QED
      BY <2>1, <3>1, SubSeqProperties
  <2>. QED
    BY <2>2, <2>3, <2>4
<1>3. Interpreted(a).string = "no"
  <2>1. k \in 0..Len(t)
    BY LenProperties
  <2>. QED
    BY <2>1, InStringIs
<1>. DEFINE s == Interpreted(p)
<1>4. s \in Screens /\ Interpreted(a) = Interpret(s, "lf") /\ Interpreted(b) \in Screens
  <2>1. Interpreted(Append(p, "lf")) = Interpret(s, "lf")
    BY <1>1, InterpretedAppend
  <2>. QED
    BY <1>1, <1>2, <2>1, InterpretedType
<1>. HIDE DEF a, b, p, s
<1>5. s.string = "no"
  <2>1. Interpret(s, "lf").string = Inside(s.string, "lf")
    BY <1>1, <1>4, StringNext
  <2>2. Inside(s.string, "lf") = "no"
    BY <1>3, <1>4, <2>1
  <2>. QED
    BY <2>2 DEF Inside
<1>. DEFINE c == Append(s.completed, s.line)
<1>6. /\ Interpreted(a).completed = c /\ Interpreted(a).line = <<>>
      /\ Interpreted(a).cursor = 0
  <2>1. Interpret(s, "lf") = NewLine(s)
    BY <1>1, <1>4, <1>5, InterpretIs
  <2>2. NewLine(s) = [completed |-> Append(s.completed, s.line), line |-> <<>>,
                      cursor |-> 0, string |-> s.string]
    BY <1>4, NewLineIs
  <2>. QED
    BY <1>4, <2>1, <2>2
<1>7. c \in Seq(Seq(Cells))
  <2>1. s.completed \in Seq(Seq(Cells)) /\ s.line \in Seq(Cells)
    BY <1>4 DEF Screens
  <2>. QED
    BY <2>1, AppendProperties
<1>. HIDE DEF c
<1>8. Below(c, Interpreted(b), Interpreted(a \o b))
  BY <1>1, <1>2, <1>3, <1>6, InterpretedConcat
<1>. DEFINE q == Interpreted(b)
<1>9. q.completed \in Seq(Seq(Cells)) /\ q.line \in Seq(Cells)
  BY <1>4 DEF Screens
<1>10. Interpreted(t).completed = c \o q.completed /\ Interpreted(t).line = q.line
  BY <1>2, <1>8 DEF Below
<1>. HIDE DEF q
<1>11. Said(t) = SaidLines(c \o Append(q.completed, q.line))
  <2>1. c \o Append(q.completed, q.line) = Append(c \o q.completed, q.line)
    <3>1. \A u, v \in Seq(Seq(Cells)) : \A l \in Seq(Cells) :
            u \o Append(v, l) = Append(u \o v, l)
      BY AppendConcat
    <3>. QED
      BY <1>7, <1>9, <3>1
  <2>. QED
    BY <1>10, <2>1
<1>12. Append(q.completed, q.line) \in Seq(Seq(Cells))
  BY <1>9, AppendProperties
<1>13. Said(t) = SaidLines(c) \o SaidLines(Append(q.completed, q.line))
  BY <1>7, <1>11, <1>12, SaidLinesAre, Zenon
<1>14. Said(a) = SaidLines(c)
  <2>1. Said(a) = SaidLines(Append(c, <<>>))
    BY <1>6
  <2>2. SaidLines(Append(c, <<>>)) = SaidLines(c)
    BY <1>7, SaidLinesAre, Zenon
  <2>. QED
    BY <2>1, <2>2
<1>15. Said(b) = SaidLines(Append(q.completed, q.line))
  BY DEF q
<1>. HIDE DEF Said
<1>16. Said(t) = Said(a) \o Said(b)
  BY <1>13, <1>14, <1>15
<1>. QED
  BY <1>1, <1>2, <1>16 DEF Said, a, b

----------------------------------------------------------------------------
(* A terminal, cell by cell.                                               *)

\* The greatest of numbers that do not exceed a bound.
LEMMA GreatestIs ==
  ASSUME NEW n \in Nat, NEW T, T \subseteq 0..n, T # {}
  PROVE  Max(T) \in T /\ \A y \in T : Max(T) >= y
<1>. DEFINE U == {k \in Nat : n - k \in T}
<1>1. U \subseteq Nat /\ U # {}
  <2>1. PICK y \in T : TRUE
    OBVIOUS
  <2>2. n - y \in Nat /\ n - (n - y) = y
    BY <2>1
  <2>. QED
    BY <2>1, <2>2
<1>2. PICK k \in U : \A m \in U : k <= m
  <2>. HIDE DEF U
  <2>. QED
    BY <1>1, LeastNatural
<1>3. ASSUME NEW y \in T PROVE n - k >= y
  <2>1. n - y \in Nat /\ n - (n - y) = y /\ y \in Nat
    BY <1>3
  <2>2. k <= n - y
    BY <1>2, <1>3, <2>1
  <2>. QED
    BY <1>2, <2>1, <2>2
<1>4. \E x \in T : \A y \in T : x >= y
  BY <1>2, <1>3
<1>. QED
  BY <1>4 DEF Max

\* Without its margin a line is what its columns are.
LEMMA MarginIs ==
  ASSUME NEW a \in Seq(Cells), NEW b \in Seq(Cells),
         \A c \in Nat : InColumn(a, c) = InColumn(b, c)
  PROVE  WithoutMargin(a) = WithoutMargin(b)
<1>. DEFINE Said(line) == {i \in DOMAIN line : line[i] # Blank}
<1>1. ASSUME NEW line \in Seq(Cells)
      PROVE  /\ Len(line) \in Nat /\ DOMAIN line = 1..Len(line)
             /\ \A i \in 1..Len(line) : line[i] \in Cells
             /\ \A i \in Nat \ {0} : i \in Said(line) <=> InColumn(line, i - 1) # Blank
             /\ \A i \in 1..Len(line) : InColumn(line, i - 1) = line[i]
             /\ Said(line) \subseteq 1..Len(line)
  <2>1. Len(line) \in Nat /\ DOMAIN line = 1..Len(line) /\ \A i \in 1..Len(line) : line[i] \in Cells
    BY LenProperties, ElementOfSeq
  <2>2. \A i \in Nat : (i - 1) + 1 = i
    OBVIOUS
  <2>3. \A i \in Nat : InColumn(line, i - 1) = IF i \in 1..Len(line) THEN line[i] ELSE Blank
    BY <2>2 DEF InColumn
  <2>4. \A i \in 1..Len(line) : i \in Nat
    OBVIOUS
  <2>. QED
    BY <2>1, <2>3, <2>4
<1>2. \A i \in Nat \ {0} : i - 1 \in Nat
  OBVIOUS
<1>3. Said(a) = Said(b)
  <2>1. \A i \in Nat \ {0} : InColumn(a, i - 1) = InColumn(b, i - 1)
    BY <1>2
  <2>2. \A i \in Nat \ {0} : i \in Said(a) <=> i \in Said(b)
    BY <1>1, <2>1
  <2>3. \A n \in Nat : 1..n \subseteq Nat \ {0}
    OBVIOUS
  <2>4. Said(a) \subseteq Nat \ {0} /\ Said(b) \subseteq Nat \ {0}
    BY <1>1, <2>3
  <2>. HIDE DEF Said
  <2>. QED
    BY <2>2, <2>4
<1>4. /\ WithoutMargin(a) = IF Said(a) = {} THEN <<>> ELSE SubSeq(a, 1, Max(Said(a)))
      /\ WithoutMargin(b) = IF Said(b) = {} THEN <<>> ELSE SubSeq(b, 1, Max(Said(b)))
  BY DEF WithoutMargin
<1>5. CASE Said(a) = {}
  BY <1>3, <1>4, <1>5
<1>6. CASE Said(a) # {}
  <2>. DEFINE m == Max(Said(a))  u == SubSeq(a, 1, m)  v == SubSeq(b, 1, m)
  <2>1. m \in 1..Len(a) /\ m \in 1..Len(b)
    <3>1. Len(a) \in Nat /\ Said(a) \subseteq 0..Len(a)
      BY <1>1
    <3>2. Max(Said(a)) \in Said(a)
      <4>. HIDE DEF Said
      <4>. QED
        BY <1>6, <3>1, GreatestIs
    <3>. QED
      BY <1>1, <1>3, <3>2
  <2>. HIDE DEF m
  <2>2. m \in 0..Len(a) /\ m \in 0..Len(b) /\ \A i \in 1..m : i \in 1..Len(a) /\ i \in 1..Len(b)
    BY <1>1, <2>1
  <2>3. u \in Seq(Cells) /\ Len(u) = m /\ \A i \in 1..m : u[i] = a[i]
    BY <2>2, PrefixIs
  <2>4. v \in Seq(Cells) /\ Len(v) = m /\ \A i \in 1..m : v[i] = b[i]
    BY <2>2, PrefixIs
  <2>5. \A i \in 1..m : a[i] = b[i]
    <3>1. \A i \in 1..m : i \in Nat /\ i - 1 \in Nat
      BY <2>1, <1>1
    <3>. QED
      BY <1>1, <2>2, <3>1
  <2>. HIDE DEF u, v
  <2>6. u = v
    BY <2>3, <2>4, <2>5, SeqEqual
  <2>. QED
    BY <1>3, <1>4, <1>6, <2>6 DEF u, v, m
<1>. QED
  BY <1>5, <1>6

\* The column after a token.
ColumnAfter(column, x) == IF x \in Letters THEN column + 1 ELSE Column(column, x)

\* It is at most two further.
LEMMA ColumnType ==
  ASSUME NEW c \in Nat, NEW x
  PROVE  ColumnAfter(c, x) \in Nat /\ ColumnAfter(c, x) <= c + 2
<1>1. \A a \in Int : Max({0, a}) = IF 0 >= a THEN 0 ELSE a
  BY TwoNumbers
<1>2. c - 1 \in Int /\ c - 2 \in Int
  OBVIOUS
<1>3. /\ Max({0, c - 1}) \in Nat /\ Max({0, c - 2}) \in Nat
      /\ Max({0, c - 1}) <= c + 2 /\ Max({0, c - 2}) <= c + 2
  BY <1>1, <1>2
<1>4. /\ 0 \in Nat /\ c + 2 \in Nat /\ 2 - 1 \in Nat /\ c + 1 \in Nat
      /\ 0 <= c + 2 /\ 2 - 1 <= c + 2 /\ c <= c + 2 /\ c + 1 <= c + 2 /\ c + 2 <= c + 2
  OBVIOUS
<1>. DEFINE p == Max({0, c - 1})  q == Max({0, c - 2})
<1>5. Column(c, x) \in {0, p, c + 2, q, 2 - 1, c}
  BY DEF Column
<1>6. ColumnAfter(c, x) \in {0, p, c + 2, q, 2 - 1, c, c + 1}
  BY <1>5 DEF ColumnAfter
<1>7. p \in Nat /\ q \in Nat /\ p <= c + 2 /\ q <= c + 2
  BY <1>3
<1>. HIDE DEF p, q
<1>. QED
  BY <1>4, <1>6, <1>7

\* Columns has the column after each token of a line.
LEMMA ColumnsAre ==
  ASSUME NEW S, NEW line \in Seq(S)
  PROVE  /\ Columns(line) \in [0..Len(line) -> Nat]
         /\ Columns(line)[0] = 0
         /\ \A k \in 1..Len(line) : Columns(line)[k] = ColumnAfter(Columns(line)[k - 1], line[k])
<1>. DEFINE n == Len(line)
            step == [k \in 1..n |-> [v \in Nat |-> ColumnAfter(v, line[k])]]
            Is0(f) == f = [k \in 0..n |-> IF k = 0 THEN 0 ELSE ColumnAfter(f[k - 1], line[k])]
            Sub(f) == f = [k \in 0..n |-> IF k = 0 THEN 0
                             ELSE IF line[k] \in Letters THEN f[k - 1] + 1
                             ELSE Column(f[k - 1], line[k])]
<1>1. n \in Nat /\ 0 \in Nat
  BY LenProperties
<1>2. \A k \in 1..n : \A v \in Nat : step[k][v] = ColumnAfter(v, line[k])
  OBVIOUS
<1>3. StaysIn(Nat, n, step)
  BY <1>2, ColumnType DEF StaysIn
<1>. HIDE DEF step
<1>4. PICK f \in [0..n -> Nat] : Recurs(f, n, 0, step)
  <2>1. \A m \in Nat : \A W, st : \A b \in W :
          StaysIn(W, m, st) => \E f \in [0..m -> W] : Recurs(f, m, b, st)
    BY ValuesExist
  <2>. HIDE DEF n, Is0, Sub
  <2>. QED
    BY <1>1, <1>3, <2>1, Zenon
<1>5. Is0(f)
  <2>1. \A k \in 1..n : k - 1 \in 0..n
    BY <1>1
  <2>2. f[0] = 0 /\ \A k \in 1..n : f[k] = step[k][f[k - 1]]
    BY <1>4, Zenon DEF Recurs
  <2>3. \A k \in 1..n : f[k] = ColumnAfter(f[k - 1], line[k])
    BY <1>2, <2>1, <2>2
  <2>4. \A k \in 0..n : k = 0 \/ k \in 1..n
    BY <1>1
  <2>5. \A k \in 0..n : f[k] = IF k = 0 THEN 0 ELSE ColumnAfter(f[k - 1], line[k])
    BY <2>2, <2>3, <2>4
  <2>6. f = [k \in 0..n |-> f[k]]
    OBVIOUS
  <2>. QED
    BY <2>5, <2>6
<1>6. \A g : Is0(g) <=> Sub(g)
  BY DEF ColumnAfter
<1>. DEFINE g == CHOOSE h : Sub(h)
<1>7. Sub(g)
  <2>. HIDE DEF Sub, Is0
  <2>. QED
    BY <1>5, <1>6
<1>8. Columns(line) = g
  BY DEF Columns
<1>. HIDE DEF g
<1>9. Is0(g)
  <2>. HIDE DEF Sub, Is0
  <2>. QED
    BY <1>6, <1>7
<1>10. g[0] = 0 /\ \A k \in 1..n : g[k] = ColumnAfter(g[k - 1], line[k])
  <2>1. 0 \in 0..n /\ \A k \in 1..n : k \in 0..n /\ k # 0
    BY <1>1
  <2>. QED
    BY <1>9, <2>1
<1>11. g \in [0..n -> Nat]
  <2>1. DOMAIN g = 0..n /\ g = [k \in 0..n |-> g[k]]
    BY <1>9
  <2>2. \A k \in 0..n : g[k] \in Nat
    <3>. DEFINE G == {k \in Nat : k <= n => g[k] \in Nat}
    <3>1. 0 \in G
      BY <1>10
    <3>2. ASSUME NEW k \in Nat, k \in G PROVE k + 1 \in G
      <4>. SUFFICES ASSUME k + 1 <= n PROVE g[k + 1] \in Nat
        OBVIOUS
      <4>1. k + 1 \in 1..n /\ (k + 1) - 1 = k /\ k <= n
        BY <1>1
      <4>2. g[k] \in Nat
        BY <3>2, <4>1
      <4>3. g[k + 1] = ColumnAfter(g[k], line[k + 1])
        BY <1>10, <4>1
      <4>. QED
        BY <4>2, <4>3, ColumnType
    <3>. HIDE DEF G
    <3>3. Nat \subseteq G
      BY <3>1, <3>2, AllNaturals
    <3>4. \A k \in 0..n : k \in Nat /\ k <= n
      BY <1>1
    <3>. QED
      BY <3>3, <3>4 DEF G
  <2>. QED
    BY <2>1, <2>2
<1>. QED
  BY <1>8, <1>10, <1>11

\* One token more leaves the columns before it.
LEMMA ColumnsMore ==
  ASSUME NEW S, NEW line \in Seq(S), NEW x \in S
  PROVE  LET n == Len(line)  more == Append(line, x)
         IN  /\ \A k \in 0..n : Columns(more)[k] = Columns(line)[k]
             /\ Columns(more)[n + 1] = ColumnAfter(Columns(line)[n], x)
<1>. DEFINE n == Len(line)  more == Append(line, x)  f == Columns(line)  g == Columns(more)
<1>1. /\ more \in Seq(S) /\ Len(more) = n + 1 /\ more[n + 1] = x /\ n \in Nat
      /\ \A k \in 1..n : more[k] = line[k] /\ k \in 1..(n + 1)
      /\ (n + 1) - 1 = n /\ n + 1 \in 1..(n + 1) /\ n \in 0..n
  BY PlacesMore
<1>2. f[0] = 0 /\ \A k \in 1..n : f[k] = ColumnAfter(f[k - 1], line[k])
  BY ColumnsAre
<1>. HIDE DEF more, f
<1>3. g[0] = 0 /\ \A k \in 1..(n + 1) : g[k] = ColumnAfter(g[k - 1], more[k])
  <2>1. g[0] = 0 /\ \A k \in 1..Len(more) : g[k] = ColumnAfter(g[k - 1], more[k])
    BY <1>1, ColumnsAre
  <2>. HIDE DEF g
  <2>. QED
    BY <1>1, <2>1, Zenon
<1>. HIDE DEF g, n
<1>4. Alike(g, f, n)
  <2>1. \A k \in 1..n : g[k - 1] = f[k - 1] => g[k] = f[k]
    BY <1>1, <1>2, <1>3, Zenon
  <2>. QED
    BY <1>2, <1>3, <2>1, Zenon DEF Alike
<1>5. \A k \in 0..n : g[k] = f[k]
  BY <1>1, <1>4, ValuesAgree, Zenon
<1>6. g[n + 1] = ColumnAfter(f[n], x)
  <2>1. g[n + 1] = ColumnAfter(g[(n + 1) - 1], more[n + 1])
    BY <1>1, <1>3, Zenon
  <2>. QED
    BY <1>1, <1>5, <2>1
<1>. QED
  BY <1>5, <1>6 DEF f, g, more, n

\* The places of a line where a column is written, and where it is erased.
Writes(line, c) == {k \in DOMAIN line : line[k] \in Letters /\ Columns(line)[k - 1] = c}
Erasing(x, column, c) ==
  (x = "K0" /\ column <= c) \/ (x = "K1" /\ c <= column) \/ x = "K2"
Erases(line, c) == {k \in DOMAIN line : Erasing(line[k], Columns(line)[k - 1], c)}

\* A cell shows what is written last, if it is not erased after that.
LEMMA CellIs ==
  ASSUME NEW S, NEW line \in Seq(S), NEW c
  PROVE  /\ Writes(line, c) \subseteq 1..Len(line) /\ Erases(line, c) \subseteq 1..Len(line)
         /\ \A m \in Writes(line, c) : (\A k \in Writes(line, c) : k <= m) =>
              Cell(line, c) = IF \E k \in Erases(line, c) : k > m THEN Blank ELSE line[m]
         /\ Writes(line, c) = {} => Cell(line, c) = Blank
         /\ Writes(line, c) # {} =>
              \E m \in Writes(line, c) : \A k \in Writes(line, c) : k <= m
<1>. DEFINE W == Writes(line, c)  E == Erases(line, c)
<1>1. Len(line) \in Nat /\ DOMAIN line = 1..Len(line)
  BY LenProperties
<1>2. W \subseteq 1..Len(line) /\ E \subseteq 1..Len(line)
  BY <1>1 DEF Writes, Erases
<1>3. Cell(line, c) = IF W = {} \/ \E k \in E : k > Max(W) THEN Blank ELSE line[Max(W)]
  BY DEF Cell, Writes, Erases, Erasing
<1>. HIDE DEF W, E
<1>4. W # {} => Max(W) \in W /\ \A k \in W : Max(W) >= k
  <2>1. W \subseteq 0..Len(line)
    BY <1>1, <1>2
  <2>. QED
    BY <1>1, <2>1, GreatestIs
<1>5. \A k \in W : k \in Nat
  BY <1>1, <1>2
<1>6. \A m \in W : (\A k \in W : k <= m) => Max(W) = m
  BY <1>4, <1>5
<1>7. \A m \in W : (\A k \in W : k <= m) =>
        Cell(line, c) = IF \E k \in E : k > m THEN Blank ELSE line[m]
  <2>. SUFFICES ASSUME NEW m \in W, \A k \in W : k <= m
                PROVE  Cell(line, c) = IF \E k \in E : k > m THEN Blank ELSE line[m]
    BY Zenon
  <2>1. Max(W) = m /\ W # {}
    BY <1>6
  <2>. QED
    BY <1>3, <2>1
<1>8. W # {} => \E m \in W : \A k \in W : k <= m
  BY <1>4, <1>5
<1>9. W = {} => Cell(line, c) = Blank
  BY <1>3
<1>. QED
  BY <1>2, <1>7, <1>8, <1>9 DEF W, E

\* At first a cell is blank;
LEMMA CellNothing == \A c : Cell(<<>>, c) = Blank
<1>. SUFFICES ASSUME NEW c PROVE Cell(<<>>, c) = Blank
  OBVIOUS
<1>1. <<>> \in Seq({}) /\ Len(<<>>) = 0
  BY EmptySeq
<1>2. Writes(<<>>, c) \subseteq 1..Len(<<>>)
  BY <1>1, CellIs
<1>3. Writes(<<>>, c) = {}
  BY <1>1, <1>2
<1>. QED
  BY <1>1, <1>3, CellIs

\* a letter goes into the cell at the cursor, erasing empties cells, and no other
\* token changes a cell.
LEMMA CellMore ==
  ASSUME NEW S, NEW line \in Seq(S), NEW x \in S, NEW c \in Nat
  PROVE  Cell(Append(line, x), c)
           = IF x \in Letters /\ Columns(line)[Len(line)] = c THEN x
             ELSE IF Erasing(x, Columns(line)[Len(line)], c) THEN Blank
             ELSE Cell(line, c)
<1>. DEFINE n == Len(line)  more == Append(line, x)  at == Columns(line)
            W == Writes(line, c)  E == Erases(line, c)
            V == Writes(more, c)  D == Erases(more, c)
<1>1. /\ more \in Seq(S) /\ Len(more) = n + 1 /\ more[n + 1] = x /\ n \in Nat
      /\ \A k \in 1..n : more[k] = line[k] /\ k \in 1..(n + 1)
      /\ (n + 1) - 1 = n /\ n + 1 \in 1..(n + 1) /\ n \in 0..n
  BY PlacesMore
<1>2. DOMAIN line = 1..n /\ DOMAIN more = 1..(n + 1)
  BY <1>1, LenProperties
<1>3. \A k \in 0..n : Columns(more)[k] = at[k]
  BY ColumnsMore
<1>. HIDE DEF more, at
<1>4. \A k \in 1..n : k - 1 \in 0..n /\ k # n + 1
  BY <1>1
<1>5. \A k \in 1..(n + 1) : k \in 1..n \/ k = n + 1
  BY <1>1
<1>. HIDE DEF n
<1>6. \A k : k \in V <=> k \in W \/ (k = n + 1 /\ x \in Letters /\ at[n] = c)
  BY <1>1, <1>2, <1>3, <1>4, <1>5 DEF Writes, at
<1>7. \A k : k \in D <=> k \in E \/ (k = n + 1 /\ Erasing(x, at[n], c))
  BY <1>1, <1>2, <1>3, <1>4, <1>5 DEF Erases, at
<1>8. x \in Letters => ~Erasing(x, at[n], c)
  BY DEF Letters, Erasing
<1>9. W \subseteq 1..n /\ E \subseteq 1..n
  BY CellIs DEF n
<1>10. /\ \A m \in V : (\A k \in V : k <= m) =>
            Cell(more, c) = IF \E k \in D : k > m THEN Blank ELSE more[m]
       /\ V = {} => Cell(more, c) = Blank
  <2>. HIDE DEF V, D
  <2>. QED
    BY <1>1, CellIs DEF V, D
<1>11. /\ \A m \in W : (\A k \in W : k <= m) =>
            Cell(line, c) = IF \E k \in E : k > m THEN Blank ELSE line[m]
       /\ W = {} => Cell(line, c) = Blank
       /\ W # {} => \E m \in W : \A k \in W : k <= m
  BY CellIs
<1>. HIDE DEF V, D, W, E
<1>12. CASE x \in Letters /\ at[n] = c
  <2>1. n + 1 \in V /\ D = E
    BY <1>6, <1>7, <1>8, <1>12
  <2>2. \A k \in V : k <= n + 1
    <3>1. n + 1 <= n + 1 /\ \A k \in 1..n : k <= n + 1
      BY <1>1
    <3>. QED
      BY <1>6, <1>9, <3>1
  <2>3. ~\E k \in D : k > n + 1
    BY <1>1, <1>9, <2>1
  <2>4. Cell(more, c) = more[n + 1]
    BY <1>10, <2>1, <2>2, <2>3
  <2>. QED
    BY <1>1, <1>12, <2>4 DEF more, at, n
<1>13. CASE ~(x \in Letters /\ at[n] = c) /\ Erasing(x, at[n], c)
  <2>1. V = W /\ n + 1 \in D
    BY <1>6, <1>7, <1>13
  <2>2. CASE V = {}
    BY <1>10, <1>13, <2>2 DEF more, at, n
  <2>3. CASE V # {}
    <3>1. PICK m \in W : \A k \in W : k <= m
      BY <1>11, <2>1, <2>3
    <3>2. \E k \in D : k > m
      BY <1>1, <1>9, <2>1
    <3>3. Cell(more, c) = Blank
      BY <1>10, <2>1, <3>1, <3>2
    <3>. QED
      BY <1>13, <3>3 DEF more, at, n
  <2>. QED
    BY <2>2, <2>3
<1>14. CASE ~(x \in Letters /\ at[n] = c) /\ ~Erasing(x, at[n], c)
  <2>1. V = W /\ D = E
    BY <1>6, <1>7, <1>14
  <2>2. Cell(more, c) = Cell(line, c)
    <3>1. CASE V = {}
      BY <1>10, <1>11, <2>1, <3>1
    <3>2. CASE V # {}
      <4>1. PICK m \in W : \A k \in W : k <= m
        BY <1>11, <2>1, <3>2
      <4>2. more[m] = line[m]
        BY <1>1, <1>9
      <4>3. Cell(more, c) = IF \E k \in E : k > m THEN Blank ELSE more[m]
        BY <1>10, <2>1, <4>1
      <4>4. Cell(line, c) = IF \E k \in E : k > m THEN Blank ELSE line[m]
        BY <1>11, <4>1
      <4>. QED
        BY <4>2, <4>3, <4>4
    <3>. QED
      BY <3>1, <3>2
  <2>. QED
    BY <1>14, <2>2 DEF more, at, n
<1>. QED
  BY <1>12, <1>13, <1>14

\* The line of a screen is what the tokens of the line make it.
Fits(tokens, line, cursor) ==
  /\ Columns(tokens)[Len(tokens)] = cursor
  /\ \A c \in Nat : Cell(tokens, c) = InColumn(line, c)

\* Then its text is the terminal's.
LEMMA FitsShows ==
  ASSUME NEW S, NEW tokens \in Seq(S), NEW line \in Seq(Cells), NEW cursor \in Nat,
         Fits(tokens, line, cursor)
  PROVE  ScreenLine(tokens) = WithoutMargin(line)
<1>. DEFINE at == Columns(tokens)  n == Len(tokens)
            T == {at[k] : k \in DOMAIN tokens \cup {0}}
            m == Max(T)
            big == [c \in 1..(m + 1) |-> Cell(tokens, c - 1)]
<1>1. /\ n \in Nat /\ DOMAIN tokens = 1..n /\ at \in [0..n -> Nat] /\ at[0] = 0
      /\ \A k \in 1..n : at[k] = ColumnAfter(at[k - 1], tokens[k])
  BY LenProperties, ColumnsAre
<1>2. \A k \in 0..n : at[k] <= 2 * k
  <2>. DEFINE G == {k \in Nat : k <= n => at[k] <= 2 * k}
  <2>. HIDE DEF at, n
  <2>1. 0 \in G
    BY <1>1
  <2>2. ASSUME NEW k \in Nat, k \in G PROVE k + 1 \in G
    <3>. SUFFICES ASSUME k + 1 <= n PROVE at[k + 1] <= 2 * (k + 1)
      OBVIOUS
    <3>1. k + 1 \in 1..n /\ (k + 1) - 1 = k /\ k <= n /\ k \in 0..n /\ k + 1 \in 0..n
      BY <1>1
    <3>2. at[k + 1] = ColumnAfter(at[k], tokens[k + 1]) /\ at[k] \in Nat /\ at[k + 1] \in Nat
      BY <1>1, <3>1
    <3>3. at[k + 1] <= at[k] + 2 /\ at[k] <= 2 * k
      BY <2>2, <3>1, <3>2, ColumnType
    <3>4. \A a, b \in Nat : b <= a + 2 /\ a <= 2 * k => b <= 2 * (k + 1)
      OBVIOUS
    <3>. QED
      BY <3>2, <3>3, <3>4
  <2>. HIDE DEF G
  <2>3. Nat \subseteq G
    BY <2>1, <2>2, AllNaturals
  <2>4. \A k \in 0..n : k \in Nat /\ k <= n
    BY <1>1
  <2>. QED
    BY <2>3, <2>4 DEF G
<1>3. \A k : k \in DOMAIN tokens \cup {0} <=> k \in 0..n
  <2>1. \A k : k \in (1..n) \cup {0} <=> k \in 0..n
    <3>. HIDE DEF n
    <3>. QED
      BY <1>1
  <2>. QED
    BY <1>1, <2>1
<1>. HIDE DEF at, n
<1>4. T \subseteq 0..(2 * n) /\ T # {} /\ 2 * n \in Nat
  <2>1. \A k \in 0..n : at[k] \in Nat /\ k <= n /\ k \in Nat
    BY <1>1
  <2>2. \A a, k \in Nat : a <= 2 * k /\ k <= n => a \in 0..(2 * n)
    BY <1>1
  <2>3. \A k \in 0..n : at[k] \in 0..(2 * n)
    BY <1>2, <2>1, <2>2
  <2>4. 0 \in DOMAIN tokens \cup {0}
    OBVIOUS
  <2>. QED
    BY <1>1, <1>3, <2>3, <2>4
<1>5. m \in Nat /\ \A k \in 0..n : at[k] <= m
  <2>. HIDE DEF T
  <2>1. m \in T /\ \A y \in T : m >= y
    BY <1>4, GreatestIs
  <2>2. \A k \in 0..n : at[k] \in T /\ at[k] \in Nat
    BY <1>1, <1>3 DEF T
  <2>3. m \in Nat
    <3>1. \A b \in Nat : 0..b \subseteq Nat
      OBVIOUS
    <3>2. 0..(2 * n) \subseteq Nat
      BY <1>4, <3>1
    <3>. HIDE DEF m
    <3>. QED
      BY <1>4, <2>1, <3>2
  <2>. QED
    BY <2>1, <2>2, <2>3
<1>6. ScreenLine(tokens) = WithoutMargin(big)
  BY DEF ScreenLine, at
<1>. HIDE DEF m
<1>7. \A c \in Nat : InColumn(line, c) \in Cells
  <2>1. \A i \in 1..Len(line) : line[i] \in Cells
    BY ElementOfSeq
  <2>. QED
    BY <2>1 DEF InColumn, Cells, Printed
<1>8. \A c \in Nat : Cell(tokens, c) = InColumn(line, c) /\ Cell(tokens, c) \in Cells
  BY <1>7 DEF Fits
<1>9. \A c \in Nat : c > m => Cell(tokens, c) = Blank
  <2>. SUFFICES ASSUME NEW c \in Nat, c > m PROVE Cell(tokens, c) = Blank
    OBVIOUS
  <2>1. \A k \in 1..n : k - 1 \in 0..n /\ at[k - 1] # c
    <3>1. \A k \in 1..n : k - 1 \in 0..n
      BY <1>1
    <3>2. \A k \in 0..n : at[k] \in Nat /\ at[k] <= m
      BY <1>1, <1>5
    <3>. QED
      BY <1>5, <3>1, <3>2
  <2>2. Writes(tokens, c) = {}
    BY <1>1, <2>1 DEF Writes, at
  <2>. QED
    BY <2>2, CellIs
<1>10. big \in Seq(Cells) /\ Len(big) = m + 1 /\ \A i \in 1..(m + 1) : big[i] = Cell(tokens, i - 1)
  <2>1. \A i \in 1..(m + 1) : i - 1 \in Nat
    BY <1>5
  <2>2. \A i \in 1..(m + 1) : Cell(tokens, i - 1) \in Cells
    BY <1>8, <2>1
  <2>3. m + 1 \in Nat
    BY <1>5
  <2>. DEFINE l == m + 1
  <2>. HIDE DEF l, Cells, Printed
  <2>4. [c \in 1..l |-> Cell(tokens, c - 1)] \in Seq(Cells)
        /\ Len([c \in 1..l |-> Cell(tokens, c - 1)]) = l
    BY <2>2, <2>3 DEF l
  <2>. QED
    BY <2>4 DEF l
<1>. HIDE DEF big
<1>11. \A c \in Nat : InColumn(big, c) = InColumn(line, c)
  <2>. SUFFICES ASSUME NEW c \in Nat PROVE InColumn(big, c) = InColumn(line, c)
    OBVIOUS
  <2>1. (c + 1) - 1 = c /\ (c + 1 \in 1..(m + 1) <=> ~(c > m))
    BY <1>5
  <2>2. InColumn(big, c) = IF c + 1 \in 1..(m + 1) THEN big[c + 1] ELSE Blank
    BY <1>10 DEF InColumn
  <2>3. c + 1 \in 1..(m + 1) => big[c + 1] = Cell(tokens, c)
    BY <1>10, <2>1
  <2>. QED
    BY <1>8, <1>9, <2>1, <2>2, <2>3
<1>. QED
  BY <1>6, <1>10, <1>11, MarginIs

\* The tokens of which a terminal shows what the code renders.
ShownTokens == StreamTokens \ {"K1", "K2", "H2", "tab", "skipped"}

\* At the beginning of a line nothing stands in it,
LEMMA FitsNothing == Fits(<<>>, <<>>, 0)
<1>1. <<>> \in Seq({}) /\ Len(<<>>) = 0
  BY EmptySeq
<1>2. Columns(<<>>)[0] = 0
  BY <1>1, ColumnsAre
<1>3. \A c \in Nat : InColumn(<<>>, c) = Blank
  <2>1. \A c \in Nat : c + 1 \notin 1..0
    OBVIOUS
  <2>. QED
    BY <1>1, <2>1 DEF InColumn
<1>. QED
  BY <1>1, <1>2, <1>3, CellNothing DEF Fits

\* and every token of a line does to it what it does to the cells.
LEMMA FitsMore ==
  ASSUME NEW S, NEW tokens \in Seq(S), NEW s \in Screens, Fits(tokens, s.line, s.cursor),
         s.string = "no", NEW x \in S, x \in ShownTokens \ {"lf", "osc", "dcs"}
  PROVE  LET r == Interpret(s, x)
         IN  /\ Fits(Append(tokens, x), r.line, r.cursor)
             /\ r.completed = s.completed
<1>. DEFINE r == Interpret(s, x)  more == Append(tokens, x)
<1>1. /\ Columns(tokens)[Len(tokens)] = s.cursor /\ s.cursor \in Nat
      /\ \A c \in Nat : Cell(tokens, c) = InColumn(s.line, c)
  BY DEF Fits, Screens
<1>2. Len(more) = Len(tokens) + 1
  BY AppendProperties
<1>3. Columns(more)[Len(more)] = ColumnAfter(s.cursor, x)
  BY <1>1, <1>2, ColumnsMore
<1>4. \A c \in Nat : Cell(more, c)
        = IF x \in Letters /\ s.cursor = c THEN x
          ELSE IF x = "K0" /\ s.cursor <= c THEN Blank
          ELSE InColumn(s.line, c)
  <2>1. x # "K1" /\ x # "K2"
    BY DEF ShownTokens
  <2>. QED
    BY <1>1, <2>1, CellMore DEF Erasing
<1>. HIDE DEF more
<1>5. ~(s.string # "no" \/ x \in {"osc", "dcs"}) /\ x # "lf" /\ x \in StreamTokens
      /\ (x \in Printed <=> x \in Letters)
  BY DEF ShownTokens, StreamTokens, Printed, Blank, Letters, EraseModes
<1>6. CASE x \in Letters
  <2>1. Interpret(s, x) = Write(s, x) /\ x \in Cells
    BY <1>5, <1>6, InterpretIs DEF Cells, Printed
  <2>2. x # "K0" /\ ColumnAfter(s.cursor, x) = s.cursor + 1
    BY <1>6 DEF Letters, ColumnAfter
  <2>. DEFINE w == Write(s, x)
  <2>3. /\ w.completed = s.completed /\ w.cursor = s.cursor + 1
        /\ \A c \in Nat : InColumn(w.line, c) = IF c = s.cursor THEN x ELSE InColumn(s.line, c)
    BY <2>1, WriteIs
  <2>. HIDE DEF w
  <2>4. \A c \in Nat : Cell(more, c) = InColumn(w.line, c)
    BY <1>4, <1>6, <2>2, <2>3
  <2>. QED
    BY <1>3, <2>1, <2>2, <2>3, <2>4 DEF Fits, w, more
<1>7. CASE x = "K0"
  <2>1. x \in DOMAIN EraseModes /\ EraseModes[x] = 0 /\ x \notin Letters
    BY <1>7 DEF EraseModes, Letters
  <2>2. Interpret(s, x) = EraseLine(s, 0)
    BY <1>5, <2>1, InterpretIs
  <2>3. ColumnAfter(s.cursor, x) = s.cursor
    BY <1>7, <2>1 DEF ColumnAfter, Column
  <2>. DEFINE w == EraseLine(s, 0)
  <2>4. /\ w.completed = s.completed /\ w.cursor = s.cursor
        /\ \A c \in Nat : InColumn(w.line, c)
                            = IF c >= s.cursor THEN Blank ELSE InColumn(s.line, c)
    <3>1. 0 \in 0..2
      OBVIOUS
    <3>. QED
      BY <3>1, EraseIs
  <2>. HIDE DEF w
  <2>5. \A c \in Nat : Cell(more, c) = InColumn(w.line, c)
    <3>1. \A c \in Nat : c >= s.cursor <=> s.cursor <= c
      BY <1>1
    <3>. QED
      BY <1>4, <1>7, <2>1, <2>4, <3>1
  <2>. QED
    BY <1>3, <2>2, <2>3, <2>4, <2>5 DEF Fits, w, more
<1>8. CASE x \notin Letters /\ x # "K0"
  <2>1. x \notin DOMAIN EraseModes
    BY <1>8 DEF EraseModes, ShownTokens
  <2>2. /\ r.completed = s.completed /\ r.line = s.line /\ r.cursor = Column(s.cursor, x)
    BY <1>5, <1>8, <2>1, InterpretIs
  <2>. HIDE DEF r
  <2>3. ColumnAfter(s.cursor, x) = Column(s.cursor, x)
    BY <1>8 DEF ColumnAfter
  <2>4. \A c \in Nat : Cell(more, c) = InColumn(r.line, c)
    BY <1>4, <1>8, <2>2
  <2>. QED
    BY <1>3, <2>2, <2>3, <2>4 DEF Fits, r, more
<1>. QED
  BY <1>6, <1>7, <1>8

\* A token in a string, or at either end of one, is not shown.
LEMMA StringsMore ==
  ASSUME NEW t \in Seq(ShownTokens)
  PROVE  /\ WithoutStrings(t) \in Seq(ShownTokens)
         /\ \A x \in ShownTokens :
              LET s == Interpreted(t)
              IN  WithoutStrings(Append(t, x))
                    = IF s.string # "no" \/ x \in {"osc", "dcs"} THEN WithoutStrings(t)
                      ELSE Append(WithoutStrings(t), x)
<1>. DEFINE S == ShownTokens
            Piece(u, k) == IF InString(u)[k] \/ InString(u)[k - 1] THEN <<>> ELSE <<u[k]>>
            Shown(u) == [k \in DOMAIN u |-> Piece(u, k)]
<1>0. S \subseteq StreamTokens /\ Seq(S) \subseteq Seq(StreamTokens)
  <2>1. S \subseteq StreamTokens
    BY DEF ShownTokens
  <2>. QED
    BY <2>1, SeqMonotonic
<1>1. \A u : WithoutStrings(u) = FlattenSeq(Shown(u))
  BY DEF WithoutStrings
<1>2. ASSUME NEW u \in Seq(S)
      PROVE  /\ Shown(u) \in Seq(Seq(S)) /\ Len(Shown(u)) = Len(u) /\ DOMAIN u = 1..Len(u)
             /\ \A k \in 1..Len(u) : Shown(u)[k] = Piece(u, k) /\ Piece(u, k) \in Seq(S)
  <2>1. Len(u) \in Nat /\ DOMAIN u = 1..Len(u) /\ \A k \in 1..Len(u) : u[k] \in S
    BY LenProperties, ElementOfSeq
  <2>2. \A k \in 1..Len(u) : Piece(u, k) \in Seq(S)
    <3>1. <<>> \in Seq(S) /\ \A y \in S : <<y>> \in Seq(S)
      BY EmptySeq
    <3>. QED
      BY <2>1, <3>1
  <2>. HIDE DEF Piece, S
  <2>3. Shown(u) = [k \in 1..Len(u) |-> Piece(u, k)]
    BY <2>1
  <2>. HIDE DEF Shown
  <2>. QED
    BY <2>1, <2>2, <2>3
<1>3. WithoutStrings(t) \in Seq(S)
  <2>1. Shown(t) \in Seq(Seq(S))
    BY <1>2
  <2>. HIDE DEF Shown
  <2>. QED
    BY <1>1, <2>1, FlattenType
<1>4. ASSUME NEW x \in S
      PROVE  WithoutStrings(Append(t, x))
               = IF Interpreted(t).string # "no" \/ x \in {"osc", "dcs"} THEN WithoutStrings(t)
                 ELSE Append(WithoutStrings(t), x)
  <2>. DEFINE more == Append(t, x)  n == Len(t)  s == Interpreted(t)
              last == Piece(more, n + 1)
  <2>1. /\ more \in Seq(S) /\ Len(more) = n + 1 /\ more[n + 1] = x /\ n \in Nat
        /\ \A k \in 1..n : more[k] = t[k] /\ k \in 1..(n + 1)
        /\ (n + 1) - 1 = n /\ n + 1 \in 1..(n + 1) /\ n \in 0..n
    BY PlacesMore
  <2>2. s \in Screens /\ x \in StreamTokens /\ t \in Seq(StreamTokens) /\ more \in Seq(StreamTokens)
    BY <1>0, <2>1, InterpretedType
  <2>3. \A k \in 0..n : InString(more)[k] <=> InString(t)[k]
    <3>1. \A k \in 0..n : k \in 0..(n + 1) /\ SubSeq(more, 1, k) = SubSeq(t, 1, k)
      <4>1. \A k \in 0..n : k \in 0..(n + 1)
        BY <2>1
      <4>2. \A k \in 0..n : SubSeq(more, 1, k) = SubSeq(t, 1, k)
        BY PrefixMore
      <4>. QED
        BY <4>1, <4>2
    <3>2. \A k \in 0..n : InString(t)[k] <=> Interpreted(SubSeq(t, 1, k)).string # "no"
      BY <2>2, InStringIs
    <3>3. \A k \in 0..(n + 1) :
            InString(more)[k] <=> Interpreted(SubSeq(more, 1, k)).string # "no"
      BY <2>1, <2>2, InStringIs
    <3>. HIDE DEF more, n
    <3>. QED
      BY <3>1, <3>2, <3>3
  <2>4. InString(t)[n] <=> s.string # "no"
    <3>1. SubSeq(t, 1, n) = t
      BY PrefixMore
    <3>2. InString(t)[n] <=> Interpreted(SubSeq(t, 1, n)).string # "no"
      BY <2>1, <2>2, InStringIs
    <3>. QED
      BY <3>1, <3>2
  <2>5. InString(more)[n + 1] <=> Inside(s.string, x) # "no"
    <3>1. SubSeq(more, 1, n + 1) = more /\ n + 1 \in 0..(n + 1)
      <4>1. SubSeq(more, 1, Len(more)) = more
        BY <2>1, SubSeqFull
      <4>2. n + 1 \in 0..(n + 1)
        BY <2>1
      <4>. QED
        BY <2>1, <4>1, <4>2
    <3>2. \A k \in 0..(n + 1) :
            InString(more)[k] <=> Interpreted(SubSeq(more, 1, k)).string # "no"
      BY <2>1, <2>2, InStringIs
    <3>3. Interpreted(more) = Interpret(s, x)
      BY InterpretedAppend
    <3>4. Interpret(s, x).string = Inside(s.string, x)
      BY <2>2, StringNext
    <3>. HIDE DEF more, n, s
    <3>. QED
      BY <3>1, <3>2, <3>3, <3>4
  <2>. HIDE DEF more, s
  <2>6. /\ Shown(t) \in Seq(Seq(S)) /\ Len(Shown(t)) = n /\ DOMAIN t = 1..n
        /\ \A k \in 1..n : Shown(t)[k] = Piece(t, k)
    BY <1>2
  <2>7. /\ Shown(more) \in Seq(Seq(S)) /\ Len(Shown(more)) = n + 1
        /\ \A k \in 1..(n + 1) : Shown(more)[k] = Piece(more, k) /\ Piece(more, k) \in Seq(S)
    BY <1>2, <2>1
  <2>8. \A k \in 1..n : Piece(more, k) = Piece(t, k)
    <3>1. \A k \in 1..n : k \in 0..n /\ k - 1 \in 0..n
      BY <2>1
    <3>. QED
      BY <2>1, <2>3, <3>1
  <2>9. last = IF s.string # "no" \/ x \in {"osc", "dcs"} THEN <<>> ELSE <<x>>
    <3>1. last = IF InString(more)[n + 1] \/ InString(more)[n] THEN <<>> ELSE <<x>>
      BY <2>1
    <3>2. InString(more)[n] <=> s.string # "no"
      BY <2>1, <2>3, <2>4
    <3>3. s.string = "no" => (Inside(s.string, x) # "no" <=> x \in {"osc", "dcs"})
      BY DEF Inside
    <3>. QED
      BY <2>5, <3>1, <3>2, <3>3
  <2>. DEFINE a == Shown(t)  b == Shown(more)
  <2>10. a \in Seq(Seq(S)) /\ Len(a) = n /\ b \in Seq(Seq(S)) /\ Len(b) = n + 1
         /\ \A k \in 1..n : b[k] = a[k]
    BY <2>1, <2>6, <2>7, <2>8
  <2>11. last \in Seq(S) /\ b[n + 1] = last
    BY <2>1, <2>7
  <2>. HIDE DEF a, b, last, Shown, Piece, n
  <2>12. b = Append(a, last)
    <3>. DEFINE c == Append(a, last)
    <3>1. /\ c \in Seq(Seq(S)) /\ Len(c) = Len(a) + 1
          /\ \A k \in 1..Len(a) : c[k] = a[k]
          /\ c[Len(a) + 1] = last
      BY <2>10, <2>11, AppendProperties
    <3>. HIDE DEF c
    <3>2. \A k \in 1..(n + 1) : k \in 1..n \/ k = n + 1
      BY <2>1
    <3>3. \A k \in 1..(n + 1) : b[k] = c[k]
      BY <2>10, <2>11, <3>1, <3>2
    <3>4. b = c
      BY <2>10, <3>1, <3>3, SeqEqual
    <3>. QED
      BY <3>4 DEF c
  <2>13. FlattenSeq(b) = FlattenSeq(a) \o last
    <3>1. FlattenSeq(a) \in Seq(S)
      BY <2>10, FlattenType
    <3>. QED
      BY <2>10, <2>11, <2>12, <3>1, FlattenAppend
  <2>14. WithoutStrings(t) = FlattenSeq(a) /\ WithoutStrings(more) = FlattenSeq(b)
    BY <1>1 DEF a, b
  <2>15. /\ WithoutStrings(t) \o <<>> = WithoutStrings(t)
         /\ WithoutStrings(t) \o <<x>> = Append(WithoutStrings(t), x)
    <3>1. \A u \in Seq(S) : \A y \in S : Append(u, y) = u \o <<y>>
      BY AppendIsConcat
    <3>2. \A u \in Seq(S) : u \o <<>> = u
      BY ConcatEmptySeq
    <3>. HIDE DEF S
    <3>. QED
      BY <1>3, <3>1, <3>2
  <2>. QED
    BY <2>9, <2>13, <2>14, <2>15 DEF s, more
<1>. HIDE DEF S
<1>. QED
  BY <1>3, <1>4 DEF S

\* The lines of a screen are those of the tokens in these lines.
Mirrors(c, l, s) ==
  /\ Len(c) = Len(s.completed)
  /\ \A i \in 1..Len(c) : ScreenLine(c[i]) = WithoutMargin(s.completed[i])
  /\ Fits(l, s.line, s.cursor)

\* A line end completes both.
LEMMA MirrorsEnd ==
  ASSUME NEW c \in Seq(Seq(ShownTokens)), NEW l \in Seq(ShownTokens), NEW s \in Screens,
         Mirrors(c, l, s)
  PROVE  Mirrors(Append(c, l), <<>>, NewLine(s))
<1>. DEFINE r == NewLine(s)  d == Append(c, l)  e == Append(s.completed, s.line)
<1>1. /\ s.completed \in Seq(Seq(Cells)) /\ s.line \in Seq(Cells) /\ s.cursor \in Nat
  BY DEF Screens
<1>2. /\ Len(c) = Len(s.completed) /\ Fits(l, s.line, s.cursor) /\ Len(c) \in Nat
      /\ \A i \in 1..Len(c) : ScreenLine(c[i]) = WithoutMargin(s.completed[i])
  BY LenProperties DEF Mirrors
<1>3. r = [completed |-> e, line |-> <<>>, cursor |-> 0, string |-> s.string]
  BY NewLineIs
<1>. HIDE DEF r
<1>4. r.completed = e /\ r.line = <<>> /\ r.cursor = 0
  BY <1>3
<1>5. /\ Len(d) = Len(c) + 1 /\ \A i \in 1..Len(c) : d[i] = c[i]
      /\ d[Len(c) + 1] = l
  BY AppendProperties
<1>6. /\ Len(e) = Len(s.completed) + 1 /\ \A i \in 1..Len(s.completed) : e[i] = s.completed[i]
      /\ e[Len(s.completed) + 1] = s.line
  BY <1>1, AppendProperties
<1>7. ScreenLine(l) = WithoutMargin(s.line)
  BY <1>1, <1>2, FitsShows
<1>. HIDE DEF d, e
<1>8. \A i \in 1..(Len(c) + 1) : i \in 1..Len(c) \/ i = Len(c) + 1
  BY <1>2
<1>9. \A i \in 1..Len(d) : ScreenLine(d[i]) = WithoutMargin(e[i])
  BY <1>2, <1>5, <1>6, <1>7, <1>8
<1>10. Len(d) = Len(e)
  BY <1>2, <1>5, <1>6
<1>. QED
  BY <1>4, <1>9, <1>10, FitsNothing DEF Mirrors, r, d

\* A line has tokens on both or on none.
LEMMA MirrorsMore ==
  ASSUME NEW c \in Seq(Seq(ShownTokens)), NEW l \in Seq(ShownTokens), NEW s \in Screens,
         Mirrors(c, l, s), s.string = "no", NEW x \in ShownTokens \ {"lf", "osc", "dcs"}
  PROVE  Mirrors(c, Append(l, x), Interpret(s, x))
<1>1. x \in ShownTokens \ {"lf", "osc", "dcs"} /\ x \in ShownTokens
  OBVIOUS
<1>2. Fits(l, s.line, s.cursor)
  BY DEF Mirrors
<1>3. /\ Fits(Append(l, x), Interpret(s, x).line, Interpret(s, x).cursor)
      /\ Interpret(s, x).completed = s.completed
  BY <1>1, <1>2, FitsMore
<1>. QED
  BY <1>3 DEF Mirrors

\* So it is for every text.
Mirrored(t) ==
  \E c \in Seq(Seq(ShownTokens)) : \E l \in Seq(ShownTokens) :
    /\ Lines(WithoutStrings(t)) = Append(c, l)
    /\ Mirrors(c, l, Interpreted(t))

\* The screen of a text agrees with its lines.
LEMMA TextMirrored ==
  ASSUME NEW t \in Seq(ShownTokens)
  PROVE  Mirrored(t)
<1>. DEFINE S == ShownTokens
            G == {u \in Seq(S) : Mirrored(u)}
<1>0. S \subseteq StreamTokens /\ Seq(S) \subseteq Seq(StreamTokens)
  <2>1. S \subseteq StreamTokens
    BY DEF ShownTokens
  <2>. QED
    BY <2>1, SeqMonotonic
<1>1. <<>> \in G
  <2>1. <<>> \in Seq(S) /\ <<>> \in Seq(Seq(S)) /\ Len(<<>>) = 0 /\ DOMAIN <<>> = {}
    BY EmptySeq
  <2>2. WithoutStrings(<<>>) = <<>>
    <3>1. [k \in DOMAIN <<>> |-> IF InString(<<>>)[k] \/ InString(<<>>)[k - 1] THEN <<>>
                                 ELSE <<(<<>>)[k]>>] = <<>>
      BY <2>1
    <3>. QED
      BY <3>1, FlattenEmpty DEF WithoutStrings
  <2>3. Lines(WithoutStrings(<<>>)) = Append(<<>>, <<>>)
    BY <2>2, LinesNothing
  <2>4. Mirrors(<<>>, <<>>, Screen)
    <3>1. Screen.completed = <<>> /\ Screen.line = <<>> /\ Screen.cursor = 0
      BY ScreenIs
    <3>2. \A i \in 1..0 : FALSE
      OBVIOUS
    <3>. QED
      BY <2>1, <3>1, <3>2, FitsNothing DEF Mirrors
  <2>5. Mirrors(<<>>, <<>>, Interpreted(<<>>))
    BY <2>4, InterpretedNothing
  <2>. QED
    BY <2>1, <2>3, <2>5, Zenon DEF Mirrored
<1>2. ASSUME NEW u \in Seq(S), NEW x \in S, u \in G PROVE Append(u, x) \in G
  <2>. DEFINE s == Interpreted(u)  w == WithoutStrings(u)  more == Append(u, x)
  <2>1. PICK c \in Seq(Seq(S)) :
          \E l \in Seq(S) : Lines(w) = Append(c, l) /\ Mirrors(c, l, s)
    BY <1>2, Zenon DEF Mirrored
  <2>2. PICK l \in Seq(S) : Lines(w) = Append(c, l) /\ Mirrors(c, l, s)
    BY <2>1, Zenon
  <2>3. /\ s \in Screens /\ Interpreted(more) = Interpret(s, x) /\ more \in Seq(S)
        /\ x \in StreamTokens
    BY <1>0, InterpretedType, InterpretedAppend, AppendProperties
  <2>4. w \in Seq(S) /\ WithoutStrings(more)
          = IF s.string # "no" \/ x \in {"osc", "dcs"} THEN w ELSE Append(w, x)
    BY StringsMore
  <2>. HIDE DEF s, w, more, S
  <2>5. CASE s.string # "no" \/ x \in {"osc", "dcs"}
    <3>1. /\ Interpret(s, x).completed = s.completed /\ Interpret(s, x).line = s.line
          /\ Interpret(s, x).cursor = s.cursor
      BY <2>3, <2>5, InterpretIs
    <3>2. Mirrors(c, l, Interpret(s, x))
      BY <2>2, <3>1 DEF Mirrors
    <3>3. Lines(WithoutStrings(more)) = Append(c, l) /\ Mirrors(c, l, Interpreted(more))
      BY <2>2, <2>3, <2>4, <2>5, <3>2
    <3>. QED
      BY <2>3, <3>3, Zenon DEF Mirrored, more, S
  <2>6. CASE ~(s.string # "no" \/ x \in {"osc", "dcs"})
    <3>1. Lines(WithoutStrings(more)) = LineStep(Append(c, l), x)
      <4>1. Lines(Append(w, x)) = LineStep(Lines(w), x)
        BY <2>4, LinesAppend
      <4>. QED
        BY <2>2, <2>4, <2>6, <4>1
    <3>2. Front(Append(c, l)) = c /\ Last(Append(c, l)) = l
      BY FrontLast
    <3>3. <<>> \in Seq(S) /\ Append(c, l) \in Seq(Seq(S)) /\ Append(l, x) \in Seq(S)
      <4>1. \A a \in Seq(Seq(S)) : \A b \in Seq(S) : Append(a, b) \in Seq(Seq(S))
        BY AppendProperties
      <4>. QED
        BY <4>1, AppendProperties, EmptySeq
    <3>4. CASE x = "lf"
      <4>1. Lines(WithoutStrings(more)) = Append(Append(c, l), <<>>)
        BY <3>1, <3>4 DEF LineStep
      <4>2. Interpret(s, x) = NewLine(s)
        BY <2>3, <2>6, <3>4, InterpretIs
      <4>3. Mirrors(Append(c, l), <<>>, Interpreted(more))
        BY <2>2, <2>3, <4>2, MirrorsEnd DEF S
      <4>. QED
        BY <2>3, <3>3, <4>1, <4>3, Zenon DEF Mirrored, more, S
    <3>5. CASE x # "lf"
      <4>1. Lines(WithoutStrings(more)) = Append(c, Append(l, x))
        BY <3>1, <3>2, <3>5 DEF LineStep
      <4>2. Mirrors(c, Append(l, x), Interpreted(more))
        BY <2>2, <2>3, <2>6, <3>5, MirrorsMore DEF S
      <4>. QED
        BY <2>3, <3>3, <4>1, <4>2, Zenon DEF Mirrored, more, S
    <3>. QED
      BY <3>4, <3>5
  <2>. QED
    BY <2>5, <2>6
<1>. HIDE DEF G
<1>3. Seq(S) \subseteq G
  BY <1>1, <1>2, AllSequences
<1>. QED
  BY <1>3 DEF G

\* A line of blanks has no text.
LEMMA MarginNothing == WithoutMargin(<<>>) = <<>>
<1>1. DOMAIN <<>> = {}
  BY EmptySeq
<1>2. {i \in DOMAIN <<>> : (<<>>)[i] # Blank} = {}
  BY <1>1
<1>. QED
  BY <1>2 DEF WithoutMargin

\* What is rendered has the lines of the screen.
LEMMA RenderedShown ==
  ASSUME NEW t \in Seq(ShownTokens)
  PROVE  LET rendered == Lines(RenderTerminalStream(t))
             lines == [i \in DOMAIN rendered |-> WithoutMargin(rendered[i])]
             screen == ScreenLines(t)
         IN  lines = screen \/ (Len(screen) = 2 /\ screen = <<<<>>>> \o lines)
<1>. DEFINE rendered == Lines(RenderTerminalStream(t))  s == Interpreted(t)
            lines == [i \in DOMAIN rendered |-> WithoutMargin(rendered[i])]
            screen == ScreenLines(t)
            said == Lines(WithoutStrings(t))
<1>1. s \in Screens
  <2>1. ShownTokens \subseteq StreamTokens
    BY DEF ShownTokens
  <2>2. t \in Seq(StreamTokens)
    BY <2>1, SeqMonotonic
  <2>. QED
    BY <2>2, InterpretedType
<1>2. PICK c \in Seq(Seq(ShownTokens)) :
        \E l \in Seq(ShownTokens) : said = Append(c, l) /\ Mirrors(c, l, s)
  BY TextMirrored, Zenon DEF Mirrored
<1>3. PICK l \in Seq(ShownTokens) : said = Append(c, l) /\ Mirrors(c, l, s)
  BY <1>2, Zenon
<1>4. \/ rendered = Append(s.completed, s.line)
      \/ s.completed = Append(<<>>, <<>>) /\ rendered = Append(<<>>, s.line)
  BY <1>1, LinesRendered
<1>5. screen = [i \in DOMAIN said |-> ScreenLine(said[i])]
  BY DEF ScreenLines
<1>. HIDE DEF said, s, rendered, screen
<1>. DEFINE e == Append(s.completed, s.line)  d == Append(c, l)  n == Len(c)
<1>6. s.completed \in Seq(Seq(Cells)) /\ s.line \in Seq(Cells) /\ s.cursor \in Nat
  BY <1>1 DEF Screens
<1>7. /\ n \in Nat /\ Len(s.completed) = n
      /\ ScreenLine(l) = WithoutMargin(s.line)
      /\ \A i \in 1..n : ScreenLine(c[i]) = WithoutMargin(s.completed[i])
  <2>1. Fits(l, s.line, s.cursor)
    BY <1>3 DEF Mirrors
  <2>2. ScreenLine(l) = WithoutMargin(s.line)
    BY <1>6, <2>1, FitsShows
  <2>. QED
    BY <1>3, <2>2, LenProperties DEF Mirrors
<1>8. /\ DOMAIN d = 1..(n + 1) /\ \A i \in 1..n : d[i] = c[i]
      /\ d[n + 1] = l
  <2>1. /\ d \in Seq(Seq(ShownTokens)) /\ Len(d) = n + 1 /\ \A i \in 1..n : d[i] = c[i]
        /\ d[n + 1] = l
    BY AppendProperties
  <2>. HIDE DEF d
  <2>. QED
    BY <2>1, LenProperties
<1>9. /\ DOMAIN e = 1..(n + 1) /\ \A i \in 1..n : e[i] = s.completed[i]
      /\ e[n + 1] = s.line
  <2>1. /\ e \in Seq(Seq(Cells)) /\ Len(e) = Len(s.completed) + 1
        /\ \A i \in 1..Len(s.completed) : e[i] = s.completed[i]
        /\ e[Len(s.completed) + 1] = s.line
    BY <1>6, AppendProperties
  <2>. HIDE DEF e, n
  <2>. QED
    BY <1>7, <2>1, LenProperties
<1>. HIDE DEF d, e, n
<1>10. \A i \in 1..(n + 1) : i \in 1..n \/ i = n + 1
  BY <1>7
<1>11. \A i \in 1..(n + 1) : ScreenLine(d[i]) = WithoutMargin(e[i])
  BY <1>7, <1>8, <1>9, <1>10
<1>12. screen = [i \in 1..(n + 1) |-> WithoutMargin(e[i])]
  <2>1. screen = [i \in 1..(n + 1) |-> ScreenLine(d[i])]
    BY <1>3, <1>5, <1>8 DEF d
  <2>. QED
    BY <1>11, <2>1
<1>13. CASE rendered = Append(s.completed, s.line)
  <2>1. rendered = e
    BY <1>13 DEF e
  <2>2. lines = [i \in 1..(n + 1) |-> WithoutMargin(e[i])]
    BY <1>9, <2>1
  <2>. QED
    BY <1>12, <2>2 DEF rendered, screen
<1>14. CASE s.completed = Append(<<>>, <<>>) /\ rendered = Append(<<>>, s.line)
  <2>. DEFINE one == Append(<<>>, <<>>)  last == Append(<<>>, s.line)
              m == WithoutMargin(s.line)
  <2>0. <<>> \in Seq(Seq(Cells)) /\ <<>> \in Seq(Cells) /\ Len(<<>>) = 0
    BY EmptySeq
  <2>1. one \in Seq(Seq(Cells)) /\ Len(one) = 1 /\ one[1] = <<>>
    BY <2>0, AppendProperties
  <2>2. last \in Seq(Seq(Cells)) /\ Len(last) = 1 /\ last[1] = s.line
    BY <1>6, <2>0, AppendProperties
  <2>. HIDE DEF one, last
  <2>3. n = 1
    BY <1>7, <1>14, <2>1 DEF one
  <2>4. e[1] = <<>> /\ e[2] = s.line /\ n + 1 = 2 /\ 1 \in 1..n
    BY <1>9, <1>14, <2>1, <2>3 DEF one
  <2>5. DOMAIN last = 1..1 /\ rendered = last
    BY <1>14, <2>2, LenProperties DEF last
  <2>. HIDE DEF m
  <2>6. lines = [i \in 1..1 |-> m]
    <3>1. \A i \in 1..1 : WithoutMargin(last[i]) = m
      BY <2>2 DEF m
    <3>2. lines = [i \in 1..1 |-> WithoutMargin(last[i])]
      BY <2>5
    <3>. QED
      BY <3>1, <3>2
  <2>7. screen = [i \in 1..2 |-> IF i = 1 THEN <<>> ELSE m]
    <3>1. \A i \in 1..2 : WithoutMargin(e[i]) = IF i = 1 THEN <<>> ELSE m
      <4>1. \A i \in 1..2 : i = 1 \/ i = 2
        OBVIOUS
      <4>. QED
        BY <2>4, <4>1, MarginNothing DEF m
    <3>2. screen = [i \in 1..2 |-> WithoutMargin(e[i])]
      BY <1>12, <2>4
    <3>. QED
      BY <3>1, <3>2
  <2>. HIDE DEF lines
  <2>8. lines = <<m>> /\ screen = <<<<>>, m>>
    BY <2>6, <2>7
  <2>9. <<<<>>>> \o <<m>> = <<<<>>, m>> /\ Len(<<<<>>, m>>) = 2
    <3>. DEFINE v == <<>>  T == {v, m}
    <3>1. v \in T /\ m \in T
      OBVIOUS
    <3>. HIDE DEF v, T
    <3>2. /\ <<v>> \in Seq(T) /\ <<m>> \in Seq(T) /\ Len(<<v>>) = 1 /\ Len(<<m>>) = 1
          /\ <<v, m>> \in Seq(T) /\ Len(<<v, m>>) = 2
          /\ <<v, m>>[1] = v /\ <<v, m>>[2] = m /\ <<v>>[1] = v /\ <<m>>[1] = m
      BY <3>1
    <3>. DEFINE a == <<v>>  b == <<m>>  both == <<v, m>>
    <3>3. /\ a \in Seq(T) /\ b \in Seq(T) /\ Len(a) = 1 /\ Len(b) = 1
          /\ both \in Seq(T) /\ Len(both) = 2 /\ both[1] = v /\ both[2] = m
          /\ a[1] = v /\ b[1] = m
      BY <3>2
    <3>. HIDE DEF a, b, both
    <3>4. /\ a \o b \in Seq(T) /\ Len(a \o b) = Len(a) + Len(b)
          /\ \A i \in 1..Len(a) + Len(b) :
               (a \o b)[i] = IF i <= Len(a) THEN a[i] ELSE b[i - Len(a)]
      BY <3>3, ConcatProperties
    <3>5. Len(a \o b) = 2 /\ (a \o b)[1] = v /\ (a \o b)[2] = m
      BY <3>3, <3>4
    <3>6. \A i \in 1..2 : i = 1 \/ i = 2
      OBVIOUS
    <3>7. \A i \in 1..2 : (a \o b)[i] = both[i]
      BY <3>3, <3>5, <3>6
    <3>8. a \o b = both
      BY <3>3, <3>4, <3>5, <3>7, SeqEqual
    <3>. QED
      BY <3>3, <3>8 DEF a, b, both, v
  <2>. QED
    BY <2>8, <2>9 DEF lines, rendered, screen
<1>. QED
  BY <1>4, <1>13, <1>14

----------------------------------------------------------------------------

\* Texts are of the tokens of their kind.
GrowsInv == kind \in DOMAIN Tokens /\ text \in Seq(Tokens[kind])

\* That is so of every state.
LEMMA TextsGrow == Spec => []GrowsInv
<1>1. Init => GrowsInv
  BY EmptySeq DEF Init, GrowsInv
<1>2. GrowsInv /\ [Next]_vars => GrowsInv'
  BY AppendProperties DEF GrowsInv, Next, Grow, vars
<1>. QED
  BY <1>1, <1>2, PTL DEF Spec

\* Of which tokens the messages, the answers and the settings are.
LEMMA TextKinds ==
  GrowsInv => /\ kind = "message" => text \in Seq(MessageTokens)
              /\ kind = "prose" => text \in Seq(ProseTokens)
              /\ kind = "setting" => text \in Seq(Characters)
  BY DEF GrowsInv, Tokens

\* A message is made of what stands in a text up to a place, and what stands after
\* it.
LEMMA TextParts ==
  ASSUME text \in Seq(MessageTokens), NEW k \in 0..Len(text)
  PROVE  /\ SubSeq(text, 1, k) \in Seq(MessageTokens) /\ Len(SubSeq(text, 1, k)) = k
         /\ SubSeq(text, k + 1, Len(text)) \in Seq(MessageTokens)
         /\ SubSeq(text, 1, k) \in Seq(Token)
         /\ SubSeq(text, k + 1, Len(text)) \in Seq(Token)
<1>1. /\ Len(text) \in Nat /\ 1 \in Int /\ k \in Int /\ k + 1 \in Int /\ Len(text) \in Int
      /\ \A i \in 1..k : i \in 1..Len(text)
      /\ \A i \in (k + 1)..Len(text) : i \in 1..Len(text)
      /\ (1 <= k /\ k - 1 + 1 = k) \/ (~(1 <= k) /\ k = 0)
  BY LenProperties
<1>2. /\ \A i \in 1..k : text[i] \in MessageTokens
      /\ \A i \in (k + 1)..Len(text) : text[i] \in MessageTokens
  BY <1>1, ElementOfSeq
<1>3. SubSeq(text, 1, k) \in Seq(MessageTokens) /\ Len(SubSeq(text, 1, k)) = k
  BY <1>1, <1>2, SubSeqProperties
<1>4. SubSeq(text, k + 1, Len(text)) \in Seq(MessageTokens)
  BY <1>1, <1>2, SubSeqProperties
<1>5. \A s \in Seq(MessageTokens) : s \in Seq(Token)
  <2>1. MessageTokens \subseteq Token
    BY DEF Token
  <2>. QED
    BY <2>1, SeqMonotonic
<1>. QED
  BY <1>3, <1>4, <1>5

\* What ScrubIsExact says of a text is what ScrubsMessage says of its parts.
LEMMA MessagesScrubbed == GrowsInv => ScrubIsExact
<1>. SUFFICES ASSUME text \in Seq(MessageTokens), NEW k \in 0..Len(text)
              PROVE  LET context == SubSeq(text, 1, k)
                         question == SubSeq(text, k + 1, Len(text))
                     IN  (Scrub(BuildRequest(context, question))
                            = BuildRequest(Marker, question)) <=>
                           /\ ~\E i \in 1..(k - 1) :
                                 context[i] = "lf" /\ context[i + 1] = "</terminal_context>"
                           /\ \A i \in DOMAIN question : BlockEnds(question \o <<"lf">>, i) = {}
  BY TextKinds DEF ScrubIsExact
<1>. DEFINE c == SubSeq(text, 1, k)  q == SubSeq(text, k + 1, Len(text))
            closes == \E i \in 1..(k - 1) : c[i] = "lf" /\ c[i + 1] = "</terminal_context>"
<1>1. c \in Seq(Token) /\ Len(c) = k /\ q \in Seq(MessageTokens) /\ q \in Seq(Token)
  BY TextParts
<1>. HIDE DEF c, q
<1>2. (\A i \in DOMAIN q : BlockEnds(q \o <<"lf">>, i) = {})
        <=> \A i \in DOMAIN q : BlockEnds(q, i) = {}
  BY <1>1, QuestionMatches
<1>3. (Scrub(BuildRequest(c, q)) = BuildRequest(Marker, q)) <=>
        ~closes /\ \A i \in DOMAIN q : BlockEnds(q, i) = {}
  <2>1. CASE c # <<>>
    BY <1>1, <2>1, ScrubsMessage DEF Closes
  <2>2. CASE c = <<>>
    <3>. DEFINE d == <<"no context">>
    <3>1. d \in Seq(Token) /\ d # <<>> /\ Len(d) = 1
      <4>1. "no context" \in Token
        BY TokenTuples
      <4>2. \A x \in Token : <<x>> \in Seq(Token) /\ Len(<<x>>) = 1
        OBVIOUS
      <4>3. d \in Seq(Token) /\ Len(d) = 1
        BY <4>1, <4>2, Zenon
      <4>. HIDE DEF d
      <4>. QED
        BY <4>3, EmptySeq
    <3>2. BuildRequest(c, q) = BuildRequest(d, q)
      BY <2>2, <3>1 DEF BuildRequest
    <3>3. ~Closes(d) /\ ~closes
      <4>1. k = 0
        BY <1>1, <2>2, EmptySeq
      <4>2. \A i \in 1..(1 - 1) : FALSE
        OBVIOUS
      <4>3. \A i \in 1..(0 - 1) : FALSE
        OBVIOUS
      <4>. HIDE DEF d
      <4>. QED
        BY <3>1, <4>1, <4>2, <4>3 DEF Closes
    <3>. HIDE DEF d, closes
    <3>4. (Scrub(BuildRequest(d, q)) = BuildRequest(Marker, q)) <=>
            /\ ~Closes(d)
            /\ \A a \in DOMAIN q : BlockEnds(q, a) = {}
      BY <1>1, <3>1, ScrubsMessage
    <3>. QED
      BY <3>2, <3>3, <3>4
  <2>. QED
    BY <2>1, <2>2
<1>. QED
  BY <1>2, <1>3 DEF c, q

\* What RedactionIsExact says of a text is what RedactsMessage says of its parts.
LEMMA MessagesRedacted == GrowsInv => RedactionIsExact
<1>. SUFFICES ASSUME text \in Seq(MessageTokens), NEW k \in 1..Len(text)
              PROVE  LET context == SubSeq(text, 1, k)
                         question == SubSeq(text, k + 1, Len(text))
                     IN  /\ ~\E i \in 1..(k - 1) :
                               context[i] = "lf" /\ context[i + 1] = "</terminal_context>"
                         /\ \A i \in DOMAIN question : BlockEnds(question, i) = {}
                         => RedactTerminalContext(BuildRequest(context, question), "secret")
                              = Block(Without(context, "secret"))
                                  \o SubSeq(BuildRequest(context, question), k + 5,
                                            Len(BuildRequest(context, question)))
  BY TextKinds DEF RedactionIsExact
<1>. DEFINE c == SubSeq(text, 1, k)  q == SubSeq(text, k + 1, Len(text))
<1>1. k \in 0..Len(text) /\ k # 0
  OBVIOUS
<1>2. c \in Seq(Token) /\ Len(c) = k /\ q \in Seq(Token)
  BY <1>1, TextParts
<1>. HIDE DEF c, q
<1>3. c # <<>>
  BY <1>1, <1>2, EmptySeq
<1>4. ASSUME ~\E i \in 1..(k - 1) : c[i] = "lf" /\ c[i + 1] = "</terminal_context>",
             \A i \in DOMAIN q : BlockEnds(q, i) = {}
      PROVE  RedactTerminalContext(BuildRequest(c, q), "secret")
               = Block(Without(c, "secret")) \o SubSeq(BuildRequest(c, q), k + 5,
                                                       Len(BuildRequest(c, q)))
  <2>1. ~Closes(c)
    BY <1>2, <1>4 DEF Closes
  <2>. QED
    BY <1>2, <1>3, <1>4, <2>1, RedactsMessage
<1>. QED
  BY <1>4 DEF c, q

----------------------------------------------------------------------------

\* Compaction (the substitution in ContextSession.compact) takes all of the
\* terminal text of a message out and nothing else, exactly when no line of that
\* text begins with the closing tag and the question holds no block of its own.
THEOREM MessagesScrubExactly == Spec => []ScrubIsExact
  BY TextsGrow, MessagesScrubbed, PTL

\* Under the same condition on the terminal text redaction
\* (_redact_terminal_context) takes the selected text out of it and leaves a
\* question without blocks as it was.
THEOREM MessagesRedactExactly == Spec => []RedactionIsExact
  BY TextsGrow, MessagesRedacted, PTL

\* An answer with one kind of emphasis becomes markup that can be shown
\* (prose_to_pango), also together with headings: every tag is closed, the last one
\* opened first.
THEOREM OneKindOfMarkupNests == Spec => []OneKindNests
<1>1. GrowsInv => OneKindNests
  BY TextKinds, ProseNests DEF OneKindNests
<1>. QED
  BY <1>1, TextsGrow, PTL

\* What is rendered (render_terminal_stream) has the lines that a terminal shows,
\* margins apart, as long as lines are erased from the cursor to their end only; a
\* single empty line before the last may be lost.
THEOREM ScreensAreRendered == Spec => []RendersScreen
<1>1. GrowsInv => RendersScreen
  <2>. SUFFICES ASSUME GrowsInv, kind = "stream",
                       ToSet(text) \cap {"K1", "K2", "H2", "tab", "skipped"} = {}
                PROVE  RendersScreen
    BY DEF RendersScreen
  <2>1. text \in Seq(StreamTokens)
    BY DEF GrowsInv, Tokens
  <2>2. text \in Seq(ShownTokens)
    <3>1. \A i \in 1..Len(text) : text[i] \in StreamTokens /\ text[i] \in ToSet(text)
      BY <2>1, LenProperties, ElementOfSeq DEF ToSet
    <3>2. \A i \in 1..Len(text) : text[i] \in ShownTokens
      BY <3>1 DEF ShownTokens
    <3>. QED
      BY <2>1, <3>2
  <2>. QED
    BY <2>2, RenderedShown, Zenon DEF RendersScreen, Renders
<1>. QED
  BY <1>1, TextsGrow, PTL

\* Where one request ends and the next begins does not matter at a line end outside
\* of strings: the two slices are rendered to the lines that they are rendered to
\* together, empty ones apart.
THEOREM BoundariesDoNotMatter == Spec => []BoundaryAtLineEnd
<1>1. GrowsInv => BoundaryAtLineEnd
  <2>. SUFFICES ASSUME GrowsInv, kind = "stream" PROVE BoundaryAtLineEnd
    BY DEF BoundaryAtLineEnd
  <2>1. text \in Seq(StreamTokens)
    BY DEF GrowsInv, Tokens
  <2>. DEFINE lines(u) == Lines(RenderTerminalStream(u))
              said(u) == FlattenSeq([i \in DOMAIN lines(u) |->
                IF lines(u)[i] = <<>> THEN <<>> ELSE <<lines(u)[i]>>])
              Said(u) == SaidLines(Append(Interpreted(u).completed, Interpreted(u).line))
  <2>2. \A u \in Seq(StreamTokens) : said(u) = Said(u)
    BY SaidRendered, Zenon
  <2>3. ASSUME NEW k \in DOMAIN text, text[k] = "lf" /\ ~InString(text)[k]
        PROVE  said(text) = said(SubSeq(text, 1, k)) \o said(SubSeq(text, k + 1, Len(text)))
    <3>1. k \in 1..Len(text)
      BY <2>1, LenProperties
    <3>. DEFINE a == SubSeq(text, 1, k)  b == SubSeq(text, k + 1, Len(text))
    <3>2. a \in Seq(StreamTokens) /\ b \in Seq(StreamTokens) /\ Said(text) = Said(a) \o Said(b)
      BY <2>1, <2>3, <3>1, SaidAtLineEnd, Zenon
    <3>. HIDE DEF said, Said, a, b
    <3>3. said(text) = Said(text) /\ said(a) = Said(a) /\ said(b) = Said(b)
      BY <2>1, <2>2, <3>2
    <3>4. said(text) = said(a) \o said(b)
      BY <3>2, <3>3
    <3>. QED
      BY <3>4 DEF a, b
  <2>. QED
    BY <2>3, Zenon DEF BoundaryAtLineEnd
<1>. QED
  BY <1>1, TextsGrow, PTL

\* A selection is found, however it was captured, exactly if the shell has written it
\* in one go; then one occurrence of it goes, whole, and nothing else (redact_text).
THEOREM SelectionsAreRedacted == Spec => []SelectionIsRedacted
<1>1. GrowsInv => SelectionIsRedacted
  <2>. SUFFICES ASSUME GrowsInv, kind = "output" PROVE SelectionIsRedacted
    BY DEF SelectionIsRedacted
  <2>1. text \in Seq(OutputTokens)
    BY DEF GrowsInv, Tokens
  <2>2. \A selection \in Selections(text) : \A events \in Captures(text) :
          LET result == RedactText(events, selection)
              Before(n) == Len(FlattenSeq(SubSeq(events, 1, n - 1)))
              Kept(n, taken) == FlattenSeq([i \in DOMAIN events[n] |->
                IF Before(n) + i \in taken THEN <<>> ELSE <<events[n][i]>>])
          IN  /\ result.redacted <=> InOneGo(text, selection)
              /\ result.redacted =>
                   \E first \in Starts(Raw(text), selection) :
                     \A n \in DOMAIN events :
                       result.events[n] = Kept(n, first..(first + Len(selection) - 1))
    BY <2>1, SelectionRedacted, Zenon
  <2>. QED
    BY <2>2, Zenon DEF SelectionIsRedacted
<1>. QED
  BY <1>1, TextsGrow, PTL

\* A text is read back from the configuration file as it was exactly if TOML can
\* hold it.
THEOREM SettingTextsRoundTrip == Spec => []TextRoundTrips
<1>1. GrowsInv => TextRoundTrips
  BY TextKinds, TextsRoundTrip DEF TextRoundTrips
<1>. QED
  BY <1>1, TextsGrow, PTL

====
