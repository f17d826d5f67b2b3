----------------------------- MODULE LexerProofs -----------------------------
(***************************************************************************)
(* Proofs about Lexer.tla and Parser.tla, for texts of any length over     *)
(* any alphabet and any classes of characters.                             *)
(*                                                                         *)
(* THE LEXER.  Tiled says of the text before pos what TokensTile says: it  *)
(* is white space and tokens in order.  Meant says the same of a quoted    *)
(* text, whose string is the first token.  That a string ends where it     *)
(* should is a matter of two recursions, the one that reads it and the one *)
(* that writes it: each is shown to have a solution, and a solution to be  *)
(* right by the least place at which it is not.                            *)
(*                                                                         *)
(* THE PARSER.  The grammar is two recursions on spans of tokens; both are *)
(* shown to have a solution, which gives them as equations (Grammar and    *)
(* ExpressionFacts).  The grammar cuts a span at its last operator outside *)
(* all brackets, the parser reads from the left: SentenceChain turns the   *)
(* one into the other.  PInv says that the methods on the stack cut what   *)
(* has been read where the grammar does (Framed, Here) and, if the query   *)
(* is a sentence, that each can read what is left of it (Ended, Ahead).    *)
(* So an expression that is returned is that of the grammar, and an error  *)
(* is returned only for what is no sentence.                               *)
(***************************************************************************)
EXTENDS Parser, FiniteSetTheorems, SequenceTheorems, WellFoundedInduction, TLAPS

-----------------------------------------------------------------------------
(***************************************************************************)
(* NUMBERS                                                                 *)
(***************************************************************************)

\* Every set of natural numbers has a least member; the least counterexample of
\* a statement is refuted from the numbers before it.
LEMMA LeastExists ==
  ASSUME NEW S, S \subseteq Nat, S # {}
  PROVE  \E m \in S : \A n \in S : m <= n
<1>1. PICK m \in S : \A n \in S : << n, m >> \notin {pair \in Nat \X Nat : pair[1] < pair[2]}
  BY NatLessThanWellFounded, WFMin DEF OpToRel
<1>2. \A n \in S : n \in Nat /\ m \in Nat /\ ~(n < m)
  BY <1>1
<1>3. \A n \in S : m <= n
  BY <1>2
<1> QED
  BY <1>3

LEMMA MinFacts ==
  ASSUME NEW S, S \subseteq Nat, S # {}
  PROVE  Min(S) \in S /\ \A n \in S : Min(S) <= n
BY LeastExists DEF Min

-----------------------------------------------------------------------------
(***************************************************************************)
(* THE INVARIANT OF THE LEXER                                              *)
(***************************************************************************)

WordTypes == {"IDENT", "AND", "OR", "NOT", "IN"}

TokenTypes == Single \cup WordTypes \cup {"!=", "<=", ">=", "NUMBER", "STRING", "EOF"}

Token == [type : TokenTypes, value : Seq(STRING), from : Nat, to : Nat]

TypeInv ==
  /\ text \in Inputs
  /\ pos \in 1 .. Len(text) + 1
  /\ tokens \in Seq(Token)
  /\ phase \in {"lex", "parse"} \/ phase \in {"done", "failed"}

Within(k, i) == tokens[k].from <= i /\ i <= tokens[k].to

Tiled ==
  /\ \A k \in DOMAIN tokens : 1 <= tokens[k].from /\ tokens[k].to < pos
  /\ \A j, k \in DOMAIN tokens : j < k => tokens[j].to < tokens[k].from
  /\ \A i \in 1 .. pos - 1 : text[i] \in Spaces \/ \E k \in DOMAIN tokens : Within(k, i)
  /\ \A k \in DOMAIN tokens : tokens[k].type \in WordTypes => Char(tokens[k].to + 1) \notin IdentPart

\* The first token of a quoted text is the string.
Meant ==
  \A value \in Quotables : text = Quoted(value) =>
    IF tokens = << >> THEN phase = "lex" /\ pos = 1
    ELSE tokens[1].type = "STRING" /\ tokens[1].value = value /\ tokens[1].to = Len(text)

IInv == TypeInv /\ Tiled /\ Meant /\ (phase = "parse" => tokens # << >>)

-----------------------------------------------------------------------------
(***************************************************************************)
(* RUNS OF CHARACTERS                                                      *)
(***************************************************************************)

LEMMA TextFacts ==
  ASSUME text \in Inputs
  PROVE  /\ text \in Seq(STRING) /\ Len(text) \in Nat /\ DOMAIN text = 1..Len(text)
         /\ \A i \in 1..Len(text) : Char(i) = text[i]
         /\ \A i \in Nat : Char(i) # End => i <= Len(text)
<1>1. text \in Seq(STRING)
  BY LexerAssumption
<1>2. Len(text) \in Nat /\ DOMAIN text = 1..Len(text)
  BY <1>1
<1>3. \A i \in 1..Len(text) : Char(i) = text[i]
  BY <1>1 DEF Char
<1>4. \A i \in Nat : Char(i) # End => i <= Len(text)
  BY <1>1 DEF Char
<1> QED
  BY <1>1, <1>2, <1>3, <1>4

\* A run stops at the first character of another class, the end at the latest.
LEMMA RunFacts ==
  ASSUME text \in Inputs, NEW i \in 1 .. Len(text) + 1, NEW class, End \notin class
  PROVE  /\ EndOfRun(i, class) \in i .. Len(text) + 1
         /\ Char(EndOfRun(i, class)) \notin class
         /\ \A j \in i .. EndOfRun(i, class) - 1 : Char(j) \in class
         /\ Char(i) \in class => EndOfRun(i, class) # i
<1> DEFINE others == {j \in i .. Len(text) + 1 : Char(j) \notin class}
<1>1. Len(text) \in Nat
  BY TextFacts
<1>2. Len(text) + 1 \in others
  <2>1. Char(Len(text) + 1) = End
    BY <1>1 DEF Char
  <2>2. Len(text) + 1 \in i .. Len(text) + 1
    BY <1>1
  <2> QED
    BY <2>1, <2>2
<1>3. others \subseteq Nat
  BY <1>1
<1>4. EndOfRun(i, class) = Min(others)
  BY DEF EndOfRun
<1>5. Min(others) \in others /\ \A j \in others : Min(others) <= j
  <2> HIDE DEF others
  <2> QED
    BY <1>2, <1>3, MinFacts
<1>6. PICK e : e = EndOfRun(i, class)
  OBVIOUS
<1>7. e \in others /\ \A j \in others : e <= j
  BY <1>4, <1>5, <1>6
<1>8. ASSUME NEW j \in i .. e - 1 PROVE Char(j) \in class
  <2>1. j \in i .. Len(text) + 1 /\ ~(e <= j)
    BY <1>1, <1>7
  <2> QED
    BY <1>7, <2>1
<1> QED
  BY <1>6, <1>7, <1>8

\* What is passed over for a number.
LEMMA NumberFacts ==
  ASSUME text \in Inputs, pos \in 1..Len(text), Char(pos) \in Digits \cup {"-"}
  PROVE  EndOfNumber \in pos + 1 .. Len(text) + 1
<1> DEFINE first == IF Char(pos) = "-" THEN pos + 1 ELSE pos
           whole == EndOfRun(first, Digits)
<1>1. End \notin Digits /\ Len(text) \in Nat
  BY LexerAssumption, TextFacts
<1>2. first \in 1 .. Len(text) + 1
  BY <1>1
<1>3. /\ whole \in first .. Len(text) + 1
      /\ Char(first) \in Digits => whole # first
  <2> HIDE DEF first
  <2> QED
    BY <1>1, <1>2, RunFacts
<1>4. whole \in pos + 1 .. Len(text) + 1
  <2>1. CASE Char(pos) = "-"
    BY <1>1, <1>3, <2>1
  <2>2. CASE Char(pos) # "-"
    <3>1. first = pos /\ Char(first) \in Digits
      BY <2>2
    <3>2. whole \in first .. Len(text) + 1 /\ whole # first
      BY <1>3, <3>1
    <3> HIDE DEF first, whole
    <3> QED
      BY <1>1, <3>1, <3>2
  <2> QED
    BY <2>1, <2>2
<1>5. PICK w : w = whole
  OBVIOUS
<1>6. EndOfNumber = IF Char(w) = "." THEN EndOfRun(w + 1, Digits) ELSE w
  BY <1>5 DEF EndOfNumber
<1> HIDE DEF first, whole
<1>7. CASE Char(w) = "."
  <2>1. w <= Len(text)
    <3>1. w \in Nat
      BY <1>1, <1>4, <1>5
    <3>2. Char(w) # End
      BY <1>7 DEF End
    <3> QED
      BY <3>1, <3>2, TextFacts
  <2>2. w + 1 \in 1 .. Len(text) + 1 /\ w + 1 >= pos + 1
    BY <1>1, <1>4, <1>5, <2>1
  <2>3. EndOfRun(w + 1, Digits) \in w + 1 .. Len(text) + 1
    BY <1>1, <2>2, RunFacts
  <2> QED
    BY <1>1, <1>4, <1>5, <1>6, <1>7, <2>2, <2>3
<1>8. CASE Char(w) # "."
  BY <1>4, <1>5, <1>6, <1>8
<1> QED
  BY <1>7, <1>8

-----------------------------------------------------------------------------
(***************************************************************************)
(* READING A STRING                                                        *)
(***************************************************************************)

\* What is read from i on, by what is read behind.
Read(r, i) ==
  IF i > Len(text) THEN Unterminated
  ELSE IF text[i] = Escape /\ i < Len(text)
       THEN Before(Unescape(text[i + 1]), r[i + 2])
  ELSE IF text[i] = Quote THEN [end |-> i + 1, value |-> << >>]
  ELSE Before(<< text[i] >>, r[i + 1])

Reads(r) == r = [i \in 1 .. Len(text) + 2 |-> Read(r, i)]

LEMMA ReadingExists ==
  ASSUME text \in Inputs
  PROVE  \E r : Reads(r)
<1> DEFINE L == Len(text) + 2
           From(m) == L - m .. L
           Stuck == {m \in 0 .. L - 1 : ~\E r : r = [i \in From(m) |-> Read(r, i)]}
<1>1. L \in Nat /\ L >= 2 /\ Len(text) = L - 2 /\ Len(text) \in Nat
  BY TextFacts
<1>2. Stuck = {}
  <2> SUFFICES ASSUME Stuck # {} PROVE FALSE
    OBVIOUS
  <2>1. PICK m \in Stuck : \A n \in Stuck : m <= n
    <3>1. Stuck \subseteq Nat
      OBVIOUS
    <3> HIDE DEF Stuck
    <3> QED
      BY <3>1, LeastExists
  <2>2. \E r : r = [i \in From(m) \ {L - m} |-> Read(r, i)]
    <3>1. CASE m = 0
      <4>1. From(m) \ {L - m} = {}
        BY <1>1, <3>1
      <4> QED
        BY <4>1
    <3>2. CASE m # 0
      <4>1. m - 1 \in 0 .. L - 1 /\ ~(m <= m - 1)
        BY <1>1, <3>2
      <4>2. From(m - 1) = From(m) \ {L - m}
        BY <1>1, <3>2
      <4>3. \E r : r = [i \in From(m - 1) |-> Read(r, i)]
        BY <2>1, <4>1
      <4> HIDE DEF From
      <4> QED
        BY <4>2, <4>3
    <3> QED
      BY <3>1, <3>2
  <2>3. PICK r : r = [i \in From(m) \ {L - m} |-> Read(r, i)]
    BY <2>2
  <2> DEFINE s == [i \in From(m) |-> Read(r, i)]
  <2>4. ASSUME NEW i \in From(m), i <= Len(text)
        PROVE  s[i + 1] = r[i + 1] /\ (i < Len(text) => s[i + 2] = r[i + 2])
    <3>1. i + 1 \in From(m) \ {L - m} /\ (i < Len(text) => i + 2 \in From(m) \ {L - m})
      BY <1>1, <2>4
    <3> QED
      BY <2>3, <3>1
  <2>5. \A i \in From(m) : i > Len(text) \/ i <= Len(text)
    BY <1>1
  <2>6. \A i \in From(m) : Read(s, i) = Read(r, i)
    <3> HIDE DEF s, From
    <3> QED
      BY <2>4, <2>5 DEF Read
  <2>7. s = [i \in From(m) |-> Read(s, i)]
    BY <2>6
  <2> QED
    BY <2>1, <2>7
<1>3. L - 1 \in 0 .. L - 1 /\ From(L - 1) = 1..L
  BY <1>1
<1>4. \E r : r = [i \in From(L - 1) |-> Read(r, i)]
  BY <1>2, <1>3
<1> QED
  BY <1>3, <1>4 DEF Reads

\* What is read ends behind the place it begins at, if it does.
Reading(i) == [end : {0} \cup (i + 1 .. Len(text) + 1), value : Seq(STRING)]

LEMMA ConcatFacts ==
  ASSUME NEW R, NEW s \in Seq(R), NEW t \in Seq(R)
  PROVE  s \o t \in Seq(R) /\ Len(s \o t) = Len(s) + Len(t)
  OBVIOUS

LEMMA ShortFacts ==
  ASSUME NEW R, NEW x \in R, NEW y \in R
  PROVE  << x >> \in Seq(R) /\ << x, y >> \in Seq(R)
  OBVIOUS

LEMMA UnescapeFacts ==
  ASSUME NEW ch \in STRING
  PROVE  Unescape(ch) \in Seq(STRING)
<1>1. Escape \in STRING /\ (ch \in DOMAIN Escaped => Escaped[ch] \in STRING)
  BY LexerAssumption
<1>2. CASE ch \in DOMAIN Escaped
  <2>1. Unescape(ch) = << Escaped[ch] >>
    BY <1>2 DEF Unescape
  <2> QED
    BY <1>1, <1>2, <2>1, ShortFacts
<1>3. CASE ch \notin DOMAIN Escaped
  <2>1. Unescape(ch) = << Escape, ch >>
    BY <1>3 DEF Unescape
  <2> QED
    BY <1>1, <2>1, ShortFacts
<1> QED
  BY <1>2, <1>3

LEMMA BeforeFacts ==
  ASSUME NEW e, NEW v, NEW s
  PROVE  Before(s, [end |-> e, value |-> v]) = [end |-> e, value |-> s \o v]
  BY DEF Before

LEMMA ReadingFacts ==
  ASSUME text \in Inputs, NEW r, Reads(r)
  PROVE  \A i \in 1 .. Len(text) + 2 : r[i] \in Reading(i) /\ r[i] = Read(r, i)
<1> DEFINE L == Len(text) + 2
           Odd == {m \in 0 .. L - 1 : r[L - m] \notin Reading(L - m)}
<1>1. /\ L \in Nat /\ Len(text) = L - 2 /\ Len(text) \in Nat /\ text \in Seq(STRING)
      /\ \A i \in 1..Len(text) : text[i] \in STRING
  BY TextFacts
<1>2. \A i \in 1..L : r[i] = Read(r, i)
  BY DEF Reads
<1>3. Odd = {}
  <2> SUFFICES ASSUME Odd # {} PROVE FALSE
    OBVIOUS
  <2>1. PICK m \in Odd : \A n \in Odd : m <= n
    <3>1. Odd \subseteq Nat
      OBVIOUS
    <3> HIDE DEF Odd
    <3> QED
      BY <3>1, LeastExists
  <2>2. PICK i \in 1..L : i = L - m
    BY <1>1
  <2>3. ASSUME NEW j \in 1..L, j > i PROVE r[j] \in Reading(j)
    <3>1. L - j \in 0 .. L - 1 /\ ~(m <= L - j) /\ L - (L - j) = j
      BY <1>1, <2>2, <2>3
    <3> QED
      BY <2>1, <3>1
  <2>4. ASSUME NEW j \in 1..L, j > i, NEW s \in Seq(STRING)
        PROVE  Before(s, r[j]) \in Reading(i)
    <3>1. PICK e \in {0} \cup (j + 1 .. Len(text) + 1), v \in Seq(STRING) :
            r[j] = [end |-> e, value |-> v]
      BY <2>3, <2>4 DEF Reading
    <3>2. Before(s, r[j]) = [end |-> e, value |-> s \o v]
      BY <3>1, BeforeFacts
    <3>3. e \in {0} \cup (i + 1 .. Len(text) + 1) /\ s \o v \in Seq(STRING)
      BY <1>1, <2>4, ConcatFacts
    <3> QED
      BY <3>2, <3>3 DEF Reading
  <2>5. r[i] \in Reading(i)
    <3>1. CASE i > Len(text)
      <4>1. r[i] = [end |-> 0, value |-> << >>]
        BY <1>2, <3>1 DEF Read, Unterminated
      <4> QED
        BY <4>1 DEF Reading
    <3>2. CASE i <= Len(text) /\ text[i] = Escape /\ i < Len(text)
      <4>1. i + 2 \in 1..L /\ i + 2 > i /\ text[i + 1] \in STRING
        BY <1>1, <3>2
      <4>2. r[i] = Before(Unescape(text[i + 1]), r[i + 2])
        <5>1. ~(i > Len(text))
          BY <1>1, <3>2
        <5> QED
          BY <1>2, <3>2, <5>1 DEF Read
      <4> QED
        BY <2>4, <4>1, <4>2, UnescapeFacts
    <3>3. CASE i <= Len(text) /\ ~(text[i] = Escape /\ i < Len(text)) /\ text[i] = Quote
      <4>1. r[i] = [end |-> i + 1, value |-> << >>]
        <5>1. ~(i > Len(text))
          BY <1>1, <3>3
        <5> QED
          BY <1>2, <3>3, <5>1 DEF Read
      <4>2. i + 1 \in i + 1 .. Len(text) + 1
        BY <1>1, <3>3
      <4> QED
        BY <4>1, <4>2 DEF Reading
    <3>4. CASE i <= Len(text) /\ ~(text[i] = Escape /\ i < Len(text)) /\ text[i] # Quote
      <4>1. r[i] = Before(<< text[i] >>, r[i + 1])
        <5>1. ~(i > Len(text))
          BY <1>1, <3>4
        <5> QED
          BY <1>2, <3>4, <5>1 DEF Read
      <4>2. i + 1 \in 1..L /\ i + 1 > i /\ << text[i] >> \in Seq(STRING)
        BY <1>1, <3>4
      <4> QED
        BY <2>4, <4>1, <4>2
    <3> QED
      BY <1>1, <3>1, <3>2, <3>3, <3>4
  <2> QED
    BY <2>1, <2>2, <2>5
<1>4. ASSUME NEW i \in 1..L PROVE r[i] \in Reading(i)
  <2>1. L - i \in 0 .. L - 1 /\ L - (L - i) = i
    BY <1>1
  <2> QED
    BY <1>3, <2>1
<1> QED
  BY <1>2, <1>4

LEMMA RestIsRead ==
  ASSUME text \in Inputs
  PROVE  \E r : Reads(r) /\ RestOfString = r[pos + 1]
<1>1. RestOfString = (CHOOSE r : Reads(r))[pos + 1]
  BY DEF RestOfString, Reads, Read
<1> QED
  BY <1>1, ReadingExists

LEMMA StringFacts ==
  ASSUME text \in Inputs, pos \in 1..Len(text), RestOfString.end > 0
  PROVE  RestOfString.end \in pos + 1 .. Len(text) + 1 /\ RestOfString.value \in Seq(STRING)
<1>1. PICK r : Reads(r) /\ RestOfString = r[pos + 1]
  BY RestIsRead
<1>2. Len(text) \in Nat /\ pos + 1 \in 1 .. Len(text) + 2
  BY TextFacts
<1>3. RestOfString \in Reading(pos + 1)
  BY <1>1, <1>2, ReadingFacts
<1> QED
  BY <1>2, <1>3 DEF Reading

-----------------------------------------------------------------------------
(***************************************************************************)
(* WRITING A STRING, AND READING IT AGAIN                                  *)
(***************************************************************************)

Written(ch) == IF ch \in {Quote, Escape} THEN << Escape, ch >> ELSE << ch >>

\* What is written up to the i-th character of a text.
Writing(w, value, i) == IF i = 0 THEN << Quote >> ELSE w[i - 1] \o Written(value[i])

Writes(w, value) == w = [i \in 0..Len(value) |-> Writing(w, value, i)]

LEMMA WritingExists ==
  ASSUME NEW value, NEW k \in Nat
  PROVE  \E w : w = [i \in 0..k |-> Writing(w, value, i)]
<1> DEFINE Stuck == {m \in Nat : ~\E w : w = [i \in 0..m |-> Writing(w, value, i)]}
<1> SUFFICES ASSUME Stuck # {} PROVE FALSE
  OBVIOUS
<1>1. PICK m \in Stuck : \A n \in Stuck : m <= n
  BY LeastExists
<1>2. \E w : w = [i \in 0 .. m - 1 |-> Writing(w, value, i)]
  <2>1. CASE m = 0
    <3>1. 0 .. m - 1 = {}
      BY <2>1
    <3> QED
      BY <3>1
  <2>2. CASE m # 0
    <3>1. m - 1 \in Nat /\ ~(m <= m - 1)
      BY <1>1, <2>2
    <3> QED
      BY <1>1, <3>1
  <2> QED
    BY <2>1, <2>2
<1>3. PICK w : w = [i \in 0 .. m - 1 |-> Writing(w, value, i)]
  BY <1>2
<1> DEFINE v == [i \in 0..m |-> Writing(w, value, i)]
<1>4. ASSUME NEW i \in 0..m, i # 0 PROVE v[i - 1] = w[i - 1]
  <2>1. i - 1 \in 0 .. m - 1 /\ i - 1 \in 0..m
    BY <1>4
  <2> QED
    BY <1>3, <2>1
<1>5. \A i \in 0..m : Writing(v, value, i) = Writing(w, value, i)
  <2> HIDE DEF v
  <2> QED
    BY <1>4 DEF Writing
<1>6. v = [i \in 0..m |-> Writing(v, value, i)]
  BY <1>5
<1> QED
  BY <1>1, <1>6

LEMMA WrittenFacts ==
  ASSUME NEW ch \in STRING
  PROVE  Written(ch) \in Seq(STRING)
<1>1. Escape \in STRING
  BY LexerAssumption
<1>2. CASE ch \in {Quote, Escape}
  <2>1. Written(ch) = << Escape, ch >>
    BY <1>2 DEF Written
  <2> QED
    BY <1>1, <2>1, ShortFacts
<1>3. CASE ch \notin {Quote, Escape}
  <2>1. Written(ch) = << ch >>
    BY <1>3 DEF Written
  <2> QED
    BY <2>1, ShortFacts
<1> QED
  BY <1>2, <1>3

\* What is written of a text begins with what is written of its beginning.
Begins(s, t) == Len(s) <= Len(t) /\ \A j \in 1..Len(s) : t[j] = s[j]

LEMMA BeginsFacts ==
  ASSUME NEW R, NEW s \in Seq(R), NEW t \in Seq(R), NEW u \in Seq(R)
  PROVE  /\ Begins(s, s) /\ Begins(s, s \o t)
         /\ Begins(s, t) /\ Begins(t, u) => Begins(s, u)
<1>1. Begins(s, s)
  BY DEF Begins
<1>2. Begins(s, s \o t)
  BY DEF Begins
<1>3. Begins(s, t) /\ Begins(t, u) => Begins(s, u)
  <2> SUFFICES ASSUME Begins(s, t), Begins(t, u) PROVE Begins(s, u)
    OBVIOUS
  <2>1. Len(s) \in Nat /\ Len(t) \in Nat /\ Len(u) \in Nat
    OBVIOUS
  <2>2. Len(s) <= Len(u) /\ \A j \in 1..Len(s) : j \in 1..Len(t)
    BY <2>1 DEF Begins
  <2>3. \A j \in 1..Len(s) : u[j] = s[j]
    BY <2>2 DEF Begins
  <2> QED
    BY <2>2, <2>3 DEF Begins
<1> QED
  BY <1>1, <1>2, <1>3

LEMMA WritingFacts ==
  ASSUME NEW value \in Seq(STRING), NEW w, Writes(w, value)
  PROVE  /\ w[0] = << Quote >>
         /\ \A i \in 1..Len(value) : w[i] = w[i - 1] \o Written(value[i])
         /\ \A i \in 0..Len(value) : w[i] \in Seq(STRING) /\ Begins(w[i], w[Len(value)])
<1> DEFINE n == Len(value)
           Fine(i) == w[i] \in Seq(STRING) /\ \A h \in 0..i : Begins(w[h], w[i])
           Odd == {i \in 0..n : ~Fine(i)}
<1>1. n \in Nat /\ \A i \in 1..n : value[i] \in STRING
  OBVIOUS
<1>2. \A i \in 0..n : w[i] = Writing(w, value, i)
  BY DEF Writes
<1>3. w[0] = << Quote >> /\ \A i \in 1..n : w[i] = w[i - 1] \o Written(value[i])
  <2>1. 0 \in 0..n /\ \A i \in 1..n : i \in 0..n /\ i # 0
    BY <1>1
  <2> QED
    BY <1>2, <2>1 DEF Writing
<1>4. Odd = {}
  <2> SUFFICES ASSUME Odd # {} PROVE FALSE
    OBVIOUS
  <2>1. PICK i \in Odd : \A j \in Odd : i <= j
    <3>1. Odd \subseteq Nat
      OBVIOUS
    <3> HIDE DEF Odd
    <3> QED
      BY <3>1, LeastExists
  <2>2. CASE i = 0
    <3>1. Quote \in STRING
      BY LexerAssumption
    <3>2. w[i] \in Seq(STRING)
      BY <1>3, <2>2, <3>1, ShortFacts
    <3>3. \A h \in 0..i : h = i
      BY <2>2
    <3>4. Fine(i)
      BY <3>2, <3>3, BeginsFacts
    <3> QED
      BY <2>1, <3>4
  <2>3. CASE i # 0
    <3>1. i - 1 \in 0..n /\ ~(i <= i - 1) /\ i \in 1..n
      BY <1>1, <2>3
    <3>2. Fine(i - 1)
      BY <2>1, <3>1
    <3>3. w[i] = w[i - 1] \o Written(value[i]) /\ Written(value[i]) \in Seq(STRING)
      BY <1>1, <1>3, <3>1, WrittenFacts
    <3>4. w[i] \in Seq(STRING) /\ Begins(w[i - 1], w[i])
      BY <3>2, <3>3, ConcatFacts, BeginsFacts
    <3>5. ASSUME NEW h \in 0..i PROVE Begins(w[h], w[i])
      <4>1. CASE h = i
        BY <3>4, <4>1, BeginsFacts
      <4>2. CASE h # i
        <5>1. h \in 0 .. i - 1 /\ h \in 0..n /\ ~(i <= h)
          BY <1>1, <3>1, <4>2
        <5>2. Begins(w[h], w[i - 1]) /\ w[h] \in Seq(STRING) /\ w[i - 1] \in Seq(STRING)
          BY <2>1, <3>2, <5>1
        <5> QED
          BY <3>4, <5>2, BeginsFacts
      <4> QED
        BY <4>1, <4>2
    <3>6. Fine(i)
      BY <3>4, <3>5
    <3> QED
      BY <2>1, <3>6
  <2> QED
    BY <2>2, <2>3
<1>5. \A i \in 0..n : i \in 0..n /\ n \in 0..n /\ Fine(i) /\ Fine(n)
  BY <1>1, <1>4
<1> QED
  BY <1>3, <1>5

LEMMA QuotedIsWritten ==
  ASSUME NEW value \in Seq(STRING)
  PROVE  \E w : Writes(w, value) /\ Quoted(value) = w[Len(value)] \o << Quote >>
<1>1. Quoted(value) = (CHOOSE w : Writes(w, value))[Len(value)] \o << Quote >>
  BY DEF Quoted, Writes, Writing, Written
<1>2. \E w : Writes(w, value)
  <2>1. Len(value) \in Nat
    OBVIOUS
  <2> QED
    BY <2>1, WritingExists DEF Writes
<1> QED
  BY <1>1, <1>2

\* What is written for the i-th character of a quoted text, and where.
Placed(w, value, i) ==
  LET a == Len(w[i - 1])
  IN /\ a \in Nat
     /\ IF value[i] \in {Quote, Escape}
        THEN /\ Len(w[i]) = a + 2 /\ a + 2 < Len(text)
             /\ text[a + 1] = Escape /\ text[a + 2] = value[i]
        ELSE Len(w[i]) = a + 1 /\ a + 1 < Len(text) /\ text[a + 1] = value[i]

LEMMA QuotedFacts ==
  ASSUME text \in Inputs, NEW value \in Seq(STRING), NEW w, Writes(w, value),
         text = w[Len(value)] \o << Quote >>
  PROVE  /\ text[1] = Quote /\ Len(w[0]) = 1 /\ text[Len(text)] = Quote
         /\ Len(w[Len(value)]) = Len(text) - 1
         /\ \A i \in 1..Len(value) : Placed(w, value, i)
<1> DEFINE n == Len(value)
<1>1. n \in Nat /\ 0 \in 0..n /\ n \in 0..n /\ Len(text) \in Nat
  BY TextFacts
<1>2. \A i \in 0..n : w[i] \in Seq(STRING) /\ Begins(w[i], w[n])
  BY WritingFacts
<1>3. w[0] = << Quote >> /\ Len(w[0]) = 1 /\ w[0][1] = Quote
  <2>1. w[0] = << Quote >>
    BY WritingFacts
  <2> QED
    BY <2>1
<1>4. Quote \in STRING /\ << Quote >> \in Seq(STRING) /\ Escape \in STRING
  BY LexerAssumption, ShortFacts
<1>5. PICK last \in Seq(STRING) : last = w[n]
  BY <1>1, <1>2
<1>6. Len(text) = Len(last) + 1 /\ text[Len(text)] = Quote /\ Begins(last, text)
  <2>1. text = last \o << Quote >>
    BY <1>5
  <2>2. Len(text) = Len(last) + 1
    BY <2>1
  <2>3. text[Len(text)] = Quote
    BY <2>1
  <2>4. Begins(last, text)
    BY <1>4, <2>1, BeginsFacts
  <2> QED
    BY <2>2, <2>3, <2>4
<1>7. \A i \in 0..n : Len(w[i]) \in Nat /\ Len(w[i]) < Len(text) /\ \A j \in 1..Len(w[i]) : text[j] = w[i][j]
  <2> SUFFICES ASSUME NEW i \in 0..n
               PROVE  /\ Len(w[i]) \in Nat /\ Len(w[i]) < Len(text)
                      /\ \A j \in 1..Len(w[i]) : text[j] = w[i][j]
    OBVIOUS
  <2>1. PICK s \in Seq(STRING) : s = w[i] /\ Begins(s, last)
    BY <1>2, <1>5
  <2>2. Len(s) \in Nat /\ Len(last) \in Nat /\ Len(s) <= Len(last)
    BY <2>1 DEF Begins
  <2>3. \A j \in 1..Len(s) : j \in 1..Len(last)
    BY <2>2
  <2>4. \A j \in 1..Len(s) : text[j] = s[j]
    BY <1>6, <2>1, <2>3 DEF Begins
  <2> QED
    BY <1>6, <2>1, <2>2, <2>4
<1>8. text[1] = Quote
  <2>1. 1 \in 1..Len(w[0])
    BY <1>3
  <2> QED
    BY <1>1, <1>3, <1>7, <2>1
<1>9. ASSUME NEW i \in 1..n
      PROVE  Placed(w, value, i)
  <2>1. i \in 0..n /\ i - 1 \in 0..n
    BY <1>1
  <2>2. PICK s \in Seq(STRING) : s = w[i - 1]
    BY <1>2, <2>1
  <2>3. PICK t \in Seq(STRING) : t = w[i]
    BY <1>2, <2>1
  <2>4. t = s \o Written(value[i]) /\ Len(s) \in Nat /\ value[i] \in STRING
    <3>1. w[i] = w[i - 1] \o Written(value[i])
      BY WritingFacts
    <3> QED
      BY <1>1, <2>2, <2>3, <3>1
  <2>5. Len(t) < Len(text) /\ \A j \in 1..Len(t) : text[j] = t[j]
    BY <1>7, <2>1, <2>3
  <2>6. CASE value[i] \in {Quote, Escape}
    <3>1. Written(value[i]) = << Escape, value[i] >>
      BY <2>6 DEF Written
    <3>2. t = s \o << Escape, value[i] >>
      BY <2>4, <3>1
    <3>3. Len(t) = Len(s) + 2
      BY <2>4, <3>2
    <3>4. t[Len(s) + 1] = Escape
      BY <2>4, <3>2
    <3>5. t[Len(s) + 2] = value[i]
      BY <2>4, <3>2
    <3>6. Len(s) + 1 \in 1..Len(t) /\ Len(s) + 2 \in 1..Len(t)
      BY <2>4, <3>3
    <3> QED
      BY <2>2, <2>3, <2>4, <2>5, <2>6, <3>3, <3>4, <3>5, <3>6 DEF Placed
  <2>7. CASE value[i] \notin {Quote, Escape}
    <3>1. Written(value[i]) = << value[i] >>
      BY <2>7 DEF Written
    <3>2. t = s \o << value[i] >>
      BY <2>4, <3>1
    <3>3. Len(t) = Len(s) + 1 /\ t[Len(s) + 1] = value[i]
      BY <2>4, <3>2
    <3>4. Len(s) + 1 \in 1..Len(t)
      BY <2>4, <3>3
    <3> QED
      BY <2>2, <2>3, <2>4, <2>5, <2>7, <3>3, <3>4 DEF Placed
  <2> QED
    BY <2>6, <2>7
<1>10. Len(w[n]) = Len(text) - 1
  BY <1>1, <1>5, <1>6
<1> QED
  BY <1>3, <1>6, <1>8, <1>9, <1>10

\* A quoted text is read to its end, and as the text that was meant.
LEMMA QuotedIsRead ==
  ASSUME text \in Inputs, NEW value \in Seq(STRING), text = Quoted(value), NEW r, Reads(r)
  PROVE  /\ text[1] = Quote /\ Len(text) >= 2
         /\ r[2] = [end |-> Len(text) + 1, value |-> value]
<1>1. PICK w : Writes(w, value) /\ text = w[Len(value)] \o << Quote >>
  BY QuotedIsWritten
<1> DEFINE n == Len(value)
           L == Len(text)
           Fine(i) == r[Len(w[i]) + 1] = [end |-> L + 1, value |-> SubSeq(value, i + 1, n)]
           Odd == {m \in 0..n : ~Fine(n - m)}
<1>2. n \in Nat /\ L \in Nat
  BY TextFacts
<1>3. text[1] = Quote /\ Len(w[0]) = 1 /\ text[L] = Quote /\ Len(w[n]) = L - 1
  BY <1>1, QuotedFacts
<1>4. \A i \in 1..n : Placed(w, value, i)
  BY <1>1, QuotedFacts
<1>5. \A j \in 1 .. L + 2 : r[j] = Read(r, j)
  BY ReadingFacts
<1>6. L >= 2
  <2>1. CASE n = 0
    <3>1. Len(w[n]) = 1
      BY <1>3, <2>1
    <3>2. L - 1 = 1
      BY <1>3, <3>1
    <3> QED
      BY <1>2, <3>2, SMTT(30)
  <2>2. CASE n # 0
    <3>1. 1 \in 1..n /\ 1 - 1 = 0
      BY <1>2, <2>2
    <3>2. Len(w[0]) + 1 < L
      BY <1>3, <1>4, <3>1 DEF Placed
    <3> QED
      BY <1>2, <1>3, <3>2
  <2> QED
    BY <2>1, <2>2
<1>7. Fine(n)
  <2>1. L \in 1 .. L + 2 /\ ~(L > L) /\ ~(L < L)
    BY <1>2, <1>6
  <2>2. r[L] = [end |-> L + 1, value |-> << >>]
    BY <1>3, <1>5, <2>1 DEF Read
  <2>3. SubSeq(value, n + 1, n) = << >>
    BY <1>2, SubSeqEmpty
  <2>4. Len(w[n]) + 1 = L
    BY <1>2, <1>3
  <2> QED
    BY <2>2, <2>3, <2>4
<1>8. ASSUME NEW i \in 1..n, Fine(i) PROVE Fine(i - 1)
  <2>1. PICK a : a = Len(w[i - 1])
    OBVIOUS
  <2>2. SubSeq(value, i, n) = << value[i] >> \o SubSeq(value, i + 1, n)
    BY <1>2, SubSeqRecursiveFirst
  <2>3. (i - 1) + 1 = i
    OBVIOUS
  <2>4. Quote # Escape /\ {Quote, Escape} \subseteq DOMAIN Escaped
        /\ Escaped[Quote] = Quote /\ Escaped[Escape] = Escape
    BY LexerAssumption
  <2>5. CASE value[i] \in {Quote, Escape}
    <3>1. /\ a \in Nat /\ Len(w[i]) = a + 2 /\ a + 2 < L
          /\ text[a + 1] = Escape /\ text[a + 2] = value[i]
      BY <1>4, <2>1, <2>5 DEF Placed
    <3>2. a + 1 \in 1 .. L + 2 /\ ~(a + 1 > L) /\ a + 1 < L /\ (a + 1) + 1 = a + 2 /\ (a + 1) + 2 = a + 3
          /\ (a + 2) + 1 = a + 3
      BY <1>2, <3>1
    <3>3. Unescape(value[i]) = << value[i] >>
      BY <2>4, <2>5 DEF Unescape
    <3>4. r[a + 1] = Before(Unescape(text[a + 2]), r[a + 3])
      BY <1>5, <3>1, <3>2 DEF Read
    <3>5. r[a + 3] = [end |-> L + 1, value |-> SubSeq(value, i + 1, n)]
      BY <1>8, <3>1, <3>2
    <3>6. r[a + 1] = [end |-> L + 1, value |-> << value[i] >> \o SubSeq(value, i + 1, n)]
      <4>1. r[a + 1] = Before(<< value[i] >>, r[a + 3])
        BY <3>1, <3>3, <3>4
      <4> QED
        BY <3>5, <4>1, BeforeFacts
    <3> QED
      BY <2>1, <2>2, <2>3, <3>6
  <2>6. CASE value[i] \notin {Quote, Escape}
    <3>1. a \in Nat /\ Len(w[i]) = a + 1 /\ a + 1 < L /\ text[a + 1] = value[i]
      BY <1>4, <2>1, <2>6 DEF Placed
    <3>2. a + 1 \in 1 .. L + 2 /\ ~(a + 1 > L) /\ (a + 1) + 1 = a + 2
      BY <1>2, <3>1
    <3>3. text[a + 1] # Escape /\ text[a + 1] # Quote
      BY <2>6, <3>1
    <3>4. r[a + 1] = Before(<< value[i] >>, r[a + 2])
      BY <1>5, <3>1, <3>2, <3>3 DEF Read
    <3>5. r[a + 2] = [end |-> L + 1, value |-> SubSeq(value, i + 1, n)]
      BY <1>8, <3>1, <3>2
    <3>6. r[a + 1] = [end |-> L + 1, value |-> << value[i] >> \o SubSeq(value, i + 1, n)]
      BY <3>4, <3>5, BeforeFacts
    <3> QED
      BY <2>1, <2>2, <2>3, <3>6
  <2> QED
    BY <2>5, <2>6
<1> HIDE DEF Fine
<1>9. Odd = {}
  <2> SUFFICES ASSUME Odd # {} PROVE FALSE
    OBVIOUS
  <2>1. PICK m \in Odd : \A k \in Odd : m <= k
    <3>1. Odd \subseteq Nat
      OBVIOUS
    <3> HIDE DEF Odd
    <3> QED
      BY <3>1, LeastExists
  <2>2. m # 0
    <3>1. n - 0 = n
      BY <1>2
    <3> QED
      BY <1>7, <2>1, <3>1
  <2>3. m - 1 \in 0..n /\ ~(m <= m - 1) /\ n - (m - 1) \in 1..n /\ (n - (m - 1)) - 1 = n - m
    BY <1>2, <2>1, <2>2
  <2>4. Fine(n - (m - 1))
    BY <2>1, <2>3
  <2>5. Fine((n - (m - 1)) - 1)
    BY <1>8, <2>3, <2>4
  <2> QED
    BY <2>1, <2>3, <2>5
<1>10. Fine(0)
  <2>1. n \in 0..n /\ n - n = 0
    BY <1>2
  <2> QED
    BY <1>9, <2>1
<1>11. r[2] = [end |-> L + 1, value |-> SubSeq(value, 1, n)]
  <2>1. Len(w[0]) + 1 = 2 /\ 0 + 1 = 1
    BY <1>3
  <2> QED
    BY <1>10, <2>1 DEF Fine
<1> QED
  BY <1>3, <1>6, <1>11, SubSeqFull

-----------------------------------------------------------------------------
(***************************************************************************)
(* THE STEPS                                                               *)
(***************************************************************************)

LEMMA InitOK == Init => IInv
<1> SUFFICES ASSUME Init PROVE IInv
  OBVIOUS
<1>1. /\ text \in Inputs /\ pos = 1 /\ tokens = << >> /\ phase \in {"lex", "failed"}
      /\ phase = "failed" <=> \A i \in DOMAIN text : text[i] \in Spaces
  BY DEF Init, LexInit
<1>2. Len(text) \in Nat /\ DOMAIN text = 1..Len(text)
  BY <1>1, TextFacts
<1>3. TypeInv
  BY <1>1, <1>2 DEF TypeInv
<1>4. Tiled
  <2>1. DOMAIN tokens = {} /\ 1 .. pos - 1 = {}
    BY <1>1
  <2> QED
    BY <2>1 DEF Tiled
<1>5. Meant
  <2> SUFFICES ASSUME NEW value \in Quotables, text = Quoted(value) PROVE phase = "lex"
    BY <1>1 DEF Meant
  <2>1. value \in Seq(STRING) /\ Quote \notin Spaces
    BY LexerAssumption
  <2>2. PICK r : Reads(r)
    BY <1>1, ReadingExists
  <2>3. text[1] = Quote /\ Len(text) >= 2
    BY <1>1, <2>1, <2>2, QuotedIsRead
  <2>4. 1 \in DOMAIN text
    BY <1>2, <2>3
  <2> QED
    BY <1>1, <2>1, <2>3, <2>4
<1> QED
  BY <1>1, <1>3, <1>4, <1>5 DEF IInv

\* The first character of a quoted text begins the string that means it.
LEMMA QuoteFirst ==
  ASSUME IInv, NEW v \in Quotables, text = Quoted(v), tokens = << >>
  PROVE  /\ phase = "lex" /\ pos = 1 /\ Len(text) >= 2 /\ Char(pos) = Quote
         /\ RestOfString = [end |-> Len(text) + 1, value |-> v]
<1>1. text \in Inputs /\ phase = "lex" /\ pos = 1 /\ v \in Seq(STRING)
  BY LexerAssumption DEF IInv, TypeInv, Meant
<1>2. PICK r : Reads(r) /\ RestOfString = r[2]
  BY <1>1, RestIsRead
<1>3. text[1] = Quote /\ Len(text) >= 2 /\ r[2] = [end |-> Len(text) + 1, value |-> v]
  BY <1>1, <1>2, QuotedIsRead
<1>4. Char(1) = Quote
  BY <1>1, <1>3, TextFacts
<1> QED
  BY <1>1, <1>2, <1>3, <1>4

\* A token that begins at pos covers what is before its end, nothing for the last
\* one; if it is a word, no character of words follows.
LEMMA AppendOK ==
  ASSUME IInv, NEW type \in TokenTypes, NEW value \in Seq(STRING), NEW end \in pos .. Len(text) + 1,
         tokens' = Append(tokens, [type |-> type, value |-> value, from |-> pos, to |-> end - 1]),
         pos' = end, text' = text, phase' \in {"lex", "parse"},
         type \in WordTypes => Char(end) \notin IdentPart,
         \A v \in Quotables : text = Quoted(v) /\ tokens = << >> =>
           type = "STRING" /\ value = v /\ end = Len(text) + 1
  PROVE  IInv'
<1> DEFINE token == [type |-> type, value |-> value, from |-> pos, to |-> end - 1]
           n == Len(tokens)
<1>1. /\ text \in Inputs /\ pos \in 1 .. Len(text) + 1 /\ tokens \in Seq(Token)
      /\ Len(text) \in Nat /\ n \in Nat /\ DOMAIN tokens = 1..n
      /\ \A k \in 1..n : tokens[k].from \in Nat /\ tokens[k].to \in Nat
  <2>1. text \in Inputs /\ pos \in 1 .. Len(text) + 1 /\ tokens \in Seq(Token)
    BY DEF IInv, TypeInv
  <2>2. n \in Nat /\ DOMAIN tokens = 1..n /\ \A k \in 1..n : tokens[k] \in Token
    BY <2>1
  <2>3. \A k \in 1..n : tokens[k].from \in Nat /\ tokens[k].to \in Nat
    BY <2>2 DEF Token
  <2> QED
    BY <2>1, <2>2, <2>3, TextFacts
<1>2. tokens' = Append(tokens, token) /\ pos' = end /\ text' = text
  OBVIOUS
<1>3. token \in Token
  <2>1. pos \in Nat /\ end - 1 \in Nat
    BY <1>1
  <2> QED
    BY <2>1 DEF Token
<1>4. token.type = type /\ token.value = value /\ token.from = pos /\ token.to = end - 1
  OBVIOUS
<1> HIDE DEF token
<1>5. /\ tokens' \in Seq(Token) /\ tokens' # << >> /\ DOMAIN tokens' = 1 .. n + 1
      /\ tokens'[n + 1] = token /\ \A k \in 1..n : tokens'[k] = tokens[k]
  <2>1. tokens' \in Seq(Token) /\ Len(tokens') = n + 1
    BY <1>1, <1>2, <1>3
  <2>2. tokens'[n + 1] = token
    BY <1>1, <1>2, <1>3
  <2>3. \A k \in 1..n : tokens'[k] = tokens[k]
    BY <1>1, <1>2, <1>3
  <2>4. DOMAIN tokens' = 1 .. n + 1 /\ tokens' # << >>
    BY <1>1, <2>1
  <2> QED
    BY <2>1, <2>2, <2>3, <2>4
<1>6. TypeInv'
  BY <1>1, <1>2, <1>5 DEF TypeInv
<1>7. Tiled'
  <2> HIDE DEF n
  <2>0. \A k \in 1 .. n + 1 : k = n + 1 \/ k \in 1..n
    BY <1>1
  <2>1. \A k \in 1..n : 1 <= tokens[k].from /\ tokens[k].to < pos
    BY <1>1 DEF IInv, Tiled
  <2>2. \A k \in 1 .. n + 1 : 1 <= tokens'[k].from /\ tokens'[k].to < pos'
    <3> TAKE k \in 1 .. n + 1
    <3>1. CASE k = n + 1
      BY <1>1, <1>2, <1>4, <1>5, <3>1
    <3>2. CASE k \in 1..n
      <4>1. tokens'[k] = tokens[k] /\ tokens[k].to \in Nat /\ tokens[k].to < pos /\ 1 <= tokens[k].from
        BY <1>1, <1>5, <2>1, <3>2
      <4> QED
        BY <1>1, <1>2, <4>1
    <3> QED
      BY <2>0, <3>1, <3>2
  <2>3. ASSUME NEW j \in 1 .. n + 1, NEW k \in 1 .. n + 1, j < k
        PROVE  tokens'[j].to < tokens'[k].from
    <3>1. j \in 1..n /\ tokens'[j] = tokens[j] /\ tokens[j].to < pos
      BY <1>1, <1>5, <2>1, <2>3
    <3>2. CASE k = n + 1
      BY <1>4, <1>5, <3>1, <3>2
    <3>3. CASE k \in 1..n
      <4>1. tokens'[k] = tokens[k]
        BY <1>5, <3>3
      <4> QED
        BY <1>1, <2>3, <3>1, <3>3, <4>1 DEF IInv, Tiled
    <3> QED
      BY <2>0, <3>2, <3>3
  <2>4. ASSUME NEW i \in 1 .. end - 1
        PROVE  text[i] \in Spaces \/ \E k \in 1 .. n + 1 : tokens'[k].from <= i /\ i <= tokens'[k].to
    <3>1. CASE i < pos
      <4>1. i \in 1 .. pos - 1
        BY <1>1, <3>1
      <4>2. text[i] \in Spaces \/ \E k \in 1..n : tokens[k].from <= i /\ i <= tokens[k].to
        BY <1>1, <4>1 DEF IInv, Tiled, Within
      <4>3. \A k \in 1..n : k \in 1 .. n + 1 /\ tokens'[k] = tokens[k]
        BY <1>1, <1>5
      <4> QED
        BY <4>2, <4>3
    <3>2. CASE ~(i < pos)
      <4>1. pos <= i /\ i <= end - 1 /\ n + 1 \in 1 .. n + 1
        BY <1>1, <3>2
      <4> QED
        BY <1>4, <1>5, <4>1
    <3> QED
      BY <3>1, <3>2
  <2>5. ASSUME NEW k \in 1 .. n + 1, tokens'[k].type \in WordTypes
        PROVE  Char(tokens'[k].to + 1) \notin IdentPart
    <3>1. CASE k = n + 1
      <4>1. tokens'[k].type = type /\ tokens'[k].to + 1 = end
        BY <1>1, <1>4, <1>5, <3>1
      <4> QED
        BY <2>5, <4>1
    <3>2. CASE k \in 1..n
      <4>1. tokens'[k] = tokens[k]
        BY <1>5, <3>2
      <4> QED
        BY <1>1, <2>5, <3>2, <4>1 DEF IInv, Tiled
    <3> QED
      BY <2>0, <3>1, <3>2
  <2>6. \A k \in 1 .. n + 1 : tokens'[k].type \in WordTypes =>
          (IF tokens'[k].to + 1 <= Len(text) THEN text[tokens'[k].to + 1] ELSE End) \notin IdentPart
    BY <2>5 DEF Char
  <2>7. \A k \in DOMAIN tokens' : tokens'[k].type \in WordTypes =>
          (Char(tokens[k].to + 1) \notin IdentPart)'
    BY <1>2, <1>5, <2>6 DEF Char
  <2> QED
    BY <1>2, <1>5, <2>2, <2>3, <2>4, <2>7 DEF Tiled, Within
<1>8. Meant'
  <2> SUFFICES ASSUME NEW v \in Quotables, text = Quoted(v)
               PROVE  tokens'[1].type = "STRING" /\ tokens'[1].value = v /\ tokens'[1].to = Len(text)
    BY <1>2, <1>5 DEF Meant
  <2>1. CASE tokens = << >>
    <3>1. n + 1 = 1
      BY <2>1
    <3>2. type = "STRING" /\ value = v /\ end - 1 = Len(text)
      BY <1>1, <2>1
    <3> QED
      BY <1>4, <1>5, <3>1, <3>2
  <2>2. CASE tokens # << >>
    <3>1. 1 \in 1..n
      BY <1>1, <2>2
    <3> QED
      BY <1>5, <2>2, <3>1 DEF IInv, Meant
  <2> QED
    BY <2>1, <2>2
<1> QED
  BY <1>2, <1>5, <1>6, <1>7, <1>8 DEF IInv

LEMMA EmitOK ==
  ASSUME IInv, phase = "lex", NEW type \in TokenTypes, NEW value \in Seq(STRING),
         NEW end \in pos + 1 .. Len(text) + 1, Emit(type, value, end),
         type \in WordTypes => Char(end) \notin IdentPart,
         Char(pos) = Quote => type = "STRING" /\ value = RestOfString.value /\ end = RestOfString.end
  PROVE  IInv'
<1>1. pos \in Nat /\ Len(text) \in Nat /\ end \in pos .. Len(text) + 1
  BY TextFacts DEF IInv, TypeInv
<1>2. /\ tokens' = Append(tokens, [type |-> type, value |-> value, from |-> pos, to |-> end - 1])
      /\ pos' = end /\ text' = text /\ phase' = "lex"
  BY DEF Emit
<1>3. \A v \in Quotables : text = Quoted(v) /\ tokens = << >> =>
        type = "STRING" /\ value = v /\ end = Len(text) + 1
  BY QuoteFirst
<1> QED
  BY <1>1, <1>2, <1>3, AppendOK

\* What is before n and not before m.
LEMMA RangeSplit ==
  ASSUME NEW m \in Nat, NEW n \in Nat, NEW l \in Nat, NEW i \in 1 .. n - 1,
         ~(i < m), 1 <= m, n <= l + 1
  PROVE  i \in m .. n - 1 /\ i \in 1..l
OBVIOUS

LEMMA SkipSpaceOK ==
  ASSUME IInv, SkipSpace
  PROVE  IInv'
<1>1. /\ text \in Inputs /\ pos \in 1 .. Len(text) + 1 /\ Len(text) \in Nat
      /\ End \notin Spaces /\ Quote \notin Spaces
  BY LexerAssumption, TextFacts DEF IInv, TypeInv
<1>2. /\ Char(pos) \in Spaces /\ pos' = EndOfRun(pos, Spaces)
      /\ text' = text /\ tokens' = tokens /\ phase' = phase
  BY DEF SkipSpace
<1>3. pos' \in pos .. Len(text) + 1 /\ \A j \in pos .. pos' - 1 : Char(j) \in Spaces
  BY <1>1, <1>2, RunFacts
<1>4. TypeInv'
  <2>1. pos' \in 1 .. Len(text) + 1
    BY <1>1, <1>3
  <2> QED
    BY <1>2, <2>1 DEF IInv, TypeInv
<1>5. Tiled'
  <2>1. \A k \in DOMAIN tokens : 1 <= tokens[k].from /\ tokens[k].to < pos'
    <3>1. \A k \in DOMAIN tokens : tokens[k] \in Token
      BY DEF IInv, TypeInv
    <3>2. \A k \in DOMAIN tokens : tokens[k].to \in Nat
      BY <3>1 DEF Token
    <3>3. \A k \in DOMAIN tokens : tokens[k].to < pos /\ 1 <= tokens[k].from
      BY DEF IInv, Tiled
    <3>4. pos \in Nat /\ pos' \in Nat /\ pos <= pos'
      BY <1>1, <1>3
    <3> QED
      BY <3>2, <3>3, <3>4
  <2>2. ASSUME NEW i \in 1 .. pos' - 1
        PROVE  text[i] \in Spaces \/ \E k \in DOMAIN tokens : Within(k, i)
    <3>1. CASE i < pos
      <4>1. i \in 1 .. pos - 1
        <5>1. i \in Nat /\ 1 <= i /\ pos \in Nat
          BY <1>1, <1>3
        <5> QED
          BY <3>1, <5>1
      <4> QED
        BY <4>1 DEF IInv, Tiled
    <3>2. CASE ~(i < pos)
      <4>1. i \in pos .. pos' - 1 /\ i \in 1..Len(text)
        <5>1. pos \in Nat /\ pos' \in Nat /\ 1 <= pos /\ pos' <= Len(text) + 1
          BY <1>1, <1>3
        <5> QED
          BY <1>1, <3>2, <5>1, RangeSplit
      <4> QED
        BY <1>1, <1>3, <4>1, TextFacts
    <3> QED
      BY <3>1, <3>2
  <2> QED
    BY <1>2, <2>1, <2>2 DEF IInv, Tiled, Within, Char
<1>6. Meant'
  <2>1. \A v \in Quotables : text = Quoted(v) => tokens # << >>
    BY <1>1, <1>2, QuoteFirst
  <2> QED
    BY <1>2, <2>1 DEF IInv, Meant
<1> QED
  BY <1>2, <1>4, <1>5, <1>6 DEF IInv

LEMMA LexOperatorOK ==
  ASSUME IInv, LexOperator
  PROVE  IInv'
<1>1. text \in Inputs /\ pos \in 1..Len(text) /\ phase = "lex" /\ Len(text) \in Nat
  BY TextFacts DEF IInv, TypeInv, LexOperator, Lexing
<1>2. Quote \notin Single /\ Quote \notin BeforeEQ
  BY LexerAssumption DEF Single, BeforeEQ
<1>3. << >> \in Seq(STRING)
  OBVIOUS
<1>4. CASE Char(pos) \in BeforeEQ /\ Char(pos + 1) = "="
  <2> DEFINE type == IF Char(pos) = "!" THEN "!=" ELSE IF Char(pos) = "<" THEN "<=" ELSE ">="
  <2>1. Emit(type, << >>, pos + 2)
    BY <1>4 DEF LexOperator
  <2>2. type \in TokenTypes /\ type \notin WordTypes
    <3>1. type \in {"!=", "<=", ">="}
      OBVIOUS
    <3> HIDE DEF type
    <3>2. type \in TokenTypes
      BY <3>1 DEF TokenTypes
    <3> QED
      BY <3>1, <3>2 DEF WordTypes
  <2>3. pos + 2 \in pos + 1 .. Len(text) + 1
    <3>1. Char(pos + 1) # End
      BY <1>4 DEF End
    <3>2. pos + 1 <= Len(text)
      BY <1>1, <3>1 DEF Char
    <3> QED
      BY <1>1, <3>2
  <2> HIDE DEF type
  <2> QED
    BY <1>1, <1>2, <1>3, <1>4, <2>1, <2>2, <2>3, EmitOK
<1>5. CASE ~(Char(pos) \in BeforeEQ /\ Char(pos + 1) = "=")
  <2>1. PICK type : type = Char(pos)
    OBVIOUS
  <2>2. type \in Single /\ Emit(type, << >>, pos + 1)
    BY <1>5, <2>1 DEF LexOperator
  <2>3. type \in TokenTypes /\ type \notin WordTypes
    <3>1. type \in TokenTypes
      BY <2>2 DEF TokenTypes
    <3>2. type \notin WordTypes
      BY <2>2 DEF Single, WordTypes
    <3> QED
      BY <3>1, <3>2
  <2>4. pos + 1 \in pos + 1 .. Len(text) + 1
    BY <1>1
  <2> QED
    BY <1>1, <1>2, <1>3, <2>1, <2>2, <2>3, <2>4, EmitOK
<1> QED
  BY <1>4, <1>5

LEMMA SliceFacts ==
  ASSUME text \in Inputs, NEW i \in 1..Len(text), NEW end \in i .. Len(text) + 1
  PROVE  SubSeq(text, i, end - 1) \in Seq(STRING)
<1>1. text \in Seq(STRING) /\ Len(text) \in Nat
  BY TextFacts
<1>2. \A j \in i .. end - 1 : text[j] \in STRING
  BY <1>1
<1> QED
  BY <1>1, <1>2, SubSeqProperties

LEMMA LexIdentOrKeywordOK ==
  ASSUME IInv, LexIdentOrKeyword
  PROVE  IInv'
<1>1. /\ text \in Inputs /\ pos \in 1..Len(text) /\ phase = "lex" /\ Len(text) \in Nat
      /\ Char(pos) \in IdentPart /\ Char(pos) # Quote
  BY LexerAssumption, TextFacts DEF IInv, TypeInv, LexIdentOrKeyword, Lexing, IdentPart
<1>2. PICK end : end = EndOfRun(pos, IdentPart)
  OBVIOUS
<1>3. end \in pos + 1 .. Len(text) + 1 /\ Char(end) \notin IdentPart
  <2>1. End \notin IdentPart
    BY LexerAssumption DEF IdentPart, End
  <2>2. pos \in 1 .. Len(text) + 1
    BY <1>1
  <2>3. end \in pos .. Len(text) + 1 /\ Char(end) \notin IdentPart /\ end # pos
    BY <1>1, <1>2, <2>1, <2>2, RunFacts
  <2> QED
    BY <1>1, <2>3
<1>4. PICK value \in Seq(STRING) : value = SubSeq(text, pos, end - 1)
  <2>1. end \in pos .. Len(text) + 1
    BY <1>1, <1>3
  <2> QED
    BY <1>1, <2>1, SliceFacts
<1>5. Emit(KeywordType(value), value, end)
  BY <1>2, <1>4 DEF LexIdentOrKeyword
<1>6. KeywordType(value) \in TokenTypes
  <2>1. KeywordType(value) \in {"AND", "OR", "NOT", "IN", "IDENT"}
    BY DEF KeywordType
  <2> QED
    BY <2>1 DEF TokenTypes, WordTypes
<1> QED
  BY <1>1, <1>3, <1>5, <1>6, EmitOK

LEMMA LexNumberOK ==
  ASSUME IInv, LexNumber
  PROVE  IInv'
<1>1. /\ text \in Inputs /\ pos \in 1..Len(text) /\ phase = "lex" /\ Len(text) \in Nat
      /\ Char(pos) \in Digits \cup {"-"} /\ Char(pos) # Quote
  BY LexerAssumption, TextFacts DEF IInv, TypeInv, LexNumber, Lexing
<1>2. PICK end : end = EndOfNumber
  OBVIOUS
<1>3. end \in pos + 1 .. Len(text) + 1
  BY <1>1, <1>2, NumberFacts
<1>4. PICK value \in Seq(STRING) : value = SubSeq(text, pos, end - 1)
  <2>1. end \in pos .. Len(text) + 1
    BY <1>1, <1>3
  <2> QED
    BY <1>1, <2>1, SliceFacts
<1>5. PICK type : type = "NUMBER"
  OBVIOUS
<1>6. Emit(type, value, end)
  BY <1>2, <1>4, <1>5 DEF LexNumber
<1>7. type \in TokenTypes /\ type \notin WordTypes
  BY <1>5 DEF TokenTypes, WordTypes
<1> QED
  BY <1>1, <1>3, <1>6, <1>7, EmitOK

LEMMA LexStringOK ==
  ASSUME IInv, LexString
  PROVE  IInv'
<1>1. text \in Inputs /\ pos \in 1..Len(text) /\ phase = "lex" /\ RestOfString.end > 0
  BY TextFacts DEF IInv, TypeInv, LexString, Lexing
<1>2. RestOfString.end \in pos + 1 .. Len(text) + 1 /\ RestOfString.value \in Seq(STRING)
  BY <1>1, StringFacts
<1>3. PICK type : type = "STRING"
  OBVIOUS
<1>4. Emit(type, RestOfString.value, RestOfString.end)
  BY <1>3 DEF LexString
<1>5. type \in TokenTypes /\ type \notin WordTypes
  BY <1>3 DEF TokenTypes, WordTypes
<1> QED
  BY <1>1, <1>2, <1>3, <1>4, <1>5, EmitOK

LEMMA LexFailsOK ==
  ASSUME IInv, LexFails
  PROVE  IInv'
<1>1. text' = text /\ pos' = pos /\ tokens' = tokens /\ phase' = "failed"
  BY DEF LexFails
<1>2. \A v \in Quotables : text = Quoted(v) => tokens # << >>
  <2> SUFFICES ASSUME NEW v \in Quotables, text = Quoted(v), tokens = << >> PROVE FALSE
    OBVIOUS
  <2>1. text \in Inputs /\ Char(pos) = Quote /\ RestOfString.end = Len(text) + 1
    BY QuoteFirst DEF IInv, TypeInv
  <2>2. RestOfString.end # 0
    BY <2>1, TextFacts
  <2>3. Quote # "!"
    BY LexerAssumption
  <2> QED
    BY <2>1, <2>2, <2>3 DEF LexFails
<1>3. TypeInv'
  BY <1>1 DEF IInv, TypeInv
<1>4. Tiled'
  BY <1>1 DEF IInv, Tiled, Within, Char
<1>5. Meant'
  BY <1>1, <1>2 DEF IInv, Meant
<1> QED
  BY <1>1, <1>3, <1>4, <1>5 DEF IInv

LEMMA LexEndsOK ==
  ASSUME IInv, LexEnds
  PROVE  IInv'
<1>1. PICK type : type = "EOF"
  OBVIOUS
<1>2. /\ tokens' = Append(tokens, [type |-> type, value |-> << >>, from |-> pos, to |-> pos - 1])
      /\ pos' = pos /\ text' = text /\ phase' = "parse" /\ pos > Len(text)
  BY <1>1 DEF LexEnds
<1>3. pos \in pos .. Len(text) + 1 /\ Len(text) \in Nat
  BY TextFacts DEF IInv, TypeInv
<1>4. \A v \in Quotables : ~(text = Quoted(v) /\ tokens = << >>)
  <2> SUFFICES ASSUME NEW v \in Quotables, text = Quoted(v), tokens = << >> PROVE FALSE
    OBVIOUS
  <2>1. pos = 1 /\ Len(text) >= 2
    BY QuoteFirst
  <2> QED
    BY <1>2, <1>3, <2>1
<1>5. type \in TokenTypes /\ type \notin WordTypes
  BY <1>1 DEF TokenTypes, WordTypes
<1>6. << >> \in Seq(STRING)
  OBVIOUS
<1>7. phase' \in {"lex", "parse"}
  BY <1>2
<1>8. tokens' = Append(tokens, [type |-> type, value |-> << >>, from |-> pos, to |-> pos - 1])
  BY <1>2
<1> QED
  BY <1>2, <1>3, <1>4, <1>5, <1>6, <1>7, <1>8, AppendOK

\* The parser leaves the tokens alone.
LEMMA ParseOK ==
  ASSUME IInv, phase = "parse", text' = text, pos' = pos, tokens' = tokens,
         phase' \in {"parse", "done", "failed"}
  PROVE  IInv'
<1>1. tokens # << >>
  BY DEF IInv
<1>2. TypeInv'
  BY DEF IInv, TypeInv
<1>3. Tiled'
  BY DEF IInv, Tiled, Within, Char
<1>4. Meant'
  BY <1>1 DEF IInv, Meant
<1> QED
  BY <1>1, <1>2, <1>3, <1>4 DEF IInv

LEMMA ParseFrame ==
  ASSUME Parse
  PROVE  /\ phase = "parse" /\ text' = text /\ pos' = pos /\ tokens' = tokens
         /\ phase' \in {"parse", "done", "failed"}
<1>1. CASE Accept \/ ParseFails
  BY <1>1 DEF Accept, ParseFails, Parsing
<1>2. CASE ~(Accept \/ ParseFails)
  <2>1. phase = "parse" /\ UNCHANGED lexVars
    BY <1>2 DEF Parse, ParseNot, ParseGroup, ParsePredicate, ParseCall, ParseArg, NextArg, EndCall,
       ParseAtom, ParseList, EndList, ReturnNot, ReturnAnd, LoopAnd, ReturnOr, LoopOr, EndGroup,
       Parsing, Move, Return, ReturnValue
  <2> QED
    BY <2>1 DEF lexVars
<1> QED
  BY <1>1, <1>2

LEMMA NextOK == IInv /\ [Next]_vars => IInv'
<1> SUFFICES ASSUME IInv, [Next]_vars PROVE IInv'
  OBVIOUS
<1>1. CASE Lex
  BY <1>1, SkipSpaceOK, LexOperatorOK, LexIdentOrKeywordOK, LexNumberOK, LexStringOK, LexFailsOK,
     LexEndsOK DEF Lex, LexNext
<1>2. CASE Parse
  BY <1>2, ParseFrame, ParseOK
<1>3. CASE Answered \/ UNCHANGED vars
  <2>1. UNCHANGED << text, pos, tokens, phase >>
    BY <1>3 DEF Answered, vars, lexVars
  <2> QED
    BY <2>1 DEF IInv, TypeInv, Tiled, Meant, Within, Char
<1> QED
  BY <1>1, <1>2, <1>3 DEF Next

-----------------------------------------------------------------------------
(***************************************************************************)
(* THE THEOREMS ON THE LEXER                                               *)
(***************************************************************************)

\* The inductive invariant of the lexer: the text before pos is tiled, and the
\* first token of a quoted text means it (lexer.go:25-158).
THEOREM TokensFollowText == Spec => []IInv
<1>1. IInv /\ [Next]_vars => IInv'
  BY NextOK
<1> QED
  BY InitOK, <1>1, PTL DEF Spec

\* For every text: nothing is dropped or read twice, and words are read to their
\* end (lexer.go:25-93, 137-158).
THEOREM EveryTextTiled == Spec => []TokensTile
<1>1. IInv => TokensTile
  <2> SUFFICES ASSUME IInv PROVE TokensTile
    OBVIOUS
  <2>1. /\ text \in Inputs /\ tokens \in Seq(Token) /\ Len(tokens) \in Nat
        /\ DOMAIN tokens = 1..Len(tokens)
    BY DEF IInv, TypeInv
  <2>2. \A k \in DOMAIN tokens : tokens[k].from \in Nat /\ tokens[k].to \in Nat
    <3>1. \A k \in DOMAIN tokens : tokens[k] \in Token
      BY <2>1
    <3> QED
      BY <3>1 DEF Token
  <2>3. ASSUME NEW i \in 1 .. pos - 1
        PROVE  Cardinality({k \in DOMAIN tokens : i \in tokens[k].from .. tokens[k].to})
                 = (IF \E k \in DOMAIN tokens : i \in tokens[k].from .. tokens[k].to
                    THEN 1 ELSE IF text[i] \in Spaces THEN 0 ELSE -1)
    <3> DEFINE covers == {k \in DOMAIN tokens : i \in tokens[k].from .. tokens[k].to}
    <3>1. CASE covers = {}
      <4>1. \A k \in DOMAIN tokens : ~Within(k, i)
        BY <2>2, <3>1 DEF Within
      <4>2. text[i] \in Spaces
        BY <4>1 DEF IInv, Tiled
      <4>3. Cardinality(covers) = 0
        BY <3>1, FS_EmptySet
      <4> QED
        BY <3>1, <4>2, <4>3
    <3>2. CASE covers # {}
      <4>1. PICK k \in covers : TRUE
        BY <3>2
      <4>2. \A j \in covers : j = k
        <5> SUFFICES ASSUME NEW j \in covers, j # k PROVE FALSE
          OBVIOUS
        <5>1. j < k \/ k < j
          BY <2>1
        <5>2. /\ tokens[j].from <= i /\ i <= tokens[j].to
              /\ tokens[k].from <= i /\ i <= tokens[k].to
          BY <2>2
        <5>3. tokens[j].to < tokens[k].from \/ tokens[k].to < tokens[j].from
          BY <5>1 DEF IInv, Tiled
        <5> QED
          BY <2>2, <5>2, <5>3
      <4>3. covers = {k}
        BY <4>1, <4>2
      <4>4. Cardinality(covers) = 1
        BY <4>3, FS_Singleton
      <4> QED
        BY <4>1, <4>4
    <3> QED
      BY <3>1, <3>2
  <2>4. ASSUME NEW k \in DOMAIN tokens, k > 1 PROVE tokens[k - 1].to < tokens[k].from
    <3>1. k - 1 \in DOMAIN tokens /\ k - 1 < k
      BY <2>1, <2>4
    <3> QED
      BY <3>1 DEF IInv, Tiled
  <2>5. ASSUME NEW k \in DOMAIN tokens, tokens[k].type \in {"IDENT", "AND", "OR", "NOT", "IN"}
        PROVE  Char(tokens[k].to + 1) \notin Letters \cup Digits \cup {"."}
    BY <2>5 DEF IInv, Tiled, WordTypes, IdentPart
  <2> QED
    BY <2>3, <2>4, <2>5 DEF TokensTile
<1> QED
  BY <1>1, TokensFollowText, PTL

\* For every text that someone wants to compare with: quoted, it is one token
\* that means it (lexer.go:100-135).
THEOREM EveryTextCanBeQuoted == Spec => []EveryTextQuotable
<1>1. IInv => EveryTextQuotable
  BY DEF IInv, Meant, EveryTextQuotable
<1> QED
  BY <1>1, TokensFollowText, PTL

-----------------------------------------------------------------------------
(***************************************************************************)
(* THE GRAMMAR, AS EQUATIONS                                               *)
(***************************************************************************)

\* The pairs of a first and a last token, of an empty span too.
Spans == (1 .. Len(tokens) + 1) \X (0 .. Len(tokens))

\* A set of numbers with a bound has a greatest member.
LEMMA MaxFacts ==
  ASSUME NEW n \in Nat, NEW S, S \subseteq 0..n, S # {}
  PROVE  Max(S) \in S /\ \A k \in S : k <= Max(S)
<1> DEFINE T == {n - k : k \in S}
<1>1. T \subseteq Nat /\ T # {}
  <2>1. \A k \in S : n - k \in Nat
    OBVIOUS
  <2>2. T \subseteq Nat
    BY <2>1
  <2> QED
    BY <2>2
<1>2. PICK m \in T : \A t \in T : m <= t
  <2> HIDE DEF T
  <2> QED
    BY <1>1, LeastExists
<1>3. PICK k \in S : m = n - k
  BY <1>2
<1>4. \A j \in S : k >= j
  <2> SUFFICES ASSUME NEW j \in S PROVE k >= j
    OBVIOUS
  <2>1. n - k <= n - j
    BY <1>2, <1>3
  <2> QED
    BY <2>1
<1>5. Max(S) \in S /\ \A j \in S : Max(S) >= j
  BY <1>4 DEF Max
<1> QED
  BY <1>5

\* A value, or the items of a list, by the shorter ones it consists of.
ReadAt(f, kind, a, b) ==
  IF kind = "value"
  THEN \/ a = b /\ Type(a) \in Atoms
       \/ IsCall(a, b)
       \/ a < b /\ Type(a) = "[" /\ Type(b) = "]" /\ f[<< "items", a + 1, b - 1 >>]
  ELSE \/ a > b
       \/ \E m \in a..b :
            /\ f[<< "value", a, m >>]
            /\ \/ f[<< "items", m + 1, b >>]
               \/ m < b /\ Type(m + 1) = "," /\ f[<< "items", m + 2, b >>]

Kinds == {"value", "items"} \X (1 .. Len(tokens) + 1) \X (0 .. Len(tokens))

ReadsAll(f) == f = [x \in Kinds |-> ReadAt(f, x[1], x[2], x[3])]

\* The solution that IsLeaf takes.
Reader == CHOOSE f : ReadsAll(f)

Value(a, b) == Reader[<< "value", a, b >>]
Items(a, b) == Reader[<< "items", a, b >>]

LEMMA LeafIsRead ==
  ASSUME NEW i, NEW j
  PROVE  IsLeaf(i, j) <=>
           \/ IsCall(i, j)
           \/ /\ j >= i + 2 /\ Type(i) = "IDENT" /\ Type(i + 1) \in Operators
              /\ Value(i + 2, j)
BY DEF IsLeaf, Value, Reader, ReadsAll, ReadAt, Kinds

\* An expression, by the shorter ones it consists of.
Joined(is, left, right) ==
  IF NoExpr \in {left, right} THEN NoExpr ELSE [is |-> is, left |-> left, right |-> right]

ExprAt(f, a, b) ==
  IF a > b THEN NoExpr
  ELSE IF Outside(a, b, "OR") # {}
       THEN Joined("or", f[<< a, Max(Outside(a, b, "OR")) - 1 >>], f[<< Max(Outside(a, b, "OR")) + 1, b >>])
  ELSE IF Outside(a, b, "AND") # {}
       THEN Joined("and", f[<< a, Max(Outside(a, b, "AND")) - 1 >>], f[<< Max(Outside(a, b, "AND")) + 1, b >>])
  ELSE IF Type(a) = "NOT"
       THEN IF f[<< a + 1, b >>] = NoExpr THEN NoExpr ELSE [is |-> "not", of |-> f[<< a + 1, b >>]]
  ELSE IF Type(a) = "(" /\ Type(b) = ")" THEN f[<< a + 1, b - 1 >>]
  ELSE IF IsLeaf(a, b) THEN [is |-> "leaf", from |-> a, to |-> b] ELSE NoExpr

ExpressesAll(f) == f = [x \in Spans |-> ExprAt(f, x[1], x[2])]

Expressed == CHOOSE f : ExpressesAll(f)

LEMMA ExpressionIsExpressed ==
  ASSUME NEW i, NEW j
  PROVE  Expression(i, j) = Expressed[<< i, j >>]
BY DEF Expression, Expressed, ExpressesAll, ExprAt, Joined, Spans

\* Each is read from lighter ones: a list from its items, items from values no
\* longer than they are.
Extra(kind) == IF kind = "value" THEN 0 ELSE 1

Weight(x) == 2 * (x[3] - x[2]) + 2 * Len(tokens) + 2 + Extra(x[1])

LEMMA WeightFacts ==
  ASSUME tokens \in Seq(Token)
  PROVE  \A x \in Kinds : Weight(x) \in 0 .. 4 * Len(tokens) + 3
<1>1. \A kind : Extra(kind) \in 0..1
  BY DEF Extra
<1>2. Len(tokens) \in Nat
  OBVIOUS
<1> SUFFICES ASSUME NEW x \in Kinds PROVE Weight(x) \in 0 .. 4 * Len(tokens) + 3
  OBVIOUS
<1>3. x[2] \in 1 .. Len(tokens) + 1 /\ x[3] \in 0 .. Len(tokens)
  BY DEF Kinds
<1>4. PICK e : e = Extra(x[1])
  OBVIOUS
<1>5. e \in 0..1 /\ Weight(x) = 2 * (x[3] - x[2]) + 2 * Len(tokens) + 2 + e
  BY <1>1, <1>4 DEF Weight
<1> QED
  BY <1>2, <1>3, <1>5

LEMMA ReadDepends ==
  ASSUME tokens \in Seq(Token), NEW x \in Kinds, NEW f, NEW g,
         \A y \in Kinds : Weight(y) < Weight(x) => f[y] = g[y]
  PROVE  ReadAt(f, x[1], x[2], x[3]) = ReadAt(g, x[1], x[2], x[3])
<1> DEFINE n == Len(tokens)
<1>1. n \in Nat
  OBVIOUS
<1>2. PICK kind \in {"value", "items"}, a \in 1 .. n + 1, b \in 0..n : x = << kind, a, b >>
  BY DEF Kinds
<1>3. x[1] = kind /\ x[2] = a /\ x[3] = b
  BY <1>2
<1>4. Extra("value") = 0 /\ Extra("items") = 1
  BY DEF Extra
<1>5. \A c \in 1 .. n + 1, d \in 0..n :
        /\ << "value", c, d >> \in Kinds
        /\ << "items", c, d >> \in Kinds
  BY DEF Kinds
<1>6. \A k, c, d : Weight(<< k, c, d >>) = 2 * (d - c) + 2 * n + 2 + Extra(k)
  BY DEF Weight
<1> DEFINE value == Extra("value")
           items == Extra("items")
           mine == Extra(kind)
<1>7. \A c \in 1 .. n + 1, d \in 0..n :
        /\ 2 * (d - c) + value < 2 * (b - a) + mine => f[<< "value", c, d >>] = g[<< "value", c, d >>]
        /\ 2 * (d - c) + items < 2 * (b - a) + mine => f[<< "items", c, d >>] = g[<< "items", c, d >>]
  <2> SUFFICES ASSUME NEW c \in 1 .. n + 1, NEW d \in 0..n
               PROVE  /\ 2 * (d - c) + value < 2 * (b - a) + mine => f[<< "value", c, d >>] = g[<< "value", c, d >>]
                      /\ 2 * (d - c) + items < 2 * (b - a) + mine => f[<< "items", c, d >>] = g[<< "items", c, d >>]
    OBVIOUS
  <2>1. Weight(x) = 2 * (b - a) + 2 * n + 2 + mine
    BY <1>2, <1>6
  <2>2. mine \in 0..1 /\ value \in 0..1 /\ items \in 0..1
    BY DEF Extra
  <2>3. /\ Weight(<< "value", c, d >>) = 2 * (d - c) + 2 * n + 2 + value
        /\ Weight(<< "items", c, d >>) = 2 * (d - c) + 2 * n + 2 + items
    BY <1>6
  <2> HIDE DEF mine, value, items
  <2>4. ASSUME 2 * (d - c) + value < 2 * (b - a) + mine
        PROVE  Weight(<< "value", c, d >>) < Weight(x)
    <3>1. 2 * (d - c) + 2 * n + 2 + value < 2 * (b - a) + 2 * n + 2 + mine
      BY <1>1, <2>2, <2>4
    <3> QED
      BY <2>1, <2>3, <3>1
  <2>5. ASSUME 2 * (d - c) + items < 2 * (b - a) + mine
        PROVE  Weight(<< "items", c, d >>) < Weight(x)
    <3>1. 2 * (d - c) + 2 * n + 2 + items < 2 * (b - a) + 2 * n + 2 + mine
      BY <1>1, <2>2, <2>5
    <3> QED
      BY <2>1, <2>3, <3>1
  <2>6. << "value", c, d >> \in Kinds /\ << "items", c, d >> \in Kinds
    BY <1>5
  <2> QED
    BY <2>4, <2>5, <2>6
<1> HIDE DEF value, items, mine
<1>8. CASE kind = "value"
  <2>1. mine = 0 /\ items = 1
    BY <1>4, <1>8 DEF mine, items
  <2>2. ASSUME a < b PROVE f[<< "items", a + 1, b - 1 >>] = g[<< "items", a + 1, b - 1 >>]
    <3>1. a + 1 \in 1 .. n + 1 /\ b - 1 \in 0..n
      BY <1>1, <2>2
    <3>2. 2 * ((b - 1) - (a + 1)) + 1 < 2 * (b - a) + 0
      OBVIOUS
    <3> QED
      BY <1>7, <2>1, <3>1, <3>2
  <2>3. ReadAt(f, "value", a, b) = ReadAt(g, "value", a, b)
    BY <2>2 DEF ReadAt
  <2> QED
    BY <1>3, <1>8, <2>3
<1>9. CASE kind = "items"
  <2>1. mine = 1 /\ value = 0 /\ items = 1
    BY <1>4, <1>9 DEF mine, value, items
  <2>2. ASSUME NEW m \in a..b
        PROVE  /\ f[<< "value", a, m >>] = g[<< "value", a, m >>]
               /\ f[<< "items", m + 1, b >>] = g[<< "items", m + 1, b >>]
               /\ m < b => f[<< "items", m + 2, b >>] = g[<< "items", m + 2, b >>]
    <3>1. /\ m \in 0..n /\ m + 1 \in 1 .. n + 1 /\ (m < b => m + 2 \in 1 .. n + 1)
          /\ 2 * (m - a) + 0 < 2 * (b - a) + 1
          /\ 2 * (b - (m + 1)) + 1 < 2 * (b - a) + 1
          /\ 2 * (b - (m + 2)) + 1 < 2 * (b - a) + 1
      BY <1>1
    <3>2. f[<< "value", a, m >>] = g[<< "value", a, m >>]
      BY <1>7, <2>1, <3>1
    <3>3. f[<< "items", m + 1, b >>] = g[<< "items", m + 1, b >>]
      BY <1>7, <2>1, <3>1
    <3>4. m < b => f[<< "items", m + 2, b >>] = g[<< "items", m + 2, b >>]
      BY <1>7, <2>1, <3>1
    <3> QED
      BY <3>2, <3>3, <3>4
  <2>3. ReadAt(f, "items", a, b) = ReadAt(g, "items", a, b)
    BY <2>2 DEF ReadAt
  <2> QED
    BY <1>3, <1>9, <2>3
<1> QED
  BY <1>8, <1>9

LEMMA ReaderExists ==
  ASSUME tokens \in Seq(Token)
  PROVE  \E f : ReadsAll(f)
<1> DEFINE Lighter(m) == {x \in Kinds : Weight(x) < m}
           Solved(m) == \E f : f = [x \in Lighter(m) |-> ReadAt(f, x[1], x[2], x[3])]
           Stuck == {m \in Nat : ~Solved(m)}
<1>1. Stuck = {}
  <2> SUFFICES ASSUME Stuck # {} PROVE FALSE
    OBVIOUS
  <2>1. PICK m \in Stuck : \A n \in Stuck : m <= n
    <3>1. Stuck \subseteq Nat
      OBVIOUS
    <3> HIDE DEF Stuck
    <3> QED
      BY <3>1, LeastExists
  <2>2. CASE m = 0
    <3>1. Lighter(0) = {}
      BY WeightFacts
    <3>2. << >> = [x \in Lighter(0) |-> ReadAt(<< >>, x[1], x[2], x[3])]
      BY <3>1
    <3> QED
      BY <2>1, <2>2, <3>2
  <2>3. CASE m # 0
    <3>1. m \in Nat /\ m - 1 \in Nat /\ ~(m <= m - 1)
      BY <2>3
    <3>2. Solved(m - 1)
      BY <2>1, <3>1
    <3>3. PICK f : f = [x \in Lighter(m - 1) |-> ReadAt(f, x[1], x[2], x[3])]
      BY <3>2
    <3> DEFINE g == [x \in Lighter(m) |-> ReadAt(f, x[1], x[2], x[3])]
    <3>4. \A x \in Lighter(m) : ReadAt(f, x[1], x[2], x[3]) = ReadAt(g, x[1], x[2], x[3])
      <4> SUFFICES ASSUME NEW x \in Lighter(m)
                   PROVE  ReadAt(f, x[1], x[2], x[3]) = ReadAt(g, x[1], x[2], x[3])
        OBVIOUS
      <4>1. \A y \in Kinds : Weight(y) \in Nat
        BY WeightFacts
      <4>2. \A y \in Kinds : Weight(y) < Weight(x) => y \in Lighter(m - 1) /\ y \in Lighter(m)
        BY <3>1, <4>1
      <4>3. \A y \in Lighter(m - 1) : f[y] = ReadAt(f, y[1], y[2], y[3])
        BY <3>3
      <4>4. \A y \in Lighter(m) : g[y] = ReadAt(f, y[1], y[2], y[3])
        OBVIOUS
      <4>5. x \in Kinds
        OBVIOUS
      <4> HIDE DEF g, Lighter
      <4>6. \A y \in Kinds : Weight(y) < Weight(x) => f[y] = g[y]
        BY <4>2, <4>3, <4>4
      <4> QED
        BY <4>5, <4>6, ReadDepends
    <3>5. g = [x \in Lighter(m) |-> ReadAt(g, x[1], x[2], x[3])]
      BY <3>4
    <3> QED
      BY <2>1, <3>5
  <2> QED
    BY <2>2, <2>3
<1>2. Solved(4 * Len(tokens) + 4)
  <2>1. 4 * Len(tokens) + 4 \in Nat
    OBVIOUS
  <2> QED
    BY <1>1, <2>1
<1>3. Lighter(4 * Len(tokens) + 4) = Kinds
  <2>1. \A x \in Kinds : Weight(x) < 4 * Len(tokens) + 4
    BY WeightFacts
  <2> QED
    BY <2>1
<1> HIDE DEF Lighter
<1> QED
  BY <1>2, <1>3 DEF ReadsAll

\* What IsLeaf calls a value, and the items of a list.
LEMMA Grammar ==
  ASSUME tokens \in Seq(Token), NEW a \in 1 .. Len(tokens) + 1, NEW b \in 0 .. Len(tokens)
  PROVE  /\ Value(a, b) <=>
              \/ a = b /\ Type(a) \in Atoms
              \/ IsCall(a, b)
              \/ a < b /\ Type(a) = "[" /\ Type(b) = "]" /\ Items(a + 1, b - 1)
         /\ Items(a, b) <=>
              \/ a > b
              \/ \E m \in a..b :
                   /\ Value(a, m)
                   /\ \/ Items(m + 1, b)
                      \/ m < b /\ Type(m + 1) = "," /\ Items(m + 2, b)
<1>1. ReadsAll(Reader)
  BY ReaderExists DEF Reader
<1>2. << "value", a, b >> \in Kinds /\ << "items", a, b >> \in Kinds
  BY DEF Kinds
<1>3. /\ Reader[<< "value", a, b >>] = ReadAt(Reader, "value", a, b)
      /\ Reader[<< "items", a, b >>] = ReadAt(Reader, "items", a, b)
  BY <1>1, <1>2 DEF ReadsAll
<1>4. Value(a, b) = ReadAt(Reader, "value", a, b)
  BY <1>3 DEF Value
<1>5. Items(a, b) = ReadAt(Reader, "items", a, b)
  BY <1>3 DEF Items
<1>6. ReadAt(Reader, "value", a, b) <=>
              \/ a = b /\ Type(a) \in Atoms
              \/ IsCall(a, b)
              \/ a < b /\ Type(a) = "[" /\ Type(b) = "]" /\ Items(a + 1, b - 1)
  BY DEF ReadAt, Items
<1>7. ReadAt(Reader, "items", a, b) <=>
              \/ a > b
              \/ \E m \in a..b :
                   /\ Value(a, m)
                   /\ \/ Items(m + 1, b)
                      \/ m < b /\ Type(m + 1) = "," /\ Items(m + 2, b)
  BY DEF ReadAt, Items, Value
<1> QED
  BY <1>4, <1>5, <1>6, <1>7

\* An operator stands inside its span.
LEMMA OutsideFacts ==
  ASSUME tokens \in Seq(Token), NEW a \in 1 .. Len(tokens) + 1, NEW b \in 0 .. Len(tokens),
         NEW type, Outside(a, b, type) # {}
  PROVE  /\ Max(Outside(a, b, type)) \in a..b
         /\ Type(Max(Outside(a, b, type))) = type
         /\ Depth(a, Max(Outside(a, b, type))) = 0
         /\ \A k \in Outside(a, b, type) : k <= Max(Outside(a, b, type))
<1>1. Len(tokens) \in Nat
  OBVIOUS
<1>2. Outside(a, b, type) \subseteq 0..Len(tokens)
  BY <1>1 DEF Outside
<1>3. /\ Max(Outside(a, b, type)) \in Outside(a, b, type)
      /\ \A k \in Outside(a, b, type) : k <= Max(Outside(a, b, type))
  BY <1>1, <1>2, MaxFacts
<1> QED
  BY <1>3 DEF Outside

LEMMA ExprDepends ==
  ASSUME tokens \in Seq(Token), NEW a \in 1 .. Len(tokens) + 1, NEW b \in 0 .. Len(tokens),
         NEW f, NEW g,
         \A x \in Spans : x[2] - x[1] < b - a => f[x] = g[x]
  PROVE  ExprAt(f, a, b) = ExprAt(g, a, b)
<1>1. CASE a > b
  BY <1>1 DEF ExprAt
<1>2. CASE ~(a > b)
  <2>1. Len(tokens) \in Nat
    OBVIOUS
  <2>2. \A c \in 1 .. Len(tokens) + 1, d \in 0 .. Len(tokens) : d - c < b - a => f[<< c, d >>] = g[<< c, d >>]
    BY DEF Spans
  <2>3. ASSUME NEW k \in a..b
        PROVE  f[<< a, k - 1 >>] = g[<< a, k - 1 >>] /\ f[<< k + 1, b >>] = g[<< k + 1, b >>]
    <3>1. /\ k - 1 \in 0 .. Len(tokens) /\ k + 1 \in 1 .. Len(tokens) + 1
          /\ (k - 1) - a < b - a /\ b - (k + 1) < b - a
      BY <2>1
    <3> QED
      BY <2>2, <3>1
  <2>4. f[<< a + 1, b >>] = g[<< a + 1, b >>]
    <3>1. a + 1 \in 1 .. Len(tokens) + 1 /\ b - (a + 1) < b - a
      BY <1>2, <2>1
    <3> QED
      BY <2>2, <3>1
  <2>5. f[<< a + 1, b - 1 >>] = g[<< a + 1, b - 1 >>]
    <3>1. a + 1 \in 1 .. Len(tokens) + 1 /\ b - 1 \in 0 .. Len(tokens) /\ (b - 1) - (a + 1) < b - a
      BY <1>2, <2>1
    <3> QED
      BY <2>2, <3>1
  <2>6. Outside(a, b, "OR") # {} => Max(Outside(a, b, "OR")) \in a..b
    BY OutsideFacts
  <2>7. Outside(a, b, "AND") # {} => Max(Outside(a, b, "AND")) \in a..b
    BY OutsideFacts
  <2> QED
    BY <2>3, <2>4, <2>5, <2>6, <2>7 DEF ExprAt
<1> QED
  BY <1>1, <1>2

LEMMA ExpressedExists ==
  ASSUME tokens \in Seq(Token)
  PROVE  \E f : ExpressesAll(f)
<1> DEFINE n == Len(tokens)
           Shorter(m) == {x \in Spans : x[2] - x[1] < m - n - 1}
           Solved(m) == \E f : f = [x \in Shorter(m) |-> ExprAt(f, x[1], x[2])]
           Stuck == {m \in Nat : ~Solved(m)}
<1>1. n \in Nat
  OBVIOUS
<1>2. \A x \in Spans : x[1] \in 1 .. n + 1 /\ x[2] \in 0..n
  BY DEF Spans
<1>3. Stuck = {}
  <2> SUFFICES ASSUME Stuck # {} PROVE FALSE
    OBVIOUS
  <2>1. PICK m \in Stuck : \A k \in Stuck : m <= k
    <3>1. Stuck \subseteq Nat
      OBVIOUS
    <3> HIDE DEF Stuck
    <3> QED
      BY <3>1, LeastExists
  <2>2. CASE m = 0
    <3>1. Shorter(0) = {}
      BY <1>1, <1>2
    <3>2. << >> = [x \in Shorter(0) |-> ExprAt(<< >>, x[1], x[2])]
      BY <3>1
    <3> QED
      BY <2>1, <2>2, <3>2
  <2>3. CASE m # 0
    <3>1. m \in Nat /\ m - 1 \in Nat /\ ~(m <= m - 1)
      BY <2>3
    <3>2. Solved(m - 1)
      BY <2>1, <3>1
    <3>3. PICK f : f = [x \in Shorter(m - 1) |-> ExprAt(f, x[1], x[2])]
      BY <3>2
    <3> DEFINE g == [x \in Shorter(m) |-> ExprAt(f, x[1], x[2])]
    <3>4. \A x \in Shorter(m) : ExprAt(f, x[1], x[2]) = ExprAt(g, x[1], x[2])
      <4> SUFFICES ASSUME NEW x \in Shorter(m)
                   PROVE  ExprAt(f, x[1], x[2]) = ExprAt(g, x[1], x[2])
        OBVIOUS
      <4>1. x \in Spans
        OBVIOUS
      <4>2. \A y \in Spans : y[2] - y[1] < x[2] - x[1] => y \in Shorter(m - 1) /\ y \in Shorter(m)
        BY <1>1, <1>2, <3>1
      <4>3. \A y \in Shorter(m - 1) : f[y] = ExprAt(f, y[1], y[2])
        BY <3>3
      <4>4. \A y \in Shorter(m) : g[y] = ExprAt(f, y[1], y[2])
        OBVIOUS
      <4>5. x[1] \in 1 .. Len(tokens) + 1 /\ x[2] \in 0 .. Len(tokens)
        BY <1>2, <4>1
      <4> HIDE DEF g, Shorter
      <4>6. PICK a \in 1 .. Len(tokens) + 1, b \in 0 .. Len(tokens) : a = x[1] /\ b = x[2]
        BY <4>5
      <4>7. \A y \in Spans : y[2] - y[1] < b - a => f[y] = g[y]
        BY <4>2, <4>3, <4>4, <4>6
      <4>8. ExprAt(f, a, b) = ExprAt(g, a, b)
        BY <4>7, ExprDepends
      <4> QED
        BY <4>6, <4>8
    <3>5. g = [x \in Shorter(m) |-> ExprAt(g, x[1], x[2])]
      BY <3>4
    <3> QED
      BY <2>1, <3>5
  <2> QED
    BY <2>2, <2>3
<1>4. Solved(2 * n + 2)
  <2>1. 2 * n + 2 \in Nat
    BY <1>1
  <2> QED
    BY <1>3, <2>1
<1>5. Shorter(2 * n + 2) = Spans
  BY <1>1, <1>2
<1> HIDE DEF Shorter
<1> QED
  BY <1>4, <1>5 DEF ExpressesAll

\* What an expression is, by its parts.
LEMMA ExpressionFacts ==
  ASSUME tokens \in Seq(Token), NEW a \in 1 .. Len(tokens) + 1, NEW b \in 0 .. Len(tokens)
  PROVE  /\ a > b => Expression(a, b) = NoExpr
         /\ a <= b /\ Outside(a, b, "OR") # {} =>
              Expression(a, b) = Joined("or", Expression(a, Max(Outside(a, b, "OR")) - 1),
                                        Expression(Max(Outside(a, b, "OR")) + 1, b))
         /\ a <= b /\ Outside(a, b, "OR") = {} /\ Outside(a, b, "AND") # {} =>
              Expression(a, b) = Joined("and", Expression(a, Max(Outside(a, b, "AND")) - 1),
                                        Expression(Max(Outside(a, b, "AND")) + 1, b))
         /\ a <= b /\ Outside(a, b, "OR") = {} /\ Outside(a, b, "AND") = {} =>
              Expression(a, b) =
                IF Type(a) = "NOT"
                THEN IF Expression(a + 1, b) = NoExpr THEN NoExpr
                     ELSE [is |-> "not", of |-> Expression(a + 1, b)]
                ELSE IF Type(a) = "(" /\ Type(b) = ")" THEN Expression(a + 1, b - 1)
                ELSE IF IsLeaf(a, b) THEN [is |-> "leaf", from |-> a, to |-> b] ELSE NoExpr
<1>1. ExpressesAll(Expressed)
  BY ExpressedExists DEF Expressed
<1>2. << a, b >> \in Spans
  BY DEF Spans
<1>3. Expressed[<< a, b >>] = ExprAt(Expressed, a, b)
  BY <1>1, <1>2 DEF ExpressesAll
<1>4. Expression(a, b) = ExprAt(Expressed, a, b)
  BY <1>3, ExpressionIsExpressed
<1>5. \A i, j : Expressed[<< i, j >>] = Expression(i, j)
  BY ExpressionIsExpressed
<1>6. a <= b => ~(a > b)
  OBVIOUS
<1>7. a > b => Expression(a, b) = NoExpr
  BY <1>4 DEF ExprAt
<1>8. a <= b /\ Outside(a, b, "OR") # {} =>
        Expression(a, b) = Joined("or", Expression(a, Max(Outside(a, b, "OR")) - 1),
                                  Expression(Max(Outside(a, b, "OR")) + 1, b))
  BY <1>4, <1>5, <1>6 DEF ExprAt
<1>9. a <= b /\ Outside(a, b, "OR") = {} /\ Outside(a, b, "AND") # {} =>
        Expression(a, b) = Joined("and", Expression(a, Max(Outside(a, b, "AND")) - 1),
                                  Expression(Max(Outside(a, b, "AND")) + 1, b))
  BY <1>4, <1>5, <1>6 DEF ExprAt
<1>10. a <= b /\ Outside(a, b, "OR") = {} /\ Outside(a, b, "AND") = {} =>
        Expression(a, b) =
          IF Type(a) = "NOT"
          THEN IF Expression(a + 1, b) = NoExpr THEN NoExpr
               ELSE [is |-> "not", of |-> Expression(a + 1, b)]
          ELSE IF Type(a) = "(" /\ Type(b) = ")" THEN Expression(a + 1, b - 1)
          ELSE IF IsLeaf(a, b) THEN [is |-> "leaf", from |-> a, to |-> b] ELSE NoExpr
  BY <1>4, <1>5, <1>6 DEF ExprAt
<1> QED
  BY <1>7, <1>8, <1>9, <1>10

-----------------------------------------------------------------------------
(***************************************************************************)
(* BRACKETS                                                                *)
(***************************************************************************)

Opening == {"(", "["}
Closing == {")", "]"}

\* The tokens before k of some types.
Some(i, k, types) == {m \in i .. k - 1 : Type(m) \in types}

Count(i, k, types) == Cardinality(Some(i, k, types))

LEMMA SomeFacts ==
  ASSUME NEW i \in Nat, NEW k \in Nat, NEW types
  PROVE  IsFiniteSet(Some(i, k, types)) /\ Count(i, k, types) \in Nat
<1>1. IsFiniteSet(i .. k - 1)
  BY FS_Interval
<1>2. IsFiniteSet(Some(i, k, types))
  BY <1>1, FS_Subset DEF Some
<1> QED
  BY <1>2, FS_CardinalityType DEF Count

LEMMA CountSplit ==
  ASSUME NEW i \in Nat, NEW j \in Nat, NEW k \in Nat, i <= j, j <= k, NEW types
  PROVE  Count(i, k, types) = Count(i, j, types) + Count(j, k, types)
<1>1. Some(i, k, types) = Some(i, j, types) \cup Some(j, k, types)
  BY DEF Some
<1>2. Some(i, j, types) \cap Some(j, k, types) = {}
  BY DEF Some
<1>3. IsFiniteSet(Some(i, j, types)) /\ IsFiniteSet(Some(j, k, types))
  BY SomeFacts
<1>4. Cardinality({}) = 0
  BY FS_EmptySet
<1>5. PICK x \in Nat, y \in Nat : x = Count(i, j, types) /\ y = Count(j, k, types)
  BY SomeFacts
<1>6. Cardinality(Some(i, k, types)) = x + y - 0
  BY <1>1, <1>2, <1>3, <1>4, <1>5, FS_Union DEF Count
<1> QED
  BY <1>5, <1>6 DEF Count

LEMMA CountOne ==
  ASSUME NEW k \in Nat, NEW types
  PROVE  /\ Count(k, k + 1, types) = IF Type(k) \in types THEN 1 ELSE 0
         /\ Count(k, k, types) = 0
<1>1. Some(k, k + 1, types) = IF Type(k) \in types THEN {k} ELSE {}
  BY DEF Some
<1>2. Some(k, k, types) = {}
  BY DEF Some
<1>3. Cardinality({}) = 0 /\ Cardinality({k}) = 1
  BY FS_EmptySet, FS_Singleton
<1> QED
  BY <1>1, <1>2, <1>3 DEF Count

LEMMA DepthIsCount ==
  ASSUME NEW i, NEW k
  PROVE  Depth(i, k) = Count(i, k, Opening) - Count(i, k, Closing)
BY DEF Depth, Count, Some, Opening, Closing

LEMMA DepthSplit ==
  ASSUME NEW i \in Nat, NEW j \in Nat, NEW k \in Nat, i <= j, j <= k
  PROVE  /\ Depth(i, k) = Depth(i, j) + Depth(j, k)
         /\ Depth(i, k) \in Int /\ Depth(i, j) \in Int /\ Depth(j, k) \in Int
<1>1. PICK u1 \in Nat, u2 \in Nat, u3 \in Nat :
        u1 = Count(i, j, Opening) /\ u2 = Count(j, k, Opening) /\ u3 = Count(i, k, Opening)
  BY SomeFacts
<1>2. PICK d1 \in Nat, d2 \in Nat, d3 \in Nat :
        d1 = Count(i, j, Closing) /\ d2 = Count(j, k, Closing) /\ d3 = Count(i, k, Closing)
  BY SomeFacts
<1>3. u3 = u1 + u2 /\ d3 = d1 + d2
  BY <1>1, <1>2, CountSplit
<1>4. Depth(i, k) = u3 - d3 /\ Depth(i, j) = u1 - d1 /\ Depth(j, k) = u2 - d2
  BY <1>1, <1>2, DepthIsCount
<1> QED
  BY <1>3, <1>4

LEMMA DepthOne ==
  ASSUME NEW k \in Nat
  PROVE  /\ Type(k) \in Opening => Depth(k, k + 1) = 1
         /\ Type(k) \in Closing => Depth(k, k + 1) = -1
         /\ Type(k) \notin Opening \cup Closing => Depth(k, k + 1) = 0
         /\ Depth(k, k) = 0
<1>1. Opening \cap Closing = {}
  BY DEF Opening, Closing
<1>2. \A types : Count(k, k + 1, types) = IF Type(k) \in types THEN 1 ELSE 0
  BY CountOne
<1>3. \A types : Count(k, k, types) = 0
  BY CountOne
<1>4. PICK u, d : u = Count(k, k + 1, Opening) /\ d = Count(k, k + 1, Closing)
  OBVIOUS
<1>5. Depth(k, k + 1) = u - d
  BY <1>4, DepthIsCount
<1>6. Depth(k, k) = 0 - 0
  BY <1>3, DepthIsCount
<1>7. /\ Type(k) \in Opening => u = 1 /\ d = 0
      /\ Type(k) \in Closing => u = 0 /\ d = 1
      /\ Type(k) \notin Opening \cup Closing => u = 0 /\ d = 0
  BY <1>1, <1>2, <1>4
<1> QED
  BY <1>5, <1>6, <1>7

LEMMA DepthSame ==
  ASSUME NEW i \in Nat, NEW k \in Nat, i <= k,
         \A m \in i .. k - 1 : Type(m) \notin Opening \cup Closing
  PROVE  Depth(i, k) = 0
<1>1. Some(i, k, Opening) = {} /\ Some(i, k, Closing) = {}
  BY DEF Some
<1>2. Count(i, k, Opening) = 0 /\ Count(i, k, Closing) = 0
  BY <1>1, FS_EmptySet DEF Count
<1>3. Depth(i, k) = 0 - 0
  BY <1>2, DepthIsCount
<1> QED
  BY <1>3

\* Every bracket of a span has its partner in it.
Nested(a, c) ==
  /\ Depth(a, c + 1) = 0
  /\ \A k \in a .. c + 1 : Depth(a, k) >= 0

LEMMA NestedConcat ==
  ASSUME NEW a \in Nat, NEW b \in Nat, NEW c \in Nat, a <= b + 1, b <= c,
         Nested(a, b), Nested(b + 1, c)
  PROVE  Nested(a, c)
<1>1. ASSUME NEW k \in b + 1 .. c + 1
      PROVE  Depth(a, k) = Depth(b + 1, k) /\ Depth(b + 1, k) >= 0
  <2>1. PICK m \in Nat : m = b + 1
    OBVIOUS
  <2>2. k \in Nat /\ a <= m /\ m <= k
    BY <1>1, <2>1
  <2>3. Depth(a, k) = Depth(a, m) + Depth(m, k) /\ Depth(m, k) \in Int
    BY <2>2, DepthSplit
  <2>4. Depth(a, m) = 0
    BY <2>1 DEF Nested
  <2>5. Depth(m, k) >= 0
    BY <2>1 DEF Nested
  <2> QED
    BY <2>1, <2>3, <2>4, <2>5
<1>2. Depth(a, c + 1) = 0
  <2>1. Depth(a, c + 1) = Depth(b + 1, c + 1)
    BY <1>1
  <2> QED
    BY <2>1 DEF Nested
<1>3. ASSUME NEW k \in a .. c + 1 PROVE Depth(a, k) >= 0
  <2>1. CASE k <= b + 1
    BY <2>1 DEF Nested
  <2>2. CASE ~(k <= b + 1)
    <3>1. k \in b + 1 .. c + 1
      BY <2>2
    <3>2. Depth(a, k) = Depth(b + 1, k) /\ Depth(b + 1, k) >= 0
      BY <1>1, <3>1
    <3> QED
      BY <3>2
  <2> QED
    BY <2>1, <2>2
<1> QED
  BY <1>2, <1>3 DEF Nested

\* A bracket, what is nested, and its partner; inside, nothing is outside.
LEMMA NestedIn ==
  ASSUME NEW a \in Nat, NEW c \in Nat, a < c,
         Type(a) \in Opening, Type(c) \in Closing, Nested(a + 1, c - 1)
  PROVE  /\ Nested(a, c)
         /\ \A k \in a + 1 .. c : Depth(a, k) >= 1
<1>1. PICK m \in Nat : m = a + 1
  OBVIOUS
<1>2. Depth(a, m) = 1
  BY <1>1, DepthOne
<1>3. Depth(c, c + 1) = -1
  BY DepthOne
<1>4. (c - 1) + 1 = c
  OBVIOUS
<1>5. Depth(m, c) = 0 /\ \A k \in m..c : Depth(m, k) >= 0
  BY <1>1, <1>4 DEF Nested
<1>6. ASSUME NEW k \in m..c
      PROVE  Depth(a, k) = 1 + Depth(m, k) /\ Depth(m, k) \in Int
  <2>1. k \in Nat /\ a <= m /\ m <= k
    BY <1>1
  <2>2. Depth(a, k) = Depth(a, m) + Depth(m, k) /\ Depth(m, k) \in Int
    BY <2>1, DepthSplit
  <2> QED
    BY <1>2, <2>2
<1>7. \A k \in m..c : Depth(a, k) >= 1
  <2> SUFFICES ASSUME NEW k \in m..c PROVE Depth(a, k) >= 1
    OBVIOUS
  <2>1. Depth(a, k) = 1 + Depth(m, k) /\ Depth(m, k) \in Int
    BY <1>6
  <2>2. Depth(m, k) >= 0
    BY <1>5
  <2> QED
    BY <2>1, <2>2
<1>8. Depth(a, c + 1) = 0
  <2>1. PICK p \in Nat : p = c + 1
    OBVIOUS
  <2>2. Depth(a, p) = Depth(a, c) + Depth(c, p)
    BY <2>1, DepthSplit
  <2>3. c \in m..c
    BY <1>1
  <2>4. Depth(a, c) = 1 + Depth(m, c)
    BY <1>6, <2>3
  <2>5. Depth(a, c) = 1
    BY <1>5, <2>4
  <2> QED
    BY <1>3, <2>1, <2>2, <2>5
<1>9. Depth(a, a) = 0
  BY DepthOne
<1>10. ASSUME NEW k \in a .. c + 1 PROVE Depth(a, k) >= 0
  <2>1. k = a \/ k = c + 1 \/ k \in m..c
    BY <1>1
  <2>2. CASE k \in m..c
    <3>1. Depth(a, k) = 1 + Depth(m, k) /\ Depth(m, k) \in Int /\ Depth(a, k) >= 1
      BY <1>6, <1>7, <2>2
    <3> QED
      BY <3>1
  <2>3. CASE k = a \/ k = c + 1
    BY <1>8, <1>9, <2>3
  <2> QED
    BY <2>1, <2>2, <2>3
<1> QED
  BY <1>1, <1>7, <1>8, <1>10 DEF Nested

LEMMA NestedPlain ==
  ASSUME NEW a \in Nat, NEW c \in Nat, a <= c + 1,
         \A k \in a..c : Type(k) \notin Opening \cup Closing
  PROVE  Nested(a, c)
<1>1. ASSUME NEW k \in a .. c + 1 PROVE Depth(a, k) = 0
  <2>1. k \in Nat /\ a <= k /\ \A m \in a .. k - 1 : m \in a..c
    OBVIOUS
  <2> QED
    BY <2>1, DepthSame
<1>2. c + 1 \in a .. c + 1
  OBVIOUS
<1> QED
  BY <1>1, <1>2 DEF Nested

\* A span that holds no operator between expressions, and whole brackets.
Quiet(a, c) == Nested(a, c) /\ \A k \in a..c : Type(k) \notin {"AND", "OR"}

LEMMA QuietConcat ==
  ASSUME NEW a \in Nat, NEW b \in Nat, NEW c \in Nat, a <= b + 1, b <= c,
         Quiet(a, b), Quiet(b + 1, c)
  PROVE  Quiet(a, c)
<1>1. Nested(a, c)
  BY NestedConcat DEF Quiet
<1>2. \A k \in a..c : k \in a..b \/ k \in b + 1 .. c
  OBVIOUS
<1> QED
  BY <1>1, <1>2 DEF Quiet

LEMMA QuietIn ==
  ASSUME NEW a \in Nat, NEW c \in Nat, a < c,
         Type(a) \in Opening, Type(c) \in Closing, Quiet(a + 1, c - 1)
  PROVE  Quiet(a, c)
<1>1. Nested(a, c)
  BY NestedIn DEF Quiet
<1>2. \A k \in a..c : k = a \/ k = c \/ k \in a + 1 .. c - 1
  OBVIOUS
<1>3. \A type \in Opening \cup Closing : type \notin {"AND", "OR"}
  BY DEF Opening, Closing
<1> QED
  BY <1>1, <1>2, <1>3 DEF Quiet

\* Types of tokens that are no brackets, and stand inside a leaf.
Plain == Atoms \cup Operators \cup {","}

LEMMA QuietPlain ==
  ASSUME NEW a \in Nat, NEW c \in Nat, a <= c + 1, \A k \in a..c : Type(k) \in Plain
  PROVE  Quiet(a, c)
<1>1. \A type \in Plain : type \notin Opening \cup Closing /\ type \notin {"AND", "OR"}
  BY DEF Plain, Atoms, Operators, Opening, Closing
<1>2. Nested(a, c)
  BY <1>1, NestedPlain
<1> QED
  BY <1>1, <1>2 DEF Quiet

LEMMA QuietOne ==
  ASSUME NEW k \in Nat, Type(k) \in Plain
  PROVE  Quiet(k, k)
<1>1. \A m \in k..k : m = k
  OBVIOUS
<1> QED
  BY <1>1, QuietPlain

\* A call is its name, an opening parenthesis, arguments and a closing one.
LEMMA CallQuiet ==
  ASSUME NEW i \in Nat, NEW j \in Nat, IsCall(i, j)
  PROVE  i + 2 <= j /\ Quiet(i, j)
<1>1. j >= i + 2 /\ Type(i) = "IDENT" /\ Type(i + 1) = "(" /\ Type(j) = ")" /\ Arguments(i + 2, j - 1)
  BY DEF IsCall
<1>2. PICK p, q \in Nat : p = i + 2 /\ q = j - 1
  BY <1>1
<1>3. p <= q + 1 /\ Arguments(p, q)
  BY <1>1, <1>2
<1>4. \A k \in p..q : Type(k) \in Plain
  <2>1. CASE q = p - 1
    BY <2>1, <1>2
  <2>2. CASE ~(q = p - 1)
    BY <1>3, <2>2 DEF Arguments, Plain
  <2> QED
    BY <2>1, <2>2
<1>5. Quiet(p, q)
  BY <1>2, <1>3, <1>4, QuietPlain
<1>6. (i + 1) + 1 = p /\ i + 1 \in Nat /\ i + 1 < j
  BY <1>1, <1>2
<1>7. Type(i + 1) \in Opening /\ Type(j) \in Closing
  BY <1>1 DEF Opening, Closing
<1>8. Quiet(i + 1, j)
  BY <1>2, <1>5, <1>6, <1>7, QuietIn
<1>9. Quiet(i, i)
  <2>1. Type(i) \in Plain
    BY <1>1 DEF Plain, Atoms
  <2> QED
    BY <2>1, QuietOne
<1>10. i <= j /\ i <= i + 1
  BY <1>1
<1>11. Quiet(i, j)
  BY <1>8, <1>9, <1>10, QuietConcat
<1> QED
  BY <1>1, <1>11

LEMMA ValueFacts ==
  ASSUME tokens \in Seq(Token), NEW a \in 1 .. Len(tokens) + 1, NEW b \in 0 .. Len(tokens),
         Value(a, b)
  PROVE  a <= b /\ Type(a) \in Atoms \cup {"["}
<1>1. CASE a = b /\ Type(a) \in Atoms
  BY <1>1
<1>2. CASE IsCall(a, b)
  <2>1. a + 2 <= b
    BY <1>2 DEF IsCall
  <2>2. Type(a) \in Atoms
    BY <1>2 DEF IsCall, Atoms
  <2> QED
    BY <2>1, <2>2
<1>3. CASE a < b /\ Type(a) = "["
  BY <1>3
<1> QED
  BY <1>1, <1>2, <1>3, Grammar

\* No operator between expressions stands in a value.
LEMMA ValueQuiet ==
  ASSUME tokens \in Seq(Token)
  PROVE  \A a \in 1 .. Len(tokens) + 1, b \in 0 .. Len(tokens) :
           /\ Value(a, b) => Quiet(a, b)
           /\ Items(a, b) /\ a <= b + 1 => Quiet(a, b)
<1> DEFINE n == Len(tokens)
           Fine(a, b) == (Value(a, b) => Quiet(a, b)) /\ (Items(a, b) => Quiet(a, b))
           Bad == {m \in Nat : \E a \in 1 .. n + 1, b \in 0..n : b + 1 - a = m /\ ~Fine(a, b)}
<1>1. n \in Nat
  OBVIOUS
<1>2. Bad = {}
  <2> SUFFICES ASSUME Bad # {} PROVE FALSE
    OBVIOUS
  <2>1. PICK m \in Bad : \A k \in Bad : m <= k
    <3>1. Bad \subseteq Nat
      OBVIOUS
    <3> HIDE DEF Bad
    <3> QED
      BY <3>1, LeastExists
  <2>2. PICK a \in 1 .. n + 1, b \in 0..n : b + 1 - a = m /\ ~Fine(a, b)
    BY <2>1
  <2>3. m \in Nat /\ a <= b + 1
    BY <2>1, <2>2
  <2>4. ASSUME NEW c \in 1 .. n + 1, NEW d \in 0..n, c <= d + 1, d + 1 - c < m
        PROVE  Fine(c, d)
    <3>1. d + 1 - c \in Nat /\ ~(m <= d + 1 - c)
      BY <1>1, <2>3, <2>4
    <3> QED
      BY <2>1, <3>1
  <2>5. ASSUME Value(a, b) PROVE Quiet(a, b)
    <3>1. CASE a = b /\ Type(a) \in Atoms
      <4>1. a \in Nat
        BY <1>1
      <4>2. Type(a) \in Plain
        BY <3>1 DEF Plain
      <4>3. Quiet(a, a)
        BY <4>1, <4>2, QuietOne
      <4> QED
        BY <3>1, <4>3
    <3>2. CASE IsCall(a, b)
      BY <1>1, <3>2, CallQuiet
    <3>3. CASE a < b /\ Type(a) = "[" /\ Type(b) = "]" /\ Items(a + 1, b - 1)
      <4>1. /\ a + 1 \in 1 .. n + 1 /\ b - 1 \in 0..n /\ a + 1 <= (b - 1) + 1
            /\ (b - 1) + 1 - (a + 1) < m
        BY <1>1, <2>2, <3>3
      <4>2. Quiet(a + 1, b - 1)
        BY <2>4, <3>3, <4>1
      <4>3. Type(a) \in Opening /\ Type(b) \in Closing
        BY <3>3 DEF Opening, Closing
      <4> QED
        BY <1>1, <3>3, <4>2, <4>3, QuietIn
    <3> QED
      BY <2>5, <3>1, <3>2, <3>3, Grammar
  <2>6. ASSUME Items(a, b) PROVE Quiet(a, b)
    <3>1. CASE a > b
      <4>1. \A k \in a..b : Type(k) \in Plain
        BY <3>1
      <4> QED
        BY <1>1, <2>3, <4>1, QuietPlain
    <3>2. CASE \E k \in a..b : /\ Value(a, k)
                               /\ \/ Items(k + 1, b)
                                  \/ k < b /\ Type(k + 1) = "," /\ Items(k + 2, b)
      <4>1. PICK k \in a..b : /\ Value(a, k)
                              /\ \/ Items(k + 1, b)
                                 \/ k < b /\ Type(k + 1) = "," /\ Items(k + 2, b)
        BY <3>2
      <4>2. k \in 0..n /\ k \in Nat /\ a \in Nat /\ b \in Nat /\ k <= b /\ a <= k
        BY <1>1
      <4>3. Quiet(a, k)
        <5>1. CASE k = b
          BY <2>5, <4>1, <5>1
        <5>2. CASE k # b
          <6>1. a <= k + 1 /\ k + 1 - a < m
            BY <1>1, <2>2, <4>2, <5>2
          <6> QED
            BY <2>4, <4>1, <4>2, <6>1
        <5> QED
          BY <5>1, <5>2
      <4>4. Quiet(k + 1, b)
        <5>1. CASE Items(k + 1, b)
          <6>1. k + 1 \in 1 .. n + 1 /\ k + 1 <= b + 1 /\ b + 1 - (k + 1) < m
            BY <1>1, <2>2, <4>2
          <6> QED
            BY <2>4, <5>1, <6>1
        <5>2. CASE k < b /\ Type(k + 1) = "," /\ Items(k + 2, b)
          <6>0. k < b
            BY <5>2
          <6>1. k + 2 \in 1 .. n + 1 /\ k + 2 <= b + 1 /\ b + 1 - (k + 2) < m
            BY <1>1, <2>2, <4>2, <6>0
          <6>2. Quiet(k + 2, b)
            BY <2>4, <5>2, <6>1
          <6>3. Quiet(k + 1, k + 1)
            <7>1. k + 1 \in Nat
              BY <4>2
            <7>2. Type(k + 1) \in Plain
              BY <5>2 DEF Plain
            <7> QED
              BY <7>1, <7>2, QuietOne
          <6>4. PICK p \in Nat : p = k + 1
            BY <4>2
          <6>5. p <= p + 1 /\ p <= b /\ p + 1 = k + 2
            BY <4>2, <6>0, <6>4
          <6> QED
            BY <4>2, <6>2, <6>3, <6>4, <6>5, QuietConcat
        <5> QED
          BY <4>1, <5>1, <5>2
      <4>5. a <= k + 1
        BY <4>2
      <4> QED
        BY <4>2, <4>3, <4>4, <4>5, QuietConcat
    <3> QED
      BY <2>6, <3>1, <3>2, Grammar
  <2> QED
    BY <2>2, <2>5, <2>6
<1>3. ASSUME NEW a \in 1 .. n + 1, NEW b \in 0..n, a <= b + 1 PROVE Fine(a, b)
  <2>1. b + 1 - a \in Nat
    BY <1>3
  <2> QED
    BY <1>2, <2>1
<1>4. ASSUME NEW a \in 1 .. n + 1, NEW b \in 0..n, Value(a, b) PROVE a <= b + 1
  <2>1. a <= b
    BY <1>4, ValueFacts
  <2> QED
    BY <2>1
<1> QED
  BY <1>3, <1>4

\* A leaf begins with a name, and no operator between expressions stands in it.
LEMMA LeafQuiet ==
  ASSUME tokens \in Seq(Token), NEW a \in 1 .. Len(tokens) + 1, NEW b \in 0 .. Len(tokens),
         IsLeaf(a, b)
  PROVE  a + 2 <= b /\ Type(a) = "IDENT" /\ Quiet(a, b)
<1>1. a \in Nat /\ b \in Nat /\ Len(tokens) \in Nat
  OBVIOUS
<1>2. CASE IsCall(a, b)
  <2>1. a + 2 <= b /\ Quiet(a, b)
    BY <1>1, <1>2, CallQuiet
  <2>2. Type(a) = "IDENT"
    BY <1>2 DEF IsCall
  <2> QED
    BY <2>1, <2>2
<1>3. CASE /\ b >= a + 2 /\ Type(a) = "IDENT" /\ Type(a + 1) \in Operators
           /\ Value(a + 2, b)
  <2>1. a + 2 \in 1 .. Len(tokens) + 1
    BY <1>1, <1>3
  <2>2. Quiet(a + 2, b)
    BY <1>3, <2>1, ValueQuiet
  <2>3. \A k \in a .. a + 1 : k = a \/ k = a + 1
    BY <1>1
  <2>4. Type(a) \in Plain /\ Type(a + 1) \in Plain
    BY <1>3 DEF Plain, Atoms
  <2>5. PICK p \in Nat : p = a + 1
    BY <1>1
  <2>6. a <= p + 1 /\ p <= b /\ p + 1 = a + 2
    BY <1>1, <1>3, <2>5
  <2>7. Quiet(a, p)
    BY <1>1, <2>3, <2>4, <2>5, <2>6, QuietPlain
  <2>8. Quiet(a, b)
    BY <1>1, <2>2, <2>6, <2>7, QuietConcat
  <2> QED
    BY <1>3, <2>8
<1> QED
  BY <1>2, <1>3, LeafIsRead

-----------------------------------------------------------------------------
(***************************************************************************)
(* HOW EXPRESSIONS ARE PUT TOGETHER                                        *)
(***************************************************************************)

\* Behind what is nested, outside is outside.
LEMMA OutsideSplit ==
  ASSUME NEW a \in Nat, NEW c \in Nat, NEW e \in Nat, a <= c + 1, c <= e, Nested(a, c), NEW type
  PROVE  Outside(a, e, type) = Outside(a, c, type) \cup Outside(c + 1, e, type)
<1>1. ASSUME NEW k \in c + 1 .. e PROVE Depth(a, k) = Depth(c + 1, k)
  <2>1. PICK m \in Nat : m = c + 1
    OBVIOUS
  <2>2. k \in Nat /\ a <= m /\ m <= k
    BY <2>1
  <2>3. Depth(a, k) = Depth(a, m) + Depth(m, k) /\ Depth(m, k) \in Int
    BY <2>2, DepthSplit
  <2>4. Depth(a, m) = 0
    BY <2>1 DEF Nested
  <2> QED
    BY <2>1, <2>3, <2>4
<1>2. ASSUME NEW k
      PROVE  k \in Outside(a, e, type) <=> k \in Outside(a, c, type) \cup Outside(c + 1, e, type)
  <2>1. k \in a..e <=> k \in a..c \/ k \in c + 1 .. e
    OBVIOUS
  <2> QED
    BY <1>1, <2>1 DEF Outside
<1> QED
  BY <1>2

LEMMA QuietOutside ==
  ASSUME NEW a, NEW c, Quiet(a, c)
  PROVE  Outside(a, c, "AND") = {} /\ Outside(a, c, "OR") = {}
BY DEF Quiet, Outside

\* In brackets nothing is outside.
LEMMA OutsideIn ==
  ASSUME NEW a \in Nat, NEW c \in Nat, a < c,
         Type(a) \in Opening, Type(c) \in Closing, Nested(a + 1, c - 1)
  PROVE  Outside(a, c, "AND") = {} /\ Outside(a, c, "OR") = {}
<1>1. \A k \in a + 1 .. c : Depth(a, k) >= 1
  BY NestedIn
<1>2. ASSUME NEW k \in a..c, Type(k) = "AND" \/ Type(k) = "OR" PROVE Depth(a, k) # 0
  <2>1. k # a
    BY <1>2 DEF Opening
  <2>2. k \in a + 1 .. c
    BY <2>1
  <2>3. Depth(a, k) >= 1
    BY <1>1, <2>2
  <2> QED
    BY <2>3
<1> QED
  BY <1>2 DEF Outside

\* The tokens from a to c are an expression.
Sentence(a, c) == Expression(a, c) # NoExpr

Free(a, c, type) == Outside(a, c, type) = {}

Loose == {"AND", "OR"}

\* An operator, between what is nested and what it does not occur in.
LEMMA LastOutside ==
  ASSUME tokens \in Seq(Token), NEW a \in 1 .. Len(tokens) + 1, NEW d \in 0 .. Len(tokens),
         NEW k \in a..d, Nested(a, k - 1), Type(k) \in Loose, NEW type, Free(k + 1, d, type)
  PROVE  /\ Type(k) = type => Outside(a, d, type) # {} /\ Max(Outside(a, d, type)) = k
         /\ Type(k) # type => Outside(a, d, type) = Outside(a, k - 1, type)
<1>1. a \in Nat /\ d \in Nat /\ k \in Nat /\ Len(tokens) \in Nat /\ a >= 1
  OBVIOUS
<1>2. PICK j \in Nat : j = k - 1
  BY <1>1
<1>3. a <= j + 1 /\ j <= d /\ j + 1 = k
  BY <1>1, <1>2
<1>4. Outside(a, d, type) = Outside(a, j, type) \cup Outside(k, d, type)
  BY <1>1, <1>2, <1>3, OutsideSplit
<1>5. Type(k) \notin Opening \cup Closing
  BY DEF Loose, Opening, Closing
<1>6. Nested(k, k)
  <2>1. \A m \in k..k : m = k
    BY <1>1
  <2> QED
    BY <1>1, <1>5, <2>1, NestedPlain
<1>7. Outside(k, d, type) = Outside(k, k, type) \cup Outside(k + 1, d, type)
  <2>1. k <= k + 1 /\ k <= d
    BY <1>1
  <2> QED
    BY <1>1, <1>6, <2>1, OutsideSplit
<1>8. Outside(k, k, type) = IF Type(k) = type THEN {k} ELSE {}
  <2>1. \A m : m \in k..k <=> m = k
    BY <1>1
  <2>2. Depth(k, k) = 0
    BY <1>1, DepthOne
  <2> QED
    BY <2>1, <2>2 DEF Outside
<1>9. Outside(a, d, type) = Outside(a, j, type) \cup (IF Type(k) = type THEN {k} ELSE {})
  BY <1>4, <1>7, <1>8 DEF Free
<1>10. ASSUME Type(k) = type PROVE Outside(a, d, type) # {} /\ Max(Outside(a, d, type)) = k
  <2>1. k \in Outside(a, d, type)
    BY <1>9, <1>10
  <2>2. PICK m : m = Max(Outside(a, d, type))
    OBVIOUS
  <2>3. m \in a..d /\ m \in Outside(a, d, type) /\ k <= m
    <3>1. /\ Max(Outside(a, d, type)) \in a..d
          /\ Type(Max(Outside(a, d, type))) = type
          /\ Depth(a, Max(Outside(a, d, type))) = 0
          /\ \A i \in Outside(a, d, type) : i <= Max(Outside(a, d, type))
      BY <2>1, OutsideFacts
    <3> QED
      BY <2>1, <2>2, <3>1 DEF Outside
  <2>4. m \in Outside(a, j, type) => m <= j
    BY <1>1, <1>2 DEF Outside
  <2>5. m = k \/ m \in Outside(a, j, type)
    BY <1>9, <2>3
  <2>6. m = k
    BY <1>1, <1>2, <2>3, <2>4, <2>5
  <2> QED
    BY <2>1, <2>2, <2>6
<1> QED
  BY <1>2, <1>9, <1>10

\* An expression is nested.
LEMMA SentenceNested ==
  ASSUME tokens \in Seq(Token)
  PROVE  \A a \in 1 .. Len(tokens) + 1, d \in 0 .. Len(tokens) :
           Sentence(a, d) => a <= d /\ Nested(a, d)
<1> DEFINE n == Len(tokens)
           Fine(a, d) == Sentence(a, d) => Nested(a, d)
           Bad == {m \in Nat : \E a \in 1 .. n + 1, d \in 0..n : a <= d /\ d - a = m /\ ~Fine(a, d)}
<1>1. n \in Nat
  OBVIOUS
<1>2. \A a \in 1 .. n + 1, d \in 0..n : Sentence(a, d) => a <= d
  BY <1>1, ExpressionFacts DEF Sentence
<1>3. Bad = {}
  <2> SUFFICES ASSUME Bad # {} PROVE FALSE
    OBVIOUS
  <2>1. PICK m \in Bad : \A k \in Bad : m <= k
    <3>1. Bad \subseteq Nat
      OBVIOUS
    <3> HIDE DEF Bad
    <3> QED
      BY <3>1, LeastExists
  <2>2. PICK a \in 1 .. n + 1, d \in 0..n : a <= d /\ d - a = m /\ ~Fine(a, d)
    BY <2>1
  <2>3. a \in Nat /\ d \in Nat /\ m \in Nat
    BY <1>1, <2>1
  <2>4. ASSUME NEW b \in 1 .. n + 1, NEW c \in 0..n, c - b < d - a, Sentence(b, c)
        PROVE  Nested(b, c)
    <3>1. b <= c
      BY <1>2, <2>4
    <3>2. c - b \in Nat /\ ~(m <= c - b)
      BY <1>1, <2>2, <2>4, <3>1
    <3> QED
      BY <2>1, <2>4, <3>1, <3>2
  <2>5. ASSUME NEW k \in a..d, Type(k) \in Loose, Sentence(a, k - 1), Sentence(k + 1, d)
        PROVE  Nested(a, d)
    <3>1. /\ k - 1 \in 0..n /\ k + 1 \in 1 .. n + 1
          /\ (k - 1) - a < d - a /\ d - (k + 1) < d - a
          /\ k \in Nat /\ k <= d /\ k <= k + 1
      BY <1>1, <2>3
    <3>2. Nested(a, k - 1) /\ Nested(k + 1, d)
      BY <2>4, <2>5, <3>1
    <3>3. k + 1 <= d
      BY <1>2, <2>5, <3>1
    <3>4. Nested(k, k)
      <4>1. \A i \in k..k : i = k
        BY <3>1
      <4>2. Type(k) \notin Opening \cup Closing
        BY <2>5 DEF Loose, Opening, Closing
      <4> QED
        BY <3>1, <4>1, <4>2, NestedPlain
    <3>5. Nested(k, d)
      BY <2>3, <3>1, <3>2, <3>4, NestedConcat
    <3>6. PICK j \in Nat : j = k - 1
      BY <3>1
    <3>7. a <= j + 1 /\ j <= d /\ j + 1 = k
      BY <2>3, <3>1, <3>6
    <3> QED
      BY <2>3, <3>2, <3>5, <3>6, <3>7, NestedConcat
  <2>6. Sentence(a, d) /\ ~Nested(a, d)
    BY <2>2
  <2>7. CASE Outside(a, d, "OR") # {}
    <3>1. PICK k : k = Max(Outside(a, d, "OR"))
      OBVIOUS
    <3>2. k \in a..d /\ Type(k) = "OR"
      BY <2>7, <3>1, OutsideFacts
    <3>3. Expression(a, d) = Joined("or", Expression(a, k - 1), Expression(k + 1, d))
      BY <2>2, <2>7, <3>1, ExpressionFacts
    <3>4. Sentence(a, k - 1) /\ Sentence(k + 1, d)
      BY <2>6, <3>3 DEF Joined, Sentence
    <3>5. Type(k) \in Loose
      BY <3>2 DEF Loose
    <3> QED
      BY <2>5, <2>6, <3>2, <3>4, <3>5
  <2>8. CASE Outside(a, d, "OR") = {} /\ Outside(a, d, "AND") # {}
    <3>1. PICK k : k = Max(Outside(a, d, "AND"))
      OBVIOUS
    <3>2. k \in a..d /\ Type(k) = "AND"
      BY <2>8, <3>1, OutsideFacts
    <3>3. Expression(a, d) = Joined("and", Expression(a, k - 1), Expression(k + 1, d))
      BY <2>2, <2>8, <3>1, ExpressionFacts
    <3>4. Sentence(a, k - 1) /\ Sentence(k + 1, d)
      BY <2>6, <3>3 DEF Joined, Sentence
    <3>5. Type(k) \in Loose
      BY <3>2 DEF Loose
    <3> QED
      BY <2>5, <2>6, <3>2, <3>4, <3>5
  <2>9. CASE Outside(a, d, "OR") = {} /\ Outside(a, d, "AND") = {}
    <3>1. Expression(a, d) =
            IF Type(a) = "NOT"
            THEN IF Expression(a + 1, d) = NoExpr THEN NoExpr
                 ELSE [is |-> "not", of |-> Expression(a + 1, d)]
            ELSE IF Type(a) = "(" /\ Type(d) = ")" THEN Expression(a + 1, d - 1)
            ELSE IF IsLeaf(a, d) THEN [is |-> "leaf", from |-> a, to |-> d] ELSE NoExpr
      BY <2>2, <2>9, ExpressionFacts
    <3>2. CASE Type(a) = "NOT"
      <4>1. Sentence(a + 1, d)
        BY <2>6, <3>1, <3>2 DEF Sentence
      <4>2. a + 1 \in 1 .. n + 1 /\ d - (a + 1) < d - a
        BY <1>1, <2>2, <2>3
      <4>3. Nested(a + 1, d)
        BY <2>4, <4>1, <4>2
      <4>4. Nested(a, a)
        <5>1. \A i \in a..a : i = a
          BY <2>3
        <5>2. Type(a) \notin Opening \cup Closing /\ a <= a + 1
          BY <2>3, <3>2 DEF Opening, Closing
        <5> QED
          BY <2>3, <5>1, <5>2, NestedPlain
      <4>5. a <= a + 1
        BY <2>3
      <4> QED
        BY <2>2, <2>3, <2>6, <4>3, <4>4, <4>5, NestedConcat
    <3>3. CASE Type(a) = "(" /\ Type(d) = ")"
      <4>1. Sentence(a + 1, d - 1)
        BY <2>6, <3>1, <3>3 DEF Sentence
      <4>2. a + 1 \in 1 .. n + 1 /\ d - 1 \in 0..n /\ (d - 1) - (a + 1) < d - a
        BY <1>1, <2>2, <2>3
      <4>3. Nested(a + 1, d - 1) /\ a + 1 <= d - 1
        BY <1>2, <2>4, <4>1, <4>2
      <4>4. a < d
        BY <2>3, <4>3
      <4>5. Type(a) \in Opening /\ Type(d) \in Closing
        BY <3>3 DEF Opening, Closing
      <4> QED
        BY <2>3, <2>6, <4>3, <4>4, <4>5, NestedIn
    <3>4. CASE IsLeaf(a, d)
      BY <2>6, <3>4, LeafQuiet DEF Quiet
    <3> QED
      BY <2>6, <3>1, <3>2, <3>3, <3>4 DEF Sentence
  <2> QED
    BY <2>7, <2>8, <2>9
<1>4. ASSUME NEW a \in 1 .. n + 1, NEW d \in 0..n, Sentence(a, d) PROVE Nested(a, d)
  <2>1. a <= d
    BY <1>2, <1>4
  <2>2. d - a \in Nat
    BY <1>1, <2>1
  <2> QED
    BY <1>3, <1>4, <2>1, <2>2
<1> QED
  BY <1>2, <1>4

\* An expression, OR, and an expression without an OR outside its brackets.
LEMMA JoinOr ==
  ASSUME tokens \in Seq(Token), NEW a \in 1 .. Len(tokens) + 1, NEW d \in 0 .. Len(tokens),
         NEW k \in a..d, Type(k) = "OR", Sentence(a, k - 1), Sentence(k + 1, d), Free(k + 1, d, "OR")
  PROVE  /\ Expression(a, d) = [is |-> "or", left |-> Expression(a, k - 1), right |-> Expression(k + 1, d)]
         /\ Sentence(a, d)
<1>1. k - 1 \in 0 .. Len(tokens) /\ a <= d
  OBVIOUS
<1>2. Nested(a, k - 1)
  BY <1>1, SentenceNested
<1>3. Type(k) \in Loose
  BY DEF Loose
<1>4. Outside(a, d, "OR") # {} /\ Max(Outside(a, d, "OR")) = k
  BY <1>2, <1>3, LastOutside
<1>5. Expression(a, d) = Joined("or", Expression(a, k - 1), Expression(k + 1, d))
  BY <1>1, <1>4, ExpressionFacts
<1>6. Expression(a, d) = [is |-> "or", left |-> Expression(a, k - 1), right |-> Expression(k + 1, d)]
  BY <1>5 DEF Joined, Sentence
<1>7. Sentence(a, d)
  <2>1. Expression(a, d).is = "or"
    BY <1>6
  <2>2. NoExpr.is = "none"
    BY DEF NoExpr
  <2> QED
    BY <2>1, <2>2 DEF Sentence
<1> QED
  BY <1>6, <1>7

\* The same of AND; what it joins has neither an OR nor, behind, an AND.
LEMMA JoinAnd ==
  ASSUME tokens \in Seq(Token), NEW a \in 1 .. Len(tokens) + 1, NEW d \in 0 .. Len(tokens),
         NEW k \in a..d, Type(k) = "AND", Sentence(a, k - 1), Sentence(k + 1, d),
         Free(a, k - 1, "OR"), Free(k + 1, d, "OR"), Free(k + 1, d, "AND")
  PROVE  /\ Expression(a, d) = [is |-> "and", left |-> Expression(a, k - 1), right |-> Expression(k + 1, d)]
         /\ Sentence(a, d) /\ Free(a, d, "OR")
<1>1. k - 1 \in 0 .. Len(tokens) /\ a <= d
  OBVIOUS
<1>2. Nested(a, k - 1)
  BY <1>1, SentenceNested
<1>3. Type(k) \in Loose
  BY DEF Loose
<1>4. Outside(a, d, "AND") # {} /\ Max(Outside(a, d, "AND")) = k
  BY <1>2, <1>3, LastOutside
<1>5. Outside(a, d, "OR") = {}
  BY <1>2, <1>3, LastOutside DEF Free
<1>6. Expression(a, d) = Joined("and", Expression(a, k - 1), Expression(k + 1, d))
  BY <1>1, <1>4, <1>5, ExpressionFacts
<1>7. Expression(a, d) = [is |-> "and", left |-> Expression(a, k - 1), right |-> Expression(k + 1, d)]
  BY <1>6 DEF Joined, Sentence
<1>8. Sentence(a, d)
  <2>1. Expression(a, d).is = "and"
    BY <1>7
  <2>2. NoExpr.is = "none"
    BY DEF NoExpr
  <2> QED
    BY <2>1, <2>2 DEF Sentence
<1> QED
  BY <1>5, <1>7, <1>8 DEF Free

\* An expression without AND and OR outside its brackets.
Unary(a, d) == Sentence(a, d) /\ Free(a, d, "AND") /\ Free(a, d, "OR")

LEMMA NotOf ==
  ASSUME tokens \in Seq(Token), NEW a \in 1 .. Len(tokens) + 1, NEW d \in 0 .. Len(tokens),
         Type(a) = "NOT", a < d, Unary(a + 1, d)
  PROVE  Expression(a, d) = [is |-> "not", of |-> Expression(a + 1, d)] /\ Unary(a, d)
<1>1. a \in Nat /\ d \in Nat /\ a <= a + 1 /\ a <= d
  OBVIOUS
<1>2. Nested(a, a)
  <2>1. \A i \in a..a : i = a
    BY <1>1
  <2>2. Type(a) \notin Opening \cup Closing
    BY DEF Opening, Closing
  <2> QED
    BY <1>1, <2>1, <2>2, NestedPlain
<1>3. \A type \in Loose : Outside(a, a, type) = {}
  <2>1. \A i \in a..a : i = a
    BY <1>1
  <2> QED
    BY <2>1 DEF Outside, Loose
<1>4. \A type \in Loose : Outside(a, d, type) = Outside(a + 1, d, type)
  <2> SUFFICES ASSUME NEW type \in Loose
               PROVE  Outside(a, d, type) = Outside(a + 1, d, type)
    OBVIOUS
  <2>1. Outside(a, d, type) = Outside(a, a, type) \cup Outside(a + 1, d, type)
    BY <1>1, <1>2, OutsideSplit
  <2> QED
    BY <1>3, <2>1
<1>5. Outside(a, d, "OR") = {} /\ Outside(a, d, "AND") = {}
  BY <1>4 DEF Unary, Free, Loose
<1>6. Expression(a + 1, d) # NoExpr
  BY DEF Unary, Sentence
<1>7. Expression(a, d) = [is |-> "not", of |-> Expression(a + 1, d)]
  BY <1>1, <1>5, <1>6, ExpressionFacts
<1>8. Sentence(a, d)
  <2>1. Expression(a, d).is = "not"
    BY <1>7
  <2>2. NoExpr.is = "none"
    BY DEF NoExpr
  <2> QED
    BY <2>1, <2>2 DEF Sentence
<1> QED
  BY <1>5, <1>7, <1>8 DEF Unary, Free

LEMMA GroupOf ==
  ASSUME tokens \in Seq(Token), NEW a \in 1 .. Len(tokens) + 1, NEW d \in 0 .. Len(tokens),
         Type(a) = "(", Type(d) = ")", a < d, Sentence(a + 1, d - 1)
  PROVE  Expression(a, d) = Expression(a + 1, d - 1) /\ Unary(a, d)
<1>1. a \in Nat /\ d \in Nat /\ a <= d /\ a + 1 \in 1 .. Len(tokens) + 1 /\ d - 1 \in 0 .. Len(tokens)
  OBVIOUS
<1>2. Nested(a + 1, d - 1)
  BY <1>1, SentenceNested
<1>3. Type(a) \in Opening /\ Type(d) \in Closing
  BY DEF Opening, Closing
<1>4. Outside(a, d, "AND") = {} /\ Outside(a, d, "OR") = {}
  BY <1>1, <1>2, <1>3, OutsideIn
<1>5. Expression(a, d) = Expression(a + 1, d - 1)
  BY <1>1, <1>4, ExpressionFacts
<1> QED
  BY <1>4, <1>5 DEF Unary, Free, Sentence

LEMMA LeafOf ==
  ASSUME tokens \in Seq(Token), NEW a \in 1 .. Len(tokens) + 1, NEW d \in 0 .. Len(tokens),
         IsLeaf(a, d)
  PROVE  Expression(a, d) = [is |-> "leaf", from |-> a, to |-> d] /\ Unary(a, d)
<1>1. a + 2 <= d /\ Type(a) = "IDENT" /\ Quiet(a, d)
  BY LeafQuiet
<1>2. a <= d
  <2>1. a + 2 <= d
    BY <1>1
  <2> QED
    BY <2>1
<1>3. Outside(a, d, "AND") = {} /\ Outside(a, d, "OR") = {}
  BY <1>1, QuietOutside
<1>4. Expression(a, d) = [is |-> "leaf", from |-> a, to |-> d]
  BY <1>1, <1>2, <1>3, ExpressionFacts
<1>5. Sentence(a, d)
  <2>1. Expression(a, d).is = "leaf"
    BY <1>4
  <2>2. NoExpr.is = "none"
    BY DEF NoExpr
  <2> QED
    BY <2>1, <2>2 DEF Sentence
<1> QED
  BY <1>3, <1>4, <1>5 DEF Unary, Free

\* What a unary expression is.
LEMMA UnaryFacts ==
  ASSUME tokens \in Seq(Token), NEW a \in 1 .. Len(tokens) + 1, NEW d \in 0 .. Len(tokens),
         Unary(a, d)
  PROVE  \/ Type(a) = "NOT" /\ a < d /\ Unary(a + 1, d)
         \/ Type(a) = "(" /\ Type(d) = ")" /\ a < d /\ Sentence(a + 1, d - 1)
         \/ IsLeaf(a, d)
<1>1. a \in Nat /\ d \in Nat /\ Len(tokens) \in Nat
  OBVIOUS
<1>2. a <= d
  BY SentenceNested DEF Unary
<1>3. Outside(a, d, "OR") = {} /\ Outside(a, d, "AND") = {}
  BY DEF Unary, Free
<1>4. Expression(a, d) # NoExpr
  BY DEF Unary, Sentence
<1>5. Expression(a, d) =
        IF Type(a) = "NOT"
        THEN IF Expression(a + 1, d) = NoExpr THEN NoExpr
             ELSE [is |-> "not", of |-> Expression(a + 1, d)]
        ELSE IF Type(a) = "(" /\ Type(d) = ")" THEN Expression(a + 1, d - 1)
        ELSE IF IsLeaf(a, d) THEN [is |-> "leaf", from |-> a, to |-> d] ELSE NoExpr
  BY <1>2, <1>3, ExpressionFacts
<1>6. CASE Type(a) = "NOT"
  <2>1. Sentence(a + 1, d)
    BY <1>4, <1>5, <1>6 DEF Sentence
  <2>2. a + 1 \in 1 .. Len(tokens) + 1
    BY <1>1, <1>2
  <2>3. a + 1 <= d
    BY <2>1, <2>2, SentenceNested
  <2>4. a < d /\ a <= a + 1
    BY <1>1, <2>3
  <2>5. Nested(a, a)
    <3>1. \A i \in a..a : i = a
      BY <1>1
    <3>2. Type(a) \notin Opening \cup Closing
      BY <1>6 DEF Opening, Closing
    <3> QED
      BY <1>1, <2>4, <3>1, <3>2, NestedPlain
  <2>6. \A type : Outside(a, d, type) = Outside(a, a, type) \cup Outside(a + 1, d, type)
    BY <1>1, <1>2, <2>4, <2>5, OutsideSplit
  <2>7. Outside(a + 1, d, "OR") = {} /\ Outside(a + 1, d, "AND") = {}
    BY <1>3, <2>6
  <2> QED
    BY <1>6, <2>1, <2>4, <2>7 DEF Unary, Free
<1>7. CASE Type(a) # "NOT" /\ Type(a) = "(" /\ Type(d) = ")"
  <2>1. Sentence(a + 1, d - 1)
    BY <1>4, <1>5, <1>7 DEF Sentence
  <2>2. a # d
    BY <1>7
  <2>3. a < d
    BY <1>2, <2>2
  <2> QED
    BY <1>7, <2>1, <2>3
<1>8. CASE Type(a) # "NOT" /\ ~(Type(a) = "(" /\ Type(d) = ")")
  BY <1>4, <1>5, <1>8
<1> QED
  BY <1>6, <1>7, <1>8

\* What may stand behind a unary expression, up to d.
Rest(x, d) ==
  \/ x = d + 1
  \/ x <= d /\ Type(x) \in Loose /\ Sentence(x + 1, d)

Chain(a, d) == \E q \in a..d : Unary(a, q) /\ Rest(q + 1, d)

\* Every expression begins with a unary one, behind which another is joined.
LEMMA SentenceChain ==
  ASSUME tokens \in Seq(Token)
  PROVE  \A a \in 1 .. Len(tokens) + 1, d \in 0 .. Len(tokens) : Sentence(a, d) => Chain(a, d)
<1> DEFINE n == Len(tokens)
           Fine(a, d) == Sentence(a, d) => Chain(a, d)
           Bad == {m \in Nat : \E a \in 1 .. n + 1, d \in 0..n : a <= d /\ d - a = m /\ ~Fine(a, d)}
<1>1. n \in Nat
  OBVIOUS
<1>2. \A a \in 1 .. n + 1, d \in 0..n : Sentence(a, d) => a <= d
  BY SentenceNested
<1>3. Bad = {}
  <2> SUFFICES ASSUME Bad # {} PROVE FALSE
    OBVIOUS
  <2>1. PICK m \in Bad : \A k \in Bad : m <= k
    <3>1. Bad \subseteq Nat
      OBVIOUS
    <3> HIDE DEF Bad
    <3> QED
      BY <3>1, LeastExists
  <2>2. PICK a \in 1 .. n + 1, d \in 0..n : a <= d /\ d - a = m /\ ~Fine(a, d)
    BY <2>1
  <2>3. a \in Nat /\ d \in Nat /\ m \in Nat
    BY <1>1, <2>1
  <2>4. ASSUME NEW c \in 0..n, c < d, Sentence(a, c)
        PROVE  Chain(a, c)
    <3>1. a <= c
      BY <1>2, <2>4
    <3>2. c - a \in Nat /\ ~(m <= c - a)
      BY <1>1, <2>2, <2>4, <3>1
    <3> QED
      BY <2>1, <2>4, <3>1, <3>2
  <2>5. Sentence(a, d) /\ ~Chain(a, d)
    BY <2>2
  <2>6. ASSUME NEW k \in a..d, Type(k) \in Loose, Sentence(a, k - 1), Sentence(k + 1, d),
               \A q \in a .. k - 2 : Nested(a, q) /\ Type(q + 1) \in Loose /\ Sentence(q + 2, k - 1)
                                     => Sentence(q + 2, d)
        PROVE  Chain(a, d)
    <3>1. k - 1 \in 0..n /\ k - 1 < d
      BY <1>1, <2>3
    <3>2. PICK q \in a .. k - 1 : Unary(a, q) /\ Rest(q + 1, k - 1)
      BY <2>4, <2>6, <3>1 DEF Chain
    <3>3. q \in a..d /\ q \in 0..n /\ q <= k - 1
      BY <1>1, <2>3
    <3>4. Nested(a, q)
      BY <3>2, <3>3, SentenceNested DEF Unary
    <3>5. Rest(q + 1, d)
      <4>1. CASE q + 1 = (k - 1) + 1
        <5>1. q + 1 = k /\ k <= d
          BY <3>3, <4>1
        <5>2. Type(q + 1) \in Loose /\ Sentence((q + 1) + 1, d)
          BY <2>6, <5>1
        <5> QED
          BY <5>1, <5>2 DEF Rest
      <4>2. CASE q + 1 <= k - 1 /\ Type(q + 1) \in Loose /\ Sentence((q + 1) + 1, k - 1)
        <5>1. q \in a .. k - 2 /\ (q + 1) + 1 = q + 2 /\ q + 1 <= d
          BY <2>3, <3>3, <4>2
        <5>2. Sentence(q + 2, d)
          BY <2>6, <3>4, <4>2, <5>1
        <5> QED
          BY <4>2, <5>1, <5>2 DEF Rest
      <4> QED
        BY <3>2, <4>1, <4>2 DEF Rest
    <3> QED
      BY <3>2, <3>3, <3>5 DEF Chain
  <2>7. ASSUME NEW k \in a..d, NEW q \in a .. k - 2
        PROVE  /\ q + 2 \in 1 .. n + 1 /\ k \in q + 2 .. d
               /\ q \in Nat /\ a <= q + 1 /\ q <= k - 1 /\ k - 1 \in Nat
    BY <1>1, <2>3
  <2>8. CASE Outside(a, d, "OR") # {}
    <3>1. PICK k : k = Max(Outside(a, d, "OR"))
      OBVIOUS
    <3>2. k \in a..d /\ Type(k) = "OR" /\ Depth(a, k) = 0 /\ \A i \in Outside(a, d, "OR") : i <= k
      BY <2>8, <3>1, OutsideFacts
    <3>3. Expression(a, d) = Joined("or", Expression(a, k - 1), Expression(k + 1, d))
      BY <2>2, <2>8, <3>1, ExpressionFacts
    <3>4. Sentence(a, k - 1) /\ Sentence(k + 1, d)
      BY <2>5, <3>3 DEF Joined, Sentence
    <3>5. Type(k) \in Loose
      BY <3>2 DEF Loose
    <3>6. Free(k + 1, d, "OR")
      <4>1. k \in Nat /\ a <= k + 1 /\ k <= d /\ k - 1 \in 0..n /\ a <= k /\ k <= k + 1
        BY <1>1, <2>3, <3>2
      <4>2. Nested(a, k)
        <5>1. Nested(a, k - 1)
          BY <3>4, <4>1, SentenceNested
        <5>2. Nested(k, k)
          <6>1. \A i \in k..k : i = k
            BY <4>1
          <6>2. Type(k) \notin Opening \cup Closing
            BY <3>5 DEF Loose, Opening, Closing
          <6> QED
            BY <4>1, <6>1, <6>2, NestedPlain
        <5>3. PICK j \in Nat : j = k - 1
          BY <2>3, <4>1
        <5>4. a <= j + 1 /\ j <= k /\ j + 1 = k
          BY <4>1, <5>3
        <5> QED
          BY <2>3, <4>1, <5>1, <5>2, <5>3, <5>4, NestedConcat
      <4>3. Outside(a, d, "OR") = Outside(a, k, "OR") \cup Outside(k + 1, d, "OR")
        BY <2>3, <4>1, <4>2, OutsideSplit
      <4>4. \A i \in Outside(k + 1, d, "OR") : i \in k + 1 .. d
        BY DEF Outside
      <4>5. \A i \in Outside(k + 1, d, "OR") : i <= k
        BY <3>2, <4>3
      <4>6. \A i \in k + 1 .. d : ~(i <= k)
        BY <2>3, <4>1
      <4> QED
        BY <4>4, <4>5, <4>6 DEF Free
    <3>7. ASSUME NEW q \in a .. k - 2, Sentence(q + 2, k - 1) PROVE Sentence(q + 2, d)
      <4>1. q + 2 \in 1 .. n + 1 /\ k \in q + 2 .. d
        BY <2>7, <3>2
      <4> QED
        BY <3>2, <3>4, <3>6, <3>7, <4>1, JoinOr
    <3> QED
      BY <2>5, <2>6, <3>2, <3>4, <3>5, <3>7
  <2>9. CASE Outside(a, d, "OR") = {} /\ Outside(a, d, "AND") # {}
    <3>1. PICK k : k = Max(Outside(a, d, "AND"))
      OBVIOUS
    <3>2. k \in a..d /\ Type(k) = "AND" /\ Depth(a, k) = 0 /\ \A i \in Outside(a, d, "AND") : i <= k
      BY <2>9, <3>1, OutsideFacts
    <3>3. Expression(a, d) = Joined("and", Expression(a, k - 1), Expression(k + 1, d))
      BY <2>2, <2>9, <3>1, ExpressionFacts
    <3>4. Sentence(a, k - 1) /\ Sentence(k + 1, d)
      BY <2>5, <3>3 DEF Joined, Sentence
    <3>5. Type(k) \in Loose
      BY <3>2 DEF Loose
    <3>6. k \in Nat /\ a <= k + 1 /\ k <= d /\ k - 1 \in 0..n /\ a <= k /\ k <= k + 1
      BY <1>1, <2>3, <3>2
    <3>7. PICK j \in Nat : j = k - 1
      BY <3>6
    <3>8. a <= j + 1 /\ j <= k /\ j <= d /\ j + 1 = k
      BY <3>6, <3>7
    <3>9. Nested(a, j)
      BY <3>4, <3>6, <3>7, SentenceNested
    <3>10. Nested(a, k)
      <4>1. Nested(k, k)
        <5>1. \A i \in k..k : i = k
          BY <3>6
        <5>2. Type(k) \notin Opening \cup Closing
          BY <3>5 DEF Loose, Opening, Closing
        <5> QED
          BY <3>6, <5>1, <5>2, NestedPlain
      <4> QED
        BY <2>3, <3>6, <3>8, <3>9, <4>1, NestedConcat
    <3>11. Outside(a, d, "AND") = Outside(a, k, "AND") \cup Outside(k + 1, d, "AND")
      BY <2>3, <3>6, <3>10, OutsideSplit
    <3>12. Outside(a, d, "OR") = Outside(a, k, "OR") \cup Outside(k + 1, d, "OR")
      BY <2>3, <3>6, <3>10, OutsideSplit
    <3>13. Outside(a, d, "OR") = Outside(a, j, "OR") \cup Outside(k, d, "OR")
      BY <2>3, <3>6, <3>8, <3>9, OutsideSplit
    <3>14. Free(k + 1, d, "OR") /\ Free(a, k - 1, "OR")
      BY <2>9, <3>7, <3>12, <3>13 DEF Free
    <3>15. Free(k + 1, d, "AND")
      <4>1. \A i \in Outside(k + 1, d, "AND") : i \in k + 1 .. d
        BY DEF Outside
      <4>2. \A i \in Outside(k + 1, d, "AND") : i <= k
        BY <3>2, <3>11
      <4>3. \A i \in k + 1 .. d : ~(i <= k)
        BY <2>3, <3>6
      <4> QED
        BY <4>1, <4>2, <4>3 DEF Free
    <3>16. ASSUME NEW q \in a .. k - 2, Nested(a, q), Type(q + 1) \in Loose, Sentence(q + 2, k - 1)
           PROVE  Sentence(q + 2, d)
      <4>1. /\ q + 2 \in 1 .. n + 1 /\ k \in q + 2 .. d
            /\ q \in Nat /\ a <= q + 1 /\ q <= k - 1 /\ k - 1 \in Nat
        BY <2>7, <3>2
      <4>2. Outside(a, k - 1, "OR") = Outside(a, q, "OR") \cup Outside(q + 1, k - 1, "OR")
        BY <2>3, <3>16, <4>1, OutsideSplit
      <4>3. Free(q + 1, k - 1, "OR")
        BY <3>14, <4>2 DEF Free
      <4>4. PICK p \in Nat : p = q + 1
        BY <4>1
      <4>5. p <= p + 1 /\ p <= k - 1 /\ p + 1 = q + 2
        BY <3>6, <4>4
      <4>6. Nested(p, p)
        <5>1. \A i \in p..p : i = p
          BY <4>4
        <5>2. Type(p) \notin Opening \cup Closing
          BY <3>16, <4>4 DEF Loose, Opening, Closing
        <5> QED
          BY <4>5, <5>1, <5>2, NestedPlain
      <4>7. Outside(p, k - 1, "OR") = Outside(p, p, "OR") \cup Outside(p + 1, k - 1, "OR")
        BY <4>1, <4>5, <4>6, OutsideSplit
      <4>8. Free(q + 2, k - 1, "OR")
        BY <4>3, <4>4, <4>5, <4>7 DEF Free
      <4> QED
        BY <3>2, <3>4, <3>14, <3>15, <3>16, <4>1, <4>8, JoinAnd
    <3> QED
      BY <2>5, <2>6, <3>2, <3>4, <3>5, <3>16
  <2>10. CASE Outside(a, d, "OR") = {} /\ Outside(a, d, "AND") = {}
    <3>1. Unary(a, d)
      BY <2>5, <2>10 DEF Unary, Free
    <3>2. d \in a..d
      BY <2>2, <2>3
    <3>3. Rest(d + 1, d)
      BY DEF Rest
    <3> QED
      BY <2>5, <3>1, <3>2, <3>3 DEF Chain
  <2> QED
    BY <2>8, <2>9, <2>10
<1>4. ASSUME NEW a \in 1 .. n + 1, NEW d \in 0..n, Sentence(a, d) PROVE Chain(a, d)
  <2>1. a <= d
    BY <1>2, <1>4
  <2>2. d - a \in Nat
    BY <1>1, <2>1
  <2> QED
    BY <1>3, <1>4, <2>1, <2>2
<1> QED
  BY <1>4

\* The items of a list, in two parts.
LEMMA ItemsAppend ==
  ASSUME tokens \in Seq(Token)
  PROVE  \A a \in 1 .. Len(tokens) + 1, b, c \in 0 .. Len(tokens) :
           a <= b + 1 /\ b <= c /\ Items(a, b) /\ Items(b + 1, c) => Items(a, c)
<1> DEFINE n == Len(tokens)
           Fine(a, b, c) == Items(a, b) /\ Items(b + 1, c) => Items(a, c)
           Bad == {m \in Nat : \E a \in 1 .. n + 1, b, c \in 0..n :
                                 b + 1 - a = m /\ b <= c /\ ~Fine(a, b, c)}
<1>1. n \in Nat
  OBVIOUS
<1>2. Bad = {}
  <2> SUFFICES ASSUME Bad # {} PROVE FALSE
    OBVIOUS
  <2>1. PICK m \in Bad : \A k \in Bad : m <= k
    <3>1. Bad \subseteq Nat
      OBVIOUS
    <3> HIDE DEF Bad
    <3> QED
      BY <3>1, LeastExists
  <2>2. PICK a \in 1 .. n + 1, b \in 0..n, c \in 0..n : b + 1 - a = m /\ b <= c /\ ~Fine(a, b, c)
    BY <2>1
  <2>3. m \in Nat /\ Items(a, b) /\ Items(b + 1, c) /\ ~Items(a, c)
    BY <2>1, <2>2
  <2>4. ASSUME NEW k \in a + 1 .. b + 1, Items(k, b) PROVE Items(k, c)
    <3>1. k \in 1 .. n + 1 /\ b + 1 - k \in Nat /\ ~(m <= b + 1 - k)
      BY <1>1, <2>2
    <3> QED
      BY <2>1, <2>2, <2>3, <2>4, <3>1
  <2>5. CASE a > b
    <3>1. a = b + 1
      BY <2>2, <2>3, <2>5
    <3> QED
      BY <2>3, <3>1
  <2>6. CASE \E k \in a..b : /\ Value(a, k)
                             /\ \/ Items(k + 1, b)
                                \/ k < b /\ Type(k + 1) = "," /\ Items(k + 2, b)
    <3>1. PICK k \in a..b : /\ Value(a, k)
                            /\ \/ Items(k + 1, b)
                               \/ k < b /\ Type(k + 1) = "," /\ Items(k + 2, b)
      BY <2>6
    <3>2. k \in a..c /\ k + 1 \in a + 1 .. b + 1 /\ (k < b => k < c /\ k + 2 \in a + 1 .. b + 1)
      BY <1>1, <2>2
    <3>3. \/ Items(k + 1, c)
          \/ k < c /\ Type(k + 1) = "," /\ Items(k + 2, c)
      BY <2>4, <3>1, <3>2
    <3>4. Items(a, c)
      BY <3>1, <3>2, <3>3, Grammar
    <3> QED
      BY <2>3, <3>4
  <2> QED
    BY <2>3, <2>5, <2>6, Grammar
<1> SUFFICES ASSUME NEW a \in 1 .. n + 1, NEW b \in 0..n, NEW c \in 0..n, a <= b + 1, b <= c
             PROVE  Fine(a, b, c)
  OBVIOUS
<1>3. b + 1 - a \in Nat
  BY <1>1
<1> QED
  BY <1>2, <1>3

\* One more value, with a comma behind it or without.
LEMMA ItemsMore ==
  ASSUME tokens \in Seq(Token), NEW a \in 1 .. Len(tokens) + 1, NEW v \in 1 .. Len(tokens),
         NEW q \in 1 .. Len(tokens), a <= v, Items(a, v - 1), Value(v, q)
  PROVE  /\ v <= q /\ Items(a, q)
         /\ q < Len(tokens) /\ Type(q + 1) = "," => Items(a, q + 1)
<1>1. Len(tokens) \in Nat /\ v \in Nat /\ q \in Nat /\ a \in Nat
  OBVIOUS
<1>2. v <= q
  <2>1. v \in 1 .. Len(tokens) + 1 /\ q \in 0 .. Len(tokens)
    BY <1>1
  <2> QED
    BY <2>1, ValueFacts
<1>3. PICK u \in 0 .. Len(tokens) : u = v - 1
  BY <1>1
<1>4. Items(a, u) /\ u + 1 = v /\ a <= u + 1 /\ u <= q
  BY <1>1, <1>2, <1>3
<1>5. Items(q + 1, q)
  <2>1. q + 1 \in 1 .. Len(tokens) + 1 /\ q \in 0 .. Len(tokens) /\ q + 1 > q
    BY <1>1
  <2> QED
    BY <2>1, Grammar
<1>6. v \in 1 .. Len(tokens) + 1 /\ q \in 0 .. Len(tokens) /\ q \in v..q
  BY <1>1, <1>2
<1>7. Items(v, q)
  BY <1>5, <1>6, Grammar
<1>8. Items(a, q)
  BY <1>4, <1>6, <1>7, ItemsAppend
<1>9. ASSUME q < Len(tokens), Type(q + 1) = "," PROVE Items(a, q + 1)
  <2>0. q < Len(tokens)
    BY <1>9
  <2>1. PICK r \in 0 .. Len(tokens) : r = q + 1
    BY <1>1, <2>0
  <2>2. q + 2 \in 1 .. Len(tokens) + 1 /\ q + 2 > r /\ q \in v..r /\ q < r /\ u <= r
    BY <1>1, <1>2, <1>4, <2>0, <2>1
  <2>3. Items(q + 2, r)
    BY <2>2, Grammar
  <2>4. Items(v, r)
    BY <1>6, <1>9, <2>1, <2>2, <2>3, Grammar
  <2>5. Items(a, r)
    BY <1>4, <2>2, <2>4, ItemsAppend
  <2> QED
    BY <2>1, <2>5
<1> QED
  BY <1>2, <1>8, <1>9

-----------------------------------------------------------------------------
(***************************************************************************)
(* THE METHODS IN PROGRESS                                                 *)
(*                                                                         *)
(* What the parser has read is cut where a method called another: b[k] is  *)
(* the first token of what the k-th method on the stack waits for, b[0]    *)
(* that of the query.  If the query is a sentence, d[k] is the last token  *)
(* of what it waits for, d[0] that of the query.                           *)
(***************************************************************************)

\* Methods that wait for an expression.
Exprs == {"parse", "not", "group", "and", "or"}

Kind(s, k) == IF k = 0 THEN "parse" ELSE s[k].is

\* A method that began to read at a has come to a value at v.
ValueAt(kind, a, v) ==
  \/ kind = "predicate" /\ v = a
  \/ kind = "list" /\ a <= v /\ Items(a, v - 1)

\* Method f, called by one that began at a, waits for what begins at c.
Framed(kind, f, a, c) ==
  \/ f.is = "not" /\ kind \in Exprs /\ c = a + 1 /\ Type(a) = "NOT"
  \/ f.is = "group" /\ kind \in Exprs /\ c = a + 1 /\ Type(a) = "("
  \/ /\ f.is = "or" /\ kind \in {"parse", "group"}
     /\ a + 2 <= c /\ Type(c - 1) = "OR"
     /\ Sentence(a, c - 2) /\ f.left = Expression(a, c - 2)
  \/ /\ f.is = "and" /\ kind \in {"parse", "group", "or"}
     /\ a + 2 <= c /\ Type(c - 1) = "AND"
     /\ Sentence(a, c - 2) /\ f.left = Expression(a, c - 2) /\ Free(a, c - 2, "OR")
  \/ /\ f.is = "predicate" /\ kind \in Exprs
     /\ f.from = a /\ c = a + 2 /\ Type(a) = "IDENT" /\ Type(a + 1) \in Operators
  \/ /\ f.is = "call" /\ f.from \in Nat \ {0} /\ c = f.from + 2
     /\ Type(f.from) = "IDENT" /\ Type(f.from + 1) = "("
     /\ \/ f.of = "expr" /\ kind \in Exprs /\ f.from = a
        \/ f.of = "value" /\ ValueAt(kind, a, f.from)
  \/ /\ f.is = "list" /\ a < c /\ Type(c - 1) = "[" /\ ValueAt(kind, a, c - 1)

\* What has been read up to p, by a method that waits for what begins at a.
Here(kind, a, p, w, h) ==
  \/ w = "expr" /\ kind \in Exprs /\ p = a
  \/ w = "value" /\ kind = "predicate" /\ p = a
  \/ w = "item" /\ kind = "list" /\ a <= p /\ Items(a, p - 1)
  \/ /\ w = "arg" /\ kind = "call"
     /\ \/ p = a
        \/ a + 2 <= p /\ Arguments(a, p - 2) /\ Type(p - 1) = ","
  \/ w = "args" /\ kind = "call" /\ a <= p /\ Arguments(a, p - 1) /\ (p = a => Type(p) = ")")
  \/ /\ w = "rest" /\ kind \in Exprs
     /\ a < p /\ Sentence(a, p - 1) /\ h = Expression(a, p - 1)
     /\ kind \in {"not", "and"} => Unary(a, p - 1)
     /\ kind = "or" \/ Type(p) = "AND" => Free(a, p - 1, "OR")

\* What may stand behind an item of a list, up to d.
Follow(x, d) ==
  \/ Items(x, d)
  \/ x <= d /\ Type(x) = "," /\ Items(x + 1, d)

\* A value may end with e, for a method that waits for what ends with d.
ValueEnds(kind, d, e) ==
  \/ kind = "predicate" /\ e = d
  \/ kind = "list" /\ e <= d /\ Follow(e + 1, d)

\* Method f waits for what ends with e, its caller for what ends with d.
Ended(kind, f, d, e) ==
  \/ f.is \in {"not", "and", "or"} /\ e = d
  \/ f.is = "group" /\ e < d /\ Type(e + 1) = ")" /\ Rest(e + 2, d)
  \/ f.is = "predicate" /\ e <= d /\ Rest(e + 1, d)
  \/ /\ f.is = "call" /\ Type(e) = ")"
     /\ \/ f.of = "expr" /\ e <= d /\ Rest(e + 1, d)
        \/ f.of = "value" /\ ValueEnds(kind, d, e)
  \/ f.is = "list" /\ e < d /\ Type(e + 1) = "]" /\ ValueEnds(kind, d, e + 1)

Closed(kind, d) == kind \in Exprs => Type(d + 1) \in {")", "EOF"}

\* What is left from p to d is what can be read.
Ahead(d, p, w) ==
  \/ w = "expr" /\ Chain(p, d)
  \/ w = "value" /\ Value(p, d)
  \/ w = "item" /\ p <= d + 1 /\ Items(p, d)
  \/ w = "arg" /\ p < d /\ Arguments(p, d - 1)
  \/ /\ w = "args"
     /\ \/ p = d
        \/ p + 1 < d /\ Type(p) = "," /\ Arguments(p + 1, d - 1)
  \/ w = "rest" /\ Rest(p, d)

Whole == Sentence(1, Len(tokens) - 1)

Frames(s, b, d) ==
  /\ \A k \in 0 .. Len(s) : b[k] \in 1 .. Len(tokens) /\ d[k] \in 0 .. Len(tokens) - 1
  /\ b[0] = 1 /\ d[0] = Len(tokens) - 1
  /\ \A k \in 1 .. Len(s) : Framed(Kind(s, k - 1), s[k], b[k - 1], b[k])
  /\ Whole => /\ \A k \in 1 .. Len(s) : Ended(Kind(s, k - 1), s[k], d[k - 1], d[k])
              /\ \A k \in 0 .. Len(s) : Closed(Kind(s, k), d[k])

IsSeq(s) == \E S : s \in Seq(S)

Traced(s, p, w, h) ==
  /\ IsSeq(s) /\ p \in 1 .. Len(tokens)
  /\ \E b, d : /\ Frames(s, b, d)
               /\ Here(Kind(s, Len(s)), b[Len(s)], p, w, h)
               /\ Whole => Ahead(d[Len(s)], p, w)

\* The last token, and no other, is the end.
Lexed ==
  /\ tokens \in Seq(Token) /\ tokens # << >>
  /\ \A k \in 1 .. Len(tokens) : Type(k) = "EOF" <=> k = Len(tokens)

LEMMA LexedFacts ==
  ASSUME Lexed
  PROVE  /\ tokens \in Seq(Token) /\ Len(tokens) \in Nat /\ Len(tokens) >= 1
         /\ Type(Len(tokens)) = "EOF"
         /\ \A k \in 1 .. Len(tokens) : Type(k) # "EOF" => k < Len(tokens)
<1>1. tokens \in Seq(Token) /\ tokens # << >>
  BY DEF Lexed
<1>2. Len(tokens) \in Nat /\ Len(tokens) # 0
  BY <1>1, EmptySeq
<1>3. Len(tokens) >= 1
  BY <1>2
<1>4. Len(tokens) \in 1 .. Len(tokens)
  BY <1>2, <1>3
<1>5. Type(Len(tokens)) = "EOF"
  BY <1>4 DEF Lexed
<1>6. \A k \in 1 .. Len(tokens) : k # Len(tokens) => k < Len(tokens)
  BY <1>2
<1>7. \A k \in 1 .. Len(tokens) : Type(k) # "EOF" => k < Len(tokens)
  BY <1>5, <1>6
<1> QED
  BY <1>1, <1>2, <1>3, <1>5, <1>7

LEMMA StackFacts ==
  ASSUME NEW s, IsSeq(s)
  PROVE  /\ Len(s) \in Nat /\ (s = << >> <=> Len(s) = 0)
         /\ \A f : /\ IsSeq(Append(s, f)) /\ Len(Append(s, f)) = Len(s) + 1
                   /\ \A k \in 1 .. Len(s) : Append(s, f)[k] = s[k]
                   /\ Append(s, f)[Len(s) + 1] = f
         /\ \A j \in 0 .. Len(s) : /\ IsSeq(SubSeq(s, 1, j)) /\ Len(SubSeq(s, 1, j)) = j
                                   /\ \A k \in 1..j : SubSeq(s, 1, j)[k] = s[k]
<1>1. PICK S : s \in Seq(S)
  BY DEF IsSeq
<1>2. Len(s) \in Nat /\ (s = << >> <=> Len(s) = 0)
  BY <1>1, EmptySeq
<1>3. ASSUME NEW f
      PROVE  /\ IsSeq(Append(s, f)) /\ Len(Append(s, f)) = Len(s) + 1
             /\ \A k \in 1 .. Len(s) : Append(s, f)[k] = s[k]
             /\ Append(s, f)[Len(s) + 1] = f
  <2>1. s \in Seq(S \cup {f}) /\ f \in S \cup {f}
    BY <1>1, <1>2, SeqDef
  <2>2. Append(s, f) \in Seq(S \cup {f})
    BY <2>1
  <2>3. /\ Len(Append(s, f)) = Len(s) + 1
        /\ \A k \in 1 .. Len(s) : Append(s, f)[k] = s[k]
        /\ Append(s, f)[Len(s) + 1] = f
    BY <2>1, AppendProperties
  <2> QED
    BY <2>2, <2>3 DEF IsSeq
<1>4. ASSUME NEW j \in 0 .. Len(s)
      PROVE  /\ IsSeq(SubSeq(s, 1, j)) /\ Len(SubSeq(s, 1, j)) = j
             /\ \A k \in 1..j : SubSeq(s, 1, j)[k] = s[k]
  <2>1. \A k \in 1..j : k \in 1 .. Len(s)
    BY <1>2
  <2>2. SubSeq(s, 1, j) \in Seq(S)
    BY <1>1, <1>2, <2>1, SubSeqProperties, ElementOfSeq
  <2>3. Len(SubSeq(s, 1, j)) = j /\ \A k \in 1..j : SubSeq(s, 1, j)[k] = s[k]
    BY <1>1, <1>2
  <2> QED
    BY <2>2, <2>3 DEF IsSeq
<1> QED
  BY <1>2, <1>3, <1>4

LEMMA TopFacts ==
  ASSUME IsSeq(stack)
  PROVE  /\ Top.is = Kind(stack, Len(stack))
         /\ Len(stack) = 0 <=> stack = << >>
         /\ stack # << >> => /\ Len(stack) >= 1 /\ Len(stack) \in 1 .. Len(stack)
                             /\ Top = stack[Len(stack)] /\ Top.is = stack[Len(stack)].is
                             /\ Below = SubSeq(stack, 1, Len(stack) - 1)
<1>1. Len(stack) \in Nat /\ (stack = << >> <=> Len(stack) = 0)
  BY StackFacts
<1>2. CASE stack = << >>
  <2>1. Top = [is |-> "parse"]
    BY <1>2 DEF Top
  <2> QED
    BY <1>1, <1>2, <2>1 DEF Kind
<1>3. CASE stack # << >>
  <2>1. Top = stack[Len(stack)]
    BY <1>3 DEF Top, Last
  <2>2. Len(stack) >= 1 /\ Len(stack) \in 1 .. Len(stack) /\ Len(stack) # 0
    BY <1>1, <1>3
  <2>3. Below = SubSeq(stack, 1, Len(stack) - 1)
    BY DEF Below, Front
  <2> QED
    BY <1>1, <1>3, <2>1, <2>2, <2>3 DEF Kind
<1> QED
  BY <1>2, <1>3

\* Methods return: what waits below them waits for the same.
LEMMA CutFrames ==
  ASSUME NEW s, IsSeq(s), NEW b, NEW d, Frames(s, b, d), NEW j \in 0 .. Len(s)
  PROVE  /\ IsSeq(SubSeq(s, 1, j)) /\ Len(SubSeq(s, 1, j)) = j
         /\ Kind(SubSeq(s, 1, j), j) = Kind(s, j)
         /\ Frames(SubSeq(s, 1, j), b, d)
<1>1. Len(s) \in Nat
  BY StackFacts
<1>2. PICK t : t = SubSeq(s, 1, j)
  OBVIOUS
<1>3. IsSeq(t) /\ Len(t) = j /\ \A k \in 1..j : t[k] = s[k]
  BY <1>2, StackFacts
<1>4. \A k \in 0..j : Kind(t, k) = Kind(s, k)
  <2> SUFFICES ASSUME NEW k \in 0..j PROVE Kind(t, k) = Kind(s, k)
    OBVIOUS
  <2>1. k = 0 \/ k \in 1..j
    BY <1>1
  <2> QED
    BY <1>3, <2>1 DEF Kind
<1>5. j \in 0..j /\ \A k \in 0..j : k \in 0 .. Len(s)
  BY <1>1
<1>6. \A k \in 1..j : k \in 1 .. Len(s) /\ k - 1 \in 0..j
  BY <1>1
<1>7. Frames(t, b, d)
  <2>1. \A k \in 0..j : b[k] \in 1 .. Len(tokens) /\ d[k] \in 0 .. Len(tokens) - 1
    BY <1>5 DEF Frames
  <2>2. b[0] = 1 /\ d[0] = Len(tokens) - 1
    BY DEF Frames
  <2>3. \A k \in 1..j : Framed(Kind(t, k - 1), t[k], b[k - 1], b[k])
    BY <1>3, <1>4, <1>6 DEF Frames
  <2>4. Whole => \A k \in 1..j : Ended(Kind(t, k - 1), t[k], d[k - 1], d[k])
    BY <1>3, <1>4, <1>6 DEF Frames
  <2>5. Whole => \A k \in 0..j : Closed(Kind(t, k), d[k])
    BY <1>4, <1>5 DEF Frames
  <2> QED
    BY <1>3, <2>1, <2>2, <2>3, <2>4, <2>5 DEF Frames
<1> QED
  BY <1>2, <1>3, <1>4, <1>5, <1>7

\* A method calls another, which waits for what begins at the current token.
LEMMA PushFrames ==
  ASSUME NEW s, IsSeq(s), NEW b, NEW d, Frames(s, b, d), NEW f, NEW p \in 1 .. Len(tokens),
         NEW w, NEW h,
         Framed(Kind(s, Len(s)), f, b[Len(s)], p), Here(f.is, p, p, w, h),
         Whole => \E e \in 0 .. Len(tokens) - 1 :
                    Ended(Kind(s, Len(s)), f, d[Len(s)], e) /\ Closed(f.is, e) /\ Ahead(e, p, w)
  PROVE  Traced(Append(s, f), p, w, h)
<1>1. PICK L \in Nat : L = Len(s)
  BY StackFacts
<1>2. PICK t : t = Append(s, f)
  OBVIOUS
<1>3. IsSeq(t) /\ Len(t) = L + 1 /\ t[L + 1] = f /\ \A k \in 1..L : t[k] = s[k]
  BY <1>1, <1>2, StackFacts
<1>4. d[0] \in 0 .. Len(tokens) - 1
  BY <1>1 DEF Frames
<1>5. PICK e \in 0 .. Len(tokens) - 1 :
        Whole => Ended(Kind(s, L), f, d[L], e) /\ Closed(f.is, e) /\ Ahead(e, p, w)
  BY <1>1, <1>4
<1> DEFINE b2 == [k \in 0 .. L + 1 |-> IF k = L + 1 THEN p ELSE b[k]]
           d2 == [k \in 0 .. L + 1 |-> IF k = L + 1 THEN e ELSE d[k]]
<1>6. \A k \in 0..L : b2[k] = b[k] /\ d2[k] = d[k]
  OBVIOUS
<1>7. b2[L + 1] = p /\ d2[L + 1] = e
  OBVIOUS
<1> HIDE DEF b2, d2
<1>8. \A k \in 0..L : Kind(t, k) = Kind(s, k)
  <2> SUFFICES ASSUME NEW k \in 0..L PROVE Kind(t, k) = Kind(s, k)
    OBVIOUS
  <2>1. k = 0 \/ k \in 1..L
    OBVIOUS
  <2> QED
    BY <1>3, <2>1 DEF Kind
<1>9. Kind(t, L + 1) = f.is
  <2>1. L + 1 # 0
    OBVIOUS
  <2> QED
    BY <1>3, <2>1 DEF Kind
<1>10. /\ \A k \in 0 .. L + 1 : k = L + 1 \/ k \in 0..L
       /\ \A k \in 1 .. L + 1 : k = L + 1 \/ (k \in 1..L /\ k - 1 \in 0..L /\ k \in 0..L)
       /\ L \in 0..L /\ 0 \in 0..L /\ (L + 1) - 1 = L
  OBVIOUS
<1>11. Frames(t, b2, d2)
  <2>1. \A k \in 0 .. L + 1 : b2[k] \in 1 .. Len(tokens) /\ d2[k] \in 0 .. Len(tokens) - 1
    BY <1>1, <1>6, <1>7, <1>10 DEF Frames
  <2>2. b2[0] = 1 /\ d2[0] = Len(tokens) - 1
    BY <1>6, <1>10 DEF Frames
  <2>3. \A k \in 1 .. L + 1 : Framed(Kind(t, k - 1), t[k], b2[k - 1], b2[k])
    <3> SUFFICES ASSUME NEW k \in 1 .. L + 1 PROVE Framed(Kind(t, k - 1), t[k], b2[k - 1], b2[k])
      OBVIOUS
    <3>1. CASE k = L + 1
      BY <1>1, <1>3, <1>6, <1>7, <1>8, <1>10, <3>1
    <3>2. CASE k \in 1..L /\ k - 1 \in 0..L /\ k \in 0..L
      BY <1>1, <1>3, <1>6, <1>8, <3>2 DEF Frames
    <3> QED
      BY <1>10, <3>1, <3>2
  <2>4. ASSUME Whole PROVE \A k \in 1 .. L + 1 : Ended(Kind(t, k - 1), t[k], d2[k - 1], d2[k])
    <3> SUFFICES ASSUME NEW k \in 1 .. L + 1 PROVE Ended(Kind(t, k - 1), t[k], d2[k - 1], d2[k])
      OBVIOUS
    <3>1. CASE k = L + 1
      BY <1>3, <1>5, <1>6, <1>7, <1>8, <1>10, <2>4, <3>1
    <3>2. CASE k \in 1..L /\ k - 1 \in 0..L /\ k \in 0..L
      BY <1>1, <1>3, <1>6, <1>8, <2>4, <3>2 DEF Frames
    <3> QED
      BY <1>10, <3>1, <3>2
  <2>5. ASSUME Whole PROVE \A k \in 0 .. L + 1 : Closed(Kind(t, k), d2[k])
    <3> SUFFICES ASSUME NEW k \in 0 .. L + 1 PROVE Closed(Kind(t, k), d2[k])
      OBVIOUS
    <3>1. CASE k = L + 1
      BY <1>5, <1>7, <1>9, <2>5, <3>1
    <3>2. CASE k \in 0..L
      BY <1>1, <1>6, <1>8, <2>5, <3>2 DEF Frames
    <3> QED
      BY <1>10, <3>1, <3>2
  <2> QED
    BY <1>3, <2>1, <2>2, <2>3, <2>4, <2>5 DEF Frames
<1>12. Here(Kind(t, Len(t)), b2[Len(t)], p, w, h)
  BY <1>3, <1>7, <1>9
<1>13. Whole => Ahead(d2[Len(t)], p, w)
  BY <1>3, <1>5, <1>7
<1> QED
  BY <1>2, <1>3, <1>11, <1>12, <1>13 DEF Traced

\* What is true of a stack's last method.
LEMMA LastFrame ==
  ASSUME Lexed, NEW s, IsSeq(s), NEW b, NEW d, Frames(s, b, d)
  PROVE  /\ Len(s) \in Nat /\ b[Len(s)] \in 1 .. Len(tokens) /\ d[Len(s)] \in 0 .. Len(tokens) - 1
         /\ Whole => Closed(Kind(s, Len(s)), d[Len(s)])
         /\ Len(s) # 0 => /\ Len(s) - 1 \in 0 .. Len(s) /\ Len(s) - 1 \in Nat
                          /\ b[Len(s) - 1] \in 1 .. Len(tokens) /\ d[Len(s) - 1] \in 0 .. Len(tokens) - 1
                          /\ Kind(s, Len(s)) = s[Len(s)].is
                          /\ Framed(Kind(s, Len(s) - 1), s[Len(s)], b[Len(s) - 1], b[Len(s)])
                          /\ Whole => /\ Ended(Kind(s, Len(s) - 1), s[Len(s)], d[Len(s) - 1], d[Len(s)])
                                      /\ Closed(Kind(s, Len(s) - 1), d[Len(s) - 1])
         /\ Len(s) = 0 => b[Len(s)] = 1 /\ d[Len(s)] = Len(tokens) - 1 /\ Kind(s, Len(s)) = "parse"
<1>1. PICK L \in Nat : L = Len(s)
  BY StackFacts
<1>2. L \in 0..L /\ (L # 0 => L \in 1..L /\ L - 1 \in 0..L /\ L - 1 \in Nat)
  OBVIOUS
<1>3. /\ b[L] \in 1 .. Len(tokens) /\ d[L] \in 0 .. Len(tokens) - 1
      /\ Whole => Closed(Kind(s, L), d[L])
  BY <1>1, <1>2 DEF Frames
<1>4. ASSUME L # 0
      PROVE  /\ b[L - 1] \in 1 .. Len(tokens) /\ d[L - 1] \in 0 .. Len(tokens) - 1
             /\ Framed(Kind(s, L - 1), s[L], b[L - 1], b[L])
             /\ Whole => Ended(Kind(s, L - 1), s[L], d[L - 1], d[L]) /\ Closed(Kind(s, L - 1), d[L - 1])
             /\ Kind(s, L) = s[L].is
  <2>1. /\ b[L - 1] \in 1 .. Len(tokens) /\ d[L - 1] \in 0 .. Len(tokens) - 1
        /\ Framed(Kind(s, L - 1), s[L], b[L - 1], b[L])
        /\ Whole => Ended(Kind(s, L - 1), s[L], d[L - 1], d[L]) /\ Closed(Kind(s, L - 1), d[L - 1])
    BY <1>1, <1>2, <1>4 DEF Frames
  <2>2. Kind(s, L) = s[L].is
    BY <1>4 DEF Kind
  <2> QED
    BY <2>1, <2>2
<1>5. L = 0 => b[L] = 1 /\ d[L] = Len(tokens) - 1 /\ Kind(s, L) = "parse"
  BY DEF Frames, Kind
<1> QED
  BY <1>1, <1>2, <1>3, <1>4, <1>5

\* A unary expression has been read, by a method that waits for one.
LEMMA UnaryReturned ==
  ASSUME Lexed, NEW s, IsSeq(s), NEW b, NEW d, Frames(s, b, d), Kind(s, Len(s)) \in Exprs,
         NEW q \in 1 .. Len(tokens) - 1, Unary(b[Len(s)], q),
         NEW h, h = Expression(b[Len(s)], q), Whole => Rest(q + 1, d[Len(s)])
  PROVE  Traced(s, q + 1, "rest", h)
<1>1. Len(tokens) \in Nat /\ tokens \in Seq(Token)
  BY LexedFacts
<1>2. PICK a \in 1 .. Len(tokens) : a = b[Len(s)]
  BY LastFrame
<1>3. a <= q
  <2>1. a \in 1 .. Len(tokens) + 1 /\ q \in 0 .. Len(tokens)
    BY <1>1
  <2> QED
    BY <1>1, <1>2, <2>1, SentenceNested DEF Unary
<1>4. PICK p : p = q + 1
  OBVIOUS
<1>5. p \in 1 .. Len(tokens) /\ p - 1 = q /\ a < p
  BY <1>1, <1>3, <1>4
<1>6. Here(Kind(s, Len(s)), a, p, "rest", h)
  BY <1>2, <1>5 DEF Here, Unary
<1>7. Whole => Ahead(d[Len(s)], p, "rest")
  BY <1>4 DEF Ahead
<1> QED
  BY <1>2, <1>4, <1>5, <1>6, <1>7 DEF Traced

\* A value has been read, by a predicate, which ends with it, or by a list.
LEMMA ValueReturned ==
  ASSUME Lexed, NEW s, IsSeq(s), NEW b, NEW d, Frames(s, b, d), Len(s) # 0,
         Kind(s, Len(s)) \in {"predicate", "list"},
         NEW v \in 1 .. Len(tokens), NEW q \in 1 .. Len(tokens) - 1,
         ValueAt(Kind(s, Len(s)), b[Len(s)], v), Value(v, q),
         Whole => ValueEnds(Kind(s, Len(s)), d[Len(s)], q),
         at \in Nat, NEW m \in Nat, at + m = q + 1, ReturnValue(m, s)
  PROVE  Traced(stack', at', want', have')
<1>1. Len(tokens) \in Nat /\ tokens \in Seq(Token)
  BY LexedFacts
<1>2. PICK L \in Nat : L = Len(s)
  BY StackFacts
<1>3. /\ L # 0 /\ L - 1 \in 0..L /\ L - 1 \in Nat /\ Kind(s, L) = s[L].is
      /\ Framed(Kind(s, L - 1), s[L], b[L - 1], b[L])
      /\ Whole => Ended(Kind(s, L - 1), s[L], d[L - 1], d[L]) /\ Closed(Kind(s, L - 1), d[L - 1])
  BY <1>2, LastFrame
<1>4. PICK a \in 1 .. Len(tokens), e \in 0 .. Len(tokens) - 1 : a = b[L] /\ e = d[L]
  BY <1>2, LastFrame
<1>5. PICK a0 \in 1 .. Len(tokens), e0 \in 0 .. Len(tokens) - 1 : a0 = b[L - 1] /\ e0 = d[L - 1]
  BY <1>2, <1>3, LastFrame
<1>6. CASE s[L].is = "predicate"
  <2>1. /\ Kind(s, L - 1) \in Exprs /\ s[L].from = a0 /\ a = a0 + 2
        /\ Type(a0) = "IDENT" /\ Type(a0 + 1) \in Operators
    BY <1>3, <1>4, <1>5, <1>6 DEF Framed
  <2>2. v = a
    BY <1>2, <1>3, <1>4, <1>6 DEF ValueAt
  <2>3. Return(m, SubSeq(s, 1, L - 1), [is |-> "leaf", from |-> s[L].from, to |-> at + m - 1])
    BY <1>2, <1>6 DEF ReturnValue
  <2>4. /\ at' = q + 1 /\ stack' = SubSeq(s, 1, L - 1) /\ want' = "rest"
        /\ have' = [is |-> "leaf", from |-> a0, to |-> (at + m) - 1]
    <3>1. /\ at' = at + m /\ stack' = SubSeq(s, 1, L - 1) /\ want' = "rest"
          /\ have' = [is |-> "leaf", from |-> s[L].from, to |-> at + m - 1]
      BY <2>3 DEF Return
    <3> QED
      BY <2>1, <3>1
  <2>5. (at + m) - 1 = q
    BY <1>1
  <2>6. have' = [is |-> "leaf", from |-> a0, to |-> q]
    BY <2>4, <2>5
  <2>7. a0 \in 1 .. Len(tokens) + 1 /\ q \in 0 .. Len(tokens)
    BY <1>1
  <2>8. q >= a0 + 2
    <3>1. v \in 1 .. Len(tokens) + 1
      BY <1>1
    <3>2. v <= q
      BY <1>1, <2>7, <3>1, ValueFacts
    <3>3. a = a0 + 2
      BY <2>1
    <3> QED
      BY <2>2, <3>2, <3>3
  <2>9. IsLeaf(a0, q)
    BY <2>1, <2>2, <2>8, LeafIsRead
  <2>10. Expression(a0, q) = have' /\ Unary(a0, q)
    BY <1>1, <2>6, <2>7, <2>9, LeafOf
  <2>11. Whole => Rest(q + 1, e0)
    <3>1. Whole => q = e /\ Rest(e + 1, e0)
      BY <1>2, <1>3, <1>4, <1>5, <1>6 DEF ValueEnds, Ended
    <3> QED
      BY <3>1
  <2>12. /\ IsSeq(stack') /\ Len(stack') = L - 1 /\ Kind(stack', L - 1) = Kind(s, L - 1)
         /\ Frames(stack', b, d)
    BY <1>2, <1>3, <2>4, CutFrames
  <2>13. Traced(stack', q + 1, "rest", have')
    BY <1>5, <2>1, <2>10, <2>11, <2>12, UnaryReturned
  <2> QED
    BY <2>4, <2>13
<1>7. CASE s[L].is = "list"
  <2>1. a <= v /\ Items(a, v - 1)
    BY <1>2, <1>3, <1>4, <1>7 DEF ValueAt
  <2>2. Move(m + (IF Type(at + m) = "," THEN 1 ELSE 0), s, "item")
    BY <1>2, <1>7 DEF ReturnValue, Type
  <2>3. /\ at' = at + (m + (IF Type(q + 1) = "," THEN 1 ELSE 0)) /\ stack' = s /\ want' = "item"
    BY <2>2 DEF Move
  <2>4. a \in 1 .. Len(tokens) + 1 /\ q \in 1 .. Len(tokens) /\ q + 1 \in 1 .. Len(tokens)
    BY <1>1
  <2>5. /\ v <= q /\ Items(a, q)
        /\ q < Len(tokens) /\ Type(q + 1) = "," => Items(a, q + 1)
    BY <1>1, <2>1, <2>4, ItemsMore
  <2>6. Kind(s, L) = "list"
    BY <1>3, <1>7
  <2>7. Whole => Type(e + 1) = "]" /\ q <= e /\ Follow(q + 1, e)
    BY <1>2, <1>3, <1>4, <1>5, <1>7, <2>6 DEF Ended, ValueEnds
  <2>8. CASE Type(q + 1) = ","
    <3>1. at' = at + (m + 1)
      BY <2>3, <2>8
    <3>2. Type(q + 1) # "EOF"
      BY <2>8
    <3>3. q + 1 < Len(tokens)
      BY <2>4, <3>2, LexedFacts
    <3>4. PICK p : p = q + 2
      OBVIOUS
    <3>5. v <= q
      BY <2>5
    <3>6. at' = p
      <4>1. at + (m + 1) = q + 2
        BY <1>1
      <4> QED
        BY <3>1, <3>4, <4>1
    <3>7. p \in 1 .. Len(tokens) /\ a <= p /\ p - 1 = q + 1 /\ q < Len(tokens)
      BY <1>1, <2>1, <3>3, <3>4, <3>5
    <3>8. Items(a, p - 1)
      BY <2>5, <2>8, <3>7
    <3>9. Here("list", a, p, "item", have')
      BY <3>7, <3>8 DEF Here
    <3>10. ASSUME Whole PROVE Ahead(e, p, "item")
      <4>1. ~Items(q + 1, e)
        <5> SUFFICES ASSUME Items(q + 1, e) PROVE FALSE
          OBVIOUS
        <5>1. q + 1 \in 1 .. Len(tokens) + 1 /\ e \in 0 .. Len(tokens)
          BY <1>1
        <5>2. Type(q + 1) \notin Atoms \cup {"["}
          BY <2>8 DEF Atoms
        <5>3. \A k \in q + 1 .. e : ~Value(q + 1, k)
          <6> SUFFICES ASSUME NEW k \in q + 1 .. e, Value(q + 1, k) PROVE FALSE
            OBVIOUS
          <6>1. k \in 0 .. Len(tokens)
            BY <1>1
          <6> QED
            BY <1>1, <5>1, <5>2, <6>1, ValueFacts
        <5>4. q + 1 > e
          BY <1>1, <5>1, <5>3, Grammar
        <5>5. q <= e
          BY <2>7, <3>10
        <5>6. q + 1 = e + 1
          BY <1>1, <5>4, <5>5
        <5>7. Type(q + 1) = "]"
          BY <2>7, <3>10, <5>6
        <5> QED
          BY <2>8, <5>7
      <4>2. q + 1 <= e /\ Items((q + 1) + 1, e)
        BY <2>7, <3>10, <4>1 DEF Follow
      <4>3. p = (q + 1) + 1 /\ p <= e + 1
        BY <1>1, <3>4, <4>2
      <4> QED
        BY <4>2, <4>3 DEF Ahead
    <3> QED
      BY <1>2, <1>4, <2>3, <2>6, <3>6, <3>7, <3>9, <3>10 DEF Traced
  <2>9. CASE Type(q + 1) # ","
    <3>1. at' = at + (m + 0)
      BY <2>3, <2>9
    <3>2. PICK p : p = q + 1
      OBVIOUS
    <3>3. at' = p
      <4>1. at + (m + 0) = q + 1
        BY <1>1
      <4> QED
        BY <3>1, <3>2, <4>1
    <3>4. p \in 1 .. Len(tokens) /\ a <= p /\ p - 1 = q
      <4>1. v <= q
        BY <2>5
      <4> QED
        BY <1>1, <2>1, <3>2, <4>1
    <3>5. Here("list", a, p, "item", have')
      BY <2>5, <3>4 DEF Here
    <3>6. ASSUME Whole PROVE Ahead(e, p, "item")
      <4>1. Items(p, e)
        BY <2>7, <2>9, <3>2, <3>6 DEF Follow
      <4>2. q <= e
        BY <2>7, <3>6
      <4>3. p <= e + 1
        BY <1>1, <3>2, <4>2
      <4> QED
        BY <4>1, <4>3 DEF Ahead
    <3> QED
      BY <1>2, <1>4, <2>3, <2>6, <3>3, <3>4, <3>5, <3>6 DEF Traced
  <2> QED
    BY <2>8, <2>9
<1> QED
  BY <1>2, <1>3, <1>6, <1>7

-----------------------------------------------------------------------------
(***************************************************************************)
(* THE STEPS OF THE PARSER                                                 *)
(***************************************************************************)

\* What is true of the method that reads the current token.
Current(L, kind, b, d, a, e) ==
  /\ L = Len(stack) /\ kind = Kind(stack, L) /\ kind = Top.is
  /\ Frames(stack, b, d) /\ a = b[L] /\ e = d[L]
  /\ Here(kind, a, at, want, have)
  /\ Whole => Ahead(e, at, want) /\ Closed(kind, e)

LEMMA Now ==
  ASSUME Lexed, Traced(stack, at, want, have)
  PROVE  /\ IsSeq(stack) /\ at \in 1 .. Len(tokens) /\ at \in Nat
         /\ Len(tokens) \in Nat /\ tokens \in Seq(Token)
         /\ Tok # "EOF" => at < Len(tokens) /\ NextTok = Type(at + 1)
         /\ Tok = Type(at)
         /\ \E L, kind, b, d, a, e : /\ Current(L, kind, b, d, a, e)
                                     /\ L \in Nat /\ a \in 1 .. Len(tokens) /\ e \in 0 .. Len(tokens) - 1
<1>1. IsSeq(stack) /\ at \in 1 .. Len(tokens)
  BY DEF Traced
<1>2. Len(tokens) \in Nat /\ tokens \in Seq(Token)
  BY LexedFacts
<1>3. PICK b, d : /\ Frames(stack, b, d)
                  /\ Here(Kind(stack, Len(stack)), b[Len(stack)], at, want, have)
                  /\ Whole => Ahead(d[Len(stack)], at, want)
  BY DEF Traced
<1>4. /\ Len(stack) \in Nat /\ b[Len(stack)] \in 1 .. Len(tokens) /\ d[Len(stack)] \in 0 .. Len(tokens) - 1
      /\ Whole => Closed(Kind(stack, Len(stack)), d[Len(stack)])
  BY <1>1, <1>3, LastFrame
<1>5. Kind(stack, Len(stack)) = Top.is
  BY <1>1, TopFacts
<1>6. Current(Len(stack), Kind(stack, Len(stack)), b, d, b[Len(stack)], d[Len(stack)])
  BY <1>3, <1>4, <1>5 DEF Current
<1>7. \E L, kind, b1, d1, a, e : /\ Current(L, kind, b1, d1, a, e)
                                  /\ L \in Nat /\ a \in 1 .. Len(tokens) /\ e \in 0 .. Len(tokens) - 1
  BY <1>4, <1>6
<1>8. Tok = Type(at)
  BY DEF Tok, Type
<1>9. at \in Nat
  BY <1>1, <1>2
<1>10. Tok # "EOF" => at < Len(tokens) /\ NextTok = Type(at + 1)
  BY <1>1, <1>8, LexedFacts DEF NextTok, Type
<1> QED
  BY <1>1, <1>2, <1>7, <1>8, <1>9, <1>10

\* The method that called it, of the kind under, and from where and up to
\* where that waits.
Caller(L, b, d, a, e, under, a0, e0) ==
  /\ L # 0 /\ L - 1 \in Nat /\ Top = stack[L]
  /\ IsSeq(Below) /\ Len(Below) = L - 1 /\ Frames(Below, b, d)
  /\ under = Kind(Below, L - 1) /\ (L - 1 = 0 => under = "parse")
  /\ a0 = b[L - 1] /\ e0 = d[L - 1]
  /\ Framed(under, Top, a0, a)
  /\ Whole => Ended(under, Top, e0, e) /\ Closed(under, e0)

LEMMA BelowNow ==
  ASSUME Lexed, IsSeq(stack), NEW L \in Nat, NEW kind, NEW b, NEW d, NEW a, NEW e,
         Current(L, kind, b, d, a, e), kind # "parse"
  PROVE  \E under, a0, e0 : /\ Caller(L, b, d, a, e, under, a0, e0)
                            /\ a0 \in 1 .. Len(tokens) /\ e0 \in 0 .. Len(tokens) - 1
<1>1. L = Len(stack) /\ kind = Kind(stack, L) /\ Frames(stack, b, d) /\ a = b[L] /\ e = d[L]
  BY DEF Current
<1>2. L # 0
  BY <1>1 DEF Kind
<1>3. stack # << >>
  BY <1>1, <1>2, TopFacts
<1>4. Top = stack[L] /\ Below = SubSeq(stack, 1, L - 1)
  BY <1>1, <1>3, TopFacts
<1>5. /\ L - 1 \in 0..L /\ L - 1 \in Nat
      /\ b[L - 1] \in 1 .. Len(tokens) /\ d[L - 1] \in 0 .. Len(tokens) - 1
      /\ Framed(Kind(stack, L - 1), stack[L], b[L - 1], b[L])
      /\ Whole => /\ Ended(Kind(stack, L - 1), stack[L], d[L - 1], d[L])
                  /\ Closed(Kind(stack, L - 1), d[L - 1])
  BY <1>1, <1>2, LastFrame
<1>6. /\ IsSeq(Below) /\ Len(Below) = L - 1 /\ Kind(Below, L - 1) = Kind(stack, L - 1)
      /\ Frames(Below, b, d)
  BY <1>1, <1>4, <1>5, CutFrames
<1>7. L - 1 = 0 => Kind(Below, L - 1) = "parse"
  BY DEF Kind
<1>8. Caller(L, b, d, a, e, Kind(stack, L - 1), b[L - 1], d[L - 1])
  BY <1>1, <1>2, <1>4, <1>5, <1>6, <1>7 DEF Caller
<1> QED
  BY <1>5, <1>8

\* A method is called.
LEMMA Called ==
  ASSUME Lexed, IsSeq(stack), NEW L \in Nat, NEW kind, NEW b, NEW d, NEW a, NEW e,
         Current(L, kind, b, d, a, e),
         NEW m, NEW f, NEW w, Move(m, Append(stack, f), w),
         NEW p \in 1 .. Len(tokens), p = at + m,
         Framed(kind, f, a, p), Here(f.is, p, p, w, have),
         Whole => \E e1 \in 0 .. Len(tokens) - 1 : Ended(kind, f, e, e1) /\ Closed(f.is, e1) /\ Ahead(e1, p, w)
  PROVE  Traced(stack', at', want', have')
<1>1. L = Len(stack) /\ kind = Kind(stack, L) /\ Frames(stack, b, d) /\ a = b[L] /\ e = d[L]
  BY DEF Current
<1>2. at' = p /\ stack' = Append(stack, f) /\ want' = w /\ have' = have
  BY DEF Move
<1>3. Traced(Append(stack, f), p, w, have)
  BY <1>1, PushFrames
<1> QED
  BY <1>2, <1>3

\* A step within a method.
LEMMA Stayed ==
  ASSUME Lexed, IsSeq(stack), NEW L \in Nat, NEW kind, NEW b, NEW d, NEW a, NEW e,
         Current(L, kind, b, d, a, e),
         NEW m, NEW w, Move(m, stack, w),
         NEW p \in 1 .. Len(tokens), p = at + m,
         Here(kind, a, p, w, have), Whole => Ahead(e, p, w)
  PROVE  Traced(stack', at', want', have')
BY DEF Current, Move, Traced

\* What a unary expression is, by its first token.
LEMMA ChainFacts ==
  ASSUME Lexed, NEW p \in 1 .. Len(tokens), NEW e \in 0 .. Len(tokens) - 1, Chain(p, e)
  PROVE  \E q \in p..e :
           /\ q \in 1 .. Len(tokens) - 1 /\ q <= e /\ Unary(p, q) /\ Rest(q + 1, e)
           /\ \/ Type(p) = "NOT" /\ p < q /\ Unary(p + 1, q)
              \/ Type(p) = "(" /\ Type(q) = ")" /\ p < q /\ Sentence(p + 1, q - 1)
              \/ Type(p) = "IDENT" /\ Type(p + 1) = "(" /\ IsCall(p, q)
              \/ Type(p) = "IDENT" /\ Type(p + 1) \in Operators /\ p + 2 <= q /\ Value(p + 2, q)
<1>1. Len(tokens) \in Nat /\ tokens \in Seq(Token)
  BY LexedFacts
<1>2. PICK q \in p..e : Unary(p, q) /\ Rest(q + 1, e)
  BY DEF Chain
<1>3. /\ p \in 1 .. Len(tokens) + 1 /\ q \in 0 .. Len(tokens) /\ q \in 1 .. Len(tokens) - 1 /\ q <= e
  BY <1>1
<1>4. \/ Type(p) = "NOT" /\ p < q /\ Unary(p + 1, q)
      \/ Type(p) = "(" /\ Type(q) = ")" /\ p < q /\ Sentence(p + 1, q - 1)
      \/ IsLeaf(p, q)
  BY <1>1, <1>2, <1>3, UnaryFacts
<1>5. ASSUME IsLeaf(p, q)
      PROVE  \/ Type(p) = "IDENT" /\ Type(p + 1) = "(" /\ IsCall(p, q)
             \/ Type(p) = "IDENT" /\ Type(p + 1) \in Operators /\ p + 2 <= q /\ Value(p + 2, q)
  <2>1. CASE IsCall(p, q)
    BY <2>1 DEF IsCall
  <2>2. CASE /\ q >= p + 2 /\ Type(p) = "IDENT" /\ Type(p + 1) \in Operators
             /\ Value(p + 2, q)
    <3>1. q >= p + 2
      BY <2>2
    <3>2. p + 2 <= q
      BY <1>1, <1>3, <3>1
    <3> QED
      BY <2>2, <3>2
  <2> QED
    BY <1>5, <2>1, <2>2, LeafIsRead
<1> QED
  BY <1>2, <1>3, <1>4, <1>5

LEMMA ParseNotOK ==
  ASSUME Lexed, Traced(stack, at, want, have), ParseNot
  PROVE  Traced(stack', at', want', have')
<1>1. /\ IsSeq(stack) /\ at \in 1 .. Len(tokens) /\ at \in Nat
      /\ Len(tokens) \in Nat /\ tokens \in Seq(Token) /\ Tok = Type(at)
  BY Now
<1>2. PICK L, kind, b, d, a, e : /\ Current(L, kind, b, d, a, e)
                                 /\ L \in Nat /\ a \in 1 .. Len(tokens) /\ e \in 0 .. Len(tokens) - 1
  BY Now
<1>3. want = "expr" /\ Type(at) = "NOT" /\ Move(1, Append(stack, [is |-> "not"]), "expr")
  BY <1>1 DEF ParseNot, Parsing
<1>4. kind \in Exprs /\ at = a /\ (Whole => Chain(at, e) /\ Closed(kind, e))
  BY <1>2, <1>3 DEF Current, Here, Ahead
<1>5. at < Len(tokens)
  BY <1>1, <1>3, Now
<1>6. PICK p \in 1 .. Len(tokens) : p = at + 1
  BY <1>1, <1>5
<1>7. PICK f : f = [is |-> "not"]
  OBVIOUS
<1>8. f.is = "not" /\ "not" \in Exprs
  BY <1>7 DEF Exprs
<1>9. Framed(kind, f, a, p) /\ Here(f.is, p, p, "expr", have)
  BY <1>3, <1>4, <1>6, <1>8 DEF Framed, Here
<1>10. ASSUME Whole PROVE Ended(kind, f, e, e) /\ Closed(f.is, e) /\ Ahead(e, p, "expr")
  <2>1. PICK q \in at..e : /\ Rest(q + 1, e)
                           /\ Type(at) = "NOT" => at < q /\ Unary(at + 1, q)
    BY <1>1, <1>2, <1>4, <1>10, ChainFacts
  <2>2. at < q /\ Unary(at + 1, q)
    BY <1>3, <2>1
  <2>3. q \in p..e
    BY <1>1, <1>6, <2>2
  <2>4. Chain(p, e)
    BY <1>6, <2>1, <2>2, <2>3 DEF Chain
  <2> QED
    BY <1>4, <1>8, <1>10, <2>4 DEF Ended, Closed, Ahead
<1> QED
  BY <1>1, <1>2, <1>3, <1>6, <1>7, <1>9, <1>10, Called

LEMMA ParseGroupOK ==
  ASSUME Lexed, Traced(stack, at, want, have), ParseGroup
  PROVE  Traced(stack', at', want', have')
<1>1. /\ IsSeq(stack) /\ at \in 1 .. Len(tokens) /\ at \in Nat
      /\ Len(tokens) \in Nat /\ tokens \in Seq(Token) /\ Tok = Type(at)
  BY Now
<1>2. PICK L, kind, b, d, a, e : /\ Current(L, kind, b, d, a, e)
                                 /\ L \in Nat /\ a \in 1 .. Len(tokens) /\ e \in 0 .. Len(tokens) - 1
  BY Now
<1>3. want = "expr" /\ Type(at) = "(" /\ Move(1, Append(stack, [is |-> "group"]), "expr")
  BY <1>1 DEF ParseGroup, Parsing
<1>4. kind \in Exprs /\ at = a /\ (Whole => Chain(at, e))
  BY <1>2, <1>3 DEF Current, Here, Ahead
<1>5. at < Len(tokens)
  BY <1>1, <1>3, Now
<1>6. PICK p \in 1 .. Len(tokens) : p = at + 1
  BY <1>1, <1>5
<1>7. PICK f : f = [is |-> "group"]
  OBVIOUS
<1>8. f.is = "group" /\ "group" \in Exprs
  BY <1>7 DEF Exprs
<1>9. Framed(kind, f, a, p) /\ Here(f.is, p, p, "expr", have)
  BY <1>3, <1>4, <1>6, <1>8 DEF Framed, Here
<1>10. ASSUME Whole
       PROVE  \E e1 \in 0 .. Len(tokens) - 1 : Ended(kind, f, e, e1) /\ Closed(f.is, e1) /\ Ahead(e1, p, "expr")
  <2>1. PICK q \in at..e : /\ Rest(q + 1, e)
                           /\ Type(at) = "(" => Type(q) = ")" /\ at < q /\ Sentence(at + 1, q - 1)
    BY <1>1, <1>2, <1>4, <1>10, ChainFacts
  <2>2. Type(q) = ")" /\ Sentence(p, q - 1)
    BY <1>3, <1>6, <2>1
  <2>3. at < q
    BY <1>3, <2>1
  <2>4. PICK e1 \in 0 .. Len(tokens) - 1 : e1 = q - 1
    BY <1>1, <1>2, <2>3
  <2>5. e1 < e /\ e1 + 1 = q /\ e1 + 2 = q + 1 /\ p \in 1 .. Len(tokens) + 1 /\ e1 \in 0 .. Len(tokens)
    BY <1>1, <1>2, <2>3, <2>4
  <2>6. Chain(p, e1)
    BY <1>1, <2>2, <2>4, <2>5, SentenceChain
  <2>7. Ended(kind, f, e, e1)
    BY <1>8, <2>1, <2>2, <2>5 DEF Ended
  <2>8. Closed(f.is, e1)
    BY <2>2, <2>5 DEF Closed
  <2> QED
    BY <2>6, <2>7, <2>8 DEF Ahead
<1> QED
  BY <1>1, <1>2, <1>3, <1>6, <1>7, <1>9, <1>10, Called

LEMMA ParsePredicateOK ==
  ASSUME Lexed, Traced(stack, at, want, have), ParsePredicate
  PROVE  Traced(stack', at', want', have')
<1>1. /\ IsSeq(stack) /\ at \in 1 .. Len(tokens) /\ at \in Nat
      /\ Len(tokens) \in Nat /\ tokens \in Seq(Token) /\ Tok = Type(at)
  BY Now
<1>2. PICK L, kind, b, d, a, e : /\ Current(L, kind, b, d, a, e)
                                 /\ L \in Nat /\ a \in 1 .. Len(tokens) /\ e \in 0 .. Len(tokens) - 1
  BY Now
<1>3. /\ want = "expr" /\ Type(at) = "IDENT" /\ NextTok \in Operators
      /\ Move(2, Append(stack, [is |-> "predicate", from |-> at]), "value")
  BY <1>1 DEF ParsePredicate, Parsing
<1>4. kind \in Exprs /\ at = a /\ (Whole => Chain(at, e))
  BY <1>2, <1>3 DEF Current, Here, Ahead
<1>5. at < Len(tokens) /\ Type(at + 1) \in Operators
  BY <1>1, <1>3, Now
<1>6. at + 1 < Len(tokens)
  <2>1. Type(at + 1) # "EOF"
    BY <1>5 DEF Operators
  <2>2. at + 1 \in 1 .. Len(tokens)
    BY <1>1, <1>5
  <2> QED
    BY <2>1, <2>2, LexedFacts
<1>7. PICK p \in 1 .. Len(tokens) : p = at + 2
  BY <1>1, <1>6
<1>8. PICK f : f = [is |-> "predicate", from |-> at]
  OBVIOUS
<1>9. f.is = "predicate" /\ f.from = at
  BY <1>8
<1>10. Framed(kind, f, a, p) /\ Here(f.is, p, p, "value", have)
  BY <1>3, <1>4, <1>5, <1>7, <1>9 DEF Framed, Here
<1>11. ASSUME Whole
       PROVE  \E e1 \in 0 .. Len(tokens) - 1 : Ended(kind, f, e, e1) /\ Closed(f.is, e1) /\ Ahead(e1, p, "value")
  <2>1. Type(at) # "NOT" /\ Type(at) # "(" /\ Type(at + 1) # "("
    BY <1>3, <1>5 DEF Operators
  <2>2. PICK q \in at..e : q <= e /\ Rest(q + 1, e) /\ Value(at + 2, q)
    BY <1>1, <1>2, <1>4, <1>11, <2>1, ChainFacts
  <2>3. q \in 0 .. Len(tokens) - 1
    BY <1>1, <1>2
  <2>4. Ended(kind, f, e, q) /\ Ahead(q, p, "value")
    BY <1>7, <1>9, <2>2 DEF Ended, Ahead
  <2>5. Closed(f.is, q)
    BY <1>9 DEF Closed, Exprs
  <2> QED
    BY <2>3, <2>4, <2>5
<1> QED
  BY <1>1, <1>2, <1>3, <1>7, <1>8, <1>10, <1>11, Called

\* A value is expected, of a predicate or of a list.
LEMMA ValueNow ==
  ASSUME Lexed, Traced(stack, at, want, have), want \in {"value", "item"},
         NEW L, NEW kind, NEW b, NEW d, NEW a, NEW e, Current(L, kind, b, d, a, e),
         L \in Nat, a \in 1 .. Len(tokens), e \in 0 .. Len(tokens) - 1
  PROVE  /\ kind \in {"predicate", "list"} /\ ValueAt(kind, a, at) /\ a <= at
         /\ Whole /\ Type(at) # "]" =>
              \E q \in 1 .. Len(tokens) - 1 :
                q <= e /\ Value(at, q) /\ ValueEnds(kind, e, q) /\ Type(q + 1) # "("
<1>1. IsSeq(stack) /\ at \in 1 .. Len(tokens) /\ Len(tokens) \in Nat /\ tokens \in Seq(Token)
  BY Now
<1>2. Here(kind, a, at, want, have) /\ (Whole => Ahead(e, at, want))
  BY DEF Current
<1>3. kind # "parse"
  BY <1>2 DEF Here
<1>4. PICK under, a0, e0 : /\ Caller(L, b, d, a, e, under, a0, e0)
                           /\ a0 \in 1 .. Len(tokens) /\ e0 \in 0 .. Len(tokens) - 1
  BY <1>1, <1>3, BelowNow
<1>5. kind = Top.is /\ (Whole => Ended(under, Top, e0, e) /\ Closed(under, e0)) /\ Framed(under, Top, a0, a)
  BY <1>4 DEF Current, Caller
<1>6. \A k \in 1 .. Len(tokens) - 1 : Value(at, k) => at <= k
  <2>1. \A k \in 1 .. Len(tokens) - 1 : at \in 1 .. Len(tokens) + 1 /\ k \in 0 .. Len(tokens)
    BY <1>1
  <2> QED
    BY <1>1, <2>1, ValueFacts
<1>7. CASE want = "value"
  <2>1. kind = "predicate" /\ at = a
    BY <1>2, <1>7 DEF Here
  <2>2. ValueAt(kind, a, at) /\ a <= at
    BY <1>1, <2>1 DEF ValueAt
  <2>3. ASSUME Whole
        PROVE  \E q \in 1 .. Len(tokens) - 1 :
                 q <= e /\ Value(at, q) /\ ValueEnds(kind, e, q) /\ Type(q + 1) # "("
    <3>1. Value(at, e)
      BY <1>2, <1>7, <2>3 DEF Ahead
    <3>2. e \in 1 .. Len(tokens) - 1 /\ e <= e
      <4>1. at \in 1 .. Len(tokens) + 1 /\ e \in 0 .. Len(tokens)
        BY <1>1
      <4>2. at <= e
        BY <1>1, <3>1, <4>1, ValueFacts
      <4> QED
        BY <1>1, <4>2
    <3>3. ValueEnds(kind, e, e)
      BY <2>1 DEF ValueEnds
    <3>4. Rest(e + 1, e0) /\ under \in Exprs /\ Closed(under, e0)
      BY <1>5, <2>1, <2>3 DEF Ended, Framed
    <3>5. Type(e + 1) # "("
      <4>1. CASE e + 1 = e0 + 1
        BY <3>4, <4>1 DEF Closed
      <4>2. CASE Type(e + 1) \in Loose
        BY <4>2 DEF Loose
      <4> QED
        BY <3>4, <4>1, <4>2 DEF Rest
    <3> QED
      BY <3>1, <3>2, <3>3, <3>5
  <2> QED
    BY <2>1, <2>2, <2>3
<1>8. CASE want = "item"
  <2>1. kind = "list" /\ a <= at /\ Items(a, at - 1)
    BY <1>2, <1>8 DEF Here
  <2>2. ValueAt(kind, a, at)
    BY <2>1 DEF ValueAt
  <2>3. ASSUME Whole, Type(at) # "]"
        PROVE  \E q \in 1 .. Len(tokens) - 1 :
                 q <= e /\ Value(at, q) /\ ValueEnds(kind, e, q) /\ Type(q + 1) # "("
    <3>1. Items(at, e) /\ at <= e + 1
      BY <1>2, <1>8, <2>3 DEF Ahead
    <3>2. Type(e + 1) = "]"
      BY <1>5, <2>1, <2>3 DEF Ended
    <3>3. at # e + 1
      BY <2>3, <3>2
    <3>4. at \in 1 .. Len(tokens) + 1 /\ e \in 0 .. Len(tokens) /\ ~(at > e)
      BY <1>1, <3>1, <3>3
    <3>5. PICK q \in at..e : /\ Value(at, q)
                             /\ \/ Items(q + 1, e)
                                \/ q < e /\ Type(q + 1) = "," /\ Items(q + 2, e)
      BY <1>1, <3>1, <3>4, Grammar
    <3>6. /\ q \in 1 .. Len(tokens) - 1 /\ q <= e /\ (q < e => q + 1 <= e) /\ q + 2 = (q + 1) + 1
          /\ q + 1 \in 1 .. Len(tokens) + 1
      BY <1>1
    <3>7. Follow(q + 1, e)
      BY <3>5, <3>6 DEF Follow
    <3>8. ValueEnds(kind, e, q)
      BY <2>1, <3>6, <3>7 DEF ValueEnds
    <3>9. Type(q + 1) # "("
      <4>1. CASE Type(q + 1) = ","
        BY <4>1
      <4>2. CASE Items(q + 1, e)
        <5>1. CASE q + 1 > e
          <6>1. q + 1 = e + 1
            BY <3>4, <3>6, <5>1
          <6> QED
            BY <3>2, <6>1
        <5>2. CASE \E k \in q + 1 .. e : Value(q + 1, k)
          <6>1. PICK k \in q + 1 .. e : Value(q + 1, k)
            BY <5>2
          <6>2. k \in 0 .. Len(tokens)
            BY <1>1, <3>6
          <6>3. Type(q + 1) \in Atoms \cup {"["}
            BY <1>1, <3>6, <6>1, <6>2, ValueFacts
          <6> QED
            BY <6>3 DEF Atoms
        <5> QED
          BY <1>1, <3>4, <3>6, <4>2, <5>1, <5>2, Grammar
      <4> QED
        BY <3>5, <4>1, <4>2
    <3> QED
      BY <3>5, <3>6, <3>8, <3>9
  <2> QED
    BY <2>1, <2>2, <2>3
<1> QED
  BY <1>7, <1>8

LEMMA LastTwo ==
  ASSUME NEW i \in Nat, NEW j \in Nat, i <= j - 2
  PROVE  /\ j - 2 # i - 1 /\ j >= i
         /\ ((j - 2) - i) % 2 = 0 => (j - i) % 2 = 0 /\ ((j - 1) - i) % 2 # 0
         /\ \A k \in i..j : k \in i .. j - 2 \/ k = j - 1 \/ k = j
OBVIOUS

\* The arguments of a call, from their end and from their beginning.
LEMMA ArgumentsMore ==
  ASSUME NEW i \in Nat, NEW j \in Nat, Arguments(i, j - 2), i <= j - 2,
         Type(j - 1) = ",", Type(j) \in Atoms
  PROVE  Arguments(i, j)
<1>1. j - 2 # i - 1
  BY LastTwo
<1>2. ((j - 2) - i) % 2 = 0
  BY <1>1 DEF Arguments
<1>3. \A k \in i .. j - 2 : IF (k - i) % 2 = 0 THEN Type(k) \in Atoms ELSE Type(k) = ","
  BY <1>1 DEF Arguments
<1>4. (j - i) % 2 = 0 /\ ((j - 1) - i) % 2 # 0 /\ j >= i
  BY <1>2, LastTwo
<1>5. \A k \in i..j : k \in i .. j - 2 \/ k = j - 1 \/ k = j
  BY LastTwo
<1>6. \A k \in i..j : IF (k - i) % 2 = 0 THEN Type(k) \in Atoms ELSE Type(k) = ","
  <2> SUFFICES ASSUME NEW k \in i..j
               PROVE  IF (k - i) % 2 = 0 THEN Type(k) \in Atoms ELSE Type(k) = ","
    OBVIOUS
  <2>1. CASE k \in i .. j - 2
    BY <1>3, <2>1
  <2>2. CASE k = j - 1
    BY <1>4, <2>2
  <2>3. CASE k = j
    BY <1>4, <2>3
  <2> QED
    BY <1>5, <2>1, <2>2, <2>3
<1> QED
  BY <1>4, <1>6 DEF Arguments

LEMMA ArgumentsLess ==
  ASSUME NEW i \in Nat, NEW j \in Nat, i <= j, Arguments(i, j)
  PROVE  /\ Type(i) \in Atoms
         /\ i = j \/ (i + 1 < j /\ Type(i + 1) = "," /\ Arguments(i + 2, j))
<1>1. j # i - 1
  OBVIOUS
<1>2. (j - i) % 2 = 0
  BY <1>1 DEF Arguments
<1>3. \A k \in i..j : IF (k - i) % 2 = 0 THEN Type(k) \in Atoms ELSE Type(k) = ","
  BY <1>1 DEF Arguments
<1>4. Type(i) \in Atoms
  <2>1. i \in i..j /\ (i - i) % 2 = 0
    OBVIOUS
  <2> QED
    BY <1>3, <2>1
<1>5. ASSUME i # j PROVE i + 1 < j /\ Type(i + 1) = "," /\ Arguments(i + 2, j)
  <2>1. i + 1 < j
    BY <1>2, <1>5
  <2>2. i + 1 \in i..j /\ ((i + 1) - i) % 2 # 0
    BY <2>1
  <2>3. Type(i + 1) = ","
    BY <1>3, <2>2
  <2>4. j >= i + 2 /\ (j - (i + 2)) % 2 = 0
    BY <1>2, <2>1
  <2>5. \A k \in i + 2 .. j : k \in i..j /\ ((k - (i + 2)) % 2 = 0 <=> (k - i) % 2 = 0)
    OBVIOUS
  <2>6. \A k \in i + 2 .. j : IF (k - (i + 2)) % 2 = 0 THEN Type(k) \in Atoms ELSE Type(k) = ","
    BY <1>3, <2>5
  <2> QED
    BY <2>1, <2>3, <2>4, <2>6 DEF Arguments
<1> QED
  BY <1>4, <1>5

\* A call that begins with its name goes on with its arguments, or ends.
LEMMA CallAhead ==
  ASSUME Lexed, NEW i \in 1 .. Len(tokens), NEW q \in 1 .. Len(tokens) - 1, IsCall(i, q)
  PROVE  /\ Type(q) = ")" /\ i + 2 <= q
         /\ Ahead(q, i + 2, IF Type(i + 2) = ")" THEN "args" ELSE "arg")
<1>1. Len(tokens) \in Nat
  BY LexedFacts
<1>2. PICK p \in Nat, r \in Nat : p = i + 2 /\ r = q - 1
  BY <1>1
<1>3. q >= i + 2
  BY DEF IsCall
<1>4. Type(q) = ")" /\ Arguments(p, r)
  BY <1>2 DEF IsCall
<1>5. p <= q /\ i + 2 <= q
  BY <1>1, <1>2, <1>3
<1>6. CASE p = q
  BY <1>2, <1>4, <1>5, <1>6 DEF Ahead
<1>7. CASE p # q
  <2>1. p <= r /\ p < q
    BY <1>1, <1>2, <1>5, <1>7
  <2>2. Type(p) \in Atoms
    BY <1>4, <2>1, ArgumentsLess
  <2>3. Type(p) # ")"
    BY <2>2 DEF Atoms
  <2>4. Ahead(q, p, "arg")
    BY <1>2, <1>4, <2>1 DEF Ahead
  <2> QED
    BY <1>2, <1>4, <1>5, <2>3, <2>4
<1> QED
  BY <1>6, <1>7

LEMMA ParseCallOK ==
  ASSUME Lexed, Traced(stack, at, want, have), ParseCall
  PROVE  Traced(stack', at', want', have')
<1>1. /\ IsSeq(stack) /\ at \in 1 .. Len(tokens) /\ at \in Nat
      /\ Len(tokens) \in Nat /\ tokens \in Seq(Token) /\ Tok = Type(at)
  BY Now
<1>2. PICK L, kind, b, d, a, e : /\ Current(L, kind, b, d, a, e)
                                 /\ L \in Nat /\ a \in 1 .. Len(tokens) /\ e \in 0 .. Len(tokens) - 1
  BY Now
<1>3. PICK w : w = IF Type(at + 2) = ")" THEN "args" ELSE "arg"
  OBVIOUS
<1>4. PICK f : f = [is |-> "call", from |-> at, of |-> IF want = "expr" THEN "expr" ELSE "value"]
  OBVIOUS
<1>5. /\ want = "expr" \/ want \in {"value", "item"}
      /\ Type(at) = "IDENT" /\ NextTok = "(" /\ Move(2, Append(stack, f), w)
  BY <1>1, <1>3, <1>4 DEF ParseCall, Parsing, Type
<1>6. at < Len(tokens) /\ Type(at + 1) = "("
  BY <1>1, <1>5, Now
<1>7. at + 1 < Len(tokens)
  <2>1. Type(at + 1) # "EOF"
    BY <1>6
  <2>2. at + 1 \in 1 .. Len(tokens)
    <3>1. at < Len(tokens)
      BY <1>6
    <3> QED
      BY <1>1, <3>1
  <2> QED
    BY <2>1, <2>2, LexedFacts
<1>8. PICK p \in 1 .. Len(tokens) : p = at + 2
  BY <1>1, <1>7
<1>9. f.is = "call" /\ f.from = at /\ (want = "expr" => f.of = "expr") /\ (want # "expr" => f.of = "value")
  BY <1>4
<1>10. Here(f.is, p, p, w, have)
  <2>1. p <= p /\ Arguments(p, p - 1)
    BY <1>1, <1>8 DEF Arguments
  <2> QED
    BY <1>3, <1>8, <1>9, <2>1 DEF Here
<1>11. \A q \in 1 .. Len(tokens) - 1 : IsCall(at, q) => Type(q) = ")" /\ Ahead(q, p, w)
  BY <1>1, <1>3, <1>8, CallAhead
<1>12. Closed("call", e) /\ \A q : Closed(f.is, q)
  BY <1>9 DEF Closed, Exprs
<1>13. at \in Nat \ {0}
  BY <1>1
<1>14. CASE want = "expr"
  <2>1. kind \in Exprs /\ at = a /\ (Whole => Chain(at, e))
    BY <1>2, <1>14 DEF Current, Here, Ahead
  <2>2. Framed(kind, f, a, p)
    BY <1>5, <1>6, <1>8, <1>9, <1>13, <1>14, <2>1 DEF Framed
  <2>3. ASSUME Whole
        PROVE  \E e1 \in 0 .. Len(tokens) - 1 : Ended(kind, f, e, e1) /\ Closed(f.is, e1) /\ Ahead(e1, p, w)
    <3>1. Type(at) # "NOT" /\ Type(at) # "(" /\ Type(at + 1) \notin Operators
      BY <1>5, <1>6 DEF Operators
    <3>2. PICK q \in at..e : q \in 1 .. Len(tokens) - 1 /\ q <= e /\ Rest(q + 1, e) /\ IsCall(at, q)
      BY <1>1, <1>2, <2>1, <2>3, <3>1, ChainFacts
    <3>3. Type(q) = ")" /\ Ahead(q, p, w)
      BY <1>11, <3>2
    <3>4. Ended(kind, f, e, q)
      BY <1>9, <1>14, <3>2, <3>3 DEF Ended
    <3>5. q \in 0 .. Len(tokens) - 1
      BY <1>1, <3>2
    <3> QED
      BY <1>12, <3>3, <3>4, <3>5
  <2> QED
    BY <1>1, <1>2, <1>5, <1>8, <1>10, <2>2, <2>3, Called
<1>15. CASE want \in {"value", "item"}
  <2>1. /\ kind \in {"predicate", "list"} /\ ValueAt(kind, a, at)
        /\ Whole /\ Type(at) # "]" =>
             \E q \in 1 .. Len(tokens) - 1 :
               q <= e /\ Value(at, q) /\ ValueEnds(kind, e, q) /\ Type(q + 1) # "("
    BY <1>2, <1>15, ValueNow
  <2>2. f.of = "value"
    BY <1>9, <1>15
  <2>3. Framed(kind, f, a, p)
    BY <1>5, <1>6, <1>8, <1>9, <1>13, <2>1, <2>2 DEF Framed
  <2>4. ASSUME Whole
        PROVE  \E e1 \in 0 .. Len(tokens) - 1 : Ended(kind, f, e, e1) /\ Closed(f.is, e1) /\ Ahead(e1, p, w)
    <3>1. Type(at) # "]" /\ Type(at) # "["
      BY <1>5
    <3>2. PICK q \in 1 .. Len(tokens) - 1 : Value(at, q) /\ ValueEnds(kind, e, q) /\ Type(q + 1) # "("
      BY <2>1, <2>4, <3>1
    <3>3. at \in 1 .. Len(tokens) + 1 /\ q \in 0 .. Len(tokens) /\ q \in 0 .. Len(tokens) - 1
      BY <1>1
    <3>4. at # q
      BY <1>6, <3>2
    <3>5. IsCall(at, q)
      BY <1>1, <3>1, <3>2, <3>3, <3>4, Grammar
    <3>6. Type(q) = ")" /\ Ahead(q, p, w)
      BY <1>11, <3>5
    <3>7. Ended(kind, f, e, q)
      BY <1>9, <2>2, <3>2, <3>6 DEF Ended
    <3> QED
      BY <1>12, <3>3, <3>6, <3>7
  <2> QED
    BY <1>1, <1>2, <1>5, <1>8, <1>10, <2>3, <2>4, Called
<1> QED
  BY <1>5, <1>14, <1>15

LEMMA ParseArgOK ==
  ASSUME Lexed, Traced(stack, at, want, have), ParseArg
  PROVE  Traced(stack', at', want', have')
<1>1. /\ IsSeq(stack) /\ at \in 1 .. Len(tokens) /\ at \in Nat
      /\ Len(tokens) \in Nat /\ tokens \in Seq(Token) /\ Tok = Type(at)
  BY Now
<1>2. PICK L, kind, b, d, a, e : /\ Current(L, kind, b, d, a, e)
                                 /\ L \in Nat /\ a \in 1 .. Len(tokens) /\ e \in 0 .. Len(tokens) - 1
  BY Now
<1>3. want = "arg" /\ Type(at) \in Atoms /\ Move(1, stack, "args")
  BY <1>1 DEF ParseArg, Parsing
<1>4. /\ kind = "call"
      /\ \/ at = a
         \/ a + 2 <= at /\ Arguments(a, at - 2) /\ Type(at - 1) = ","
      /\ Whole => at < e /\ Arguments(at, e - 1)
  BY <1>2, <1>3 DEF Current, Here, Ahead
<1>5. at < Len(tokens)
  <2>1. Type(at) # "EOF"
    BY <1>3 DEF Atoms
  <2> QED
    BY <1>1, <2>1, LexedFacts
<1>6. PICK p \in 1 .. Len(tokens) : p = at + 1
  BY <1>1, <1>5
<1>7. a <= at
  <2>1. at = a \/ a + 2 <= at
    BY <1>4
  <2> QED
    BY <1>1, <1>2, <2>1
<1>8. p - 1 = at /\ a <= p /\ p # a
  BY <1>1, <1>2, <1>6, <1>7
<1>9. Arguments(a, at)
  <2>1. CASE at = a
    <3>1. at >= a /\ (at - a) % 2 = 0 /\ \A k \in a..at : k = at /\ (k - a) % 2 = 0
      BY <1>1, <2>1
    <3> QED
      BY <1>3, <3>1 DEF Arguments
  <2>2. CASE a + 2 <= at /\ Arguments(a, at - 2) /\ Type(at - 1) = ","
    <3>1. a + 2 <= at
      BY <2>2
    <3>2. a <= at - 2 /\ a \in Nat
      BY <1>1, <1>2, <3>1
    <3> QED
      BY <1>1, <1>3, <2>2, <3>2, ArgumentsMore
  <2> QED
    BY <1>4, <2>1, <2>2
<1>10. Here(kind, a, p, "args", have)
  BY <1>4, <1>8, <1>9 DEF Here
<1>11. ASSUME Whole PROVE Ahead(e, p, "args")
  <2>1. at < e /\ Arguments(at, e - 1)
    BY <1>4, <1>11
  <2>2. PICK r \in Nat : r = e - 1
    BY <1>1, <1>2, <2>1
  <2>3. at <= r /\ Arguments(at, r)
    BY <1>1, <1>2, <2>1, <2>2
  <2>4. at = r \/ (at + 1 < r /\ Type(at + 1) = "," /\ Arguments(at + 2, r))
    BY <1>1, <2>3, ArgumentsLess
  <2>5. CASE at = r
    <3>1. p = e
      BY <1>1, <1>2, <1>6, <2>2, <2>5
    <3> QED
      BY <3>1 DEF Ahead
  <2>6. CASE at + 1 < r /\ Type(at + 1) = "," /\ Arguments(at + 2, r)
    <3>0. at + 1 < r
      BY <2>6
    <3>1. p + 1 < e /\ p + 1 = at + 2
      BY <1>1, <1>2, <1>6, <2>2, <3>0
    <3>2. Type(p) = "," /\ Arguments(p + 1, e - 1)
      BY <1>6, <2>2, <2>6, <3>1
    <3> QED
      BY <3>1, <3>2 DEF Ahead
  <2> QED
    BY <2>4, <2>5, <2>6
<1> QED
  BY <1>1, <1>2, <1>3, <1>6, <1>10, <1>11, Stayed

LEMMA NextArgOK ==
  ASSUME Lexed, Traced(stack, at, want, have), NextArg
  PROVE  Traced(stack', at', want', have')
<1>1. /\ IsSeq(stack) /\ at \in 1 .. Len(tokens) /\ at \in Nat
      /\ Len(tokens) \in Nat /\ tokens \in Seq(Token) /\ Tok = Type(at)
  BY Now
<1>2. PICK L, kind, b, d, a, e : /\ Current(L, kind, b, d, a, e)
                                 /\ L \in Nat /\ a \in 1 .. Len(tokens) /\ e \in 0 .. Len(tokens) - 1
  BY Now
<1>3. want = "args" /\ Type(at) = "," /\ Move(1, stack, "arg")
  BY <1>1 DEF NextArg, Parsing
<1>4. /\ kind = "call" /\ a <= at /\ Arguments(a, at - 1) /\ at # a
      /\ Whole => \/ at = e
                  \/ at + 1 < e /\ Arguments(at + 1, e - 1)
  BY <1>2, <1>3 DEF Current, Here, Ahead
<1>5. at < Len(tokens)
  BY <1>1, <1>3, Now
<1>6. PICK p \in 1 .. Len(tokens) : p = at + 1
  BY <1>1, <1>5
<1>7. p - 1 = at /\ p - 2 = at - 1 /\ a + 2 <= p
  BY <1>1, <1>2, <1>4, <1>6
<1>8. Here(kind, a, p, "arg", have)
  BY <1>3, <1>4, <1>7 DEF Here
<1>9. ASSUME Whole PROVE Ahead(e, p, "arg")
  <2>1. PICK under, a0, e0 : Caller(L, b, d, a, e, under, a0, e0)
    BY <1>1, <1>2, <1>4, BelowNow
  <2>2. Top.is = "call" /\ Ended(under, Top, e0, e)
    BY <1>2, <1>4, <1>9, <2>1 DEF Caller, Current
  <2>3. Type(e) = ")"
    BY <2>2 DEF Ended
  <2>4. at # e
    BY <1>3, <2>3
  <2>5. at + 1 < e /\ Arguments(at + 1, e - 1)
    BY <1>4, <1>9, <2>4
  <2> QED
    BY <1>6, <2>5 DEF Ahead
<1> QED
  BY <1>1, <1>2, <1>3, <1>6, <1>8, <1>9, Stayed

\* A value is expected by a predicate or a list, so there is one.
LEMMA ValueCaller ==
  ASSUME Lexed, NEW L, NEW b, NEW d, NEW a, NEW e, NEW under, NEW a0, NEW e0,
         Caller(L, b, d, a, e, under, a0, e0), NEW v, ValueAt(under, a0, v)
  PROVE  Len(Below) # 0 /\ under \in {"predicate", "list"}
<1>1. under \in {"predicate", "list"}
  BY DEF ValueAt
<1>2. L - 1 = 0 => under = "parse"
  BY DEF Caller
<1>3. Len(Below) = L - 1
  BY DEF Caller
<1>4. under # "parse"
  BY <1>1
<1> QED
  BY <1>1, <1>2, <1>3, <1>4

LEMMA EndCallOK ==
  ASSUME Lexed, Traced(stack, at, want, have), EndCall
  PROVE  Traced(stack', at', want', have')
<1>1. /\ IsSeq(stack) /\ at \in 1 .. Len(tokens) /\ at \in Nat
      /\ Len(tokens) \in Nat /\ tokens \in Seq(Token) /\ Tok = Type(at)
  BY Now
<1>2. PICK L, kind, b, d, a, e : /\ Current(L, kind, b, d, a, e)
                                 /\ L \in Nat /\ a \in 1 .. Len(tokens) /\ e \in 0 .. Len(tokens) - 1
  BY Now
<1>3. /\ want = "args" /\ Type(at) = ")"
      /\ IF Top.of = "expr" THEN Return(1, Below, [is |-> "leaf", from |-> Top.from, to |-> at])
         ELSE ReturnValue(1, Below)
  BY <1>1 DEF EndCall, Parsing
<1>4. /\ kind = "call" /\ Arguments(a, at - 1) /\ a <= at
      /\ Whole => at = e
  BY <1>2, <1>3 DEF Current, Here, Ahead
<1>5. at < Len(tokens)
  BY <1>1, <1>3, Now
<1>6. PICK under, a0, e0 : /\ Caller(L, b, d, a, e, under, a0, e0)
                           /\ a0 \in 1 .. Len(tokens) /\ e0 \in 0 .. Len(tokens) - 1
  BY <1>1, <1>2, <1>4, BelowNow
<1>7. /\ IsSeq(Below) /\ Len(Below) = L - 1 /\ Frames(Below, b, d) /\ under = Kind(Below, L - 1)
      /\ a0 = b[L - 1] /\ e0 = d[L - 1] /\ Top.is = "call"
      /\ Framed(under, Top, a0, a) /\ (Whole => Ended(under, Top, e0, e))
  BY <1>2, <1>4, <1>6 DEF Current, Caller
<1>8. PICK v : v = Top.from
  OBVIOUS
<1>9. /\ v \in Nat \ {0} /\ a = v + 2 /\ Type(v) = "IDENT" /\ Type(v + 1) = "("
      /\ \/ Top.of = "expr" /\ under \in Exprs /\ v = a0
         \/ Top.of = "value" /\ ValueAt(under, a0, v)
  BY <1>7, <1>8 DEF Framed
<1>10. v \in 1 .. Len(tokens) /\ at >= v + 2 /\ at \in 1 .. Len(tokens) - 1
  <2>1. v \in Nat \ {0} /\ a = v + 2
    BY <1>9
  <2>2. a <= at
    BY <1>4
  <2> QED
    BY <1>1, <1>5, <2>1, <2>2
<1>11. IsCall(v, at)
  BY <1>3, <1>4, <1>9, <1>10 DEF IsCall
<1>12. v \in 1 .. Len(tokens) + 1 /\ at \in 0 .. Len(tokens)
  BY <1>1, <1>10
<1>13. CASE Top.of = "expr"
  <2>1. under \in Exprs /\ v = a0
    BY <1>9, <1>13
  <2>2. IsLeaf(v, at)
    BY <1>11, LeafIsRead
  <2>3. Expression(v, at) = [is |-> "leaf", from |-> v, to |-> at] /\ Unary(v, at)
    BY <1>1, <1>12, <2>2, LeafOf
  <2>4. /\ at' = at + 1 /\ stack' = Below /\ want' = "rest"
        /\ have' = Expression(v, at)
    BY <1>3, <1>8, <1>13, <2>3 DEF Return
  <2>5. Whole => Rest(at + 1, e0)
    BY <1>4, <1>7, <1>13 DEF Ended
  <2>6. Traced(Below, at + 1, "rest", have')
    BY <1>7, <1>10, <2>1, <2>3, <2>4, <2>5, UnaryReturned
  <2> QED
    BY <2>4, <2>6
<1>14. CASE Top.of = "value"
  <2>1. ValueAt(under, a0, v)
    BY <1>9, <1>14
  <2>2. Value(v, at)
    BY <1>1, <1>11, <1>12, Grammar
  <2>3. Whole => ValueEnds(under, e0, at)
    BY <1>4, <1>7, <1>14 DEF Ended
  <2>4. Len(Below) # 0 /\ under \in {"predicate", "list"}
    BY <1>6, <2>1, ValueCaller
  <2>5. ReturnValue(1, Below)
    BY <1>3, <1>14
  <2>6. 1 \in Nat
    OBVIOUS
  <2> QED
    BY <1>1, <1>7, <1>10, <2>1, <2>2, <2>3, <2>4, <2>5, <2>6, ValueReturned
<1> QED
  BY <1>9, <1>13, <1>14

LEMMA ParseAtomOK ==
  ASSUME Lexed, Traced(stack, at, want, have), ParseAtom
  PROVE  Traced(stack', at', want', have')
<1>1. /\ IsSeq(stack) /\ at \in 1 .. Len(tokens) /\ at \in Nat
      /\ Len(tokens) \in Nat /\ tokens \in Seq(Token) /\ Tok = Type(at)
  BY Now
<1>2. PICK L, kind, b, d, a, e : /\ Current(L, kind, b, d, a, e)
                                 /\ L \in Nat /\ a \in 1 .. Len(tokens) /\ e \in 0 .. Len(tokens) - 1
  BY Now
<1>3. /\ want \in {"value", "item"} /\ Type(at) \in Atoms
      /\ ~(Type(at) = "IDENT" /\ NextTok = "(") /\ ReturnValue(1, stack)
  BY <1>1 DEF ParseAtom, Parsing
<1>4. Type(at) # "EOF" /\ Type(at) # "]" /\ Type(at) # "["
  BY <1>3 DEF Atoms
<1>5. at < Len(tokens) /\ NextTok = Type(at + 1)
  BY <1>1, <1>4, Now
<1>6. /\ at \in 1 .. Len(tokens) - 1 /\ at \in 1 .. Len(tokens) + 1 /\ at \in 0 .. Len(tokens)
      /\ 1 \in Nat
  BY <1>1, <1>5
<1>7. /\ kind \in {"predicate", "list"} /\ ValueAt(kind, a, at)
      /\ Whole /\ Type(at) # "]" =>
           \E q \in 1 .. Len(tokens) - 1 :
             q <= e /\ Value(at, q) /\ ValueEnds(kind, e, q) /\ Type(q + 1) # "("
  BY <1>2, <1>3, ValueNow
<1>8. Value(at, at)
  BY <1>1, <1>3, <1>6, Grammar
<1>9. ASSUME Whole PROVE ValueEnds(kind, e, at)
  <2>1. PICK q \in 1 .. Len(tokens) - 1 : Value(at, q) /\ ValueEnds(kind, e, q)
    BY <1>4, <1>7, <1>9
  <2>2. q \in 0 .. Len(tokens)
    BY <1>1
  <2>3. ~IsCall(at, q)
    BY <1>3, <1>5 DEF IsCall
  <2>4. at = q
    BY <1>1, <1>4, <1>6, <2>1, <2>2, <2>3, Grammar
  <2> QED
    BY <2>1, <2>4
<1>10. /\ Frames(stack, b, d) /\ L = Len(stack) /\ kind = Kind(stack, Len(stack))
       /\ a = b[Len(stack)] /\ e = d[Len(stack)]
  BY <1>2 DEF Current
<1>11. Len(stack) # 0
  <2>1. kind # "parse"
    BY <1>7
  <2> QED
    BY <1>10, <2>1 DEF Kind
<1> QED
  BY <1>1, <1>3, <1>6, <1>7, <1>8, <1>9, <1>10, <1>11, ValueReturned

LEMMA ParseListOK ==
  ASSUME Lexed, Traced(stack, at, want, have), ParseList
  PROVE  Traced(stack', at', want', have')
<1>1. /\ IsSeq(stack) /\ at \in 1 .. Len(tokens) /\ at \in Nat
      /\ Len(tokens) \in Nat /\ tokens \in Seq(Token) /\ Tok = Type(at)
  BY Now
<1>2. PICK L, kind, b, d, a, e : /\ Current(L, kind, b, d, a, e)
                                 /\ L \in Nat /\ a \in 1 .. Len(tokens) /\ e \in 0 .. Len(tokens) - 1
  BY Now
<1>3. /\ want \in {"value", "item"} /\ Type(at) = "["
      /\ Move(1, Append(stack, [is |-> "list"]), "item")
  BY <1>1 DEF ParseList, Parsing
<1>4. at < Len(tokens)
  BY <1>1, <1>3, Now
<1>5. PICK p \in 1 .. Len(tokens) : p = at + 1
  BY <1>1, <1>4
<1>6. /\ kind \in {"predicate", "list"} /\ ValueAt(kind, a, at) /\ a <= at
      /\ Whole /\ Type(at) # "]" =>
           \E q \in 1 .. Len(tokens) - 1 :
             q <= e /\ Value(at, q) /\ ValueEnds(kind, e, q) /\ Type(q + 1) # "("
  BY <1>2, <1>3, ValueNow
<1>7. PICK f : f = [is |-> "list"]
  OBVIOUS
<1>8. f.is = "list"
  BY <1>7
<1>9. a < p /\ p - 1 = at /\ p \in 1 .. Len(tokens) + 1 /\ p - 1 \in 0 .. Len(tokens) /\ p > p - 1 /\ p <= p
  <2>1. a <= at
    BY <1>6
  <2> QED
    BY <1>1, <1>2, <1>5, <2>1
<1>10. Items(p, p - 1)
  BY <1>1, <1>9, Grammar
<1>11. Framed(kind, f, a, p) /\ Here(f.is, p, p, "item", have)
  BY <1>3, <1>6, <1>8, <1>9, <1>10 DEF Framed, Here
<1>12. ASSUME Whole
       PROVE  \E e1 \in 0 .. Len(tokens) - 1 : Ended(kind, f, e, e1) /\ Closed(f.is, e1) /\ Ahead(e1, p, "item")
  <2>1. Type(at) # "]" /\ Type(at) \notin Atoms /\ Type(at) # "IDENT"
    BY <1>3 DEF Atoms
  <2>2. PICK q \in 1 .. Len(tokens) - 1 : q <= e /\ Value(at, q) /\ ValueEnds(kind, e, q)
    BY <1>6, <1>12, <2>1
  <2>3. at \in 1 .. Len(tokens) + 1 /\ q \in 0 .. Len(tokens)
    BY <1>1
  <2>4. ~IsCall(at, q)
    BY <2>1 DEF IsCall
  <2>5. at < q /\ Type(q) = "]" /\ Items(at + 1, q - 1)
    BY <1>1, <2>1, <2>2, <2>3, <2>4, Grammar
  <2>6. PICK e1 \in 0 .. Len(tokens) - 1 : e1 = q - 1
    BY <1>1
  <2>7. at < q /\ q <= e
    BY <2>2, <2>5
  <2>8. e1 < e /\ e1 + 1 = q /\ p <= e1 + 1
    BY <1>1, <1>2, <1>5, <2>6, <2>7
  <2>9. Items(p, e1)
    BY <1>5, <2>5, <2>6
  <2>10. Ended(kind, f, e, e1)
    BY <1>8, <2>2, <2>5, <2>8 DEF Ended
  <2>11. Closed(f.is, e1)
    BY <1>8 DEF Closed, Exprs
  <2> QED
    BY <2>8, <2>9, <2>10, <2>11 DEF Ahead
<1> QED
  BY <1>1, <1>2, <1>3, <1>5, <1>7, <1>11, <1>12, Called

LEMMA EndListOK ==
  ASSUME Lexed, Traced(stack, at, want, have), EndList
  PROVE  Traced(stack', at', want', have')
<1>1. /\ IsSeq(stack) /\ at \in 1 .. Len(tokens) /\ at \in Nat
      /\ Len(tokens) \in Nat /\ tokens \in Seq(Token) /\ Tok = Type(at)
  BY Now
<1>2. PICK L, kind, b, d, a, e : /\ Current(L, kind, b, d, a, e)
                                 /\ L \in Nat /\ a \in 1 .. Len(tokens) /\ e \in 0 .. Len(tokens) - 1
  BY Now
<1>3. want = "item" /\ Type(at) = "]" /\ ReturnValue(1, Below)
  BY <1>1 DEF EndList, Parsing
<1>4. at < Len(tokens)
  BY <1>1, <1>3, Now
<1>5. kind = "list" /\ a <= at /\ Items(a, at - 1) /\ (Whole => at <= e + 1 /\ Items(at, e))
  BY <1>2, <1>3 DEF Current, Here, Ahead
<1>6. PICK under, a0, e0 : /\ Caller(L, b, d, a, e, under, a0, e0)
                           /\ a0 \in 1 .. Len(tokens) /\ e0 \in 0 .. Len(tokens) - 1
  BY <1>1, <1>2, <1>5, BelowNow
<1>7. /\ IsSeq(Below) /\ Len(Below) = L - 1 /\ Frames(Below, b, d) /\ under = Kind(Below, L - 1)
      /\ a0 = b[L - 1] /\ e0 = d[L - 1] /\ Top.is = "list"
      /\ Framed(under, Top, a0, a) /\ (Whole => Ended(under, Top, e0, e))
  BY <1>2, <1>5, <1>6 DEF Current, Caller
<1>8. a0 < a /\ Type(a - 1) = "[" /\ ValueAt(under, a0, a - 1)
  BY <1>7 DEF Framed
<1>9. PICK v \in 1 .. Len(tokens) : v = a - 1
  <2>1. a0 < a
    BY <1>8
  <2> QED
    BY <1>1, <1>2, <1>6, <2>1
<1>10. /\ v + 1 = a /\ v < at /\ v \in 1 .. Len(tokens) + 1 /\ at \in 0 .. Len(tokens)
       /\ at \in 1 .. Len(tokens) - 1 /\ 1 \in Nat
  <2>1. a <= at
    BY <1>5
  <2> QED
    BY <1>1, <1>2, <1>4, <1>9, <2>1
<1>11. Value(v, at)
  <2>1. Type(v) = "["
    BY <1>8, <1>9
  <2>2. Items(v + 1, at - 1)
    BY <1>5, <1>10
  <2> QED
    BY <1>1, <1>3, <1>10, <2>1, <2>2, Grammar
<1>12. ASSUME Whole PROVE ValueEnds(under, e0, at)
  <2>1. at <= e + 1
    BY <1>5, <1>12
  <2>2. at \in 1 .. Len(tokens) + 1 /\ e \in 0 .. Len(tokens)
    BY <1>1, <1>2
  <2>3. \A k \in at..e : ~Value(at, k)
    <3> SUFFICES ASSUME NEW k \in at..e, Value(at, k) PROVE FALSE
      OBVIOUS
    <3>1. k \in 0 .. Len(tokens)
      BY <1>1, <1>2
    <3>2. Type(at) \in Atoms \cup {"["}
      BY <1>1, <2>2, <3>1, ValueFacts
    <3> QED
      BY <1>3, <3>2 DEF Atoms
  <2>4. at > e
    BY <1>1, <1>5, <1>12, <2>2, <2>3, Grammar
  <2>5. at = e + 1
    BY <1>1, <1>2, <2>1, <2>4
  <2> QED
    BY <1>7, <1>12, <2>5 DEF Ended
<1>13. Len(Below) # 0 /\ under \in {"predicate", "list"}
  BY <1>6, <1>8, ValueCaller
<1> QED
  BY <1>1, <1>3, <1>7, <1>8, <1>9, <1>10, <1>11, <1>12, <1>13, ValueReturned

LEMMA ReturnNotOK ==
  ASSUME Lexed, Traced(stack, at, want, have), ReturnNot
  PROVE  Traced(stack', at', want', have')
<1>1. /\ IsSeq(stack) /\ at \in 1 .. Len(tokens) /\ at \in Nat
      /\ Len(tokens) \in Nat /\ tokens \in Seq(Token)
  BY Now
<1>2. PICK L, kind, b, d, a, e : /\ Current(L, kind, b, d, a, e)
                                 /\ L \in Nat /\ a \in 1 .. Len(tokens) /\ e \in 0 .. Len(tokens) - 1
  BY Now
<1>3. want = "rest" /\ Top.is = "not" /\ Return(0, Below, [is |-> "not", of |-> have])
  BY DEF ReturnNot, Parsing
<1>4. /\ kind = "not" /\ a < at /\ Unary(a, at - 1) /\ have = Expression(a, at - 1)
      /\ Whole => Rest(at, e)
  BY <1>2, <1>3 DEF Current, Here, Ahead
<1>5. PICK under, a0, e0 : /\ Caller(L, b, d, a, e, under, a0, e0)
                           /\ a0 \in 1 .. Len(tokens) /\ e0 \in 0 .. Len(tokens) - 1
  BY <1>1, <1>2, <1>4, BelowNow
<1>6. /\ IsSeq(Below) /\ Len(Below) = L - 1 /\ Frames(Below, b, d) /\ under = Kind(Below, L - 1)
      /\ a0 = b[L - 1] /\ e0 = d[L - 1]
      /\ Framed(under, Top, a0, a) /\ (Whole => Ended(under, Top, e0, e))
  BY <1>5 DEF Caller
<1>7. under \in Exprs /\ a = a0 + 1 /\ Type(a0) = "NOT" /\ (Whole => e = e0)
  BY <1>3, <1>6 DEF Framed, Ended
<1>8. PICK q \in 1 .. Len(tokens) - 1 : q = at - 1
  <2>1. a < at
    BY <1>4
  <2> QED
    BY <1>1, <1>2, <2>1
<1>9. a0 < q /\ q + 1 = at /\ at + 0 = q + 1 /\ a0 \in 1 .. Len(tokens) + 1 /\ q \in 0 .. Len(tokens)
  <2>1. a < at /\ a = a0 + 1
    BY <1>4, <1>7
  <2> QED
    BY <1>1, <1>2, <1>5, <1>8, <2>1
<1>10. Unary(a0 + 1, q) /\ have = Expression(a0 + 1, q)
  BY <1>4, <1>7, <1>8
<1>11. Expression(a0, q) = [is |-> "not", of |-> have] /\ Unary(a0, q)
  BY <1>1, <1>7, <1>9, <1>10, NotOf
<1>12. at' = at + 0 /\ stack' = Below /\ want' = "rest" /\ have' = Expression(a0, q)
  BY <1>3, <1>11 DEF Return
<1>13. Whole => Rest(q + 1, e0)
  BY <1>4, <1>7, <1>9
<1>14. Traced(Below, q + 1, "rest", have')
  BY <1>6, <1>7, <1>8, <1>11, <1>12, <1>13, UnaryReturned
<1> QED
  BY <1>9, <1>12, <1>14

\* Two expressions have been joined, by a method that waits for one.
LEMMA Rejoined ==
  ASSUME Lexed, NEW s, IsSeq(s), NEW b, NEW d, Frames(s, b, d), NEW under, NEW a0,
         under = Kind(s, Len(s)), a0 = b[Len(s)], under \in {"parse", "group", "or"},
         a0 < at, at \in 1 .. Len(tokens), Sentence(a0, at - 1),
         NEW h, h = Expression(a0, at - 1),
         under = "or" \/ Type(at) = "AND" => Free(a0, at - 1, "OR"),
         Whole => Rest(at, d[Len(s)])
  PROVE  Traced(s, at, "rest", h)
<1>1. under \in Exprs /\ under \notin {"not", "and"}
  BY DEF Exprs
<1>2. Here(under, a0, at, "rest", h)
  BY <1>1 DEF Here
<1>3. Whole => Ahead(d[Len(s)], at, "rest")
  BY DEF Ahead
<1> QED
  BY <1>2, <1>3 DEF Traced

LEMMA ReturnAndOK ==
  ASSUME Lexed, Traced(stack, at, want, have), ReturnAnd
  PROVE  Traced(stack', at', want', have')
<1>1. /\ IsSeq(stack) /\ at \in 1 .. Len(tokens) /\ at \in Nat
      /\ Len(tokens) \in Nat /\ tokens \in Seq(Token)
  BY Now
<1>2. PICK L, kind, b, d, a, e : /\ Current(L, kind, b, d, a, e)
                                 /\ L \in Nat /\ a \in 1 .. Len(tokens) /\ e \in 0 .. Len(tokens) - 1
  BY Now
<1>3. /\ want = "rest" /\ Top.is = "and"
      /\ Return(0, Below, [is |-> "and", left |-> Top.left, right |-> have])
  BY DEF ReturnAnd, Parsing
<1>4. /\ kind = "and" /\ a < at /\ Unary(a, at - 1) /\ have = Expression(a, at - 1)
      /\ Whole => Rest(at, e)
  BY <1>2, <1>3 DEF Current, Here, Ahead
<1>5. PICK under, a0, e0 : /\ Caller(L, b, d, a, e, under, a0, e0)
                           /\ a0 \in 1 .. Len(tokens) /\ e0 \in 0 .. Len(tokens) - 1
  BY <1>1, <1>2, <1>4, BelowNow
<1>6. /\ IsSeq(Below) /\ Len(Below) = L - 1 /\ Frames(Below, b, d) /\ under = Kind(Below, L - 1)
      /\ a0 = b[L - 1] /\ e0 = d[L - 1]
      /\ Framed(under, Top, a0, a) /\ (Whole => Ended(under, Top, e0, e))
  BY <1>5 DEF Caller
<1>7. /\ under \in {"parse", "group", "or"} /\ a0 + 2 <= a /\ Type(a - 1) = "AND"
      /\ Sentence(a0, a - 2) /\ Top.left = Expression(a0, a - 2) /\ Free(a0, a - 2, "OR")
      /\ (Whole => e = e0)
  BY <1>3, <1>6 DEF Framed, Ended
<1>8. PICK q \in 0 .. Len(tokens), k \in Nat : q = at - 1 /\ k = a - 1
  BY <1>1, <1>2
<1>9. /\ k \in a0..q /\ k + 1 = a /\ k - 1 = a - 2 /\ a0 < at /\ at + 0 = at
      /\ a0 \in 1 .. Len(tokens) + 1
  <2>1. a < at /\ a0 + 2 <= a
    BY <1>4, <1>7
  <2> QED
    BY <1>1, <1>2, <1>5, <1>8, <2>1
<1>10. /\ Type(k) = "AND" /\ Sentence(a0, k - 1) /\ Free(a0, k - 1, "OR")
       /\ Sentence(k + 1, q) /\ Free(k + 1, q, "OR") /\ Free(k + 1, q, "AND")
  BY <1>4, <1>7, <1>8, <1>9 DEF Unary
<1>11. /\ Expression(a0, q) = [is |-> "and", left |-> Expression(a0, k - 1), right |-> Expression(k + 1, q)]
       /\ Sentence(a0, q) /\ Free(a0, q, "OR")
  BY <1>1, <1>9, <1>10, JoinAnd
<1>12. at' = at + 0 /\ stack' = Below /\ want' = "rest" /\ have' = Expression(a0, q)
  <2>1. have' = [is |-> "and", left |-> Top.left, right |-> have]
    BY <1>3 DEF Return
  <2>2. Top.left = Expression(a0, k - 1) /\ have = Expression(k + 1, q)
    BY <1>4, <1>7, <1>8, <1>9
  <2> QED
    BY <1>3, <1>11, <2>1, <2>2 DEF Return
<1>13. Whole => Rest(at, e0)
  BY <1>4, <1>7
<1>14. Traced(Below, at, "rest", have')
  BY <1>1, <1>6, <1>7, <1>8, <1>9, <1>11, <1>12, <1>13, Rejoined
<1> QED
  BY <1>9, <1>12, <1>14

LEMMA ReturnOrOK ==
  ASSUME Lexed, Traced(stack, at, want, have), ReturnOr
  PROVE  Traced(stack', at', want', have')
<1>1. /\ IsSeq(stack) /\ at \in 1 .. Len(tokens) /\ at \in Nat
      /\ Len(tokens) \in Nat /\ tokens \in Seq(Token) /\ Tok = Type(at)
  BY Now
<1>2. PICK L, kind, b, d, a, e : /\ Current(L, kind, b, d, a, e)
                                 /\ L \in Nat /\ a \in 1 .. Len(tokens) /\ e \in 0 .. Len(tokens) - 1
  BY Now
<1>3. /\ want = "rest" /\ Top.is = "or" /\ Type(at) # "AND"
      /\ Return(0, Below, [is |-> "or", left |-> Top.left, right |-> have])
  BY <1>1 DEF ReturnOr, Parsing
<1>4. /\ kind = "or" /\ a < at /\ Sentence(a, at - 1) /\ have = Expression(a, at - 1)
      /\ Free(a, at - 1, "OR")
      /\ Whole => Rest(at, e)
  BY <1>2, <1>3 DEF Current, Here, Ahead
<1>5. PICK under, a0, e0 : /\ Caller(L, b, d, a, e, under, a0, e0)
                           /\ a0 \in 1 .. Len(tokens) /\ e0 \in 0 .. Len(tokens) - 1
  BY <1>1, <1>2, <1>4, BelowNow
<1>6. /\ IsSeq(Below) /\ Len(Below) = L - 1 /\ Frames(Below, b, d) /\ under = Kind(Below, L - 1)
      /\ a0 = b[L - 1] /\ e0 = d[L - 1]
      /\ Framed(under, Top, a0, a) /\ (Whole => Ended(under, Top, e0, e))
  BY <1>5 DEF Caller
<1>7. /\ under \in {"parse", "group"} /\ a0 + 2 <= a /\ Type(a - 1) = "OR"
      /\ Sentence(a0, a - 2) /\ Top.left = Expression(a0, a - 2)
      /\ (Whole => e = e0)
  BY <1>3, <1>6 DEF Framed, Ended
<1>8. PICK q \in 0 .. Len(tokens), k \in Nat : q = at - 1 /\ k = a - 1
  BY <1>1, <1>2
<1>9. /\ k \in a0..q /\ k + 1 = a /\ k - 1 = a - 2 /\ a0 < at /\ at + 0 = at
      /\ a0 \in 1 .. Len(tokens) + 1
  <2>1. a < at /\ a0 + 2 <= a
    BY <1>4, <1>7
  <2> QED
    BY <1>1, <1>2, <1>5, <1>8, <2>1
<1>10. /\ Type(k) = "OR" /\ Sentence(a0, k - 1)
       /\ Sentence(k + 1, q) /\ Free(k + 1, q, "OR")
  BY <1>4, <1>7, <1>8, <1>9
<1>11. /\ Expression(a0, q) = [is |-> "or", left |-> Expression(a0, k - 1), right |-> Expression(k + 1, q)]
       /\ Sentence(a0, q)
  BY <1>1, <1>9, <1>10, JoinOr
<1>12. at' = at + 0 /\ stack' = Below /\ want' = "rest" /\ have' = Expression(a0, q)
  <2>1. have' = [is |-> "or", left |-> Top.left, right |-> have]
    BY <1>3 DEF Return
  <2>2. Top.left = Expression(a0, k - 1) /\ have = Expression(k + 1, q)
    BY <1>4, <1>7, <1>8, <1>9
  <2> QED
    BY <1>3, <1>11, <2>1, <2>2 DEF Return
<1>13. Whole => Rest(at, e0)
  BY <1>4, <1>7
<1>14. under \in {"parse", "group", "or"} /\ under # "or"
  BY <1>7
<1>15. Traced(Below, at, "rest", have')
  BY <1>1, <1>3, <1>6, <1>8, <1>9, <1>11, <1>12, <1>13, <1>14, Rejoined
<1> QED
  BY <1>9, <1>12, <1>15

LEMMA LoopAndOK ==
  ASSUME Lexed, Traced(stack, at, want, have), LoopAnd
  PROVE  Traced(stack', at', want', have')
<1>1. /\ IsSeq(stack) /\ at \in 1 .. Len(tokens) /\ at \in Nat
      /\ Len(tokens) \in Nat /\ tokens \in Seq(Token) /\ Tok = Type(at)
  BY Now
<1>2. PICK L, kind, b, d, a, e : /\ Current(L, kind, b, d, a, e)
                                 /\ L \in Nat /\ a \in 1 .. Len(tokens) /\ e \in 0 .. Len(tokens) - 1
  BY Now
<1>3. PICK f : f = [is |-> "and", left |-> have]
  OBVIOUS
<1>4. /\ want = "rest" /\ Top.is \notin {"not", "and"} /\ Type(at) = "AND"
      /\ Move(1, Append(stack, f), "expr")
  BY <1>1, <1>3 DEF LoopAnd, Parsing
<1>5. /\ kind \in Exprs \ {"not", "and"} /\ a < at /\ Sentence(a, at - 1)
      /\ have = Expression(a, at - 1) /\ Free(a, at - 1, "OR")
      /\ Whole => Rest(at, e) /\ Closed(kind, e)
  BY <1>2, <1>4 DEF Current, Here, Ahead
<1>6. at < Len(tokens)
  BY <1>1, <1>4, Now
<1>7. PICK p \in 1 .. Len(tokens) : p = at + 1
  BY <1>1, <1>6
<1>8. f.is = "and" /\ f.left = have /\ "and" \in Exprs
  BY <1>3 DEF Exprs
<1>9. a + 2 <= p /\ p - 1 = at /\ p - 2 = at - 1
  <2>1. a < at
    BY <1>5
  <2> QED
    BY <1>1, <1>2, <1>7, <2>1
<1>10. kind \in {"parse", "group", "or"}
  BY <1>5 DEF Exprs
<1>11. Framed(kind, f, a, p) /\ Here(f.is, p, p, "expr", have)
  BY <1>4, <1>5, <1>8, <1>9, <1>10 DEF Framed, Here
<1>12. ASSUME Whole PROVE Ended(kind, f, e, e) /\ Closed(f.is, e) /\ Ahead(e, p, "expr")
  <2>1. Rest(at, e) /\ Type(e + 1) \in {")", "EOF"}
    BY <1>5, <1>12 DEF Closed
  <2>2. at # e + 1
    BY <1>4, <2>1
  <2>3. Sentence(p, e)
    BY <1>7, <2>1, <2>2 DEF Rest
  <2>4. p \in 1 .. Len(tokens) + 1 /\ e \in 0 .. Len(tokens)
    BY <1>1, <1>2
  <2>5. Chain(p, e)
    BY <1>1, <2>3, <2>4, SentenceChain
  <2> QED
    BY <1>8, <2>1, <2>5 DEF Ended, Closed, Ahead
<1> QED
  BY <1>1, <1>2, <1>4, <1>7, <1>11, <1>12, Called

LEMMA LoopOrOK ==
  ASSUME Lexed, Traced(stack, at, want, have), LoopOr
  PROVE  Traced(stack', at', want', have')
<1>1. /\ IsSeq(stack) /\ at \in 1 .. Len(tokens) /\ at \in Nat
      /\ Len(tokens) \in Nat /\ tokens \in Seq(Token) /\ Tok = Type(at)
  BY Now
<1>2. PICK L, kind, b, d, a, e : /\ Current(L, kind, b, d, a, e)
                                 /\ L \in Nat /\ a \in 1 .. Len(tokens) /\ e \in 0 .. Len(tokens) - 1
  BY Now
<1>3. PICK f : f = [is |-> "or", left |-> have]
  OBVIOUS
<1>4. /\ want = "rest" /\ Top.is \notin {"not", "and", "or"} /\ Type(at) = "OR"
      /\ Move(1, Append(stack, f), "expr")
  BY <1>1, <1>3 DEF LoopOr, Parsing
<1>5. /\ kind \in Exprs \ {"not", "and", "or"} /\ a < at /\ Sentence(a, at - 1)
      /\ have = Expression(a, at - 1)
      /\ Whole => Rest(at, e) /\ Closed(kind, e)
  BY <1>2, <1>4 DEF Current, Here, Ahead
<1>6. at < Len(tokens)
  BY <1>1, <1>4, Now
<1>7. PICK p \in 1 .. Len(tokens) : p = at + 1
  BY <1>1, <1>6
<1>8. f.is = "or" /\ f.left = have /\ "or" \in Exprs
  BY <1>3 DEF Exprs
<1>9. a + 2 <= p /\ p - 1 = at /\ p - 2 = at - 1
  <2>1. a < at
    BY <1>5
  <2> QED
    BY <1>1, <1>2, <1>7, <2>1
<1>10. kind \in {"parse", "group"}
  BY <1>5 DEF Exprs
<1>11. Framed(kind, f, a, p) /\ Here(f.is, p, p, "expr", have)
  BY <1>4, <1>5, <1>8, <1>9, <1>10 DEF Framed, Here
<1>12. ASSUME Whole PROVE Ended(kind, f, e, e) /\ Closed(f.is, e) /\ Ahead(e, p, "expr")
  <2>1. Rest(at, e) /\ Type(e + 1) \in {")", "EOF"}
    BY <1>5, <1>12 DEF Closed
  <2>2. at # e + 1
    BY <1>4, <2>1
  <2>3. Sentence(p, e)
    BY <1>7, <2>1, <2>2 DEF Rest
  <2>4. p \in 1 .. Len(tokens) + 1 /\ e \in 0 .. Len(tokens)
    BY <1>1, <1>2
  <2>5. Chain(p, e)
    BY <1>1, <2>3, <2>4, SentenceChain
  <2> QED
    BY <1>8, <2>1, <2>5 DEF Ended, Closed, Ahead
<1> QED
  BY <1>1, <1>2, <1>4, <1>7, <1>11, <1>12, Called

LEMMA EndGroupOK ==
  ASSUME Lexed, Traced(stack, at, want, have), EndGroup
  PROVE  Traced(stack', at', want', have')
<1>1. /\ IsSeq(stack) /\ at \in 1 .. Len(tokens) /\ at \in Nat
      /\ Len(tokens) \in Nat /\ tokens \in Seq(Token) /\ Tok = Type(at)
  BY Now
<1>2. PICK L, kind, b, d, a, e : /\ Current(L, kind, b, d, a, e)
                                 /\ L \in Nat /\ a \in 1 .. Len(tokens) /\ e \in 0 .. Len(tokens) - 1
  BY Now
<1>3. want = "rest" /\ Top.is = "group" /\ Type(at) = ")" /\ Return(1, Below, have)
  BY <1>1 DEF EndGroup, Parsing
<1>4. /\ kind = "group" /\ a < at /\ Sentence(a, at - 1) /\ have = Expression(a, at - 1)
      /\ Whole => Rest(at, e)
  BY <1>2, <1>3 DEF Current, Here, Ahead
<1>5. PICK under, a0, e0 : /\ Caller(L, b, d, a, e, under, a0, e0)
                           /\ a0 \in 1 .. Len(tokens) /\ e0 \in 0 .. Len(tokens) - 1
  BY <1>1, <1>2, <1>4, BelowNow
<1>6. /\ IsSeq(Below) /\ Len(Below) = L - 1 /\ Frames(Below, b, d) /\ under = Kind(Below, L - 1)
      /\ a0 = b[L - 1] /\ e0 = d[L - 1]
      /\ Framed(under, Top, a0, a) /\ (Whole => Ended(under, Top, e0, e))
  BY <1>5 DEF Caller
<1>7. under \in Exprs /\ a = a0 + 1 /\ Type(a0) = "(" /\ (Whole => Rest(e + 2, e0))
  BY <1>3, <1>6 DEF Framed, Ended
<1>8. at < Len(tokens)
  BY <1>1, <1>3, Now
<1>9. /\ a0 < at /\ at \in 1 .. Len(tokens) - 1 /\ a0 \in 1 .. Len(tokens) + 1 /\ at \in 0 .. Len(tokens)
  <2>1. a < at /\ a = a0 + 1
    BY <1>4, <1>7
  <2> QED
    BY <1>1, <1>2, <1>5, <1>8, <2>1
<1>10. Sentence(a0 + 1, at - 1) /\ have = Expression(a0 + 1, at - 1)
  BY <1>4, <1>7
<1>11. Expression(a0, at) = have /\ Unary(a0, at)
  BY <1>1, <1>3, <1>7, <1>9, <1>10, GroupOf
<1>12. at' = at + 1 /\ stack' = Below /\ want' = "rest" /\ have' = Expression(a0, at)
  BY <1>3, <1>11 DEF Return
<1>13. ASSUME Whole PROVE Rest(at + 1, e0)
  <2>1. Type(at) \notin Loose
    BY <1>3 DEF Loose
  <2>2. at = e + 1
    BY <1>4, <1>13, <2>1 DEF Rest
  <2>3. at + 1 = e + 2
    BY <1>2, <2>2
  <2> QED
    BY <1>7, <1>13, <2>3
<1>14. Traced(Below, at + 1, "rest", have')
  BY <1>6, <1>7, <1>9, <1>11, <1>12, <1>13, UnaryReturned
<1> QED
  BY <1>12, <1>14

\* The answer is the expression that the tokens before the end are.
LEMMA AcceptOK ==
  ASSUME Lexed, Traced(stack, at, want, have), Accept
  PROVE  have = Expression(1, Len(tokens) - 1)
<1>1. /\ IsSeq(stack) /\ at \in 1 .. Len(tokens) /\ at \in Nat
      /\ Len(tokens) \in Nat /\ tokens \in Seq(Token) /\ Tok = Type(at)
  BY Now
<1>2. PICK L, kind, b, d, a, e : /\ Current(L, kind, b, d, a, e)
                                 /\ L \in Nat /\ a \in 1 .. Len(tokens) /\ e \in 0 .. Len(tokens) - 1
  BY Now
<1>3. want = "rest" /\ stack = << >> /\ Type(at) = "EOF"
  BY <1>1 DEF Accept, Parsing
<1>4. L = Len(stack) /\ Frames(stack, b, d) /\ a = b[L] /\ have = Expression(a, at - 1)
  BY <1>2, <1>3 DEF Current, Here
<1>5. Len(stack) = 0
  BY <1>1, <1>3, StackFacts
<1>6. a = 1
  BY <1>1, <1>4, <1>5, LastFrame
<1>7. at = Len(tokens)
  BY <1>1, <1>3 DEF Lexed
<1> QED
  BY <1>4, <1>6, <1>7

\* An error is returned only for what no expression is.
LEMMA FailsOK ==
  ASSUME Lexed, Traced(stack, at, want, have), ParseFails
  PROVE  ~Whole
<1> SUFFICES ASSUME Whole PROVE FALSE
  OBVIOUS
<1>1. /\ IsSeq(stack) /\ at \in 1 .. Len(tokens) /\ at \in Nat
      /\ Len(tokens) \in Nat /\ tokens \in Seq(Token) /\ Tok = Type(at)
      /\ Tok # "EOF" => NextTok = Type(at + 1)
  BY Now
<1>2. PICK L, kind, b, d, a, e : /\ Current(L, kind, b, d, a, e)
                                 /\ L \in Nat /\ a \in 1 .. Len(tokens) /\ e \in 0 .. Len(tokens) - 1
  BY Now
<1>3. Unexpected
  BY DEF ParseFails
<1>4. /\ Here(kind, a, at, want, have) /\ Ahead(e, at, want) /\ Closed(kind, e) /\ kind = Top.is
      /\ L = Len(stack) /\ Frames(stack, b, d) /\ e = d[L]
  BY <1>2 DEF Current
<1>5. CASE want = "expr"
  <2>1. /\ Type(at) # "NOT" /\ Type(at) # "("
        /\ ~(Type(at) = "IDENT" /\ NextTok \in Operators \cup {"("})
    BY <1>1, <1>3, <1>5 DEF Unexpected
  <2>2. Chain(at, e)
    BY <1>4, <1>5 DEF Ahead
  <2>3. \/ Type(at) = "NOT" \/ Type(at) = "("
        \/ Type(at) = "IDENT" /\ Type(at + 1) \in Operators \cup {"("}
    BY <1>1, <1>2, <2>2, ChainFacts
  <2>4. Type(at) = "IDENT" => NextTok = Type(at + 1)
    BY <1>1
  <2> QED
    BY <2>1, <2>3, <2>4
<1>6. CASE want \in {"value", "item"}
  <2>1. Type(at) \notin Atoms \cup {"["} /\ (want = "item" => Type(at) # "]")
    BY <1>1, <1>3, <1>6 DEF Unexpected
  <2>2. CASE Type(at) # "]"
    <3>1. PICK q \in 1 .. Len(tokens) - 1 : Value(at, q)
      BY <1>2, <1>6, <2>2, ValueNow
    <3>2. at \in 1 .. Len(tokens) + 1 /\ q \in 0 .. Len(tokens)
      BY <1>1
    <3> QED
      BY <1>1, <2>1, <3>1, <3>2, ValueFacts
  <2>3. CASE want = "value"
    <3>1. Value(at, e) /\ at \in 1 .. Len(tokens) + 1 /\ e \in 0 .. Len(tokens)
      BY <1>1, <1>2, <1>4, <2>3 DEF Ahead
    <3> QED
      BY <1>1, <2>1, <3>1, ValueFacts
  <2> QED
    BY <1>6, <2>1, <2>2, <2>3
<1>7. CASE want = "arg"
  <2>1. Type(at) \notin Atoms
    BY <1>1, <1>3, <1>7 DEF Unexpected
  <2>2. at < e /\ Arguments(at, e - 1)
    BY <1>4, <1>7 DEF Ahead
  <2>3. e - 1 \in Nat /\ at <= e - 1
    BY <1>1, <1>2, <2>2
  <2> QED
    BY <1>1, <2>1, <2>2, <2>3, ArgumentsLess
<1>8. CASE want = "args"
  <2>1. Type(at) # "," /\ Type(at) # ")"
    BY <1>1, <1>3, <1>8 DEF Unexpected
  <2>2. kind = "call" /\ (at = e \/ Type(at) = ",")
    BY <1>4, <1>8 DEF Here, Ahead
  <2>3. PICK under, a0, e0 : Caller(L, b, d, a, e, under, a0, e0)
    BY <1>1, <1>2, <2>2, BelowNow
  <2>4. Type(e) = ")"
    BY <1>4, <2>2, <2>3 DEF Caller, Ended
  <2> QED
    BY <2>1, <2>2, <2>4
<1>9. CASE want = "rest"
  <2>1. \/ kind = "group" /\ Type(at) \notin {"AND", "OR", ")"}
        \/ stack = << >> /\ Type(at) \notin {"AND", "OR", "EOF"}
    BY <1>1, <1>3, <1>4, <1>9 DEF Unexpected
  <2>2. at = e + 1
    BY <1>4, <1>9, <2>1 DEF Ahead, Rest, Loose
  <2>3. CASE kind = "group" /\ Type(at) # ")"
    <3>1. PICK under, a0, e0 : Caller(L, b, d, a, e, under, a0, e0)
      BY <1>1, <1>2, <2>3, BelowNow
    <3>2. Type(e + 1) = ")"
      BY <1>4, <2>3, <3>1 DEF Caller, Ended
    <3> QED
      BY <2>2, <2>3, <3>2
  <2>4. CASE stack = << >> /\ Type(at) # "EOF"
    <3>1. Len(stack) = 0
      BY <1>1, <2>4, StackFacts
    <3>2. e = Len(tokens) - 1
      BY <1>1, <1>4, <3>1, LastFrame
    <3>3. at = Len(tokens)
      BY <1>1, <2>2, <3>2
    <3> QED
      BY <2>4, <3>3, LexedFacts
  <2> QED
    BY <2>1, <2>3, <2>4
<1> QED
  BY <1>4, <1>5, <1>6, <1>7, <1>8, <1>9 DEF Here

-----------------------------------------------------------------------------
(***************************************************************************)
(* THE INVARIANT OF THE PARSER                                             *)
(***************************************************************************)

\* What is said of the tokens is said of them until they change.
LEMMA SameTokens ==
  ASSUME tokens' = tokens
  PROVE  /\ Lexed' <=> Lexed
         /\ \A i, j : (Expression(i, j))' = Expression(i, j)
         /\ Traced(stack', at', want', have') => (Traced(stack, at, want, have))'
<1>1. \A k : (Type(k))' = Type(k)
  BY DEF Type
<1>2. Lexed' <=> Lexed
  BY <1>1 DEF Lexed
<1>3. \A i, j : (Expression(i, j))' = Expression(i, j)
  BY DEF Expression, IsLeaf, IsCall, Arguments, Outside, Depth, Type
<1>4. Reader' = Reader
  BY DEF Reader, ReadsAll, ReadAt, Kinds, IsCall, Arguments, Type
<1>5. \A i, j : /\ (Value(i, j))' <=> Value(i, j)
                /\ (Items(i, j))' <=> Items(i, j)
  BY <1>4 DEF Value, Items
<1>6. \A i, j : (Arguments(i, j))' <=> Arguments(i, j)
  BY DEF Arguments, Type
<1>7. \A i, j, type : (Free(i, j, type))' <=> Free(i, j, type)
  BY DEF Free, Outside, Depth, Type
<1>8. \A i, j : (Sentence(i, j))' <=> Sentence(i, j)
  BY <1>3 DEF Sentence
<1>9. \A i, j : (Unary(i, j))' <=> Unary(i, j)
  BY <1>7, <1>8 DEF Unary
<1>10. \A i, j : (Rest(i, j))' <=> Rest(i, j)
  BY <1>1, <1>8 DEF Rest
<1>11. \A i, j : (Chain(i, j))' <=> Chain(i, j)
  BY <1>9, <1>10 DEF Chain
<1>12. Whole' <=> Whole
  BY <1>8 DEF Whole
<1>13. \A kind, f, i, j : (Framed(kind, f, i, j))' <=> Framed(kind, f, i, j)
  BY <1>1, <1>3, <1>5, <1>7, <1>8 DEF Framed, ValueAt
<1>14. \A kind, f, i, j : (Ended(kind, f, i, j))' <=> Ended(kind, f, i, j)
  <2>1. \A i, j : (Follow(i, j))' <=> Follow(i, j)
    BY <1>1, <1>5 DEF Follow
  <2>2. \A kind, i, j : (ValueEnds(kind, i, j))' <=> ValueEnds(kind, i, j)
    BY <2>1 DEF ValueEnds
  <2> SUFFICES ASSUME NEW kind, NEW f, NEW i, NEW j
               PROVE  (Ended(kind, f, i, j))' <=> Ended(kind, f, i, j)
    OBVIOUS
  <2>3. (Type(j + 1))' = Type(j + 1) /\ (Type(j))' = Type(j)
    BY <1>1
  <2>4. /\ (Rest(j + 2, i))' <=> Rest(j + 2, i)
        /\ (Rest(j + 1, i))' <=> Rest(j + 1, i)
    BY <1>10
  <2>5. /\ (ValueEnds(kind, i, j))' <=> ValueEnds(kind, i, j)
        /\ (ValueEnds(kind, i, j + 1))' <=> ValueEnds(kind, i, j + 1)
    BY <2>2
  <2> QED
    BY <2>3, <2>4, <2>5 DEF Ended
<1>15. \A kind, i : (Closed(kind, i))' <=> Closed(kind, i)
  BY <1>1 DEF Closed
<1>16. \A s, b, d : (Frames(s, b, d))' <=> Frames(s, b, d)
  <2> SUFFICES ASSUME NEW s, NEW b, NEW d PROVE (Frames(s, b, d))' <=> Frames(s, b, d)
    OBVIOUS
  <2>1. \A k : /\ (Framed(Kind(s, k - 1), s[k], b[k - 1], b[k]))' <=> Framed(Kind(s, k - 1), s[k], b[k - 1], b[k])
               /\ (Ended(Kind(s, k - 1), s[k], d[k - 1], d[k]))' <=> Ended(Kind(s, k - 1), s[k], d[k - 1], d[k])
               /\ (Closed(Kind(s, k), d[k]))' <=> Closed(Kind(s, k), d[k])
    BY <1>13, <1>14, <1>15 DEF Kind
  <2> QED
    BY <1>12, <2>1 DEF Frames
<1>17. \A kind, i, p, w, h : (Here(kind, i, p, w, h))' <=> Here(kind, i, p, w, h)
  <2> SUFFICES ASSUME NEW kind, NEW i, NEW p, NEW w, NEW h
               PROVE  (Here(kind, i, p, w, h))' <=> Here(kind, i, p, w, h)
    OBVIOUS
  <2>1. /\ (Type(p))' = Type(p) /\ (Type(p - 1))' = Type(p - 1)
        /\ (Expression(i, p - 1))' = Expression(i, p - 1)
    BY <1>1, <1>3
  <2>2. /\ (Items(i, p - 1))' <=> Items(i, p - 1)
        /\ (Arguments(i, p - 2))' <=> Arguments(i, p - 2)
        /\ (Arguments(i, p - 1))' <=> Arguments(i, p - 1)
        /\ (Sentence(i, p - 1))' <=> Sentence(i, p - 1)
        /\ (Unary(i, p - 1))' <=> Unary(i, p - 1)
        /\ (Free(i, p - 1, "OR"))' <=> Free(i, p - 1, "OR")
    BY <1>5, <1>6, <1>7, <1>8, <1>9
  <2> QED
    BY <2>1, <2>2 DEF Here
<1>18. \A i, p, w : (Ahead(i, p, w))' <=> Ahead(i, p, w)
  <2> SUFFICES ASSUME NEW i, NEW p, NEW w PROVE (Ahead(i, p, w))' <=> Ahead(i, p, w)
    OBVIOUS
  <2>1. /\ (Type(p))' = Type(p)
        /\ (Chain(p, i))' <=> Chain(p, i)
        /\ (Value(p, i))' <=> Value(p, i)
        /\ (Items(p, i))' <=> Items(p, i)
        /\ (Arguments(p, i - 1))' <=> Arguments(p, i - 1)
        /\ (Arguments(p + 1, i - 1))' <=> Arguments(p + 1, i - 1)
        /\ (Rest(p, i))' <=> Rest(p, i)
    BY <1>1, <1>5, <1>6, <1>10, <1>11
  <2> QED
    BY <2>1 DEF Ahead
<1>19. \A s, p, w, h : (Traced(s, p, w, h))' <=> Traced(s, p, w, h)
  BY <1>12, <1>16, <1>17, <1>18 DEF Traced, Kind
<1>20. Traced(stack', at', want', have') => (Traced(stack, at, want, have))'
  BY <1>19
<1> QED
  BY <1>2, <1>3, <1>20

\* Nothing has been parsed.
LEMMA EmptyTraced ==
  ASSUME Lexed, NEW h
  PROVE  Traced(<< >>, 1, "expr", h)
<1>1. tokens \in Seq(Token) /\ Len(tokens) \in Nat /\ Len(tokens) >= 1 /\ Type(Len(tokens)) = "EOF"
  BY LexedFacts
<1>2. /\ 1 \in 1 .. Len(tokens) /\ Len(tokens) - 1 \in 0 .. Len(tokens) - 1
      /\ 1 \in 1 .. Len(tokens) + 1 /\ Len(tokens) - 1 \in 0 .. Len(tokens)
      /\ (Len(tokens) - 1) + 1 = Len(tokens)
  BY <1>1
<1>3. PICK b, d : b = [k \in 0..0 |-> 1] /\ d = [k \in 0..0 |-> Len(tokens) - 1]
  OBVIOUS
<1>4. b[0] = 1 /\ d[0] = Len(tokens) - 1 /\ Kind(<< >>, 0) = "parse" /\ "parse" \in Exprs
  BY <1>3 DEF Kind, Exprs
<1>5. Len(<< >>) = 0 /\ IsSeq(<< >>)
  <2>1. << >> \in Seq({})
    OBVIOUS
  <2> QED
    BY <2>1 DEF IsSeq
<1>6. (\A k \in 0..0 : k = 0) /\ 1..0 = {}
  OBVIOUS
<1>7. Closed("parse", Len(tokens) - 1)
  BY <1>1, <1>2 DEF Closed
<1>8. \A k \in 0..0 : Closed(Kind(<< >>, k), d[k])
  BY <1>4, <1>6, <1>7
<1>9. Frames(<< >>, b, d)
  BY <1>2, <1>4, <1>5, <1>6, <1>8 DEF Frames
<1>10. Here("parse", 1, 1, "expr", h)
  BY <1>4 DEF Here
<1>11. Whole => Chain(1, Len(tokens) - 1)
  BY <1>1, <1>2, SentenceChain DEF Whole
<1>12. Whole => Ahead(Len(tokens) - 1, 1, "expr")
  BY <1>11 DEF Ahead
<1> QED
  BY <1>2, <1>4, <1>5, <1>9, <1>10, <1>12 DEF Traced

LEMMA EmptyTracedNext == (Lexed => Traced(<< >>, 1, "expr", have))'
<1>1. Lexed => Traced(<< >>, 1, "expr", have)
  BY EmptyTraced
<1> QED
  BY <1>1, PTL

NoEnd == \A k \in 1 .. Len(tokens) : Type(k) # "EOF"

\* What the parser has, wants and waits for is true of the tokens; an answer is
\* what the grammar says of them.
PInv ==
  /\ phase = "lex" => at = 1 /\ stack = << >> /\ want = "expr" /\ NoEnd
  /\ phase = "parse" => Lexed /\ Traced(stack, at, want, have)
  /\ phase = "done" => Lexed /\ have = Expression(1, Len(tokens) - 1)
  /\ phase = "failed" => NoEnd \/ (Lexed /\ ~Whole)

LEMMA ParserInitOK == Init => PInv
<1> SUFFICES ASSUME Init PROVE PInv
  OBVIOUS
<1>1. tokens = << >> /\ phase \in {"lex", "failed"} /\ at = 1 /\ stack = << >> /\ want = "expr"
  BY DEF Init, LexInit
<1>2. NoEnd
  BY <1>1 DEF NoEnd
<1> QED
  BY <1>1, <1>2 DEF PInv

\* What the lexer emits is not the end.
LEMMA EmitMore ==
  ASSUME tokens \in Seq(Token), tokens' \in Seq(Token), NoEnd, phase = "lex", PInv,
         UNCHANGED parseVars, NEW type, NEW value, NEW end, Emit(type, value, end), type # "EOF"
  PROVE  PInv'
<1>1. PICK token : token = [type |-> type, value |-> value, from |-> pos, to |-> end - 1]
  OBVIOUS
<1>2. tokens' = Append(tokens, token) /\ phase' = "lex" /\ token.type = type
  BY <1>1 DEF Emit
<1>3. PICK n \in Nat : n = Len(tokens)
  OBVIOUS
<1>4. /\ IsSeq(tokens) /\ Len(tokens') = n + 1 /\ tokens'[n + 1] = token
      /\ \A k \in 1..n : tokens'[k] = tokens[k]
  BY <1>2, <1>3, StackFacts DEF IsSeq
<1>5. \A k \in 1 .. n + 1 : k = n + 1 \/ k \in 1..n
  OBVIOUS
<1>6. \A k \in 1 .. n + 1 : tokens'[k].type # "EOF"
  BY <1>2, <1>3, <1>4, <1>5 DEF NoEnd, Type
<1>7. NoEnd'
  BY <1>4, <1>6 DEF NoEnd, Type
<1> QED
  BY <1>2, <1>7 DEF PInv, parseVars

\* The lexer ends: the query waits for all the tokens.
LEMMA LexEndsParser ==
  ASSUME tokens \in Seq(Token), tokens' \in Seq(Token), PInv, UNCHANGED parseVars, LexEnds
  PROVE  PInv'
<1>1. PICK token : token = [type |-> "EOF", value |-> << >>, from |-> pos, to |-> pos - 1]
  OBVIOUS
<1>2. /\ tokens' = Append(tokens, token) /\ phase = "lex" /\ phase' = "parse" /\ token.type = "EOF"
      /\ at' = 1 /\ stack' = << >> /\ want' = "expr" /\ NoEnd
  BY <1>1 DEF LexEnds, PInv, parseVars
<1>3. PICK n \in Nat : n = Len(tokens)
  OBVIOUS
<1>4. /\ IsSeq(tokens) /\ Len(tokens') = n + 1 /\ tokens'[n + 1] = token
      /\ \A k \in 1..n : tokens'[k] = tokens[k]
  BY <1>2, <1>3, StackFacts DEF IsSeq
<1>5. \A k \in 1 .. n + 1 : (k = n + 1 \/ k \in 1..n) /\ ~(k = n + 1 /\ k \in 1..n)
  OBVIOUS
<1>6. \A k \in 1 .. n + 1 : tokens'[k].type = "EOF" <=> k = n + 1
  BY <1>2, <1>3, <1>4, <1>5 DEF NoEnd, Type
<1>7. tokens' # << >>
  BY <1>4
<1>8. Lexed'
  BY <1>4, <1>6, <1>7 DEF Lexed, Type
<1>9. (Lexed => Traced(<< >>, 1, "expr", have))'
  BY EmptyTracedNext
<1> QED
  BY <1>2, <1>8, <1>9 DEF PInv

LEMMA LexParserOK ==
  ASSUME IInv, IInv', PInv, Lex
  PROVE  PInv'
<1>1. tokens \in Seq(Token) /\ tokens' \in Seq(Token) /\ UNCHANGED parseVars
  BY DEF IInv, TypeInv, Lex
<1>2. LexNext
  BY DEF Lex
<1>3. phase = "lex"
  BY <1>2 DEF LexNext, SkipSpace, LexOperator, LexIdentOrKeyword, LexNumber, LexString, LexFails,
     LexEnds, Lexing
<1>4. NoEnd
  BY <1>3 DEF PInv
<1>5. ASSUME NEW type, NEW value, NEW end, Emit(type, value, end), type # "EOF"
      PROVE  PInv'
  BY <1>1, <1>3, <1>4, <1>5, EmitMore
<1>6. CASE SkipSpace \/ LexFails
  <2>1. tokens' = tokens /\ phase' \in {"lex", "failed"}
    BY <1>3, <1>6 DEF SkipSpace, LexFails
  <2>2. NoEnd'
    BY <1>4, <2>1 DEF NoEnd, Type
  <2> QED
    BY <1>1, <1>3, <2>1, <2>2 DEF PInv, parseVars
<1>7. CASE LexOperator
  <2>1. PICK type : /\ type \in {"!=", "<=", ">="} \cup Single
                    /\ Emit(type, << >>, pos + 2) \/ Emit(type, << >>, pos + 1)
    BY <1>7 DEF LexOperator
  <2>2. type # "EOF"
    BY <2>1 DEF Single
  <2> QED
    BY <1>5, <2>1, <2>2
<1>8. CASE LexIdentOrKeyword
  <2>1. PICK value, end : Emit(KeywordType(value), value, end)
    BY <1>8 DEF LexIdentOrKeyword
  <2>2. KeywordType(value) # "EOF"
    BY DEF KeywordType
  <2> QED
    BY <1>5, <2>1, <2>2
<1>9. CASE LexNumber
  <2>1. PICK value, end : Emit("NUMBER", value, end)
    BY <1>9 DEF LexNumber
  <2> QED
    BY <1>5, <2>1
<1>10. CASE LexString
  <2>1. PICK value, end : Emit("STRING", value, end)
    BY <1>10 DEF LexString
  <2> QED
    BY <1>5, <2>1
<1>11. CASE LexEnds
  BY <1>1, <1>11, LexEndsParser
<1> QED
  BY <1>2, <1>6, <1>7, <1>8, <1>9, <1>10, <1>11 DEF LexNext

LEMMA ParseParserOK ==
  ASSUME PInv, Parse
  PROVE  PInv'
<1>1. phase = "parse" /\ tokens' = tokens
  BY ParseFrame
<1>2. Lexed /\ Traced(stack, at, want, have)
  BY <1>1 DEF PInv
<1>3. Lexed'
  BY <1>1, <1>2, SameTokens
<1>4. (Expression(1, Len(tokens) - 1))' = Expression(1, Len(tokens) - 1)
  BY <1>1 DEF Expression, IsLeaf, IsCall, Arguments, Outside, Depth, Type
<1>5. CASE Accept
  <2>1. have = Expression(1, Len(tokens) - 1)
    BY <1>2, <1>5, AcceptOK
  <2>2. phase' = "done" /\ have' = have
    BY <1>5 DEF Accept, parseVars
  <2>3. (have = Expression(1, Len(tokens) - 1))'
    BY <1>4, <2>1, <2>2
  <2> QED
    BY <1>3, <2>2, <2>3 DEF PInv
<1>6. CASE ParseFails
  <2>1. ~Whole
    BY <1>2, <1>6, FailsOK
  <2>2. ~Whole'
    BY <1>4, <2>1 DEF Whole, Sentence
  <2>3. phase' = "failed"
    BY <1>6 DEF ParseFails
  <2> QED
    BY <1>3, <2>2, <2>3 DEF PInv
<1>7. CASE ~(Accept \/ ParseFails)
  <2>1. phase' = "parse"
    <3>1. UNCHANGED lexVars
      BY <1>7 DEF Parse, ParseNot, ParseGroup, ParsePredicate, ParseCall, ParseArg, NextArg, EndCall,
         ParseAtom, ParseList, EndList, ReturnNot, ReturnAnd, LoopAnd, ReturnOr, LoopOr, EndGroup,
         Parsing, Move, Return, ReturnValue
    <3> QED
      BY <1>1, <3>1 DEF lexVars
  <2>2. Traced(stack', at', want', have')
    BY <1>2, <1>7, ParseNotOK, ParseGroupOK, ParsePredicateOK, ParseCallOK, ParseArgOK, NextArgOK,
       EndCallOK, ParseAtomOK, ParseListOK, EndListOK, ReturnNotOK, ReturnAndOK, LoopAndOK,
       ReturnOrOK, LoopOrOK, EndGroupOK DEF Parse
  <2>3. (Traced(stack, at, want, have))'
    BY <1>1, <2>2, SameTokens
  <2> QED
    BY <1>3, <2>1, <2>3 DEF PInv
<1> QED
  BY <1>5, <1>6, <1>7

LEMMA ParserNextOK == IInv /\ IInv' /\ PInv /\ [Next]_vars => PInv'
<1> SUFFICES ASSUME IInv, IInv', PInv, [Next]_vars PROVE PInv'
  OBVIOUS
<1>1. CASE Lex
  BY <1>1, LexParserOK
<1>2. CASE Parse
  BY <1>2, ParseParserOK
<1>3. CASE Answered \/ UNCHANGED vars
  <2>1. phase' = phase /\ tokens' = tokens /\ at' = at /\ stack' = stack /\ want' = want /\ have' = have
    BY <1>3 DEF Answered, vars, lexVars, parseVars
  <2>2. Lexed' <=> Lexed
    BY <2>1, SameTokens
  <2>3. (Expression(1, Len(tokens) - 1))' = Expression(1, Len(tokens) - 1)
    BY <2>1 DEF Expression, IsLeaf, IsCall, Arguments, Outside, Depth, Type
  <2>4. Traced(stack, at, want, have) => (Traced(stack, at, want, have))'
    BY <2>1, SameTokens
  <2>5. NoEnd' <=> NoEnd
    BY <2>1 DEF NoEnd, Type
  <2>6. Whole' <=> Whole
    BY <2>3 DEF Whole, Sentence
  <2>7. (have = Expression(1, Len(tokens) - 1))' <=> have = Expression(1, Len(tokens) - 1)
    BY <2>1, <2>3
  <2> QED
    BY <2>1, <2>2, <2>4, <2>5, <2>6, <2>7 DEF PInv
<1> QED
  BY <1>1, <1>2, <1>3 DEF Next

-----------------------------------------------------------------------------
(***************************************************************************)
(* THE THEOREMS ON THE PARSER                                              *)
(***************************************************************************)

\* The parser's inductive invariant: the methods in progress cut the tokens where
\* the grammar does, and what a sentence has left is what they can read
\* (parser.go:78-314).
THEOREM MethodsFollowGrammar == Spec => []PInv
<1>1. IInv /\ PInv /\ IInv' /\ [Next]_vars => PInv'
  BY ParserNextOK
<1> QED
  BY ParserInitOK, <1>1, TokensFollowText, PTL DEF Spec

\* For every query: the answer is the expression of the grammar, with "NOT > AND
\* > OR" and to the left, and an error for what no expression is
\* (parser.go:78-314).
THEOREM QueriesParsedAsGrammar == Spec => []ParsedAsGrammar
<1>1. IInv /\ PInv => ParsedAsGrammar
  <2> SUFFICES ASSUME IInv, PInv, phase \in {"done", "failed"}, tokens # << >>, Last(tokens).type = "EOF"
               PROVE  Expression(1, Len(tokens) - 1) = (IF phase = "done" THEN have ELSE NoExpr)
    BY DEF ParsedAsGrammar
  <2>1. tokens \in Seq(Token)
    BY DEF IInv, TypeInv
  <2>2. Len(tokens) \in Nat /\ Len(tokens) # 0
    BY <2>1, EmptySeq
  <2>3. Len(tokens) \in 1 .. Len(tokens) /\ Type(Len(tokens)) = "EOF"
    BY <2>2 DEF Last, Type
  <2>4. ~NoEnd
    BY <2>3 DEF NoEnd
  <2>5. CASE phase = "done"
    BY <2>5 DEF PInv
  <2>6. CASE phase = "failed"
    BY <2>4, <2>6 DEF PInv, Whole, Sentence
  <2> QED
    BY <2>5, <2>6
<1> QED
  BY <1>1, TokensFollowText, MethodsFollowGrammar, PTL

=============================================================================
