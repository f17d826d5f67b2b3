---------------------------- MODULE SearchProofs ----------------------------
(***************************************************************************)
(* Proofs about Search.tla, for all tasks and queries and every alphabet.  *)
(*                                                                         *)
(* The two scorers are recursions over a text: each is shown to have a     *)
(* solution, built from the end of the text, and what is true of a         *)
(* solution is shown by its greatest counterexample.  The sums of the      *)
(* scores are recursions over finite sets, and are treated alike.          *)
(***************************************************************************)
EXTENDS Search, FiniteSetTheorems, WellFoundedInduction, TLAPS

-----------------------------------------------------------------------------
(***************************************************************************)
(* NUMBERS                                                                 *)
(***************************************************************************)

\* Every set of natural numbers has a least member; the least counterexample of
\* a statement is refuted from the numbers before it.
LEMMA LeastExists ==
  ASSUME NEW S, S \subseteq Nat, S # {}
  PROVE  \E m \in S : \A n \in S : m <= n
<1>1. PICK m \in S : \A n \in S : << n, m >> \notin {pair \in Nat \X Nat : pair[1] < pair[2]}
  BY NatLessThanWellFounded, WFMin DEF OpToRel
<1>2. \A n \in S : n \in Nat /\ m \in Nat /\ ~(n < m)
  BY <1>1
<1>3. \A n \in S : m <= n
  BY <1>2
<1> QED
  BY <1>3

LEMMA MinFacts ==
  ASSUME NEW S, S \subseteq Nat, S # {}
  PROVE  Min(S) \in S /\ \A n \in S : Min(S) <= n
BY LeastExists DEF Min

LEMMA MaxFacts ==
  ASSUME NEW S, NEW k \in Nat, S \subseteq 1..k, S # {}
  PROVE  Max(S) \in S /\ \A n \in S : n <= Max(S)
<1> DEFINE T == {k - n : n \in S}
<1>1. T \subseteq Nat /\ T # {}
  <2>1. PICK n \in S : TRUE
    OBVIOUS
  <2> QED
    BY <2>1
<1>2. PICK i \in T : \A j \in T : i <= j
  <2> HIDE DEF T
  <2> QED
    BY <1>1, LeastExists
<1>3. PICK m \in S : i = k - m
  BY <1>2
<1>4. \A n \in S : m >= n
  <2> TAKE n \in S
  <2>1. m \in 1..k /\ n \in 1..k
    OBVIOUS
  <2>2. k - m <= k - n
    BY <1>2, <1>3
  <2> QED
    BY <2>1, <2>2
<1>5. \A n \in S : n \in Int
  OBVIOUS
<1>6. Max(S) \in S /\ \A n \in S : Max(S) >= n
  BY <1>4 DEF Max
<1> QED
  BY <1>5, <1>6

-----------------------------------------------------------------------------
(***************************************************************************)
(* SUMS                                                                    *)
(***************************************************************************)

Picked(s) == CHOOSE x \in s : TRUE

\* The recursion that defines the sum of f, over the sets in Sets.
SumsUp(g, f, Sets) ==
  g = [s \in Sets |-> IF s = {} THEN 0 ELSE f[Picked(s)] + g[s \ {Picked(s)}]]

\* A part of a finite set without one of its members.
LEMMA WithoutPicked ==
  ASSUME NEW s, IsFiniteSet(s), s # {}
  PROVE  /\ Picked(s) \in s
         /\ Cardinality(s) \in Nat \ {0}
         /\ Cardinality(s \ {Picked(s)}) = Cardinality(s) - 1
<1>1. Picked(s) \in s
  BY DEF Picked
<1>2. Cardinality(s) \in Nat /\ Cardinality(s) # 0
  BY FS_CardinalityType, FS_EmptySet
<1>3. Cardinality(s \ {Picked(s)}) = Cardinality(s) - 1
  BY <1>1, FS_RemoveElement
<1> QED
  BY <1>1, <1>2, <1>3

LEMMA SumsExist ==
  ASSUME NEW S, IsFiniteSet(S), NEW f, NEW k \in Nat
  PROVE  \E g : SumsUp(g, f, {s \in SUBSET S : Cardinality(s) <= k})
<1> DEFINE Small(j) == {s \in SUBSET S : Cardinality(s) <= j}
           Stuck == {j \in Nat : ~\E g : SumsUp(g, f, Small(j))}
<1> SUFFICES ASSUME Stuck # {} PROVE FALSE
  OBVIOUS
<1>1. PICK j \in Stuck : \A i \in Stuck : j <= i
  BY LeastExists
<1>2. \A s \in SUBSET S : IsFiniteSet(s) /\ Cardinality(s) \in Nat
  BY FS_Subset, FS_CardinalityType
<1>3. CASE j = 0
  <2>1. \A s \in Small(0) : s = {}
    <3> SUFFICES ASSUME NEW s \in Small(0), s # {} PROVE FALSE
      OBVIOUS
    <3>1. IsFiniteSet(s) /\ Cardinality(s) <= 0
      BY <1>2
    <3>2. Cardinality(s) \in Nat \ {0}
      BY <3>1, WithoutPicked
    <3> QED
      BY <3>1, <3>2
  <2>2. SumsUp([s \in Small(0) |-> 0], f, Small(0))
    BY <2>1 DEF SumsUp
  <2> QED
    BY <1>1, <1>3, <2>2
<1>4. CASE j # 0
  <2>1. j - 1 \in Nat /\ ~(j <= j - 1)
    BY <1>1, <1>4
  <2>2. PICK g : SumsUp(g, f, Small(j - 1))
    BY <1>1, <2>1
  <2> DEFINE h == [s \in Small(j) |-> IF s = {} THEN 0 ELSE f[Picked(s)] + g[s \ {Picked(s)}]]
  <2>3. \A t \in Small(j - 1) : t \in Small(j) /\ h[t] = g[t]
    <3>1. \A t \in Small(j - 1) : t \in Small(j)
      BY <1>1, <1>2
    <3>2. \A t \in Small(j - 1) :
            g[t] = IF t = {} THEN 0 ELSE f[Picked(t)] + g[t \ {Picked(t)}]
      BY <2>2 DEF SumsUp
    <3> QED
      BY <3>1, <3>2
  <2>4. ASSUME NEW s \in Small(j), s # {} PROVE s \ {Picked(s)} \in Small(j - 1)
    BY <1>1, <1>2, <2>4, WithoutPicked
  <2>5. h = [s \in Small(j) |-> IF s = {} THEN 0 ELSE f[Picked(s)] + h[s \ {Picked(s)}]]
    <3>1. \A s \in Small(j) : s # {} => h[s \ {Picked(s)}] = g[s \ {Picked(s)}]
      BY <2>3, <2>4
    <3> QED
      BY <3>1
  <2>6. SumsUp(h, f, Small(j))
    BY <2>5 DEF SumsUp
  <2> QED
    BY <1>1, <2>6
<1> QED
  BY <1>3, <1>4

\* A sum of natural numbers is zero when all of them are.
LEMMA SumFacts ==
  ASSUME NEW S, IsFiniteSet(S), NEW f \in [S -> Nat]
  PROVE  SumFunction(f) \in Nat /\ (SumFunction(f) = 0 <=> \A x \in S : f[x] = 0)
<1> DEFINE Adds(g, s) == g[s] \in Nat /\ (g[s] = 0 <=> \A x \in s : f[x] = 0)
<1>1. \A s \in SUBSET S : IsFiniteSet(s) /\ Cardinality(s) \in Nat
  BY FS_Subset, FS_CardinalityType
<1>2. SUBSET S = {s \in SUBSET S : Cardinality(s) <= Cardinality(S)}
  BY <1>1, FS_Subset
<1>3. \E g : SumsUp(g, f, SUBSET S)
  BY <1>1, <1>2, SumsExist
<1>4. SumFunction(f) = (CHOOSE g : SumsUp(g, f, SUBSET S))[S]
  BY DEF SumFunction, SumFunctionOnSet, FoldFunctionOnSet, MapThenFoldSet, SumsUp, Picked
<1>5. PICK g : SumsUp(g, f, SUBSET S) /\ SumFunction(f) = g[S]
  BY <1>3, <1>4
<1>6. \A s \in SUBSET S : g[s] = IF s = {} THEN 0 ELSE f[Picked(s)] + g[s \ {Picked(s)}]
  BY <1>5 DEF SumsUp
<1> DEFINE Wrong == {n \in Nat : \E s \in SUBSET S : Cardinality(s) = n /\ ~Adds(g, s)}
<1>7. Wrong = {}
  <2> SUFFICES ASSUME Wrong # {} PROVE FALSE
    OBVIOUS
  <2>1. PICK n \in Wrong : \A m \in Wrong : n <= m
    BY LeastExists
  <2>2. PICK s \in SUBSET S : Cardinality(s) = n /\ ~Adds(g, s)
    BY <2>1
  <2>3. s # {}
    <3> SUFFICES ASSUME s = {} PROVE FALSE
      OBVIOUS
    <3>1. g[s] = 0
      BY <1>6
    <3> QED
      BY <2>2, <3>1
  <2> DEFINE x == Picked(s)
             t == s \ {x}
  <2>4. x \in s /\ n # 0 /\ t \in SUBSET S /\ Cardinality(t) = n - 1
    BY <1>1, <2>2, <2>3, WithoutPicked
  <2>5. n - 1 \in Nat /\ ~(n <= n - 1)
    BY <2>1, <2>4
  <2>6. Adds(g, t)
    BY <2>1, <2>4, <2>5
  <2>7. g[s] = f[x] + g[t] /\ f[x] \in Nat
    BY <1>6, <2>3, <2>4
  <2>8. \A y \in s : y = x \/ y \in t
    OBVIOUS
  <2> HIDE DEF x, t
  <2>9. Adds(g, s)
    <3>1. g[s] \in Nat /\ (g[s] = 0 <=> f[x] = 0 /\ g[t] = 0)
      BY <2>6, <2>7
    <3>2. \A y \in t : y \in s
      BY DEF t
    <3> QED
      BY <2>4, <2>6, <2>8, <3>1, <3>2
  <2> QED
    BY <2>2, <2>9
<1>8. Adds(g, S)
  BY <1>1, <1>7
<1> QED
  BY <1>5, <1>8

-----------------------------------------------------------------------------
(***************************************************************************)
(* THE TWO SCANS OF A TEXT                                                 *)
(***************************************************************************)

Words == Texts \ {<< >>}

LEMMA LowerFacts ==
  ASSUME NEW text \in Texts
  PROVE  /\ ToLower(text) \in Texts /\ Len(ToLower(text)) = Len(text)
         /\ \A i \in 1..Len(text) : ToLower(text)[i] = Lower[text[i]]
         /\ ToLower(ToLower(text)) = ToLower(text)
         /\ text # << >> => ToLower(text) # << >>
<1>1. /\ text \in Seq(DOMAIN Lower) /\ DOMAIN text = 1..Len(text) /\ Len(text) \in Nat
      /\ \A i \in 1..Len(text) : text[i] \in DOMAIN Lower
  BY DEF Texts
<1>2. ToLower(text) = [i \in 1..Len(text) |-> Lower[text[i]]]
  BY <1>1 DEF ToLower
<1>3. \A i \in 1..Len(text) : Lower[text[i]] \in DOMAIN Lower /\ Lower[Lower[text[i]]] = Lower[text[i]]
  BY <1>1, SearchAssumption
<1>4. ToLower(text) \in Texts /\ Len(ToLower(text)) = Len(text)
  BY <1>1, <1>2, <1>3 DEF Texts
<1>5. ToLower(ToLower(text)) = ToLower(text)
  <2>1. ToLower(ToLower(text)) = [i \in 1..Len(text) |-> Lower[Lower[text[i]]]]
    BY <1>2 DEF ToLower
  <2> QED
    BY <1>2, <1>3, <2>1
<1>6. text # << >> => ToLower(text) # << >>
  <2> SUFFICES ASSUME ToLower(text) = << >> PROVE text = << >>
    OBVIOUS
  <2>1. Len(text) = 0
    BY <1>4
  <2> QED
    BY <1>1, <2>1
<1> QED
  BY <1>2, <1>4, <1>5, <1>6

\* strings.Index finds the first occurrence, and the scans go on behind it.
LEMMA IndexFacts ==
  ASSUME NEW text \in Texts, NEW token \in Words, NEW i \in 1..Len(text) + 1
  PROVE  LET j == IndexFrom(text, token, i)
         IN \/ j = 0 /\ \A k \in i..Len(text) : ~OccursAt(text, token, k)
            \/ /\ j \in i..Len(text) /\ OccursAt(text, token, j)
               /\ j + Len(token) \in i + 1 .. Len(text) + 1
<1> DEFINE places == {k \in i..Len(text) : OccursAt(text, token, k)}
<1>1. Len(text) \in Nat /\ Len(token) \in Nat \ {0}
  BY DEF Words, Texts
<1>2. CASE places = {}
  <2>1. IndexFrom(text, token, i) = 0
    BY <1>2 DEF IndexFrom
  <2> QED
    BY <1>2, <2>1
<1>3. CASE places # {}
  <2>1. places \subseteq Nat
    BY <1>1
  <2>2. Min(places) \in places
    BY <1>3, <2>1, MinFacts
  <2>3. IndexFrom(text, token, i) = Min(places)
    BY <1>3 DEF IndexFrom
  <2> HIDE DEF places
  <2>4. PICK j : j = IndexFrom(text, token, i)
    OBVIOUS
  <2>5. j \in i..Len(text) /\ OccursAt(text, token, j)
    BY <2>2, <2>3, <2>4 DEF places
  <2>6. j + Len(token) - 1 <= Len(text)
    BY <2>5 DEF OccursAt
  <2>7. j + Len(token) \in i + 1 .. Len(text) + 1
    BY <1>1, <2>5, <2>6
  <2> QED
    BY <2>4, <2>5, <2>7
<1> QED
  BY <1>2, <1>3

\* The range of the occurrence at j, and the ranges of all occurrences.
RangeAt(text, token, j) ==
  [start |-> Bytes(text, j - 1), end |-> Bytes(text, j - 1 + Len(token))]

RangesOf(text, token) ==
  {RangeAt(text, token, j) : j \in {k \in 1..Len(text) : OccursAt(text, token, k)}}

\* One step of strings.Count, and of findAllPositions, from i on.
Counted(c, text, token, i) ==
  LET j == IndexFrom(text, token, i) IN IF j = 0 THEN 0 ELSE 1 + c[j + Len(token)]

Collected(d, text, token, i) ==
  LET j == IndexFrom(text, token, i)
  IN IF j = 0 THEN << >> ELSE << RangeAt(text, token, j) >> \o d[j + Len(token)]

\* Both recursions have a solution, from every place of the text on.
LEMMA ScansExist ==
  ASSUME NEW text \in Texts, NEW token \in Words, NEW m \in 1..Len(text) + 1
  PROVE  \E c, d : /\ c = [i \in m .. Len(text) + 1 |-> Counted(c, text, token, i)]
                   /\ d = [i \in m .. Len(text) + 1 |-> Collected(d, text, token, i)]
<1> DEFINE L == Len(text) + 1
           Scans(c, d, n) == /\ c = [i \in n..L |-> Counted(c, text, token, i)]
                             /\ d = [i \in n..L |-> Collected(d, text, token, i)]
           Stuck == {n \in 1..L : ~\E c, d : Scans(c, d, n)}
<1> SUFFICES ASSUME Stuck # {} PROVE FALSE
  OBVIOUS
<1>1. L \in Nat
  BY DEF Texts
<1>2. PICK n \in Stuck : \A k \in Stuck : k <= n
  <2>1. Stuck \subseteq 1..L
    OBVIOUS
  <2> HIDE DEF Stuck
  <2> QED
    BY <1>1, <2>1, MaxFacts
<1>3. \E c, d : Scans(c, d, n + 1)
  <2>1. CASE n = L
    <3>1. n + 1 .. L = {}
      BY <1>1, <2>1
    <3>2. Scans([i \in {} |-> 0], [i \in {} |-> 0], n + 1)
      BY <3>1
    <3> QED
      BY <3>2
  <2>2. CASE n # L
    <3>1. n + 1 \in 1..L /\ ~(n + 1 <= n)
      BY <1>1, <2>2
    <3> QED
      BY <1>2, <3>1
  <2> QED
    BY <2>1, <2>2
<1>4. PICK c, d : Scans(c, d, n + 1)
  BY <1>3
<1> DEFINE c2 == [i \in n..L |-> Counted(c, text, token, i)]
           d2 == [i \in n..L |-> Collected(d, text, token, i)]
<1>5. \A i \in n + 1 .. L : i \in n..L
  BY <1>1
<1>6. \A i \in n + 1 .. L : c2[i] = c[i] /\ d2[i] = d[i]
  BY <1>4, <1>5
<1>7. ASSUME NEW i \in n..L
      PROVE  IndexFrom(text, token, i) = 0
             \/ IndexFrom(text, token, i) + Len(token) \in n + 1 .. L
  <2>1. i \in 1..L /\ i + 1 .. L \subseteq n + 1 .. L
    BY <1>1
  <2> QED
    BY <2>1, IndexFacts
<1>8. \A i \in n..L : /\ Counted(c2, text, token, i) = Counted(c, text, token, i)
                      /\ Collected(d2, text, token, i) = Collected(d, text, token, i)
  <2> HIDE DEF c2, d2
  <2> QED
    BY <1>6, <1>7 DEF Counted, Collected
<1>9. Scans(c2, d2, n)
  <2>1. c2 = [i \in n..L |-> Counted(c2, text, token, i)]
    BY <1>8
  <2>2. d2 = [i \in n..L |-> Collected(d2, text, token, i)]
    BY <1>8
  <2> QED
    BY <2>1, <2>2
<1> QED
  BY <1>2, <1>9

LEMMA ConcatFacts ==
  ASSUME NEW R, NEW s \in Seq(R), NEW t \in Seq(R)
  PROVE  s \o t \in Seq(R) /\ Len(s \o t) = Len(s) + Len(t)
  OBVIOUS

\* Any solutions of the two recursions agree, and find what there is.
LEMMA ScansAgree ==
  ASSUME NEW text \in Texts, NEW token \in Words, NEW c, NEW d,
         c = [i \in 1 .. Len(text) + 1 |-> Counted(c, text, token, i)],
         d = [i \in 1 .. Len(text) + 1 |-> Collected(d, text, token, i)]
  PROVE  /\ c[1] \in Nat /\ d[1] \in Seq(RangesOf(text, token)) /\ Len(d[1]) = c[1]
         /\ c[1] > 0 <=> \E k \in 1..Len(text) : OccursAt(text, token, k)
<1> DEFINE L == Len(text) + 1
           R == RangesOf(text, token)
           Agree(i) == /\ c[i] \in Nat /\ d[i] \in Seq(R) /\ Len(d[i]) = c[i]
                       /\ c[i] > 0 <=> \E k \in i..Len(text) : OccursAt(text, token, k)
           Odd == {i \in 1..L : ~Agree(i)}
<1>1. L \in Nat /\ 1 \in 1..L
  BY DEF Texts
<1>2. \A i \in 1..L : c[i] = Counted(c, text, token, i) /\ d[i] = Collected(d, text, token, i)
  OBVIOUS
<1>3. Odd = {}
  <2> SUFFICES ASSUME Odd # {} PROVE FALSE
    OBVIOUS
  <2>1. Odd \subseteq 1..L
    OBVIOUS
  <2>2. PICK i \in Odd : \A n \in Odd : n <= i
    <3> HIDE DEF Odd
    <3> QED
      BY <1>1, <2>1, MaxFacts
  <2>a. i \in 1..L
    OBVIOUS
  <2>3. PICK j : j = IndexFrom(text, token, i)
    OBVIOUS
  <2>b. \/ j = 0 /\ \A k \in i..Len(text) : ~OccursAt(text, token, k)
        \/ /\ j \in i..Len(text) /\ OccursAt(text, token, j)
           /\ j + Len(token) \in i + 1 .. Len(text) + 1
    BY <2>3, <2>a, IndexFacts
  <2>4. CASE j = 0
    <3>1. \A k \in i..Len(text) : ~OccursAt(text, token, k)
      BY <1>1, <2>4, <2>a, <2>b
    <3>2. c[i] = 0 /\ d[i] = << >>
      BY <1>2, <2>3, <2>4 DEF Counted, Collected
    <3>3. Agree(i)
      BY <3>1, <3>2
    <3> QED
      BY <2>2, <3>3
  <2>5. CASE j # 0
    <3> DEFINE n == j + Len(token)
    <3>1. j \in i..Len(text) /\ OccursAt(text, token, j) /\ n \in i + 1 .. L
      BY <2>5, <2>b
    <3>2. n \in 1..L /\ ~(n <= i)
      BY <1>1, <3>1
    <3>3. Agree(n)
      BY <2>2, <3>2
    <3>4. c[i] = 1 + c[n] /\ d[i] = << RangeAt(text, token, j) >> \o d[n]
      BY <1>2, <2>3, <2>5 DEF Counted, Collected
    <3>5. << RangeAt(text, token, j) >> \in Seq(R)
      <4>1. j \in 1..Len(text)
        BY <1>1, <3>1
      <4>2. RangeAt(text, token, j) \in R
        BY <3>1, <4>1 DEF RangesOf
      <4> QED
        BY <4>2
    <3> HIDE DEF n, R
    <3>6. d[i] \in Seq(R) /\ Len(d[i]) = 1 + Len(d[n])
      <4>1. d[n] \in Seq(R)
        BY <3>3
      <4> HIDE DEF Odd
      <4>2. PICK s, t : s = << RangeAt(text, token, j) >> /\ t = d[n]
        OBVIOUS
      <4>3. s \in Seq(R) /\ t \in Seq(R) /\ Len(s) = 1 /\ d[i] = s \o t
        BY <3>4, <3>5, <4>1, <4>2
      <4>4. s \o t \in Seq(R) /\ Len(s \o t) = Len(s) + Len(t)
        BY <4>3, ConcatFacts
      <4> QED
        BY <4>2, <4>3, <4>4
    <3>7. Agree(i)
      <4>1. c[n] \in Nat /\ Len(d[n]) = c[n]
        BY <3>3
      <4>2. c[i] \in Nat /\ c[i] > 0 /\ Len(d[i]) = c[i]
        BY <3>4, <3>6, <4>1
      <4> QED
        BY <3>1, <3>6, <4>2
    <3> QED
      BY <2>2, <3>7
  <2> QED
    BY <2>4, <2>5
<1>4. Agree(1)
  BY <1>1, <1>3
<1> QED
  BY <1>4

\* The number that strings.Count returns is the number of positions that
\* findAllPositions collects, and it is 0 where the token does not occur.
LEMMA CountsPositions ==
  ASSUME NEW text \in Texts, NEW token \in Words
  PROVE  LET lower == ToLower(text)
         IN /\ Count(lower, token) \in Nat
            /\ FindAllPositions(text, token) \in Seq(RangesOf(lower, token))
            /\ Len(FindAllPositions(text, token)) = Count(lower, token)
            /\ Count(lower, token) > 0 <=> \E k \in 1..Len(text) : OccursAt(lower, token, k)
<1>1. PICK lower \in Texts : lower = ToLower(text) /\ Len(lower) = Len(text)
  BY LowerFacts
<1> DEFINE IsCount(c) == c = [i \in 1 .. Len(lower) + 1 |-> Counted(c, lower, token, i)]
           IsFound(d) == d = [i \in 1 .. Len(lower) + 1 |-> Collected(d, lower, token, i)]
<1>2. (\E c : IsCount(c)) /\ \E d : IsFound(d)
  <2>1. 1 \in 1 .. Len(lower) + 1
    BY DEF Texts
  <2> QED
    BY <2>1, ScansExist
<1>3. Count(lower, token) = (CHOOSE c : IsCount(c))[1]
  BY DEF Count, Counted
<1>4. FindAllPositions(text, token) = (CHOOSE d : IsFound(d))[1]
  BY <1>1 DEF FindAllPositions, Collected, RangeAt
<1>5. PICK c, d : /\ IsCount(c) /\ IsFound(d)
                  /\ Count(lower, token) = c[1] /\ FindAllPositions(text, token) = d[1]
  <2> HIDE DEF IsCount, IsFound
  <2> QED
    BY <1>2, <1>3, <1>4
<1> QED
  BY <1>1, <1>5, ScansAgree

-----------------------------------------------------------------------------
(***************************************************************************)
(* THE SCORES                                                              *)
(***************************************************************************)

\* The call of this run, and its words.
LEMMA CallFacts ==
  ASSUME input \in Inputs
  PROVE  /\ input.tasks \in Seq(Task) /\ input.query \in Seq(Words)
         /\ DOMAIN input.tasks = 1..Len(input.tasks) /\ Len(input.tasks) \in Nat
         /\ Tokens \in Seq(Words) /\ Len(Tokens) = Len(input.query)
         /\ \A i \in 1..Len(input.query) : Tokens[i] = ToLower(input.query[i])
<1>1. input.tasks \in Seq(Task) /\ input.query \in Seq(Words)
  BY SearchAssumption DEF Words
<1>2. DOMAIN input.query = 1..Len(input.query) /\ Len(input.query) \in Nat
  BY <1>1
<1>3. \A i \in 1..Len(input.query) : ToLower(input.query[i]) \in Words
  BY <1>1, <1>2, LowerFacts DEF Words
<1>4. Tokens = [i \in 1..Len(input.query) |-> ToLower(input.query[i])]
  BY <1>2 DEF Tokens
<1>5. Tokens \in Seq(Words) /\ Len(Tokens) = Len(input.query)
  BY <1>2, <1>3, <1>4
<1> QED
  BY <1>1, <1>4, <1>5

LEMMA FieldFacts ==
  ASSUME NEW task \in Task, NEW f \in TaskFields(task)
  PROVE  f.value \in Texts /\ Weight(f.name) \in Nat \ {0}
<1>1. task.fields \in [SingleFields -> Texts] /\ task.labels \in Seq(Texts)
  BY DEF Task
<1>2. CASE \E n \in SingleFields : f = [name |-> n, at |-> 0, value |-> task.fields[n]]
  <2>1. PICK n \in SingleFields : f = [name |-> n, at |-> 0, value |-> task.fields[n]]
    BY <1>2
  <2>2. f.name = n /\ f.value = task.fields[n]
    BY <2>1
  <2>3. Weight(n) \in Nat \ {0}
    BY DEF SingleFields, Weight
  <2> QED
    BY <1>1, <2>2, <2>3
<1>3. CASE \E i \in DOMAIN task.labels : f = [name |-> "labels", at |-> i, value |-> task.labels[i]]
  <2>1. PICK i \in DOMAIN task.labels : f = [name |-> "labels", at |-> i, value |-> task.labels[i]]
    BY <1>3
  <2>2. f.name = "labels" /\ f.value = task.labels[i]
    BY <2>1
  <2>3. Weight("labels") \in Nat \ {0}
    BY DEF Weight
  <2> QED
    BY <1>1, <2>2, <2>3
<1> QED
  BY <1>2, <1>3 DEF TaskFields

LEMMA ImageFinite ==
  ASSUME NEW S, IsFiniteSet(S), NEW g
  PROVE  IsFiniteSet({g[x] : x \in S})
<1> DEFINE T == {g[x] : x \in S}
           h == [x \in S |-> g[x]]
<1>1. h \in Surjection(S, T)
  BY DEF Surjection
<1> QED
  BY <1>1, FS_Surjection

LEMMA FieldsFinite ==
  ASSUME NEW task \in Task
  PROVE  IsFiniteSet(TaskFields(task))
<1> DEFINE single == [n \in SingleFields |-> [name |-> n, at |-> 0, value |-> task.fields[n]]]
           label == [i \in DOMAIN task.labels |->
                       [name |-> "labels", at |-> i, value |-> task.labels[i]]]
           names == << "path", "summary", "assignee", "status", "type", "body" >>
<1>1. IsFiniteSet(SingleFields)
  <2>1. SingleFields = {names[x] : x \in 1..6}
    BY DEF SingleFields
  <2>2. IsFiniteSet(1..6)
    <3>1. PICK k \in Nat : k = 6
      OBVIOUS
    <3>2. IsFiniteSet(1..k)
      BY FS_Interval
    <3> QED
      BY <3>1, <3>2
  <2> HIDE DEF names
  <2> QED
    BY <2>1, <2>2, ImageFinite
<1>2. IsFiniteSet(DOMAIN task.labels)
  <2>1. task.labels \in Seq(Texts)
    BY DEF Task
  <2>2. DOMAIN task.labels = 1..Len(task.labels) /\ Len(task.labels) \in Nat
    BY <2>1
  <2> QED
    BY <2>2, FS_Interval
<1>3. TaskFields(task) = {single[n] : n \in SingleFields} \cup {label[i] : i \in DOMAIN task.labels}
  BY DEF TaskFields
<1> HIDE DEF single, label
<1>4. IsFiniteSet({single[n] : n \in SingleFields}) /\ IsFiniteSet({label[i] : i \in DOMAIN task.labels})
  BY <1>1, <1>2, ImageFinite
<1> QED
  BY <1>3, <1>4, FS_Union

LEMMA FieldScoreFacts ==
  ASSUME NEW weight \in Nat \ {0}, NEW count \in Nat
  PROVE  FieldScore(weight, count) \in Nat /\ (FieldScore(weight, count) = 0 <=> count = 0)
<1>1. CASE count = 0
  BY <1>1 DEF FieldScore
<1>2. CASE count # 0
  <2>1. PICK times \in Nat : times = 10 + 3 * (count - 1) /\ times > 0
    BY <1>2
  <2>2. weight * times \in Nat /\ weight * times > 0
    BY <2>1
  <2>3. FieldScore(weight, count) = weight * times
    BY <1>2, <2>1 DEF FieldScore
  <2> QED
    BY <1>2, <2>2, <2>3
<1> QED
  BY <1>1, <1>2

\* A total is 0 when no token has a score.
LEMMA TotalFacts ==
  ASSUME NEW n \in Nat, NEW scores \in [1..n -> Nat]
  PROVE  Total(scores) \in Nat /\ (Total(scores) = 0 <=> \A i \in 1..n : scores[i] = 0)
<1>a. IsFiniteSet(1..n)
  BY FS_Interval
<1>1. PICK sum \in Nat : sum = SumFunction(scores) /\ (sum = 0 <=> \A i \in 1..n : scores[i] = 0)
  BY <1>a, SumFacts
<1>2. Total(scores) \in {2 * sum, 3 * sum}
  BY <1>1 DEF Total
<1> QED
  BY <1>1, <1>2

TokenScore(task, token) ==
  SumFunction([f \in TaskFields(task) |->
                 FieldScore(Weight(f.name), Count(ToLower(f.value), token))])

\* Both ways to count give a task the same score.
LEMMA SameScore ==
  ASSUME input \in Inputs, NEW task \in Task
  PROVE  ScoreTaskWithHighlights(task) = ScoreTask(task)
<1>1. \A i \in DOMAIN Tokens : Tokens[i] \in Words
  BY CallFacts
<1>2. \A f \in TaskFields(task), i \in DOMAIN Tokens :
        Len(FindAllPositions(f.value, Tokens[i])) = Count(ToLower(f.value), Tokens[i])
  BY <1>1, FieldFacts, CountsPositions
<1>3. \A i \in DOMAIN Tokens :
        [f \in TaskFields(task) |->
           FieldScore(Weight(f.name), Len(FindAllPositions(f.value, Tokens[i])))]
        = [f \in TaskFields(task) |->
             FieldScore(Weight(f.name), Count(ToLower(f.value), Tokens[i]))]
  BY <1>2
<1>4. [i \in DOMAIN Tokens |-> SumFunction([f \in TaskFields(task) |->
           FieldScore(Weight(f.name), Len(FindAllPositions(f.value, Tokens[i])))])]
      = [i \in DOMAIN Tokens |-> TokenScore(task, Tokens[i])]
  BY <1>3 DEF TokenScore
<1> QED
  BY <1>4 DEF ScoreTask, ScoreTaskWithHighlights, TokenScore

LEMMA TokenScoreFacts ==
  ASSUME NEW task \in Task, NEW token \in Words
  PROVE  /\ TokenScore(task, token) \in Nat
         /\ TokenScore(task, token) = 0 <=>
              \A f \in TaskFields(task) :
                \A k \in 1..Len(f.value) : ~OccursAt(ToLower(f.value), token, k)
<1> DEFINE score == [f \in TaskFields(task) |->
                       FieldScore(Weight(f.name), Count(ToLower(f.value), token))]
<1>1. ASSUME NEW f \in TaskFields(task)
      PROVE  /\ score[f] \in Nat
             /\ score[f] = 0 <=>
                  \A k \in 1..Len(f.value) : ~OccursAt(ToLower(f.value), token, k)
  <2>1. f.value \in Texts /\ Weight(f.name) \in Nat \ {0}
    BY FieldFacts
  <2>2. PICK n \in Nat :
          /\ n = Count(ToLower(f.value), token)
          /\ n > 0 <=> \E k \in 1..Len(f.value) : OccursAt(ToLower(f.value), token, k)
    BY <2>1, CountsPositions
  <2>3. score[f] = FieldScore(Weight(f.name), n)
    BY <2>2
  <2> HIDE DEF score
  <2> QED
    <3>1. score[f] \in Nat /\ (score[f] = 0 <=> n = 0)
      BY <2>1, <2>3, FieldScoreFacts
    <3>2. n = 0 <=> ~(n > 0)
      OBVIOUS
    <3> QED
      BY <2>2, <3>1, <3>2
<1>2. score \in [TaskFields(task) -> Nat]
  BY <1>1
<1>3. TokenScore(task, token) = SumFunction(score)
  BY DEF TokenScore
<1> HIDE DEF score
<1>4. /\ SumFunction(score) \in Nat
      /\ SumFunction(score) = 0 <=> \A f \in TaskFields(task) : score[f] = 0
  BY <1>2, FieldsFinite, SumFacts
<1> QED
  BY <1>1, <1>3, <1>4

\* A task has a score when some word of the query occurs in it.
LEMMA ScoreFinds ==
  ASSUME input \in Inputs, NEW task \in Task
  PROVE  ScoreTask(task) \in Nat /\ (ScoreTask(task) # 0 <=> Found(task))
<1> DEFINE n == Len(input.query)
           scores == [i \in 1..n |-> TokenScore(task, Tokens[i])]
<1>1. /\ n \in Nat /\ DOMAIN Tokens = 1..n /\ DOMAIN input.query = 1..n
      /\ \A i \in 1..n : Tokens[i] \in Words /\ Tokens[i] = ToLower(input.query[i])
  BY CallFacts
<1>2. scores \in [1..n -> Nat]
  BY <1>1, TokenScoreFacts
<1>3. ScoreTask(task) = Total(scores)
  BY <1>1 DEF ScoreTask, TokenScore
<1>4. /\ Total(scores) \in Nat
      /\ Total(scores) = 0 <=> \A i \in 1..n : scores[i] = 0
  <2> HIDE DEF n, scores
  <2> QED
    BY <1>1, <1>2, TotalFacts
<1>5. ASSUME NEW i \in 1..n
      PROVE  scores[i] # 0 <=> \E f \in TaskFields(task) : Occurs(f.value, input.query[i])
  <2>1. \A f \in TaskFields(task) : DOMAIN f.value = 1..Len(f.value)
    BY FieldFacts DEF Texts
  <2>2. scores[i] # 0 <=>
          \E f \in TaskFields(task) :
            \E k \in 1..Len(f.value) : OccursAt(ToLower(f.value), Tokens[i], k)
    BY <1>1, TokenScoreFacts
  <2> QED
    BY <1>1, <2>1, <2>2 DEF Occurs
<1> QED
  BY <1>1, <1>3, <1>4, <1>5 DEF Found

-----------------------------------------------------------------------------
(***************************************************************************)
(* THE HIGHLIGHTS                                                          *)
(***************************************************************************)

\* The recursion of FlattenSeq, for the first k sequences.
Joins(g, seqs, k) == g = [i \in 1..k |-> IF i = 1 THEN seqs[i] ELSE g[i - 1] \o seqs[i]]

LEMMA JoinsExist ==
  ASSUME NEW seqs, NEW k \in Nat
  PROVE  \E g : Joins(g, seqs, k)
<1> DEFINE Stuck == {j \in Nat : ~\E g : Joins(g, seqs, j)}
<1> SUFFICES ASSUME Stuck # {} PROVE FALSE
  OBVIOUS
<1>1. PICK j \in Stuck : \A i \in Stuck : j <= i
  BY LeastExists
<1>2. j # 0
  <2>1. 1..0 = {}
    OBVIOUS
  <2>2. Joins([i \in {} |-> 0], seqs, 0)
    BY <2>1 DEF Joins
  <2> QED
    BY <1>1, <2>2
<1>3. j - 1 \in Nat /\ ~(j <= j - 1)
  BY <1>1, <1>2
<1>4. PICK g : Joins(g, seqs, j - 1)
  BY <1>1, <1>3
<1> DEFINE h == [i \in 1..j |-> IF i = 1 THEN seqs[i] ELSE g[i - 1] \o seqs[i]]
<1>5. \A i \in 1 .. j - 1 : i \in 1..j /\ h[i] = g[i]
  <2>1. \A i \in 1 .. j - 1 : i \in 1..j
    BY <1>3
  <2>2. \A i \in 1 .. j - 1 : g[i] = IF i = 1 THEN seqs[i] ELSE g[i - 1] \o seqs[i]
    BY <1>4 DEF Joins
  <2> QED
    BY <2>1, <2>2
<1>6. \A i \in 1..j : i # 1 => h[i - 1] = g[i - 1]
  <2>1. \A i \in 1..j : i # 1 => i - 1 \in 1 .. j - 1
    BY <1>3
  <2> QED
    BY <1>5, <2>1
<1>7. Joins(h, seqs, j)
  BY <1>6 DEF Joins
<1> QED
  BY <1>1, <1>7

\* What is flattened has no members but those of its sequences.
LEMMA FlattenFacts ==
  ASSUME NEW R, NEW n \in Nat, NEW seqs \in [1..n -> Seq(R)]
  PROVE  FlattenSeq(seqs) \in Seq(R)
<1>1. Len(seqs) = n /\ (n = 0 => seqs = << >>)
  OBVIOUS
<1>2. CASE n = 0
  BY <1>1, <1>2 DEF FlattenSeq
<1>3. CASE n # 0
  <2>1. FlattenSeq(seqs) = (CHOOSE g : Joins(g, seqs, n))[n]
    BY <1>1, <1>3 DEF FlattenSeq, Joins
  <2>2. PICK g : Joins(g, seqs, n) /\ FlattenSeq(seqs) = g[n]
    BY <2>1, JoinsExist
  <2>3. \A i \in 1..n : g[i] = IF i = 1 THEN seqs[i] ELSE g[i - 1] \o seqs[i]
    BY <2>2 DEF Joins
  <2> DEFINE Odd == {i \in 1..n : g[i] \notin Seq(R)}
  <2>4. Odd = {}
    <3> SUFFICES ASSUME Odd # {} PROVE FALSE
      OBVIOUS
    <3>1. Odd \subseteq Nat
      OBVIOUS
    <3>2. PICK i \in Odd : \A m \in Odd : i <= m
      <4> HIDE DEF Odd
      <4> QED
        BY <3>1, LeastExists
    <3>3. i # 1
      BY <2>3, <3>2
    <3>4. i - 1 \in 1..n /\ ~(i <= i - 1)
      BY <3>2, <3>3
    <3>5. g[i - 1] \in Seq(R) /\ seqs[i] \in Seq(R) /\ g[i] = g[i - 1] \o seqs[i]
      BY <2>3, <3>2, <3>3, <3>4
    <3>6. g[i] \in Seq(R)
      BY <3>5, ConcatFacts
    <3> QED
      BY <3>2, <3>6
  <2> QED
    BY <1>3, <2>2, <2>4
<1> QED
  BY <1>2, <1>3

\* The ranges of the words of the query in a text.
RangesIn(text) == UNION {RangesOf(ToLower(text), Tokens[i]) : i \in DOMAIN Tokens}

LEMMA PositionsFacts ==
  ASSUME input \in Inputs, NEW task \in Task, NEW f \in TaskFields(task)
  PROVE  PositionsIn(task, f.name, f.value) \in Seq(RangesIn(f.value))
<1> DEFINE same == {e \in TaskFields(task) : e.name = f.name /\ e.value = f.value}
           times == Cardinality(same)
           R == RangesIn(f.value)
           found == [i \in DOMAIN Tokens |-> FindAllPositions(f.value, Tokens[i])]
           repeated == [i \in DOMAIN found |-> FlattenSeq([k \in 1..times |-> found[i]])]
<1>1. times \in Nat
  <2>1. same \subseteq TaskFields(task)
    OBVIOUS
  <2> HIDE DEF same
  <2> QED
    BY <2>1, FieldsFinite, FS_Subset, FS_CardinalityType
<1>2. PICK n \in Nat : DOMAIN Tokens = 1..n /\ \A i \in 1..n : Tokens[i] \in Words
  BY CallFacts
<1>3. ASSUME NEW i \in 1..n PROVE found[i] \in Seq(R)
  <2>1. FindAllPositions(f.value, Tokens[i]) \in Seq(RangesOf(ToLower(f.value), Tokens[i]))
    BY <1>2, FieldFacts, CountsPositions
  <2>2. RangesOf(ToLower(f.value), Tokens[i]) \subseteq R
    BY <1>2 DEF RangesIn
  <2>3. \A X, Y : X \subseteq Y => Seq(X) \subseteq Seq(Y)
    OBVIOUS
  <2> QED
    BY <1>2, <2>1, <2>2, <2>3
<1>4. DOMAIN found = 1..n
  BY <1>2
<1> HIDE DEF times, R, found
<1>5. ASSUME NEW i \in 1..n PROVE FlattenSeq([k \in 1..times |-> found[i]]) \in Seq(R)
  <2>1. [k \in 1..times |-> found[i]] \in [1..times -> Seq(R)]
    BY <1>3
  <2> QED
    BY <1>1, <2>1, FlattenFacts
<1>6. repeated \in [1..n -> Seq(R)]
  BY <1>4, <1>5
<1>7. FlattenSeq(repeated) \in Seq(R)
  <2> HIDE DEF repeated
  <2> QED
    BY <1>6, FlattenFacts
<1>8. PositionsIn(task, f.name, f.value) = FlattenSeq(repeated)
  BY DEF PositionsIn, found, times
<1> QED
  BY <1>7, <1>8 DEF R

LEMMA LowerSubSeq ==
  ASSUME NEW text \in Texts, NEW a \in 1..Len(text), NEW b \in a..Len(text)
  PROVE  ToLower(SubSeq(text, a, b)) = SubSeq(ToLower(text), a, b)
<1>1. /\ text \in Seq(DOMAIN Lower) /\ Len(text) \in Nat
      /\ ToLower(text) \in Seq(DOMAIN Lower) /\ Len(ToLower(text)) = Len(text)
      /\ \A i \in 1..Len(text) : ToLower(text)[i] = Lower[text[i]]
  BY LowerFacts DEF Texts
<1>2. SubSeq(text, a, b) = [i \in 1 .. b - a + 1 |-> text[a + i - 1]]
  BY <1>1
<1>3. SubSeq(ToLower(text), a, b) = [i \in 1 .. b - a + 1 |-> ToLower(text)[a + i - 1]]
  BY <1>1
<1>4. \A i \in 1 .. b - a + 1 : a + i - 1 \in 1..Len(text)
  BY <1>1
<1>5. ToLower(SubSeq(text, a, b)) = [i \in 1 .. b - a + 1 |-> Lower[text[a + i - 1]]]
  BY <1>2 DEF ToLower
<1> QED
  BY <1>1, <1>3, <1>4, <1>5

\* Where lower case takes as many bytes, a range of the lower-case text is one
\* of the text.
LEMMA RangesMark ==
  ASSUME input \in Inputs, NEW h, h.text \in Texts, SameWidth(h.text), NEW p \in RangesIn(h.text)
  PROVE  Marks(h, p)
<1> DEFINE text == h.text
           lower == ToLower(text)
<1>1. PICK i \in DOMAIN Tokens : p \in RangesOf(lower, Tokens[i])
  BY DEF RangesIn
<1>2. PICK token \in Words : token = Tokens[i]
  BY CallFacts
<1>3. PICK j \in 1..Len(lower) : p = RangeAt(lower, token, j) /\ OccursAt(lower, token, j)
  BY <1>1, <1>2 DEF RangesOf
<1>4. /\ Len(text) \in Nat /\ Len(lower) = Len(text) /\ DOMAIN text = 1..Len(text)
      /\ Len(token) \in Nat \ {0}
      /\ \A k \in 1..Len(text) : lower[k] = Lower[text[k]]
  BY LowerFacts DEF Words, Texts
<1>5. /\ j + Len(token) - 1 <= Len(text)
      /\ SubSeq(lower, j, j + Len(token) - 1) = token
  BY <1>3, <1>4 DEF OccursAt
<1>6. ASSUME NEW n \in 0..Len(text) PROVE Bytes(lower, n) = Bytes(text, n)
  <2>1. \A k \in 1..n : k \in 1..Len(text)
    BY <1>4
  <2>2. [k \in 1..n |-> Width[lower[k]]] = [k \in 1..n |-> Width[text[k]]]
    BY <1>4, <2>1 DEF SameWidth
  <2> QED
    BY <2>2 DEF Bytes
<1> DEFINE b == j - 1
           e == j - 1 + Len(token)
<1>7. b \in 0..Len(text) /\ e \in 0..Len(text) /\ b + 1 = j /\ e = j + Len(token) - 1
  BY <1>4, <1>5
<1>8. Bytes(text, b) = p.start /\ Bytes(text, e) = p.end
  <2>1. p.start = Bytes(lower, b) /\ p.end = Bytes(lower, e)
    BY <1>3 DEF RangeAt
  <2> QED
    BY <1>6, <1>7, <2>1
<1>9. SubSeq(text, b + 1, e) \in Slice(text, p.start, p.end)
  <2> HIDE DEF b, e
  <2> QED
    BY <1>7, <1>8 DEF Slice
<1>10. ToLower(SubSeq(text, b + 1, e)) = Tokens[i]
  <2>1. j \in 1..Len(text) /\ e \in j..Len(text)
    BY <1>4, <1>5
  <2>2. ToLower(SubSeq(text, j, e)) = SubSeq(lower, j, e)
    <3> HIDE DEF e
    <3> QED
      BY <2>1, LowerSubSeq
  <2> HIDE DEF b, e
  <2> QED
    BY <1>2, <1>5, <1>7, <2>2
<1> QED
  BY <1>9, <1>10 DEF Marks

LEMMA HighlightsMark ==
  ASSUME input \in Inputs, NEW task \in Task, NEW h \in Highlights(task), SameWidth(h.text)
  PROVE  \A k \in DOMAIN h.positions : Marks(h, h.positions[k])
<1>1. PICK f \in TaskFields(task) :
        h = [field |-> f.name, text |-> f.value, positions |-> PositionsIn(task, f.name, f.value)]
  BY DEF Highlights
<1>2. h.text = f.value /\ h.text \in Texts /\ h.positions = PositionsIn(task, f.name, f.value)
  BY <1>1, FieldFacts
<1>3. h.positions \in Seq(RangesIn(h.text))
  BY <1>2, PositionsFacts
<1>4. \A k \in DOMAIN h.positions : h.positions[k] \in RangesIn(h.text)
  BY <1>3
<1> QED
  BY <1>2, <1>4, RangesMark

-----------------------------------------------------------------------------
(***************************************************************************)
(* THE INVARIANT                                                           *)
(*                                                                         *)
(* Both lists hold what has a score among the tasks read so far; a task is *)
(* in a list once because what is ranked is a permutation of a set.        *)
(***************************************************************************)

\* The tasks read so far that are no stubs and have a score.
Scored == {t \in 1 .. next - 1 : ~input.tasks[t].stub /\ ScoreTask(input.tasks[t]) # 0}

ResultOf(t) == [task |-> t, score |-> ScoreTask(input.tasks[t])]

MatchOf(t) == [task |-> t, score |-> ScoreTaskWithHighlights(input.tasks[t]),
               highlights |-> Highlights(input.tasks[t])]

Lists(list, S) == (\E n \in Nat : DOMAIN list = 1..n) /\ list \in Seq(S) /\ ToSet(list) = S

IInv ==
  /\ input \in Inputs
  /\ next \in 1 .. Len(input.tasks) + 1
  /\ phase \in {"score", "ranked"}
  /\ input.query = << >> => next = 1
  /\ Lists(results, {ResultOf(t) : t \in Scored})
  /\ Lists(matches, {MatchOf(t) : t \in Scored})
  /\ phase = "ranked" =>
       /\ input.query = << >> \/ next = Len(input.tasks) + 1
       /\ Descending(matches)
       /\ \A i, j \in DOMAIN matches : i # j => matches[i] # matches[j]

LEMMA EmptyLists == Lists(<< >>, {})
<1>1. DOMAIN << >> = 1..0 /\ ToSet(<< >>) = {}
  BY DEF ToSet
<1> QED
  BY <1>1 DEF Lists

LEMMA AppendLists ==
  ASSUME NEW S, NEW list, Lists(list, S), NEW e
  PROVE  Lists(Append(list, e), S \cup {e})
<1>1. PICK n \in Nat : DOMAIN list = 1..n
  BY DEF Lists
<1>2. list \in Seq(S) /\ Len(list) = n /\ {list[i] : i \in 1..n} = S
  BY <1>1 DEF Lists, ToSet
<1>3. list \in Seq(S \cup {e})
  <2>1. \A i \in 1..n : list[i] \in S \cup {e}
    BY <1>2
  <2> QED
    BY <1>2, <2>1
<1>4. PICK longer : longer = Append(list, e)
  OBVIOUS
<1>5. /\ longer \in Seq(S \cup {e}) /\ Len(longer) = n + 1 /\ longer[n + 1] = e
      /\ \A i \in 1..n : longer[i] = list[i]
  BY <1>2, <1>3, <1>4
<1>6. DOMAIN longer = 1 .. n + 1 /\ n + 1 \in Nat
  BY <1>5
<1>7. ToSet(longer) = S \cup {e}
  <2>1. \A i \in 1 .. n + 1 : i \in 1..n \/ i = n + 1
    OBVIOUS
  <2>2. \A i \in 1..n : i \in 1 .. n + 1
    OBVIOUS
  <2>3. n + 1 \in 1 .. n + 1
    OBVIOUS
  <2>4. ToSet(longer) = {longer[i] : i \in 1 .. n + 1}
    BY <1>6 DEF ToSet
  <2>5. \A x \in ToSet(longer) : x \in S \cup {e}
    BY <1>2, <1>5, <2>1, <2>4
  <2>6. \A x \in S \cup {e} : x \in ToSet(longer)
    BY <1>2, <1>5, <2>2, <2>3, <2>4
  <2> QED
    BY <2>5, <2>6
<1> QED
  BY <1>4, <1>5, <1>6, <1>7 DEF Lists

\* Sorting permutes what is sorted, and nothing is there twice afterwards.
LEMMA SortedLists ==
  ASSUME NEW S, NEW list, Lists(list, S), NEW sorted \in Sorted(list)
  PROVE  /\ Lists(sorted, S)
         /\ Descending(sorted)
         /\ \A i, j \in DOMAIN sorted : i # j => sorted[i] # sorted[j]
<1>1. PICK n \in Nat : DOMAIN list = 1..n
  BY DEF Lists
<1>2. IsFiniteSet(S)
  <2>1. S = {list[i] : i \in 1..n}
    BY <1>1 DEF Lists, ToSet
  <2>2. IsFiniteSet(1..n)
    BY FS_Interval
  <2> QED
    BY <2>1, <2>2, ImageFinite
<1>3. PICK k \in Nat : k = Cardinality(S)
  BY <1>2, FS_CardinalityType
<1>4. /\ sorted \in [1..k -> S] /\ Descending(sorted)
      /\ \A i, j \in 1..k : i # j => sorted[i] # sorted[j]
  <2>1. ToSet(list) = S
    BY DEF Lists
  <2> QED
    BY <1>3, <2>1 DEF Sorted, SetToSeqs
<1>5. sorted \in Injection(1..k, S)
  BY <1>4 DEF Injection, IsInjective
<1>6. Cardinality(1..k) = k
  BY FS_Interval
<1>7. sorted \in Surjection(1..k, S)
  BY <1>2, <1>3, <1>5, <1>6, FS_Injection
<1>8. ToSet(sorted) = S
  BY <1>4, <1>7 DEF Surjection, ToSet
<1>9. sorted \in Seq(S) /\ DOMAIN sorted = 1..k
  BY <1>4
<1> QED
  BY <1>4, <1>8, <1>9 DEF Lists

LEMMA InitIInv == Init => IInv
<1> SUFFICES ASSUME Init PROVE IInv
  OBVIOUS
<1>1. input \in Inputs /\ next = 1 /\ results = << >> /\ matches = << >> /\ phase = "score"
  BY DEF Init
<1>2. Scored = {}
  BY <1>1 DEF Scored
<1>3. {ResultOf(t) : t \in Scored} = {} /\ {MatchOf(t) : t \in Scored} = {}
  BY <1>2
<1>4. next \in 1 .. Len(input.tasks) + 1
  BY <1>1, CallFacts
<1> QED
  BY <1>1, <1>3, <1>4, EmptyLists DEF IInv

LEMMA ScorePreserves ==
  ASSUME IInv, Score
  PROVE  IInv'
<1> DEFINE task == input.tasks[next]
<1>1. /\ phase = "score" /\ phase' = phase /\ input' = input /\ input \in Inputs
      /\ input.query # << >> /\ next \in 1..Len(input.tasks) /\ next' = next + 1
      /\ next \in Nat /\ Len(input.tasks) \in Nat
  BY CallFacts DEF Score, Scoring, IInv
<1>2. /\ task \in Task
      /\ ScoreTaskWithHighlights(task) = ScoreTask(task)
  BY <1>1, CallFacts, SameScore
<1>3. \A t \in 1 .. next' - 1 : t \in 1 .. next - 1 \/ t = next
  BY <1>1
<1>4. \A t \in 1 .. next - 1 : t \in 1 .. next' - 1
  BY <1>1
<1>5. next \in 1 .. next' - 1
  BY <1>1
<1>6. \A t : ResultOf(t)' = ResultOf(t) /\ MatchOf(t)' = MatchOf(t)
  BY <1>1 DEF ResultOf, MatchOf, ScoreTask, ScoreTaskWithHighlights, Highlights, PositionsIn, Tokens
<1>7. \A t : ScoreTask(input.tasks[t])' = ScoreTask(input.tasks[t])
  BY <1>1 DEF ScoreTask, Tokens
<1>a. /\ Lists(results', {ResultOf(t)' : t \in Scored'})
      /\ Lists(matches', {MatchOf(t)' : t \in Scored'})
      => IInv'
  <2>1. next' \in 1 .. Len(input.tasks) + 1
    BY <1>1
  <2> QED
    BY <1>1, <2>1 DEF IInv, Lists, ToSet
<1>8. CASE task.stub \/ ScoreTask(task) = 0
  <2>1. Scored' = Scored
    BY <1>1, <1>3, <1>4, <1>7, <1>8 DEF Scored
  <2>2. results' = results /\ matches' = matches
    BY <1>2, <1>8 DEF Score
  <2>3. {ResultOf(t)' : t \in Scored'} = {ResultOf(t) : t \in Scored}
    BY <1>6, <2>1
  <2>4. {MatchOf(t)' : t \in Scored'} = {MatchOf(t) : t \in Scored}
    BY <1>6, <2>1
  <2>5. Lists(results', {ResultOf(t)' : t \in Scored'})
    BY <2>2, <2>3 DEF IInv
  <2>6. Lists(matches', {MatchOf(t)' : t \in Scored'})
    BY <2>2, <2>4 DEF IInv
  <2> QED
    BY <1>a, <2>5, <2>6
<1>9. CASE ~task.stub /\ ScoreTask(task) # 0
  <2>1. Scored' = Scored \cup {next}
    BY <1>1, <1>3, <1>4, <1>5, <1>7, <1>9 DEF Scored
  <2>2. results' = Append(results, ResultOf(next)) /\ matches' = Append(matches, MatchOf(next))
    BY <1>2, <1>9 DEF Score, ResultOf, MatchOf
  <2>3. {ResultOf(t)' : t \in Scored'} = {ResultOf(t) : t \in Scored} \cup {ResultOf(next)}
    BY <1>6, <2>1
  <2>4. {MatchOf(t)' : t \in Scored'} = {MatchOf(t) : t \in Scored} \cup {MatchOf(next)}
    BY <1>6, <2>1
  <2>5. /\ Lists(results, {ResultOf(t) : t \in Scored})
        /\ Lists(matches, {MatchOf(t) : t \in Scored})
    BY DEF IInv
  <2>6. /\ Lists(Append(results, ResultOf(next)), {ResultOf(t) : t \in Scored} \cup {ResultOf(next)})
        /\ Lists(Append(matches, MatchOf(next)), {MatchOf(t) : t \in Scored} \cup {MatchOf(next)})
    BY <2>5, AppendLists
  <2>7. Lists(results', {ResultOf(t)' : t \in Scored'})
    BY <2>2, <2>3, <2>6
  <2>8. Lists(matches', {MatchOf(t)' : t \in Scored'})
    BY <2>2, <2>4, <2>6
  <2> QED
    BY <1>a, <2>7, <2>8
<1> QED
  BY <1>8, <1>9

LEMMA RankPreserves ==
  ASSUME IInv, Rank
  PROVE  IInv'
<1>1. /\ phase = "score" /\ phase' = "ranked" /\ input' = input /\ next' = next
      /\ input \in Inputs
      /\ results' \in Sorted(results) /\ matches' \in Sorted(matches)
      /\ input.query = << >> \/ ~(next <= Len(input.tasks))
  BY DEF Rank, Scoring, IInv
<1>2. input.query = << >> \/ next = Len(input.tasks) + 1
  <2>1. Len(input.tasks) \in Nat /\ next \in 1 .. Len(input.tasks) + 1
    BY <1>1, CallFacts DEF IInv
  <2> QED
    BY <1>1, <2>1
<1>3. Scored' = Scored /\ \A t : ResultOf(t)' = ResultOf(t) /\ MatchOf(t)' = MatchOf(t)
  BY <1>1 DEF Scored, ResultOf, MatchOf, ScoreTask, ScoreTaskWithHighlights, Highlights,
     PositionsIn, Tokens
<1>4. Lists(results', {ResultOf(t)' : t \in Scored'})
  BY <1>1, <1>3, SortedLists DEF IInv
<1>5. /\ Lists(matches', {MatchOf(t)' : t \in Scored'})
      /\ Descending(matches')
      /\ \A i, j \in DOMAIN matches' : i # j => matches'[i] # matches'[j]
  BY <1>1, <1>3, SortedLists DEF IInv
<1> QED
  BY <1>1, <1>2, <1>4, <1>5 DEF IInv, Lists, ToSet, Descending

LEMMA NextIInv == IInv /\ [Next]_vars => IInv'
<1> SUFFICES ASSUME IInv, [Next]_vars PROVE IInv'
  OBVIOUS
<1>1. CASE UNCHANGED vars
  <2>1. input' = input /\ next' = next /\ results' = results /\ matches' = matches /\ phase' = phase
    BY <1>1 DEF vars
  <2>2. Scored' = Scored /\ \A t : ResultOf(t)' = ResultOf(t) /\ MatchOf(t)' = MatchOf(t)
    BY <2>1 DEF Scored, ResultOf, MatchOf, ScoreTask, ScoreTaskWithHighlights, Highlights,
       PositionsIn, Tokens
  <2>3. /\ Lists(results', {ResultOf(t)' : t \in Scored'})
        /\ Lists(matches', {MatchOf(t)' : t \in Scored'})
    BY <2>1, <2>2 DEF IInv
  <2> QED
    BY <2>1, <2>3 DEF IInv, Lists, ToSet, Descending
<1> QED
  BY <1>1, ScorePreserves, RankPreserves DEF Next, Returned

\* What the invariant says of the properties.
LEMMA AgreeInside ==
  ASSUME IInv
  PROVE  ScorersAgree
<1>1. \A t \in Scored : MatchOf(t).task = ResultOf(t).task /\ MatchOf(t).score = ResultOf(t).score
  <2>1. \A t \in Scored : input.tasks[t] \in Task
    BY CallFacts DEF IInv, Scored
  <2> QED
    BY <2>1, SameScore DEF IInv, MatchOf, ResultOf
<1>2. \A t : ResultOf(t) = [task |-> ResultOf(t).task, score |-> ResultOf(t).score]
  BY DEF ResultOf
<1>3. ToSet(matches) = {MatchOf(t) : t \in Scored} /\ ToSet(results) = {ResultOf(t) : t \in Scored}
  BY DEF IInv, Lists
<1> QED
  BY <1>1, <1>2, <1>3 DEF ScorersAgree

LEMMA FoundInside ==
  ASSUME IInv
  PROVE  ExactlyTheFound
<1> SUFFICES ASSUME phase = "ranked"
             PROVE  /\ {m.task : m \in ToSet(matches)} =
                         {t \in DOMAIN input.tasks : ~input.tasks[t].stub /\ Found(input.tasks[t])}
                    /\ \A i, j \in DOMAIN matches : i < j =>
                         /\ matches[i].task # matches[j].task
                         /\ matches[i].score >= matches[j].score
  BY DEF ExactlyTheFound
<1>1. ToSet(matches) = {MatchOf(t) : t \in Scored} /\ \A t : MatchOf(t).task = t
  BY DEF IInv, Lists, MatchOf
<1>2. Scored = {t \in DOMAIN input.tasks : ~input.tasks[t].stub /\ Found(input.tasks[t])}
  <2>1. /\ DOMAIN input.tasks = 1..Len(input.tasks) /\ Len(input.tasks) \in Nat
        /\ \A t \in 1..Len(input.tasks) : input.tasks[t] \in Task
    BY CallFacts DEF IInv
  <2>2. CASE next = Len(input.tasks) + 1
    BY <2>1, <2>2, ScoreFinds DEF IInv, Scored
  <2>3. CASE input.query = << >>
    <3>1. Scored = {}
      BY <2>3 DEF IInv, Scored
    <3>2. \A task : ~Found(task)
      BY <2>3 DEF Found
    <3> QED
      BY <3>1, <3>2
  <2> QED
    BY <2>2, <2>3 DEF IInv
<1>3. ASSUME NEW i \in DOMAIN matches, NEW j \in DOMAIN matches, i < j
      PROVE  matches[i].task # matches[j].task /\ matches[i].score >= matches[j].score
  <2>1. matches[i] # matches[j]
    <3>1. i # j
      BY <1>3 DEF IInv, Lists
    <3> QED
      BY <3>1 DEF IInv
  <2>2. PICK s, t : matches[i] = MatchOf(s) /\ matches[j] = MatchOf(t)
    BY <1>1 DEF ToSet
  <2> QED
    BY <1>1, <1>3, <2>1, <2>2 DEF IInv, Descending
<1> QED
  BY <1>1, <1>2, <1>3

LEMMA WordsInside ==
  ASSUME IInv
  PROVE  HighlightsReadAsWords
<1> SUFFICES ASSUME NEW m \in ToSet(matches), NEW h \in m.highlights, SameWidth(h.text)
             PROVE  \A k \in DOMAIN h.positions : Marks(h, h.positions[k])
  BY DEF HighlightsReadAsWords
<1>1. PICK t \in Scored : m = MatchOf(t)
  BY DEF IInv, Lists
<1>2. input.tasks[t] \in Task /\ m.highlights = Highlights(input.tasks[t]) /\ input \in Inputs
  BY <1>1, CallFacts DEF IInv, Scored, MatchOf
<1> QED
  BY <1>2, HighlightsMark

-----------------------------------------------------------------------------
(***************************************************************************)
(* THE THEOREMS                                                            *)
(***************************************************************************)

\* What has been scored is in both lists, and the lists that are returned are
\* permutations of it (search.go:58-110).
THEOREM ScoredAreListed == Spec => []IInv
  BY InitIInv, NextIInv, PTL DEF Spec

\* strings.Count and the loop of findAllPositions come to the same score, of
\* each task and for each query (search.go:134-202, 206-282).
THEOREM BothScorersAgree == Spec => []ScorersAgree
  BY ScoredAreListed, AgreeInside, PTL

\* A call returns the tasks, and no stubs, in which some word of the query
\* occurs, each of them once, none before one with a better score
\* (search.go:84-110).
THEOREM ReturnsTheFound == Spec => []ExactlyTheFound
  BY ScoredAreListed, FoundInside, PTL

\* When lower case takes as many bytes, every highlighted range of a text reads
\* as a word of the query (search.go:22-26, 206-227).
THEOREM HighlightsAreWords == Spec => []HighlightsReadAsWords
  BY ScoredAreListed, WordsInside, PTL

=============================================================================
