----------------------------- MODULE IndexProofs -----------------------------
(***************************************************************************)
(* Proofs about Index.tla, for any files, editors and indexers.            *)
(*                                                                         *)
(* A scan is not a snapshot.  WalkOK says what it is: a relation between   *)
(* the versions of the files the walk has seen, what it has listed and not *)
(* visited, and what it has found.  An edit adds a version to the first of *)
(* them; each step of the walk preserves the relation for the version that *)
(* is current.  The lemmas on it speak of sets of versions and not of the  *)
(* state, and the steps only apply them.                                   *)
(***************************************************************************)
EXTENDS Index, FiniteSetTheorems, TLAPS

-----------------------------------------------------------------------------
(***************************************************************************)
(* THE INDUCTIVE INVARIANT                                                 *)
(***************************************************************************)

Names == DOMAIN NameOrder

FileTexts == [Paths -> Texts \cup {Absent}]

Item == [path : Seq(Names), dir : BOOLEAN]

Entry == [path : Paths, text : Texts]

\* What is listed lies outside hidden directories; a listed file was there.
Open(path) == \A d \in Ancestors(path) : Last(d) \notin Hidden

Items(seen, todo) ==
  \A x \in todo :
    /\ Open(x.path)
    /\ IF x.dir THEN x.path \notin Paths
       ELSE x.path \in Paths /\ \E files \in seen : files[x.path] # Absent

\* No place is listed twice, none is listed that has been visited.
Apart(todo, entries) ==
  /\ \A x, y \in todo : IsPrefix(x.path, y.path) => x = y
  /\ \A x \in todo, e \in entries : ~IsPrefix(x.path, e.path)

Real(seen, entries) ==
  /\ \A e \in entries : \E files \in seen : e \in Snapshot(files)
  /\ \A e, f \in entries : e.path = f.path => e = f

\* A file that has been there all the time is found or still to be visited.
Covered(seen, todo, entries) ==
  \A p \in Indexable : (\A files \in seen : files[p] # Absent) =>
    \/ \E e \in entries : e.path = p
    \/ \E x \in todo : IsPrefix(x.path, p)

Reached(todo, entries, p) ==
  (\E e \in entries : e.path = p) \/ (\E x \in todo : x.path = p)

\* Of the names of a renamed document exactly one has been listed, once its
\* directory has been.
Followed(seen, todo, entries) ==
  \A dir \in Directories, x \in Texts : OnlyRenamed(seen, dir, x) =>
    \/ \E y \in todo : y.dir /\ IsPrefix(y.path, dir)
    \/ \E p \in PathsOf(seen, dir, x) :
         /\ Reached(todo, entries, p)
         /\ \A q \in PathsOf(seen, dir, x) : Reached(todo, entries, q) => q = p

\* A walk that has seen the versions "seen" of the files, has todo before it
\* and the entries behind it.
WalkOK(seen, todo, entries) ==
  /\ Items(seen, todo)
  /\ Apart(todo, entries)
  /\ Real(seen, entries)
  /\ ~RootHidden => Covered(seen, todo, entries) /\ Followed(seen, todo, entries)

\* The versions that have been current since w's scan began, up to its end.
Seen(w) ==
  {history[v] : v \in scan[w].began .. IF scan[w].phase = "writing" THEN scan[w].ended ELSE Version}

Walk == [phase : {"walking"}, began : Nat, entries : SUBSET Entry, todo : SUBSET Item]

Write == [phase : {"writing"}, began : Nat, ended : Nat, entries : SUBSET Entry]

TypeInv ==
  /\ history \in Seq(FileTexts) /\ Len(history) >= 1
  /\ scan \in [Indexers -> {NoScan} \cup Walk \cup Write]

ScanInv(w) ==
  scan[w] # NoScan =>
    /\ scan[w].began \in 1..Version
    /\ scan[w].phase = "writing" => scan[w].ended \in scan[w].began..Version
    /\ WalkOK(Seen(w), Listed(w), scan[w].entries)

\* The content is that of the files its call saw, when nobody has edited since.
SourceInv ==
  ~RootHidden =>
    source \in 0..Version /\ (source = Version => content = Image(RepositoryOf(Snapshot(Files))))

IInv == TypeInv /\ (\A w \in Indexers : ScanInv(w)) /\ SourceInv

-----------------------------------------------------------------------------
(***************************************************************************)
(* FACTS ABOUT PATHS                                                       *)
(***************************************************************************)

LEMMA PrefixByElement ==
  ASSUME NEW p \in Seq(Names), NEW q \in Seq(Names)
  PROVE  IsPrefix(p, q) <=> Len(p) <= Len(q) /\ \A i \in 1..Len(p) : p[i] = q[i]
  BY DEF IsPrefix

LEMMA PrefixOrder ==
  /\ \A p \in Seq(Names) : IsPrefix(p, p)
  /\ \A p, q, r \in Seq(Names) : IsPrefix(p, q) /\ IsPrefix(q, r) => IsPrefix(p, r)
  /\ \A p, q \in Seq(Names) : IsPrefix(p, q) => Len(p) <= Len(q)
  /\ \A p, q \in Seq(Names) : IsPrefix(p, q) /\ Len(q) <= Len(p) => p = q
  /\ \A p, q, r \in Seq(Names) :
        IsPrefix(p, r) /\ IsPrefix(q, r) /\ Len(p) <= Len(q) => IsPrefix(p, q)
<1>1. ASSUME NEW p \in Seq(Names) PROVE IsPrefix(p, p)
  BY PrefixByElement
<1>2. ASSUME NEW p \in Seq(Names), NEW q \in Seq(Names), NEW r \in Seq(Names),
             IsPrefix(p, q), IsPrefix(q, r)
      PROVE  IsPrefix(p, r)
  <2>1. /\ Len(p) <= Len(q) /\ \A i \in 1..Len(p) : p[i] = q[i]
        /\ Len(q) <= Len(r) /\ \A i \in 1..Len(q) : q[i] = r[i]
    BY <1>2, PrefixByElement
  <2>2. Len(p) <= Len(r) /\ \A i \in 1..Len(p) : p[i] = r[i]
    BY <2>1
  <2> QED
    BY <2>2, PrefixByElement
<1>3. ASSUME NEW p \in Seq(Names), NEW q \in Seq(Names), IsPrefix(p, q)
      PROVE  Len(p) <= Len(q) /\ (Len(q) <= Len(p) => p = q)
  BY <1>3, PrefixByElement
<1>4. ASSUME NEW p \in Seq(Names), NEW q \in Seq(Names), NEW r \in Seq(Names),
             IsPrefix(p, r), IsPrefix(q, r), Len(p) <= Len(q)
      PROVE  IsPrefix(p, q)
  <2>1. /\ \A i \in 1..Len(p) : p[i] = r[i]
        /\ \A i \in 1..Len(q) : q[i] = r[i]
    BY <1>4, PrefixByElement
  <2>2. \A i \in 1..Len(p) : p[i] = q[i]
    BY <1>4, <2>1
  <2> QED
    BY <1>4, <2>2, PrefixByElement
<1> QED
  BY <1>1, <1>2, <1>3, <1>4

LEMMA Lengths ==
  \A p, q \in Seq(Names) : /\ Len(p) \in Nat /\ Len(q) \in Nat
                           /\ ~(Len(p) <= Len(q)) => Len(q) < Len(p)
  OBVIOUS

\* The head of a path of a given length.
LEMMA HeadOfPath ==
  ASSUME NEW p \in Seq(Names), NEW n \in 0..Len(p)
  PROVE  /\ SubSeq(p, 1, n) \in Seq(Names) /\ Len(SubSeq(p, 1, n)) = n
         /\ IsPrefix(SubSeq(p, 1, n), p)
         /\ (n = Len(p) => SubSeq(p, 1, n) = p)
<1>1. SubSeq(p, 1, n) \in Seq(Names) /\ Len(SubSeq(p, 1, n)) = n
  OBVIOUS
<1>2. \A i \in 1..n : SubSeq(p, 1, n)[i] = p[i]
  OBVIOUS
<1>3. IsPrefix(SubSeq(p, 1, n), p)
  <2> DEFINE s == SubSeq(p, 1, n)
  <2>1. s \in Seq(Names) /\ Len(s) <= Len(p) /\ \A i \in 1..Len(s) : s[i] = p[i]
    BY <1>1, <1>2
  <2> HIDE DEF s
  <2>2. IsPrefix(s, p)
    BY <2>1, PrefixByElement
  <2> QED
    BY <2>2 DEF s
<1> QED
  BY <1>1, <1>3, PrefixOrder

LEMMA RootFacts ==
  /\ Root \in Seq(Names) /\ Len(Root) = 0
  /\ \A p \in Seq(Names) : IsPrefix(Root, p) /\ (Len(p) = 0 => p = Root)
<1>1. Root \in Seq(Names) /\ Len(Root) = 0
  BY DEF Root
<1>2. ASSUME NEW p \in Seq(Names) PROVE IsPrefix(Root, p) /\ (Len(p) = 0 => p = Root)
  <2>1. IsPrefix(Root, p)
    <3>1. Len(Root) <= Len(p) /\ \A i \in 1..Len(Root) : Root[i] = p[i]
      BY <1>1
    <3> QED
      BY <1>1, <3>1, PrefixByElement
  <2> QED
    BY <1>1, <2>1, PrefixOrder
<1> QED
  BY <1>1, <1>2

\* The ancestors of a path are its prefixes, the root and itself left out.
LEMMA AncestorIsPrefix ==
  ASSUME NEW p \in Seq(Names), NEW d
  PROVE  d \in Ancestors(p) <=>
           d \in Seq(Names) /\ d # Root /\ IsPrefix(d, p) /\ Len(d) < Len(p)
<1>1. ASSUME NEW n \in 1 .. Len(p) - 1, d = SubSeq(p, 1, n)
      PROVE  d \in Seq(Names) /\ d # Root /\ IsPrefix(d, p) /\ Len(d) < Len(p)
  <2>1. d \in Seq(Names) /\ Len(d) = n /\ IsPrefix(d, p)
    BY <1>1, HeadOfPath
  <2> QED
    BY <2>1, RootFacts
<1>2. ASSUME d \in Seq(Names), d # Root, IsPrefix(d, p), Len(d) < Len(p)
      PROVE  \E n \in 1 .. Len(p) - 1 : d = SubSeq(p, 1, n)
  <2>1. Len(d) \in 1 .. Len(p) - 1
    BY <1>2, RootFacts
  <2>2. d = SubSeq(p, 1, Len(d))
    <3>1. SubSeq(p, 1, Len(d)) \in Seq(Names) /\ Len(SubSeq(p, 1, Len(d))) = Len(d)
          /\ IsPrefix(SubSeq(p, 1, Len(d)), p)
      BY <2>1, HeadOfPath
    <3>2. IsPrefix(d, SubSeq(p, 1, Len(d)))
      BY <1>2, <3>1, PrefixOrder
    <3> QED
      BY <1>2, <3>1, <3>2, PrefixOrder
  <2> QED
    BY <2>1, <2>2
<1> QED
  BY <1>1, <1>2 DEF Ancestors

LEMMA PathFacts ==
  /\ \A p \in Paths : p \in Seq(Names) /\ p # Root /\ Len(p) \in Nat \ {0}
  /\ \A p, q \in Paths : IsPrefix(p, q) => p = q
  /\ IsFiniteSet(Paths)
<1>1. \A p \in Paths : p \in Seq(Names) /\ p # Root
  BY IndexAssumption DEF Names, Root
<1> QED
  BY <1>1, RootFacts, IndexAssumption

LEMMA BelowFacts ==
  ASSUME NEW dir \in Seq(Names), NEW p
  PROVE  p \in Below(dir) <=> p \in Paths /\ IsPrefix(dir, p) /\ Len(dir) < Len(p)
<1>1. p \in Paths => (IsPrefix(dir, p) => (dir # p <=> Len(dir) < Len(p)))
  BY PathFacts, PrefixOrder
<1> QED
  BY <1>1 DEF Below, IsStrictPrefix

\* What is found in a directory by way of a file below it.
LEMMA ChildFacts ==
  ASSUME NEW dir \in Seq(Names), NEW p \in Below(dir),
         NEW path, path = SubSeq(p, 1, Len(dir) + 1)
  PROVE  /\ path \in Seq(Names) /\ Len(path) = Len(dir) + 1
         /\ IsPrefix(dir, path) /\ IsPrefix(path, p)
         /\ (Len(p) > Len(dir) + 1 => path \notin Paths)
         /\ (~(Len(p) > Len(dir) + 1) => path = p)
         /\ \A d \in Ancestors(path) : d \in Ancestors(dir) \/ (d = dir /\ dir # Root)
<1>1. p \in Paths /\ p \in Seq(Names) /\ IsPrefix(dir, p) /\ Len(dir) < Len(p)
  BY BelowFacts, PathFacts
<1>2. Len(dir) + 1 \in 0..Len(p)
  BY <1>1
<1>3. /\ path \in Seq(Names) /\ Len(path) = Len(dir) + 1 /\ IsPrefix(path, p)
      /\ (Len(dir) + 1 = Len(p) => path = p)
  BY <1>1, <1>2, HeadOfPath
<1>4. IsPrefix(dir, path)
  <2>1. Len(dir) <= Len(path)
    BY <1>3
  <2> QED
    BY <1>1, <1>3, <2>1, PrefixOrder
<1>5. Len(p) > Len(dir) + 1 => path \notin Paths
  <2> SUFFICES ASSUME path \in Paths PROVE Len(p) = Len(dir) + 1
    BY <1>1
  <2>1. path = p
    BY <1>1, <1>3, PathFacts
  <2> QED
    BY <1>3, <2>1
<1>6. ~(Len(p) > Len(dir) + 1) => path = p
  BY <1>1, <1>3
<1>7. ASSUME NEW d \in Ancestors(path) PROVE d \in Ancestors(dir) \/ (d = dir /\ dir # Root)
  <2>1. d \in Seq(Names) /\ d # Root /\ IsPrefix(d, path) /\ Len(d) < Len(path)
    BY <1>3, AncestorIsPrefix
  <2>2. IsPrefix(d, dir)
    <3>1. Len(d) <= Len(dir)
      BY <1>3, <2>1
    <3> QED
      BY <1>3, <1>4, <2>1, <3>1, PrefixOrder
  <2>3. CASE Len(d) < Len(dir)
    BY <2>1, <2>2, <2>3, AncestorIsPrefix
  <2>4. CASE ~(Len(d) < Len(dir))
    <3>1. d = dir
      BY <2>1, <2>2, <2>4, PrefixOrder
    <3> QED
      BY <2>1, <3>1
  <2> QED
    BY <2>3, <2>4
<1> QED
  BY <1>3, <1>4, <1>5, <1>6, <1>7

LEMMA DirectoryPath ==
  ASSUME NEW dir \in Directories
  PROVE  dir \in Seq(Names)
  BY PathFacts, AncestorIsPrefix DEF Directories

LEMMA ParentFacts ==
  ASSUME NEW p \in Paths
  PROVE  /\ Parent(p) \in Seq(Names) /\ IsPrefix(Parent(p), p)
         /\ Len(Parent(p)) + 1 = Len(p)
<1>1. p \in Seq(Names) /\ Len(p) - 1 \in 0..Len(p)
  BY PathFacts
<1>2. Parent(p) = SubSeq(p, 1, Len(p) - 1)
  BY DEF Parent, Front
<1>3. /\ Parent(p) \in Seq(Names) /\ Len(Parent(p)) = Len(p) - 1
      /\ IsPrefix(Parent(p), p)
  BY <1>1, <1>2, HeadOfPath
<1> QED
  BY <1>1, <1>3

\* In each version a renamed document has one name.
LEMMA RenamedNow ==
  ASSUME NEW seen, NEW files \in seen, NEW dir, NEW x, OnlyRenamed(seen, dir, x)
  PROVE  \E p \in PathsOf(seen, dir, x) :
           /\ p \in Paths /\ p \in Indexable /\ Parent(p) = dir /\ files[p] = x
           /\ \A q \in Paths : Parent(q) = dir /\ files[q] = x => q = p
<1>1. IsFiniteSet(PathsOf({files}, dir, x))
  <2>1. PathsOf({files}, dir, x) \in SUBSET Paths
    BY DEF PathsOf
  <2> QED
    BY <2>1, PathFacts, FS_Subset
<1>2. PICK p : PathsOf({files}, dir, x) = {p}
  BY <1>1, FS_Singleton DEF OnlyRenamed
<1>3. p \in Paths /\ Parent(p) = dir /\ files[p] = x
  BY <1>2 DEF PathsOf
<1>4. p \in PathsOf(seen, dir, x) /\ p \in Indexable
  BY <1>3 DEF PathsOf, OnlyRenamed
<1>5. \A q \in Paths : Parent(q) = dir /\ files[q] = x => q = p
  BY <1>2 DEF PathsOf
<1> QED
  BY <1>3, <1>4, <1>5

-----------------------------------------------------------------------------
(***************************************************************************)
(* THE STEPS OF A WALK                                                     *)
(***************************************************************************)

LEMMA StartOK ==
  ASSUME NEW files
  PROVE  WalkOK({files}, IF RootHidden THEN {} ELSE {[path |-> Root, dir |-> TRUE]}, {})
<1> DEFINE todo == IF RootHidden THEN {} ELSE {[path |-> Root, dir |-> TRUE]}
<1>1. \A x \in todo : x.path = Root /\ x.dir
  OBVIOUS
<1>2. ~RootHidden => \E x \in todo : x.path = Root /\ x.dir
  OBVIOUS
<1>3. \A x, y \in todo : x = y
  OBVIOUS
<1> HIDE DEF todo
<1>4. Items({files}, todo)
  <2>1. Ancestors(Root) = {}
    <3> SUFFICES ASSUME NEW d \in Ancestors(Root) PROVE FALSE
      OBVIOUS
    <3>1. d \in Seq(Names) /\ Len(d) < Len(Root)
      BY RootFacts, AncestorIsPrefix
    <3> QED
      BY <3>1, RootFacts
  <2> QED
    BY <1>1, <2>1, PathFacts DEF Items, Open
<1>5. Apart(todo, {}) /\ Real({files}, {})
  BY <1>3 DEF Apart, Real
<1>6. ~RootHidden => Covered({files}, todo, {})
  BY <1>2, RootFacts, PathFacts DEF Covered, Indexable
<1>7. ~RootHidden => Followed({files}, todo, {})
  BY <1>2, RootFacts, DirectoryPath DEF Followed
<1>8. WalkOK({files}, todo, {})
  BY <1>4, <1>5, <1>6, <1>7 DEF WalkOK
<1> QED
  BY <1>8 DEF todo

\* Versions that are added leave fewer files that were always there, and fewer
\* documents that were only renamed.
LEMMA GrowOK ==
  ASSUME NEW seen, NEW more, seen \subseteq more, NEW todo, NEW entries,
         WalkOK(seen, todo, entries)
  PROVE  WalkOK(more, todo, entries)
<1>1. Items(more, todo) /\ Real(more, entries)
  BY DEF WalkOK, Items, Real
<1>2. ~RootHidden => Covered(more, todo, entries)
  BY DEF WalkOK, Covered
<1>3. ASSUME ~RootHidden PROVE Followed(more, todo, entries)
  <2> SUFFICES ASSUME NEW dir \in Directories, NEW x \in Texts, OnlyRenamed(more, dir, x)
               PROVE  \/ \E y \in todo : y.dir /\ IsPrefix(y.path, dir)
                      \/ \E p \in PathsOf(more, dir, x) :
                           /\ Reached(todo, entries, p)
                           /\ \A q \in PathsOf(more, dir, x) : Reached(todo, entries, q) => q = p
    BY DEF Followed
  <2>1. PathsOf(seen, dir, x) \subseteq PathsOf(more, dir, x)
    BY DEF PathsOf
  <2>2. OnlyRenamed(seen, dir, x)
    BY <2>1 DEF OnlyRenamed
  <2>3. CASE \E y \in todo : y.dir /\ IsPrefix(y.path, dir)
    BY <2>3
  <2>4. CASE \E p \in PathsOf(seen, dir, x) :
               /\ Reached(todo, entries, p)
               /\ \A q \in PathsOf(seen, dir, x) : Reached(todo, entries, q) => q = p
    <3>1. ASSUME NEW q \in PathsOf(more, dir, x), Reached(todo, entries, q)
          PROVE  q \in PathsOf(seen, dir, x)
      <4>1. q \in Paths /\ Parent(q) = dir
        BY DEF PathsOf
      <4>2. \E files \in seen : files[q] # Absent
        <5>1. CASE \E e \in entries : e.path = q
          BY <5>1 DEF WalkOK, Real, Snapshot
        <5>2. CASE \E y \in todo : y.path = q
          BY <4>1, <5>2 DEF WalkOK, Items
        <5> QED
          BY <3>1, <5>1, <5>2 DEF Reached
      <4>3. \A files \in seen : files[q] \in {x, Absent}
        BY DEF OnlyRenamed
      <4> QED
        BY <4>1, <4>2, <4>3 DEF PathsOf
    <3> QED
      BY <2>1, <2>4, <3>1
  <2> QED
    BY <1>3, <2>2, <2>3, <2>4 DEF WalkOK, Followed
<1> QED
  BY <1>1, <1>2, <1>3 DEF WalkOK

\* A place below which nothing is to be found can be passed over.
LEMMA DropOK ==
  ASSUME NEW seen, NEW files \in seen, NEW todo \in SUBSET Item, NEW entries,
         WalkOK(seen, todo, entries),
         NEW x \in todo, \A p \in Indexable : ~IsPrefix(x.path, p)
  PROVE  WalkOK(seen, todo \ {x}, entries)
<1> DEFINE rest == todo \ {x}
<1>1. Items(seen, rest) /\ Apart(rest, entries) /\ Real(seen, entries)
  BY DEF WalkOK, Items, Apart
<1>2. ~RootHidden => Covered(seen, rest, entries)
  BY DEF WalkOK, Covered
<1>3. ASSUME ~RootHidden PROVE Followed(seen, rest, entries)
  <2> SUFFICES ASSUME NEW dir \in Directories, NEW t \in Texts, OnlyRenamed(seen, dir, t)
               PROVE  \/ \E y \in rest : y.dir /\ IsPrefix(y.path, dir)
                      \/ \E p \in PathsOf(seen, dir, t) :
                           /\ Reached(rest, entries, p)
                           /\ \A q \in PathsOf(seen, dir, t) : Reached(rest, entries, q) => q = p
    BY DEF Followed
  <2>1. \A q : Reached(rest, entries, q) => Reached(todo, entries, q)
    BY DEF Reached
  <2>2. CASE \E y \in todo : y.dir /\ IsPrefix(y.path, dir)
    <3>1. PICK y \in todo : y.dir /\ IsPrefix(y.path, dir)
      BY <2>2
    <3>2. PICK p \in PathsOf(seen, dir, t) : p \in Paths /\ p \in Indexable /\ Parent(p) = dir
      BY RenamedNow
    <3>3. IsPrefix(dir, p) /\ dir \in Seq(Names) /\ p \in Seq(Names) /\ y.path \in Seq(Names)
      BY <3>2, ParentFacts, PathFacts DEF Item
    <3>4. IsPrefix(y.path, p)
      BY <3>1, <3>3, PrefixOrder
    <3> QED
      BY <3>1, <3>2, <3>4
  <2>3. CASE \E p \in PathsOf(seen, dir, t) :
               /\ Reached(todo, entries, p)
               /\ \A q \in PathsOf(seen, dir, t) : Reached(todo, entries, q) => q = p
    <3>1. PICK p \in PathsOf(seen, dir, t) :
               /\ Reached(todo, entries, p)
               /\ \A q \in PathsOf(seen, dir, t) : Reached(todo, entries, q) => q = p
      BY <2>3
    <3>2. p \in Indexable /\ p \in Seq(Names)
      BY PathFacts DEF OnlyRenamed, Indexable
    <3>3. x.path # p
      BY <3>2, PrefixOrder
    <3>4. Reached(rest, entries, p)
      BY <3>1, <3>3 DEF Reached
    <3> QED
      BY <2>1, <3>1, <3>4
  <2> QED
    BY <1>3, <2>2, <2>3 DEF WalkOK, Followed
<1> QED
  BY <1>1, <1>2, <1>3 DEF WalkOK

\* Nothing is to be found in a hidden directory, nor in a file without a kind.
LEMMA NothingThere ==
  ASSUME NEW seen, NEW todo \in SUBSET Item, Items(seen, todo), NEW x \in todo,
         IF x.dir THEN Skipped(x.path) ELSE Kind(x.path) = ""
  PROVE  \A p \in Indexable : ~IsPrefix(x.path, p)
<1> SUFFICES ASSUME NEW p \in Indexable, IsPrefix(x.path, p) PROVE FALSE
  OBVIOUS
<1>1. p \in Paths /\ Kind(p) # "" /\ \A d \in Ancestors(p) : Last(d) \notin Hidden
  BY DEF Indexable
<1>2. p \in Seq(Names) /\ x.path \in Seq(Names) /\ x.dir \in BOOLEAN
  BY <1>1, PathFacts DEF Item
<1>3. CASE x.dir
  <2>1. x.path # p
    BY <1>1, <1>3 DEF Items
  <2>2. Len(x.path) < Len(p)
    <3>1. ~(Len(p) <= Len(x.path))
      BY <1>2, <2>1, PrefixOrder
    <3> QED
      BY <1>2, <3>1, Lengths
  <2>3. x.path \in Ancestors(p)
    BY <1>2, <1>3, <2>2, AncestorIsPrefix DEF Skipped
  <2> QED
    BY <1>1, <1>3, <2>3 DEF Skipped
<1>4. CASE ~x.dir
  <2>1. x.path = p
    BY <1>1, <1>4, PathFacts DEF Items
  <2> QED
    BY <1>1, <1>4, <2>1
<1> QED
  BY <1>2, <1>3, <1>4

\* A file that is read joins the entries.
LEMMA ReadOK ==
  ASSUME NEW seen, NEW files \in seen, files \in FileTexts,
         NEW todo \in SUBSET Item, NEW entries \in SUBSET Entry,
         WalkOK(seen, todo, entries),
         NEW x \in todo, ~x.dir, Kind(x.path) # "", files[x.path] # Absent,
         NEW e, e = [path |-> x.path, text |-> files[x.path]]
  PROVE  e \in Entry /\ WalkOK(seen, todo \ {x}, entries \cup {e})
<1> DEFINE rest == todo \ {x}
           more == entries \cup {e}
<1>1. /\ x.path \in Paths /\ Open(x.path) /\ x.path \in Seq(Names)
      /\ e.path = x.path /\ e.text = files[x.path]
  BY PathFacts DEF WalkOK, Items
<1>2. e \in Entry
  BY <1>1 DEF Entry, FileTexts
<1>3. \A f \in entries : f.path # x.path
  <2>1. IsPrefix(x.path, x.path)
    BY <1>1, PrefixOrder
  <2> QED
    BY <2>1 DEF WalkOK, Apart
<1>4. e \in Snapshot(files)
  BY <1>1 DEF Snapshot, Indexable, Open
<1>5. Items(seen, rest)
  BY DEF WalkOK, Items
<1>6. Apart(rest, more)
  BY <1>1 DEF WalkOK, Apart
<1>7. Real(seen, more)
  BY <1>1, <1>3, <1>4 DEF WalkOK, Real
<1>8. ASSUME ~RootHidden PROVE Covered(seen, rest, more)
  <2> SUFFICES ASSUME NEW p \in Indexable, IsPrefix(x.path, p) PROVE e.path = p
    BY <1>8 DEF WalkOK, Covered
  <2> QED
    BY <1>1, PathFacts DEF Indexable
<1>9. \A p : Reached(rest, more, p) <=> Reached(todo, entries, p)
  BY <1>1 DEF Reached
<1>10. ASSUME ~RootHidden PROVE Followed(seen, rest, more)
  <2>1. \A y \in todo : y.dir => y \in rest
    OBVIOUS
  <2> QED
    BY <1>9, <1>10, <2>1 DEF WalkOK, Followed
<1> QED
  BY <1>2, <1>5, <1>6, <1>7, <1>8, <1>10 DEF WalkOK

\* What a directory holds, seen from the walk.
LEMMA KidFacts ==
  ASSUME NEW dir \in Seq(Names), NEW files, NEW c \in Children(files, dir)
  PROVE  /\ c \in Item /\ Len(c.path) = Len(dir) + 1 /\ IsPrefix(dir, c.path)
         /\ \A d \in Ancestors(c.path) : d \in Ancestors(dir) \/ (d = dir /\ dir # Root)
         /\ IF c.dir THEN c.path \notin Paths
            ELSE c.path \in Paths /\ files[c.path] # Absent
<1>1. PICK p \in Below(dir) : /\ files[p] # Absent
                              /\ c.path = SubSeq(p, 1, Len(dir) + 1)
                              /\ c.dir = (Len(p) > Len(dir) + 1)
                              /\ c = [path |-> c.path, dir |-> c.dir]
  BY DEF Children
<1>2. p \in Paths
  BY BelowFacts
<1>3. /\ c.path \in Seq(Names) /\ Len(c.path) = Len(dir) + 1 /\ IsPrefix(dir, c.path)
      /\ (c.dir => c.path \notin Paths) /\ (~c.dir => c.path = p)
      /\ \A d \in Ancestors(c.path) : d \in Ancestors(dir) \/ (d = dir /\ dir # Root)
  BY <1>1, ChildFacts
<1>4. c.dir \in BOOLEAN
  BY <1>1
<1>5. c \in Item
  BY <1>1, <1>3, <1>4 DEF Item
<1> QED
  BY <1>1, <1>2, <1>3, <1>5

\* The same of the empty directories in it.
LEMMA EmptyFacts ==
  ASSUME NEW dir \in Seq(Names), NEW files, NEW c \in Empty(files, dir)
  PROVE  /\ c \in Item /\ Len(c.path) = Len(dir) + 1 /\ IsPrefix(dir, c.path)
         /\ \A d \in Ancestors(c.path) : d \in Ancestors(dir) \/ (d = dir /\ dir # Root)
         /\ c.dir /\ c.path \notin Paths
<1>1. /\ c.path \in Directories /\ Parent(c.path) = dir /\ c.dir = TRUE
      /\ c = [path |-> c.path, dir |-> c.dir]
  BY DEF Empty
<1>2. PICK p \in Paths : \E n \in 1 .. Len(p) - 1 : c.path = SubSeq(p, 1, n)
  BY <1>1 DEF Directories, Ancestors
<1>3. PICK n \in 1 .. Len(p) - 1 : c.path = SubSeq(p, 1, n)
  BY <1>2
<1>4. p \in Seq(Names) /\ Len(p) \in Nat /\ n \in 0..Len(p) /\ n \in Nat \ {0} /\ n < Len(p)
  BY <1>3, PathFacts
<1>5. c.path \in Seq(Names) /\ Len(c.path) = n /\ IsPrefix(c.path, p)
  BY <1>3, <1>4, HeadOfPath
<1>6. dir = SubSeq(c.path, 1, n - 1)
  BY <1>1, <1>5 DEF Parent, Front
<1>7. Len(dir) = n - 1 /\ IsPrefix(dir, c.path)
  BY <1>4, <1>5, <1>6, HeadOfPath
<1>8. p \in Below(dir) /\ c.path = SubSeq(p, 1, Len(dir) + 1) /\ Len(p) > Len(dir) + 1
  <2>1. IsPrefix(dir, p)
    BY <1>4, <1>5, <1>7, PrefixOrder
  <2> QED
    BY <1>3, <1>4, <1>5, <1>7, <2>1, BelowFacts
<1>9. /\ Len(c.path) = Len(dir) + 1 /\ c.path \notin Paths
      /\ \A d \in Ancestors(c.path) : d \in Ancestors(dir) \/ (d = dir /\ dir # Root)
  BY <1>8, ChildFacts
<1>10. c \in Item
  BY <1>1, <1>5 DEF Item
<1> QED
  BY <1>1, <1>7, <1>9, <1>10

\* A file that is there is listed, or the directory it is in.
LEMMA ListedOnWay ==
  ASSUME NEW dir \in Seq(Names), NEW files, NEW p \in Below(dir), files[p] # Absent
  PROVE  \E c \in Children(files, dir) :
           /\ c.path \in Seq(Names) /\ IsPrefix(c.path, p) /\ Len(c.path) = Len(dir) + 1
           /\ (Len(p) = Len(dir) + 1 => c.path = p)
           /\ (Len(p) > Len(dir) + 1 => c.dir)
<1> DEFINE c == [path |-> SubSeq(p, 1, Len(dir) + 1), dir |-> Len(p) > Len(dir) + 1]
<1>1. c \in Children(files, dir)
  BY DEF Children
<1>2. c.path = SubSeq(p, 1, Len(dir) + 1) /\ c.dir = (Len(p) > Len(dir) + 1)
  OBVIOUS
<1>3. \A path : path = SubSeq(p, 1, Len(dir) + 1) =>
        /\ path \in Seq(Names) /\ Len(path) = Len(dir) + 1 /\ IsPrefix(path, p)
        /\ (~(Len(p) > Len(dir) + 1) => path = p)
  BY ChildFacts
<1>4. Len(dir) \in Nat
  OBVIOUS
<1> HIDE DEF c
<1>5. c.path \in Seq(Names) /\ IsPrefix(c.path, p) /\ Len(c.path) = Len(dir) + 1
      /\ (~(Len(p) > Len(dir) + 1) => c.path = p)
  BY <1>2, <1>3
<1>6. Len(p) = Len(dir) + 1 => ~(Len(p) > Len(dir) + 1)
  BY <1>4
<1> QED
  BY <1>1, <1>2, <1>5, <1>6

\* A directory is replaced by what it holds: files, directories above files, and
\* any of those that may be empty.
LEMMA EnterOK ==
  ASSUME NEW seen, NEW files \in seen,
         NEW todo \in SUBSET Item, NEW entries \in SUBSET Entry,
         WalkOK(seen, todo, entries),
         NEW x \in todo, x.dir, ~Skipped(x.path),
         NEW kids, Children(files, x.path) \subseteq kids,
         kids \subseteq Children(files, x.path) \cup Empty(files, x.path)
  PROVE  /\ kids \in SUBSET Item
         /\ WalkOK(seen, (todo \ {x}) \cup kids, entries)
<1> DEFINE next == (todo \ {x}) \cup kids
<1>1. /\ x.path \in Seq(Names) /\ Open(x.path) /\ x.path \notin Paths
      /\ Len(x.path) \in Nat
      /\ \A y \in todo : y.path \in Seq(Names)
      /\ \A e \in entries : e.path \in Paths /\ e.path \in Seq(Names)
  BY PathFacts DEF WalkOK, Items, Item, Entry
<1>2. \A c \in kids :
        /\ c \in Item /\ c.path \in Seq(Names)
        /\ Len(c.path) = Len(x.path) + 1 /\ IsPrefix(x.path, c.path)
        /\ \A d \in Ancestors(c.path) : d \in Ancestors(x.path) \/ (d = x.path /\ d # Root)
        /\ IF c.dir THEN c.path \notin Paths ELSE c.path \in Paths /\ files[c.path] # Absent
  <2>1. \A c \in kids : c \in Item => c.path \in Seq(Names)
    BY DEF Item
  <2> QED
    BY <1>1, <2>1, KidFacts, EmptyFacts
<1>3. Items(seen, next)
  <2>1. \A c \in kids : Open(c.path)
    BY <1>1, <1>2 DEF Open, Skipped
  <2> QED
    BY <1>2, <2>1 DEF WalkOK, Items
<1>4. \A y \in todo \ {x} : ~IsPrefix(x.path, y.path) /\ ~IsPrefix(y.path, x.path)
  BY DEF WalkOK, Apart
<1>5. \A e \in entries : ~IsPrefix(x.path, e.path)
  BY DEF WalkOK, Apart
<1>6. Apart(next, entries)
  <2>1. ASSUME NEW c \in kids, NEW e \in entries, IsPrefix(c.path, e.path) PROVE FALSE
    BY <1>1, <1>2, <1>5, <2>1, PrefixOrder
  <2>2. ASSUME NEW c \in kids, NEW y \in todo \ {x}, IsPrefix(c.path, y.path) PROVE FALSE
    BY <1>1, <1>2, <1>4, <2>2, PrefixOrder
  <2>3. ASSUME NEW c \in kids, NEW y \in todo \ {x}, IsPrefix(y.path, c.path) PROVE FALSE
    <3>1. Len(y.path) \in Nat /\ Len(y.path) <= Len(x.path) + 1
      BY <1>1, <1>2, <2>3, PrefixOrder
    <3>2. CASE Len(y.path) <= Len(x.path)
      BY <1>1, <1>2, <1>4, <2>3, <3>2, PrefixOrder
    <3>3. CASE Len(y.path) = Len(x.path) + 1
      <4>1. y.path = c.path
        BY <1>1, <1>2, <2>3, <3>3, PrefixOrder
      <4> QED
        BY <1>2, <1>4, <4>1
    <3> QED
      BY <1>1, <3>1, <3>2, <3>3
  <2>4. ASSUME NEW b \in kids, NEW c \in kids, IsPrefix(b.path, c.path) PROVE b = c
    <3>1. b.path = c.path
      BY <1>1, <1>2, <2>4, PrefixOrder
    <3>2. b.dir = c.dir /\ b \in Item /\ c \in Item
      BY <1>2, <3>1 DEF Item
    <3> QED
      BY <3>1, <3>2 DEF Item
  <2> QED
    BY <2>1, <2>2, <2>3, <2>4 DEF WalkOK, Apart
<1>7. ASSUME ~RootHidden PROVE Covered(seen, next, entries)
  <2> SUFFICES ASSUME NEW p \in Indexable, \A f \in seen : f[p] # Absent, IsPrefix(x.path, p)
               PROVE  \E c \in kids : IsPrefix(c.path, p)
    BY <1>7 DEF WalkOK, Covered
  <2>1. p \in Paths /\ p \in Seq(Names)
    BY PathFacts DEF Indexable
  <2>2. ~(Len(p) <= Len(x.path))
    BY <1>1, <2>1, PrefixOrder
  <2>3. p \in Below(x.path)
    BY <1>1, <2>1, <2>2, BelowFacts
  <2> QED
    BY <1>1, <2>3, ListedOnWay
<1>8. ASSUME ~RootHidden PROVE Followed(seen, next, entries)
  <2> SUFFICES ASSUME NEW dir \in Directories, NEW t \in Texts, OnlyRenamed(seen, dir, t)
               PROVE  \/ \E y \in next : y.dir /\ IsPrefix(y.path, dir)
                      \/ \E p \in PathsOf(seen, dir, t) :
                           /\ Reached(next, entries, p)
                           /\ \A q \in PathsOf(seen, dir, t) : Reached(next, entries, q) => q = p
    BY DEF Followed
  <2>1. dir \in Seq(Names)
    BY DirectoryPath
  <2>2. \A q \in PathsOf(seen, dir, t) :
          /\ q \in Paths /\ q \in Seq(Names) /\ Parent(q) = dir
          /\ IsPrefix(dir, q) /\ Len(dir) + 1 = Len(q)
    BY ParentFacts, PathFacts DEF PathsOf
  <2>3. ASSUME NEW q \in PathsOf(seen, dir, t), NEW c \in kids, c.path = q
        PROVE  dir = x.path /\ files[q] # Absent
    <3>1. IsPrefix(x.path, q) /\ Len(x.path) + 1 = Len(q) /\ files[q] # Absent
      BY <1>2, <2>2, <2>3
    <3>2. Len(dir) = Len(x.path) /\ IsPrefix(dir, q)
      BY <1>1, <2>1, <2>2, <3>1
    <3> QED
      BY <1>1, <2>1, <2>2, <3>1, <3>2, PrefixOrder
  <2>4. \A q : Reached(todo \ {x}, entries, q) => ~IsPrefix(x.path, q)
    BY <1>4, <1>5 DEF Reached
  <2>5. \A q : Reached(next, entries, q) <=>
                 Reached(todo \ {x}, entries, q) \/ \E c \in kids : c.path = q
    BY DEF Reached
  <2>6. \A q \in Paths : Reached(todo, entries, q) <=> Reached(todo \ {x}, entries, q)
    BY <1>1 DEF Reached
  <2>7. CASE \E p \in PathsOf(seen, dir, t) :
               /\ Reached(todo, entries, p)
               /\ \A q \in PathsOf(seen, dir, t) : Reached(todo, entries, q) => q = p
    <3>1. PICK p \in PathsOf(seen, dir, t) :
               /\ Reached(todo, entries, p)
               /\ \A q \in PathsOf(seen, dir, t) : Reached(todo, entries, q) => q = p
      BY <2>7
    <3>2. Reached(todo \ {x}, entries, p) /\ IsPrefix(dir, p)
      BY <2>2, <2>6, <3>1
    <3>3. dir # x.path
      BY <2>4, <3>2
    <3>4. ASSUME NEW q \in PathsOf(seen, dir, t), Reached(next, entries, q) PROVE q = p
      <4>1. ~\E c \in kids : c.path = q
        BY <2>3, <3>3
      <4>2. Reached(todo, entries, q)
        BY <2>2, <2>5, <2>6, <3>4, <4>1
      <4> QED
        BY <3>1, <4>2
    <3> QED
      BY <2>5, <3>1, <3>2, <3>4
  <2>8. CASE \E y \in todo : y.dir /\ IsPrefix(y.path, dir)
    <3>1. PICK y \in todo : y.dir /\ IsPrefix(y.path, dir)
      BY <2>8
    <3>2. CASE y # x
      BY <3>1, <3>2
    <3>3. CASE y = x
      <4>1. IsPrefix(x.path, dir)
        BY <3>1, <3>3
      <4>2. PICK p \in PathsOf(seen, dir, t) :
              files[p] = t /\ \A q \in Paths : Parent(q) = dir /\ files[q] = t => q = p
        BY RenamedNow
      <4>3. IsPrefix(x.path, p) /\ files[p] # Absent /\ Len(x.path) <= Len(dir)
        BY <1>1, <2>1, <2>2, <4>1, <4>2, PrefixOrder, IndexAssumption
      <4>4. p \in Below(x.path)
        <5>1. Len(x.path) < Len(p)
          BY <1>1, <2>1, <2>2, <4>3
        <5> QED
          BY <1>1, <2>2, <4>3, <5>1, BelowFacts
      <4>5. PICK c \in kids :
              /\ c.path \in Seq(Names) /\ IsPrefix(c.path, p) /\ Len(c.path) = Len(x.path) + 1
              /\ (Len(p) = Len(x.path) + 1 => c.path = p)
              /\ (Len(p) > Len(x.path) + 1 => c.dir)
        BY <1>1, <4>3, <4>4, ListedOnWay
      <4>6. CASE dir = x.path
        <5>1. Reached(next, entries, p)
          BY <2>2, <2>5, <4>5, <4>6
        <5>2. ASSUME NEW q \in PathsOf(seen, dir, t), Reached(next, entries, q) PROVE q = p
          <6>1. ~Reached(todo \ {x}, entries, q)
            BY <2>2, <2>4, <4>6
          <6>2. files[q] # Absent
            BY <2>3, <2>5, <5>2, <6>1
          <6>3. files[q] = t
            BY <6>2 DEF OnlyRenamed
          <6> QED
            BY <2>2, <4>2, <6>3
        <5> QED
          BY <5>1, <5>2
      <4>7. CASE dir # x.path
        <5>1. ~(Len(dir) <= Len(x.path))
          BY <1>1, <2>1, <4>1, <4>7, PrefixOrder
        <5>2. Len(p) > Len(x.path) + 1 /\ Len(c.path) <= Len(dir)
          BY <1>1, <2>1, <2>2, <4>5, <5>1
        <5>3. IsPrefix(c.path, dir)
          BY <2>1, <2>2, <4>5, <5>2, PrefixOrder
        <5> QED
          BY <4>5, <5>2, <5>3
      <4> QED
        BY <4>6, <4>7
    <3> QED
      BY <3>2, <3>3
  <2> QED
    BY <1>8, <2>7, <2>8 DEF WalkOK, Followed
<1> QED
  BY <1>2, <1>3, <1>6, <1>7, <1>8 DEF WalkOK

-----------------------------------------------------------------------------
(***************************************************************************)
(* THE STEPS                                                               *)
(***************************************************************************)

\* A walk that is over and saw one version only found what that version has.
LEMMA QuietWalk ==
  ASSUME NEW files, NEW entries, WalkOK({files}, {}, entries), ~RootHidden
  PROVE  entries = Snapshot(files)
<1>1. \A e \in entries : e \in Snapshot(files)
  BY DEF WalkOK, Real
<1>2. ASSUME NEW e \in Snapshot(files) PROVE e \in entries
  <2>1. PICK p \in Indexable : files[p] # Absent /\ e = [path |-> p, text |-> files[p]]
    BY DEF Snapshot
  <2>2. PICK f \in entries : f.path = p
    BY <2>1 DEF WalkOK, Covered
  <2>3. PICK q \in Indexable : f = [path |-> q, text |-> files[q]]
    BY <1>1, <2>2 DEF Snapshot
  <2> QED
    BY <2>1, <2>2, <2>3
<1> QED
  BY <1>1, <1>2

LEMMA FilesNow ==
  ASSUME TypeInv
  PROVE  /\ Version \in Nat \ {0} /\ Files = history[Version] /\ Files \in FileTexts
         /\ \A v \in 1..Version : history[v] \in FileTexts
<1>1. history \in Seq(FileTexts) /\ Len(history) >= 1 /\ Len(history) \in Nat
  BY DEF TypeInv
<1>2. Files = history[Len(history)]
  BY DEF Files, Last
<1> QED
  BY <1>1, <1>2 DEF Version

\* The files of the moment are among those a walk in progress has seen.
LEMMA SeenNow ==
  ASSUME IInv, NEW w \in Indexers, scan[w].phase = "walking"
  PROVE  /\ scan[w] \in Walk /\ Files \in Seen(w)
         /\ scan[w].began \in 1..Version
         /\ scan[w].todo \in SUBSET Item /\ scan[w].entries \in SUBSET Entry
         /\ Listed(w) = scan[w].todo
         /\ WalkOK(Seen(w), scan[w].todo, scan[w].entries)
<1>1. scan[w] \in Walk /\ scan[w] # NoScan
  BY DEF IInv, TypeInv, NoScan, Write
<1>2. scan[w].began \in 1..Version /\ Listed(w) = scan[w].todo
      /\ WalkOK(Seen(w), Listed(w), scan[w].entries)
  BY <1>1 DEF IInv, ScanInv, Listed
<1>3. Version \in scan[w].began..Version /\ Files = history[Version]
  BY <1>2, FilesNow DEF IInv
<1>4. Files \in Seen(w)
  BY <1>3 DEF Seen
<1> QED
  BY <1>1, <1>2, <1>4 DEF Walk

LEMMA MovedBack ==
  ASSUME NEW from \in Seq(Names), NEW to \in Seq(Names), NEW q \in Seq(Names), IsPrefix(from, q)
  PROVE  Moved(Moved(q, from, to), to, from) = q
<1>1. Len(from) <= Len(q) /\ \A i \in 1..Len(from) : from[i] = q[i]
  BY PrefixByElement
<1> DEFINE tail == SubSeq(q, Len(from) + 1, Len(q))
<1>2. tail \in Seq(Names)
  BY <1>1, Lengths
<1>3. Len(tail) = Len(q) - Len(from) /\ \A i \in 1..Len(tail) : tail[i] = q[Len(from) + i]
  BY <1>1, <1>2
<1>4. SubSeq(to \o tail, Len(to) + 1, Len(to \o tail)) = tail
  OBVIOUS
<1>5. from \o tail = q
  <2>1. from \o tail \in Seq(Names) /\ Len(from \o tail) = Len(q)
    BY <1>1, <1>3
  <2>2. ASSUME NEW i \in 1..Len(q) PROVE (from \o tail)[i] = q[i]
    <3>1. CASE i <= Len(from)
      BY <1>1, <3>1
    <3>2. CASE i > Len(from)
      <4>1. i - Len(from) \in 1..Len(tail) /\ (from \o tail)[i] = tail[i - Len(from)]
        BY <1>1, <1>3, <3>2
      <4>2. tail[i - Len(from)] = q[Len(from) + (i - Len(from))]
        BY <1>3, <4>1
      <4> QED
        BY <4>1, <4>2
    <3> QED
      BY <3>1, <3>2, Lengths
  <2> QED
    BY <2>1, <2>2
<1> QED
  BY <1>4, <1>5 DEF Moved

\* An edit replaces the files and leaves the rest alone.
LEMMA EditChanges ==
  ASSUME TypeInv, Edit
  PROVE  \E files \in FileTexts :
           history' = Append(history, files) /\ UNCHANGED << scan, content, source >>
<1>1. Files \in FileTexts
  BY FilesNow
<1>2. ASSUME NEW files \in FileTexts, Change(files)
      PROVE  \E g \in FileTexts :
               history' = Append(history, g) /\ UNCHANGED << scan, content, source >>
  BY <1>2 DEF Change
<1>3. ASSUME NEW p \in Paths, NEW x \in Texts, WriteFile(p, x)
      PROVE  \E files \in FileTexts : Change(files)
  BY <1>1, <1>3 DEF WriteFile, FileTexts
<1>4. ASSUME NEW p \in Paths, Delete(p)
      PROVE  \E files \in FileTexts : Change(files)
  BY <1>1, <1>4 DEF Delete, FileTexts
<1>5. ASSUME NEW p \in Paths, NEW q \in Paths, Rename(p, q)
      PROVE  \E files \in FileTexts : Change(files)
  BY <1>1, <1>5 DEF Rename, FileTexts
<1>6. ASSUME NEW from \in Directories, NEW to \in Directories, RenameDir(from, to)
      PROVE  \E files \in FileTexts : Change(files)
  <2>1. ASSUME NEW p \in Paths, NEW q \in Below(from), Moved(q, from, to) = p
        PROVE  Moved(p, to, from) \in Paths
    <3>1. from \in Seq(Names) /\ to \in Seq(Names)
      BY DirectoryPath
    <3>2. q \in Paths /\ q \in Seq(Names) /\ IsPrefix(from, q)
      BY <3>1, BelowFacts, PathFacts
    <3> QED
      BY <2>1, <3>1, <3>2, MovedBack
  <2> DEFINE files == [p \in Paths |->
                         IF p \in Below(from) THEN Absent
                         ELSE IF \E q \in Below(from) : Files[q] # Absent /\ Moved(q, from, to) = p
                         THEN Files[Moved(p, to, from)] ELSE Files[p]]
  <2>2. files \in FileTexts
    BY <1>1, <2>1 DEF FileTexts
  <2>3. Change(files)
    BY <1>6 DEF RenameDir
  <2> QED
    BY <2>2, <2>3
<1> QED
  BY <1>2, <1>3, <1>4, <1>5, <1>6 DEF Edit

\* The calls and the readers of an edited repository.
LEMMA EditOK ==
  ASSUME IInv, Edit
  PROVE  IInv'
<1>1. PICK files \in FileTexts :
        history' = Append(history, files) /\ UNCHANGED << scan, content, source >>
  BY EditChanges DEF IInv
<1>2. /\ history \in Seq(FileTexts) /\ Version \in Nat \ {0} /\ Version' = Version + 1
      /\ history' \in Seq(FileTexts)
      /\ \A v \in 1..Version : history'[v] = history[v]
  BY <1>1, FilesNow DEF IInv, TypeInv, Version
<1>3. TypeInv'
  BY <1>1, <1>2 DEF IInv, TypeInv, Version
<1>4. ASSUME NEW w \in Indexers PROVE ScanInv(w)'
  <2>1. CASE scan[w] = NoScan
    BY <1>1, <2>1 DEF ScanInv
  <2>2. CASE scan[w] # NoScan
    <3>1. /\ scan[w].began \in 1..Version
          /\ scan[w].phase = "writing" => scan[w].ended \in scan[w].began..Version
          /\ WalkOK(Seen(w), Listed(w), scan[w].entries)
      BY <2>2 DEF IInv, ScanInv
    <3>2. scan'[w] = scan[w] /\ Listed(w)' = Listed(w)
      BY <1>1 DEF Listed
    <3>3. Seen(w) \subseteq Seen(w)'
      <4>1. CASE scan[w].phase = "writing"
        <5>1. \A v \in scan[w].began..scan[w].ended : v \in 1..Version
          BY <1>2, <3>1, <4>1
        <5> QED
          BY <1>2, <3>2, <4>1, <5>1 DEF Seen
      <4>2. CASE scan[w].phase # "writing"
        <5>1. \A v \in scan[w].began..Version : v \in 1..Version /\ v \in scan[w].began..Version'
          BY <1>2, <3>1
        <5> QED
          BY <1>2, <3>2, <4>2, <5>1 DEF Seen
      <4> QED
        BY <4>1, <4>2
    <3>4. WalkOK(Seen(w)', Listed(w), scan[w].entries)
      BY <3>1, <3>3, GrowOK
    <3>5. scan[w].began \in 1..Version' /\
          (scan[w].phase = "writing" => scan[w].ended \in scan[w].began..Version')
      BY <1>2, <3>1
    <3> QED
      BY <3>2, <3>4, <3>5 DEF ScanInv
  <2> QED
    BY <2>1, <2>2
<1>5. SourceInv'
  <2>1. ~RootHidden => source \in 0..Version
    BY DEF IInv, SourceInv
  <2>2. ~RootHidden => source' \in 0..Version' /\ source' # Version'
    BY <1>1, <1>2, <2>1
  <2> QED
    BY <2>2 DEF SourceInv
<1> QED
  BY <1>3, <1>4, <1>5 DEF IInv

\* A step of one call leaves the others as they were.
LEMMA OthersOK ==
  ASSUME IInv, NEW w \in Indexers, NEW s, scan' = [scan EXCEPT ![w] = s],
         s \in {NoScan} \cup Walk \cup Write, history' = history, ScanInv(w)'
  PROVE  TypeInv' /\ \A u \in Indexers : ScanInv(u)'
<1>1. TypeInv'
  BY DEF IInv, TypeInv
<1>2. ASSUME NEW u \in Indexers, u # w PROVE ScanInv(u)'
  <2>1. scan'[u] = scan[u] /\ ScanInv(u)
    BY <1>2 DEF IInv, TypeInv
  <2> QED
    BY <2>1 DEF ScanInv, Seen, Listed, Version
<1> QED
  BY <1>1, <1>2

\* The walk of a call goes on.
LEMMA GoOnOK ==
  ASSUME IInv, NEW w \in Indexers, scan[w].phase = "walking",
         NEW todo \in SUBSET Item, NEW entries \in SUBSET Entry,
         GoOn(w, todo, entries), WalkOK(Seen(w), todo, entries)
  PROVE  IInv'
<1> DEFINE s == [scan[w] EXCEPT !.todo = todo, !.entries = entries]
<1>1. scan[w] \in Walk /\ scan[w].began \in 1..Version
  BY SeenNow
<1>2. /\ s \in Walk /\ s.phase = "walking" /\ s.began = scan[w].began
      /\ s.todo = todo /\ s.entries = entries
  BY <1>1 DEF Walk
<1>3. scan' = [scan EXCEPT ![w] = s] /\ UNCHANGED << history, content, source >>
  BY DEF GoOn
<1>4. scan'[w] = s
  BY <1>3 DEF IInv, TypeInv
<1> HIDE DEF s
<1>5. Seen(w)' = Seen(w) /\ Listed(w)' = todo /\ Version' = Version
  BY <1>2, <1>3, <1>4 DEF Seen, Listed, Version
<1>6. ScanInv(w)'
  BY <1>1, <1>2, <1>4, <1>5 DEF ScanInv
<1>7. TypeInv' /\ \A u \in Indexers : ScanInv(u)'
  BY <1>2, <1>3, <1>6, OthersOK
<1>8. SourceInv'
  BY <1>3 DEF IInv, SourceInv, Version, Files
<1> QED
  BY <1>7, <1>8 DEF IInv

LEMMA GiveUpOK ==
  ASSUME IInv, NEW w \in Indexers, GiveUp(w)
  PROVE  IInv'
<1>1. scan'[w] = NoScan
  BY DEF IInv, TypeInv, GiveUp
<1>2. TypeInv' /\ \A u \in Indexers : ScanInv(u)'
  BY <1>1, OthersOK DEF GiveUp, ScanInv
<1>3. SourceInv'
  BY DEF IInv, SourceInv, GiveUp, Version, Files
<1> QED
  BY <1>2, <1>3 DEF IInv

LEMMA BeginOK ==
  ASSUME IInv, NEW w \in Indexers, Begin(w)
  PROVE  IInv'
<1> DEFINE todo == IF RootHidden THEN {} ELSE {[path |-> Root, dir |-> TRUE]}
           s == [phase |-> "walking", began |-> Version, entries |-> {}, todo |-> todo]
<1>1. Version \in Nat \ {0} /\ Files = history[Version]
  BY FilesNow DEF IInv
<1>2. todo \in SUBSET Item
  BY RootFacts DEF Item
<1>3. WalkOK({Files}, todo, {})
  BY StartOK
<1> HIDE DEF todo
<1>4. /\ s \in Walk /\ s.phase = "walking" /\ s.began = Version
      /\ s.todo = todo /\ s.entries = {}
  BY <1>1, <1>2 DEF Walk
<1>5. scan' = [scan EXCEPT ![w] = s] /\ UNCHANGED << history, content, source >>
  BY DEF Begin, todo
<1>6. scan'[w] = s
  BY <1>5 DEF IInv, TypeInv
<1> HIDE DEF s
<1>7. Listed(w)' = todo /\ Version' = Version
  BY <1>4, <1>5, <1>6 DEF Listed, Version
<1>8. Seen(w)' = {Files}
  <2>1. Seen(w)' = {history[v] : v \in Version..Version}
    BY <1>4, <1>5, <1>6, <1>7 DEF Seen
  <2>2. Version..Version = {Version}
    BY <1>1
  <2> QED
    BY <1>1, <2>1, <2>2
<1>9. ScanInv(w)'
  <2>1. s.began \in 1..Version /\ s.phase # "writing"
    BY <1>1, <1>4
  <2> QED
    BY <1>3, <1>4, <1>6, <1>7, <1>8, <2>1 DEF ScanInv
<1>10. TypeInv' /\ \A u \in Indexers : ScanInv(u)'
  BY <1>4, <1>5, <1>9, OthersOK
<1>11. SourceInv'
  BY <1>5 DEF IInv, SourceInv, Version, Files
<1> QED
  BY <1>10, <1>11 DEF IInv

\* A directory is passed over because it is hidden, may end the walk when it has
\* gone, or is listed.
LEMMA EnterDirOK ==
  ASSUME IInv, NEW w \in Indexers, EnterDir(w)
  PROVE  IInv'
<1>1. PICK x \in Listed(w) : x.dir /\
        LET rest == Listed(w) \ {x}
        IN IF Skipped(x.path) THEN GoOn(w, rest, scan[w].entries)
           ELSE \/ GiveUp(w)
                \/ \E empty \in SUBSET Empty(Files, x.path) :
                     GoOn(w, rest \cup Children(Files, x.path) \cup empty, scan[w].entries)
  BY DEF EnterDir
<1>2. scan[w].phase = "walking"
  BY <1>1 DEF Listed
<1>3. /\ Files \in Seen(w) /\ Listed(w) = scan[w].todo
      /\ scan[w].todo \in SUBSET Item /\ scan[w].entries \in SUBSET Entry
      /\ WalkOK(Seen(w), scan[w].todo, scan[w].entries)
  BY <1>2, SeenNow
<1>4. CASE Skipped(x.path)
  <2>1. \A p \in Indexable : ~IsPrefix(x.path, p)
    BY <1>1, <1>3, <1>4, NothingThere DEF WalkOK
  <2>2. WalkOK(Seen(w), scan[w].todo \ {x}, scan[w].entries)
    BY <1>1, <1>3, <2>1, DropOK
  <2> QED
    BY <1>1, <1>2, <1>3, <1>4, <2>2, GoOnOK
<1>5. CASE GiveUp(w)
  BY <1>5, GiveUpOK
<1>6. ASSUME ~Skipped(x.path), NEW empty \in SUBSET Empty(Files, x.path),
             GoOn(w, (Listed(w) \ {x}) \cup Children(Files, x.path) \cup empty,
                  scan[w].entries)
      PROVE  IInv'
  <2> DEFINE kids == Children(Files, x.path) \cup empty
  <2>1. /\ Children(Files, x.path) \subseteq kids
        /\ kids \subseteq Children(Files, x.path) \cup Empty(Files, x.path)
    BY <1>6
  <2>2. GoOn(w, (scan[w].todo \ {x}) \cup kids, scan[w].entries)
    <3>1. (Listed(w) \ {x}) \cup Children(Files, x.path) \cup empty
            = (scan[w].todo \ {x}) \cup kids
      BY <1>3
    <3> QED
      BY <1>6, <3>1
  <2> HIDE DEF kids
  <2>3. /\ kids \in SUBSET Item
        /\ WalkOK(Seen(w), (scan[w].todo \ {x}) \cup kids, scan[w].entries)
    <3>1. /\ x \in scan[w].todo /\ x.dir /\ ~Skipped(x.path) /\ Files \in Seen(w)
          /\ WalkOK(Seen(w), scan[w].todo, scan[w].entries)
          /\ scan[w].todo \in SUBSET Item /\ scan[w].entries \in SUBSET Entry
      BY <1>1, <1>3, <1>6
    <3> QED
      BY <2>1, <3>1, EnterOK
  <2> QED
    BY <1>2, <1>3, <2>2, <2>3, GoOnOK
<1> QED
  BY <1>1, <1>4, <1>5, <1>6

\* A file is passed over because it has no kind, ends the walk because it has
\* gone, or is read.
LEMMA ReadFileOK ==
  ASSUME IInv, NEW w \in Indexers, ReadFile(w)
  PROVE  IInv'
<1>1. PICK x \in Listed(w) : ~x.dir /\
        LET rest == Listed(w) \ {x}
        IN IF Kind(x.path) = "" THEN GoOn(w, rest, scan[w].entries)
           ELSE IF Files[x.path] = Absent THEN GiveUp(w)
           ELSE GoOn(w, rest, scan[w].entries \cup {[path |-> x.path, text |-> Files[x.path]]})
  BY DEF ReadFile
<1>2. scan[w].phase = "walking"
  BY <1>1 DEF Listed
<1>3. /\ Files \in Seen(w) /\ Listed(w) = scan[w].todo /\ Files \in FileTexts
      /\ scan[w].todo \in SUBSET Item /\ scan[w].entries \in SUBSET Entry
      /\ WalkOK(Seen(w), scan[w].todo, scan[w].entries)
  BY <1>2, SeenNow, FilesNow DEF IInv
<1>4. CASE Kind(x.path) = ""
  <2>1. \A p \in Indexable : ~IsPrefix(x.path, p)
    BY <1>1, <1>3, <1>4, NothingThere DEF WalkOK
  <2>2. WalkOK(Seen(w), scan[w].todo \ {x}, scan[w].entries)
    BY <1>1, <1>3, <2>1, DropOK
  <2> QED
    BY <1>1, <1>2, <1>3, <1>4, <2>2, GoOnOK
<1>5. CASE Kind(x.path) # "" /\ Files[x.path] = Absent
  BY <1>1, <1>5, GiveUpOK
<1>6. CASE Kind(x.path) # "" /\ Files[x.path] # Absent
  <2> DEFINE e == [path |-> x.path, text |-> Files[x.path]]
  <2>1. GoOn(w, scan[w].todo \ {x}, scan[w].entries \cup {e})
    BY <1>1, <1>3, <1>6
  <2>2. e \in Entry /\ WalkOK(Seen(w), scan[w].todo \ {x}, scan[w].entries \cup {e})
    BY <1>1, <1>3, <1>6, ReadOK
  <2> HIDE DEF e
  <2> QED
    BY <1>2, <1>3, <2>1, <2>2, GoOnOK
<1> QED
  BY <1>4, <1>5, <1>6

LEMMA SubmitOK ==
  ASSUME IInv, NEW w \in Indexers, Submit(w)
  PROVE  IInv'
<1> DEFINE s == [phase |-> "writing", began |-> scan[w].began, ended |-> Version,
                 entries |-> scan[w].entries]
<1>1. scan[w].phase = "walking" /\ scan[w].todo = {}
  BY DEF Submit
<1>2. /\ scan[w] \in Walk /\ scan[w].began \in 1..Version
      /\ scan[w].entries \in SUBSET Entry
      /\ WalkOK(Seen(w), {}, scan[w].entries)
  BY <1>1, SeenNow
<1>3. Version \in Nat \ {0}
  BY FilesNow DEF IInv
<1>4. /\ s \in Write /\ s.phase = "writing" /\ s.began = scan[w].began
      /\ s.ended = Version /\ s.entries = scan[w].entries
  BY <1>2, <1>3 DEF Write
<1>5. scan' = [scan EXCEPT ![w] = s] /\ UNCHANGED << history, content, source >>
  BY DEF Submit
<1>6. scan'[w] = s
  BY <1>5 DEF IInv, TypeInv
<1> HIDE DEF s
<1>7. Listed(w)' = {} /\ Version' = Version
  BY <1>4, <1>5, <1>6 DEF Listed, Version
<1>8. Seen(w)' = Seen(w)
  BY <1>1, <1>4, <1>5, <1>6 DEF Seen
<1>9. ScanInv(w)'
  <2>1. s.began \in 1..Version /\ s.ended \in s.began..Version
    BY <1>2, <1>3, <1>4
  <2> QED
    BY <1>2, <1>4, <1>6, <1>7, <1>8, <2>1 DEF ScanInv
<1>10. TypeInv' /\ \A u \in Indexers : ScanInv(u)'
  BY <1>4, <1>5, <1>9, OthersOK
<1>11. SourceInv'
  BY <1>5 DEF IInv, SourceInv, Version, Files
<1> QED
  BY <1>10, <1>11 DEF IInv

\* What is being written was found by a walk that is over.
LEMMA ScanDone ==
  ASSUME IInv, NEW w \in Indexers, scan[w].phase = "writing"
  PROVE  /\ scan[w].began \in 1..Version /\ scan[w].ended \in scan[w].began..Version
         /\ Seen(w) = Window(scan[w])
         /\ WalkOK(Window(scan[w]), {}, scan[w].entries)
<1>1. scan[w] # NoScan
  BY DEF NoScan
<1>2. Listed(w) = {}
  BY DEF Listed
<1>3. Seen(w) = Window(scan[w])
  BY DEF Seen, Window
<1> QED
  BY <1>1, <1>2, <1>3 DEF IInv, ScanInv

LEMMA CommitOK ==
  ASSUME IInv, NEW w \in Indexers, Commit(w)
  PROVE  IInv'
<1>1. /\ scan[w].phase = "writing" /\ content' = Image(RepositoryOf(scan[w].entries))
      /\ source' = scan[w].began /\ scan' = [scan EXCEPT ![w] = NoScan] /\ history' = history
  BY DEF Commit
<1>2. scan'[w] = NoScan
  BY <1>1 DEF IInv, TypeInv
<1>3. TypeInv' /\ \A u \in Indexers : ScanInv(u)'
  BY <1>1, <1>2, OthersOK DEF ScanInv
<1>4. Version' = Version /\ Files' = Files
  BY <1>1 DEF Version, Files
<1>5. ASSUME ~RootHidden
      PROVE  /\ source' \in 0..Version'
             /\ source' = Version' => content' = Image(RepositoryOf(Snapshot(Files')))
  <2>1. scan[w].began \in 1..Version /\ scan[w].ended \in scan[w].began..Version
        /\ WalkOK(Window(scan[w]), {}, scan[w].entries)
    BY <1>1, ScanDone
  <2>2. Version \in Nat /\ Files = history[Version]
    BY FilesNow DEF IInv
  <2>3. ASSUME source' = Version' PROVE scan[w].entries = Snapshot(Files)
    <3>1. scan[w].began..scan[w].ended = {Version}
      BY <1>1, <1>4, <2>1, <2>2, <2>3
    <3>2. Window(scan[w]) = {Files}
      BY <2>2, <3>1 DEF Window
    <3> QED
      BY <1>5, <2>1, <3>2, QuietWalk
  <2> QED
    BY <1>1, <1>4, <2>1, <2>2, <2>3
<1>6. SourceInv'
  BY <1>5 DEF SourceInv
<1> QED
  BY <1>3, <1>6 DEF IInv

LEMMA NextOK ==
  ASSUME IInv, [Next]_vars
  PROVE  IInv'
<1>1. ASSUME NEW w \in Indexers, Cancel(w) \/ ParseFails(w) \/ WriteFails(w) PROVE IInv'
  BY <1>1, GiveUpOK DEF Cancel, ParseFails, WriteFails
<1>2. CASE UNCHANGED vars
  <2>1. TypeInv'
    BY <1>2 DEF IInv, TypeInv, vars
  <2>2. \A u \in Indexers : ScanInv(u)'
    BY <1>2 DEF IInv, ScanInv, Seen, Listed, Version, vars
  <2>3. SourceInv'
    BY <1>2 DEF IInv, SourceInv, Version, Files, vars
  <2> QED
    BY <2>1, <2>2, <2>3 DEF IInv
<1> QED
  BY <1>1, <1>2, EditOK, BeginOK, EnterDirOK, ReadFileOK, SubmitOK, CommitOK DEF Next

LEMMA InitOK ==
  ASSUME Init
  PROVE  IInv
<1>1. FirstFiles \in FileTexts
  BY IndexAssumption DEF FileTexts
<1>2. history = << FirstFiles >> /\ history \in Seq(FileTexts) /\ Len(history) = 1
  BY <1>1 DEF Init
<1>3. TypeInv
  BY <1>2 DEF Init, TypeInv
<1>4. \A w \in Indexers : ScanInv(w)
  BY DEF Init, ScanInv
<1>5. SourceInv
  BY <1>2 DEF Init, SourceInv, Version
<1> QED
  BY <1>3, <1>4, <1>5 DEF IInv

\* Every reachable state satisfies the inductive invariant: the scans in
\* progress and done relate as WalkOK says to the versions of the files.
THEOREM WalksFollowFiles == Spec => []IInv
<1>1. Init => IInv
  BY InitOK
<1>2. IInv /\ [Next]_vars => IInv'
  BY NextOK
<1> QED
  BY <1>1, <1>2, PTL DEF Spec

-----------------------------------------------------------------------------
(***************************************************************************)
(* WHAT CAN BE RELIED ON                                                   *)
(***************************************************************************)

\* The scans that are being written are walks that are over.
LEMMA ScansAreWalks ==
  ASSUME IInv, NEW s \in Scans
  PROVE  WalkOK(Window(s), {}, s.entries)
<1>1. PICK w \in Indexers : s = scan[w] /\ scan[w].phase = "writing"
  BY DEF Scans
<1> QED
  BY <1>1, ScanDone

\* No file is read twice, and what an entry holds was in its file at some time
\* of the scan, however the root is named (scanner.go:61-70).
THEOREM EntriesWereReal == Spec => []EntriesReal
<1>1. IInv => EntriesReal
  BY ScansAreWalks DEF EntriesReal, WalkOK, Real
<1> QED
  BY <1>1, WalksFollowFiles, PTL

\* A file that was there all the time of the scan is in it (scanner.go:32-73).
THEOREM PresentFilesFound ==
  ASSUME ~RootHidden
  PROVE  Spec => []PresentScanned
<1>1. IInv => PresentScanned
  BY ScansAreWalks DEF PresentScanned, WalkOK, Covered
<1> QED
  BY <1>1, WalksFollowFiles, PTL

\* While nobody edits a scan is exact (scanner.go:24).
THEOREM QuietScansExact ==
  ASSUME ~RootHidden
  PROVE  Spec => []QuietScanExact
<1>1. IInv => QuietScanExact
  <2> SUFFICES ASSUME IInv, NEW s \in Scans, NEW files \in Window(s), Window(s) = {files}
               PROVE  s.entries = Snapshot(files)
    BY DEF QuietScanExact
  <2> QED
    BY ScansAreWalks, QuietWalk
<1> QED
  BY <1>1, WalksFollowFiles, PTL

\* A document renamed within its directory is found exactly once
\* (scanner.go:61-64): of its names one has been listed, and it was read there.
THEOREM RenamedOnce ==
  ASSUME ~RootHidden
  PROVE  Spec => []RenamedInDirectoryOnce
<1>1. ASSUME IInv, NEW s \in Scans, NEW dir \in Directories, NEW x \in Texts,
             OnlyRenamed(Window(s), dir, x)
      PROVE  Cardinality({e \in s.entries : Parent(e.path) = dir /\ e.text = x}) = 1
  <2>1. WalkOK(Window(s), {}, s.entries)
    BY <1>1, ScansAreWalks
  <2>2. PICK p \in PathsOf(Window(s), dir, x) :
          /\ Reached({}, s.entries, p)
          /\ \A q \in PathsOf(Window(s), dir, x) : Reached({}, s.entries, q) => q = p
    BY <1>1, <2>1 DEF WalkOK, Followed
  <2>3. PICK e \in s.entries : e.path = p
    BY <2>2 DEF Reached
  <2>4. Parent(e.path) = dir /\ e.text = x
    <3>1. PICK files \in Window(s) : e \in Snapshot(files)
      BY <2>1 DEF WalkOK, Real
    <3>2. e.text = files[p] /\ files[p] # Absent
      BY <2>3, <3>1 DEF Snapshot
    <3>3. files[p] \in {x, Absent} /\ Parent(p) = dir
      BY <1>1 DEF OnlyRenamed, PathsOf
    <3> QED
      BY <2>3, <3>2, <3>3
  <2>5. ASSUME NEW f \in s.entries, Parent(f.path) = dir, f.text = x PROVE f = e
    <3>1. PICK files \in Window(s) : f \in Snapshot(files)
      BY <2>1 DEF WalkOK, Real
    <3>2. f.path \in Paths /\ files[f.path] = x
      <4>1. PICK q \in Indexable : f = [path |-> q, text |-> files[q]]
        BY <3>1 DEF Snapshot
      <4> QED
        BY <2>5, <4>1 DEF Indexable
    <3>3. f.path \in PathsOf(Window(s), dir, x) /\ Reached({}, s.entries, f.path)
      BY <2>5, <3>1, <3>2 DEF PathsOf, Reached
    <3>4. f.path = e.path
      BY <2>2, <2>3, <3>3
    <3> QED
      BY <2>1, <3>4 DEF WalkOK, Real
  <2>6. {f \in s.entries : Parent(f.path) = dir /\ f.text = x} = {e}
    BY <2>4, <2>5
  <2> QED
    BY <2>6, FS_Singleton
<1>2. IInv => RenamedInDirectoryOnce
  BY <1>1 DEF RenamedInDirectoryOnce
<1> QED
  BY <1>2, WalksFollowFiles, PTL

\* The database is up to date when its call began after the last edit,
\* whatever the other calls were doing (engine.go:109-128).
THEOREM LastBegunCurrent ==
  ASSUME ~RootHidden
  PROVE  Spec => []LastBegunIsCurrent
<1>1. IInv => LastBegunIsCurrent
  BY DEF IInv, SourceInv, LastBegunIsCurrent
<1> QED
  BY <1>1, WalksFollowFiles, PTL

=============================================================================
