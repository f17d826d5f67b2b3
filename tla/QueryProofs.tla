---------------------------- MODULE QueryProofs ----------------------------
(***************************************************************************)
(* Proofs about Query, for every repository, every set of primaries and    *)
(* expressions of any size.                                                *)
(***************************************************************************)
EXTENDS Query, FiniteSetTheorems, SequenceTheorems, TLAPS

-----------------------------------------------------------------------------
(***************************************************************************)
(* ONE PREDICATE                                                           *)
(***************************************************************************)

\* The order of texts decides the same as the order of instants or minutes.
LEMMA FaithfulOrder ==
  ASSUME NEW a \in Int, NEW n \in Int, NEW x \in Texts, NEW y \in Texts, NEW op \in Orders,
         a < n <=> Rank[x] < Rank[y],
         a = n <=> x = y
  PROVE  Ordered(op, a, n) <=> Ordered(op, Rank[x], Rank[y])
<1>1. Rank[x] \in Nat /\ Rank[y] \in Nat /\ (Rank[x] = Rank[y] => x = y)
  BY ComparisonAssumption
<1> QED
  BY <1>1 DEF Ordered, Orders

LEMMA RankInjective ==
  ASSUME NEW x \in Texts, NEW y \in Texts
  PROVE  Rank[x] \in Nat /\ (Rank[x] = Rank[y] => x = y)
BY ComparisonAssumption

LEMMA RankLeast ==
  ASSUME NEW x \in Texts, x # Empty
  PROVE  Rank[Empty] \in Nat /\ Rank[Empty] < Rank[x]
<1>1. Empty \in Texts /\ Rank[Empty] <= Rank[x]
  BY ComparisonAssumption
<1>2. Rank[Empty] \in Nat /\ Rank[x] \in Nat /\ Rank[x] # Rank[Empty]
  BY <1>1, RankInjective
<1> QED
  BY <1>1, <1>2

LEMMA NotAbove ==
  ASSUME NEW a \in Nat, NEW b \in Nat, a < b, NEW op \in {"=", ">", ">="}
  PROVE  ~Ordered(op, a, b)
BY DEF Ordered

\* An absent text is stored as '' and meets none of the safe comparisons.
LEMMA SafeLiteral ==
  ASSUME NEW v, ValueOK(v, "text"), v.set \/ v.text = Empty,
         NEW x \in Texts, x # Empty, NEW op \in {"=", ">", ">="}
  PROVE  SQLHolds(v, op, x) <=> v.set /\ MemText(v, op, x)
<1>1. v.type = "text" /\ v.text \in Texts /\ v.set \in BOOLEAN
  BY DEF ValueOK
<1>2. /\ Rank[v.text] \in Nat /\ Rank[x] \in Nat /\ Rank[Empty] \in Nat
      /\ Rank[Empty] < Rank[x]
  BY <1>1, RankInjective, RankLeast
<1>3. SQLHolds(v, op, x) <=> Ordered(op, Rank[v.text], Rank[x])
  BY <1>1 DEF SQLHolds
<1>4. MemText(v, op, x) <=> Ordered(op, Rank[v.text], Rank[x])
  BY <1>1 DEF MemText, Str
<1>5. CASE v.set
  BY <1>3, <1>4, <1>5
<1>6. CASE v.text = Empty /\ ~v.set
  <2>1. ~Ordered(op, Rank[Empty], Rank[x])
    BY <1>2, NotAbove
  <2> QED
    BY <1>3, <1>6, <2>1
<1> QED
  BY <1>1, <1>5, <1>6

LEMMA InTexts ==
  ASSUME NEW v, ValueOK(v, "text"), NEW xs, xs \subseteq Texts
  PROVE  SQLIn(v, xs) = Truth(v.text \in xs)
<1>1. v.type = "text" /\ v.text \in Texts /\ ~Null(v)
  BY DEF ValueOK, Null
<1>2. \A x \in xs : SQLHolds(v, "=", x) <=> v.text = x
  BY <1>1, ComparisonAssumption DEF SQLHolds, Ordered
<1>3. (\E x \in xs : SQLHolds(v, "=", x)) <=> v.text \in xs
  BY <1>2
<1>4. CASE xs = {}
  BY <1>4 DEF SQLIn, Truth
<1>5. CASE xs # {}
  <2>1. SQLIn(v, xs) = Truth(\E x \in xs : SQLHolds(v, "=", x))
    BY <1>1, <1>5 DEF SQLIn
  <2> QED
    BY <2>1, <1>3 DEF Truth
<1> QED
  BY <1>4, <1>5

LEMMA EqualText ==
  ASSUME NEW v, ValueOK(v, "text"), NEW x \in Texts
  PROVE  MemText(v, "=", x) <=> v.text = x
<1>1. v.type = "text" /\ v.text \in Texts
  BY DEF ValueOK
<1>2. Rank[v.text] = Rank[x] <=> v.text = x
  BY <1>1, RankInjective
<1> QED
  BY <1>1, <1>2 DEF MemText, Str, Ordered

\* What me() stands for, when no alias is empty.
LEMMA AliasTexts ==
  ASSUME RepositoryOK(repo), Empty \notin {CurrentUser} \cup MyAliases(repo.teams)
  PROVE  /\ MyAliases(repo.teams) \subseteq Texts
         /\ CurrentUser \in MyAliases(repo.teams)
         /\ Cardinality(MyAliases(repo.teams)) <= 1 => MyAliases(repo.teams) = {CurrentUser}
         /\ \A m \in Members(repo.teams) :
              IsMe(m, CurrentUser) => /\ m.id \in MyAliases(repo.teams)
                                      /\ m.email # Empty => m.email \in MyAliases(repo.teams)
         /\ \A x \in MyAliases(repo.teams) :
              \/ x = CurrentUser
              \/ \E m \in Members(repo.teams) : IsMe(m, CurrentUser) /\ (x = m.id \/ (m.email # Empty /\ x = m.email))
<1> DEFINE mine == {x \in Members(repo.teams) : IsMe(x, CurrentUser)}
           found == UNION {Addresses(m) : m \in mine}
<1>1. MyAliases(repo.teams) = {CurrentUser} \cup found
  BY DEF MyAliases
<1>2. \A m \in Members(repo.teams) : m.id \in Texts /\ m.email \in Texts
  BY DEF RepositoryOK, Members
<1>3. \A m \in mine : Addresses(m) \subseteq Texts
  BY <1>2 DEF Addresses
<1>4. MyAliases(repo.teams) \subseteq Texts
  BY <1>1, <1>3, ComparisonAssumption
<1>5. IsFiniteSet(mine)
  BY FS_Subset DEF RepositoryOK
<1>6. \A m \in mine : IsFiniteSet(Addresses(m))
  <2> SUFFICES ASSUME NEW m \in mine PROVE IsFiniteSet(Addresses(m))
    OBVIOUS
  <2>1. IsFiniteSet({m.id}) /\ IsFiniteSet({m.email})
    BY FS_Singleton
  <2>2. IsFiniteSet({m.email} \ {Empty})
    BY <2>1, FS_Subset
  <2> QED
    BY <2>1, <2>2, FS_Union DEF Addresses
<1>7. IsFiniteSet(found)
  <2> DEFINE image == {Addresses(m) : m \in mine}
             f == [m \in mine |-> Addresses(m)]
  <2>1. f \in Surjection(mine, image)
    BY DEF Surjection
  <2>2. IsFiniteSet(image)
    BY <1>5, <2>1, FS_Surjection
  <2>3. \A T \in image : IsFiniteSet(T)
    BY <1>6
  <2> HIDE DEF image
  <2>4. IsFiniteSet(UNION image)
    BY <2>2, <2>3, FS_UNION
  <2> QED
    BY <2>4 DEF image
<1>8. Cardinality(MyAliases(repo.teams)) <= 1 => MyAliases(repo.teams) = {CurrentUser}
  <2>1. IsFiniteSet({CurrentUser}) /\ Cardinality({CurrentUser}) = 1
    BY FS_Singleton
  <2>2. IsFiniteSet(MyAliases(repo.teams))
    <3> HIDE DEF found
    <3> QED
      BY <1>1, <1>7, <2>1, FS_Union
  <2>3. {CurrentUser} \subseteq MyAliases(repo.teams)
    BY <1>1
  <2>4. Cardinality(MyAliases(repo.teams)) \in Nat
    BY <2>2, FS_CardinalityType
  <2> QED
    BY <2>1, <2>2, <2>3, <2>4, FS_Subset
<1>9. \A m \in Members(repo.teams) :
        IsMe(m, CurrentUser) => /\ m.id \in MyAliases(repo.teams)
                                /\ m.email # Empty => m.email \in MyAliases(repo.teams)
  BY <1>1 DEF Addresses
<1>10. \A x \in MyAliases(repo.teams) :
         \/ x = CurrentUser
         \/ \E m \in Members(repo.teams) : IsMe(m, CurrentUser) /\ (x = m.id \/ (m.email # Empty /\ x = m.email))
  BY <1>1 DEF Addresses
<1> QED
  BY <1>1, <1>4, <1>8, <1>9, <1>10

(***************************************************************************)
(* A safe comparison with a text field: the compiled condition is never    *)
(* NULL, and true exactly when the evaluator says so.                      *)
(***************************************************************************)
LEMMA TextAgrees ==
  ASSUME RepositoryOK(repo), NEW v, ValueOK(v, "text"), v.set \/ v.text = Empty,
         NEW op \in Operators, NEW val, ValueTexts(val) \subseteq Texts, SafeText(op, val)
  PROVE  SQLCompare(v, op, val, repo.teams) = Truth(MemCompare(v, op, val, repo.teams, CurrentUser))
<1>1. v.type = "text" /\ v.text \in Texts /\ v.set \in BOOLEAN /\ ~Null(v)
  BY DEF ValueOK, Null
<1>2. CASE val.is \in Literals /\ val.text # Empty /\ op \in {"=", ">", ">="}
  <2>1. val.text \in Texts
    BY <1>2 DEF ValueTexts, Literals
  <2>2. SQLCompare(v, op, val, repo.teams) = Truth(SQLHolds(v, op, val.text))
    BY <1>1, <1>2 DEF SQLCompare, Literals, SQLText, SQLOp
  <2>3. MemCompare(v, op, val, repo.teams, CurrentUser) <=> v.set /\ MemText(v, op, val.text)
    BY <1>2 DEF MemCompare, MemItem, Literals
  <2>4. SQLHolds(v, op, val.text) <=> v.set /\ MemText(v, op, val.text)
    BY <1>2, <2>1, SafeLiteral
  <2> QED
    BY <2>2, <2>3, <2>4 DEF Truth
<1>3. CASE val.is = "string" /\ op = "~" /\ PlainPattern(val.text)
  <2>1. SQLCompare(v, op, val, repo.teams) = Truth(<< v.text, val.text >> \in Like)
    BY <1>1, <1>3 DEF SQLCompare, SQLText
  <2>2. MemCompare(v, op, val, repo.teams, CurrentUser) <=> v.set /\ << v.text, val.text >> \in Contained
    BY <1>1, <1>3 DEF MemCompare, MemItem, Literals, MemText, Str, Ordered
  <2>3. << v.text, val.text >> \in Contained <=> << v.text, val.text >> \in Like
    BY <1>1, <1>3 DEF PlainPattern
  <2>4. ~v.set => << v.text, val.text >> \notin Contained
    BY <1>3 DEF PlainPattern
  <2> QED
    BY <2>1, <2>2, <2>3, <2>4 DEF Truth
<1>4. CASE /\ val.is = "list" /\ op = "IN"
           /\ \A i \in DOMAIN val.items : val.items[i].is = "string" /\ val.items[i].text # Empty
  <2>1. ItemTexts(val) \subseteq Texts
    BY <1>4 DEF ValueTexts, Literals
  <2>2. SQLCompare(v, op, val, repo.teams) = Truth(v.text \in ItemTexts(val))
    BY <1>4, <2>1, InTexts DEF SQLCompare
  <2>3. MemCompare(v, op, val, repo.teams, CurrentUser)
          <=> v.set /\ \E i \in DOMAIN val.items : MemText(v, "=", val.items[i].text)
    BY <1>4 DEF MemCompare, MemItem, Literals
  <2>4. \A i \in DOMAIN val.items : MemText(v, "=", val.items[i].text) <=> v.text = val.items[i].text
    BY <1>4, <2>1, EqualText DEF ItemTexts
  <2>5. v.text \in ItemTexts(val) <=> \E i \in DOMAIN val.items : v.text = val.items[i].text
    BY <1>4 DEF ItemTexts
  <2>6. v.text \in ItemTexts(val) => v.set
    BY <1>4, <2>5
  <2> QED
    BY <2>2, <2>3, <2>4, <2>5, <2>6 DEF Truth
<1>5. CASE val.is = "func" /\ val.name = "my_team"
  <2> DEFINE tags == {TeamText[t] : t \in MyTeams(repo.teams)}
  <2>1. \A x \in tags : x \in Texts /\ x # Empty
    BY ComparisonAssumption DEF MyTeams, RepositoryOK
  <2>2. SQLCompare(v, op, val, repo.teams) = Truth(v.text \in tags)
    BY <1>5, <2>1, InTexts DEF SQLCompare, SQLFunc, Literals
  <2>3. MemCompare(v, op, val, repo.teams, CurrentUser)
          <=> v.set /\ \E t \in repo.teams : v.text = TeamText[t.name] /\ \E m \in t.members : IsMe(m, CurrentUser)
    BY <1>1, <1>5 DEF MemCompare, MemItem, MemFunc, Str, Literals
  <2>4. v.text \in tags
          <=> \E t \in repo.teams : v.text = TeamText[t.name] /\ \E m \in t.members : IsMe(m, CurrentUser)
    BY DEF MyTeams
  <2>5. v.text \in tags => v.set
    BY <2>1
  <2> QED
    BY <2>2, <2>3, <2>4, <2>5 DEF Truth
<1>6. CASE /\ val.is = "func" /\ val.name = "me" /\ op = "="
           /\ Empty \notin {CurrentUser} \cup MyAliases(repo.teams)
  <2> DEFINE aliases == MyAliases(repo.teams)
  <2>1. aliases \subseteq Texts /\ CurrentUser \in aliases /\ Empty \notin aliases
    BY <1>6, AliasTexts
  <2>2. SQLCompare(v, op, val, repo.teams) = Truth(v.text \in aliases)
    <3>1. CASE Cardinality(aliases) <= 1
      <4>1. aliases = {CurrentUser}
        BY <1>6, <3>1, AliasTexts
      <4>2. SQLCompare(v, op, val, repo.teams) = Truth(SQLHolds(v, "=", CurrentUser))
        BY <1>1, <1>6, <3>1 DEF SQLCompare, SQLFunc, Literals, SQLText, SQLOp
      <4>3. SQLHolds(v, "=", CurrentUser) <=> v.text = CurrentUser
        <5>1. Rank[v.text] = Rank[CurrentUser] <=> v.text = CurrentUser
          BY <1>1, RankInjective, ComparisonAssumption
        <5> QED
          BY <1>1, <5>1 DEF SQLHolds, Ordered
      <4> QED
        BY <4>1, <4>2, <4>3 DEF Truth
    <3>2. CASE ~(Cardinality(aliases) <= 1)
      <4>1. SQLCompare(v, op, val, repo.teams) = SQLIn(v, aliases)
        BY <1>6, <3>2 DEF SQLCompare, SQLFunc, Literals
      <4> QED
        BY <2>1, <4>1, InTexts
    <3> QED
      BY <3>1, <3>2
  <2>3. MemCompare(v, op, val, repo.teams, CurrentUser)
          <=> /\ v.set
              /\ \/ MemText(v, "=", CurrentUser)
                 \/ \E m \in Members(repo.teams) :
                      /\ IsMe(m, CurrentUser)
                      /\ MemText(v, "=", m.id) \/ (m.email # Empty /\ MemText(v, "=", m.email))
    BY <1>6 DEF MemCompare, MemItem, MemFunc, Literals
  <2>4. MemText(v, "=", CurrentUser) <=> v.text = CurrentUser
    BY EqualText, ComparisonAssumption
  <2>5. \A m \in Members(repo.teams) :
          /\ MemText(v, "=", m.id) <=> v.text = m.id
          /\ MemText(v, "=", m.email) <=> v.text = m.email
    <3>1. \A m \in Members(repo.teams) : m.id \in Texts /\ m.email \in Texts
      BY DEF RepositoryOK, Members
    <3> QED
      BY <3>1, EqualText
  <2>6. MemCompare(v, op, val, repo.teams, CurrentUser) <=> v.set /\ v.text \in aliases
    BY <1>6, <2>1, <2>3, <2>4, <2>5, AliasTexts
  <2>7. v.text \in aliases => v.set
    BY <2>1
  <2> QED
    BY <2>2, <2>6, <2>7 DEF Truth
<1> QED
  BY <1>2, <1>3, <1>4, <1>5, <1>6 DEF SafeText

\* team(x) on a text field of a task.
LEMMA TeamAgrees ==
  ASSUME RepositoryOK(repo), NEW v, ValueOK(v, "text"), v.set <=> v.text # Empty,
         NEW op \in Operators, NEW val, ValueTexts(val) \subseteq Texts, SafeTeam(val),
         val.is = "func" => ArgumentsOK(val)
  PROVE  SQLCompare(v, op, val, repo.teams) = Truth(MemCompare(v, op, val, repo.teams, CurrentUser))
<1> DEFINE x == val.args[1].text
           meant == TeamTexts(repo.teams, x)
           named == {t \in repo.teams : t.name = x}
<1>1. /\ val.is = "func" /\ val.name = "team" /\ Len(val.args) = 1 /\ val.args[1].is = "string"
      /\ Empty \notin meant
      /\ \A t \in repo.teams : \A m \in t.members : m.value \in Addresses(m)
  BY DEF SafeTeam
<1>2. v.type = "text" /\ v.text \in Texts /\ v.set \in BOOLEAN
  BY DEF ValueOK
<1>3. MemCompare(v, op, val, repo.teams, CurrentUser)
        <=> /\ v.set
            /\ \/ v.text = TeamText[x]
               \/ \E t \in named : \E m \in t.members : v.text \in {m.id, m.email, m.value}
  BY <1>1, <1>2 DEF MemCompare, MemItem, MemFunc, Str, Literals
<1>4. v.text \in meant
        <=> \/ v.text = TeamText[x]
            \/ \E t \in named : \E m \in t.members : v.text \in Addresses(m)
  BY DEF TeamTexts, Members
<1>5. \A t \in named : \A m \in t.members :
        v.text # Empty => (v.text \in {m.id, m.email, m.value} <=> v.text \in Addresses(m))
  BY <1>1 DEF Addresses
<1>6. MemCompare(v, op, val, repo.teams, CurrentUser) <=> v.text \in meant
  BY <1>1, <1>3, <1>4, <1>5
<1>7. meant \subseteq Texts \cup {TeamText[x]}
  <2>1. \A t \in repo.teams : \A m \in t.members : Addresses(m) \subseteq Texts
    BY DEF RepositoryOK, Addresses
  <2> QED
    BY <2>1 DEF TeamTexts, Members
<1>8. x \in Texts
  <2>1. 1 \in DOMAIN val.args
    BY <1>1 DEF ArgumentsOK
  <2> QED
    BY <1>1, <2>1 DEF ValueTexts, Literals
<1>9. meant \subseteq Texts
  BY <1>7, <1>8, ComparisonAssumption
<1>10. SQLCompare(v, op, val, repo.teams) = SQLIn(v, meant)
  BY <1>1 DEF SQLCompare, SQLFunc, Literals
<1>11. SQLIn(v, meant) = Truth(v.text \in meant)
  BY <1>9, InTexts
<1> QED
  BY <1>6, <1>10, <1>11 DEF Truth

\* A comparison of instants or minutes that the texts decide alike: the
\* condition is true exactly when the evaluator says so, NULL if absent.
LEMMA OrderAgrees ==
  ASSUME NEW v, ValueOK(v, v.type), v.type \in {"time", "duration"},
         NEW op \in Orders, NEW x \in Texts, NEW n \in Int, NEW pattern,
         v.set => /\ v.num < n <=> Rank[v.text] < Rank[x]
                  /\ v.num = n <=> v.text = x
  PROVE  SQLText(v, op, x, pattern) = "T" <=> v.set /\ Ordered(op, v.num, n)
<1>1. v.set \in BOOLEAN /\ v.text \in Texts /\ v.num \in Int /\ v.type # "text" /\ v.type # "number"
  BY DEF ValueOK
<1>2. op # "~" /\ SQLOp(op) = op
  BY DEF Orders, SQLOp
<1>3. CASE v.set
  <2>1. SQLText(v, op, x, pattern) = Truth(Ordered(op, Rank[v.text], Rank[x]))
    BY <1>1, <1>2, <1>3 DEF SQLText, Null, SQLHolds
  <2>2. Ordered(op, v.num, n) <=> Ordered(op, Rank[v.text], Rank[x])
    BY <1>1, <1>3, FaithfulOrder
  <2> QED
    BY <1>3, <2>1, <2>2 DEF Truth
<1>4. CASE ~v.set
  BY <1>1, <1>4 DEF SQLText, Null
<1> QED
  BY <1>1, <1>3, <1>4

-----------------------------------------------------------------------------
(***************************************************************************)
(* ONE PRIMARY                                                             *)
(***************************************************************************)

LEMMA OwnersOK ==
  ASSUME RepositoryOK(repo), NEW ns \in Namespaces, NEW t \in repo.tasks, NEW o \in Owners(ns, t)
  PROVE  OwnerOK(o, ns)
BY DEF RepositoryOK, Owners, Namespaces

\* The type of a field's values.
LEMMA FieldTypes ==
  ASSUME NEW o, NEW ns \in Namespaces, OwnerOK(o, ns)
  PROVE  /\ \A n \in FieldsOf(ns).text : /\ ValueOK(o.values[n], "text")
                                         /\ ns # "task" => o.values[n].set
                                         /\ ns = "task" => (o.values[n].set <=> o.values[n].text # Empty)
         /\ \A n \in FieldsOf(ns).time : ValueOK(o.values[n], "time")
         /\ \A n \in FieldsOf(ns).duration : ValueOK(o.values[n], "duration")
         /\ \A n \in FieldsOf(ns).number : ValueOK(o.values[n], "number")
<1>1. "text" \in Types /\ "time" \in Types /\ "duration" \in Types /\ "number" \in Types
  BY DEF Types
<1>2. FieldsOf(ns)["text"] = FieldsOf(ns).text /\ FieldsOf(ns)["time"] = FieldsOf(ns).time
      /\ FieldsOf(ns)["duration"] = FieldsOf(ns).duration /\ FieldsOf(ns)["number"] = FieldsOf(ns).number
  OBVIOUS
<1> QED
  BY <1>1, <1>2 DEF OwnerOK

\* The instants and minutes that a safe literal stands for are integers.
LEMMA LiteralNumbers ==
  ASSUME NEW x \in Texts
  PROVE  /\ Instant[x] # None => Instant[x] \in Int
         /\ Minutes[x] # None => Minutes[x] \in Int
         /\ DateInstant[x] # None => DateInstant[x] \in Int
         /\ DateText[x] \in Texts
BY ComparisonAssumption DEF IntOrNone

LEMMA ComparisonAgrees ==
  ASSUME RepositoryOK(repo), NEW l, PrimaryOK(l), l.form = "compare",
         HasColumn(l.field), SafeLeaf(l),
         NEW t \in repo.tasks, NEW o \in Owners(l.field.ns, t)
  PROVE  LET v == o.values[l.field.name]
         IN  /\ SQLCompare(v, l.op, l.value, repo.teams) = "T"
                  <=> MemCompare(v, l.op, l.value, repo.teams, CurrentUser)
             /\ l.field.name \in FieldsOf(l.field.ns).text
                  => SQLCompare(v, l.op, l.value, repo.teams) \in {"T", "F"}
<1> DEFINE f == l.field
           v == o.values[f.name]
           op == l.op
           val == l.value
<1>1. /\ f.ns \in Namespaces /\ op \in Operators /\ ValueTexts(val) \subseteq Texts
      /\ val.is = "func" => ArgumentsOK(val)
  BY DEF PrimaryOK
<1>2. OwnerOK(o, f.ns)
  BY <1>1, OwnersOK
<1>3. CASE f.name \in FieldsOf(f.ns).text /\ SafeText(op, val)
  <2>1. ValueOK(v, "text") /\ (v.set \/ v.text = Empty)
    BY <1>1, <1>2, <1>3, FieldTypes
  <2>2. SQLCompare(v, op, val, repo.teams) = Truth(MemCompare(v, op, val, repo.teams, CurrentUser))
    BY <1>1, <1>3, <2>1, TextAgrees
  <2> QED
    BY <2>2 DEF Truth
<1>4. CASE f.ns = "task" /\ f.name \in FieldsOf("task").text /\ SafeTeam(val)
  <2>1. ValueOK(v, "text") /\ (v.set <=> v.text # Empty)
    BY <1>1, <1>2, <1>4, FieldTypes
  <2>2. SQLCompare(v, op, val, repo.teams) = Truth(MemCompare(v, op, val, repo.teams, CurrentUser))
    BY <1>1, <1>4, <2>1, TeamAgrees
  <2> QED
    BY <2>2 DEF Truth
<1>5. CASE /\ f.name \in FieldsOf(f.ns).time /\ op \in Orders
           /\ val.is \in Literals /\ Faithful(f, val.text, Instant[val.text])
  <2> DEFINE x == val.text
             n == Instant[x]
  <2>1. x \in Texts
    BY <1>1, <1>5 DEF ValueTexts, Literals
  <2>2. ValueOK(v, "time") /\ v.type = "time"
    BY <1>1, <1>2, <1>5, FieldTypes DEF ValueOK
  <2>3. /\ n # None /\ n \in Int
        /\ v.set => /\ v.num < n <=> Rank[v.text] < Rank[x]
                    /\ v.num = n <=> v.text = x
    BY <1>5, <2>1, LiteralNumbers DEF Faithful
  <2>4. MemCompare(v, op, val, repo.teams, CurrentUser) <=> v.set /\ Ordered(op, v.num, n)
    BY <1>5, <2>2, <2>3 DEF MemCompare, MemItem, MemText, Literals
  <2>5. \A pattern : SQLText(v, op, x, pattern) = "T" <=> v.set /\ Ordered(op, v.num, n)
    BY <1>5, <2>1, <2>2, <2>3, OrderAgrees
  <2>6. \E pattern : SQLCompare(v, op, val, repo.teams) = SQLText(v, op, x, pattern)
    BY <1>5 DEF SQLCompare, Literals
  <2>7. f.name \notin FieldsOf(f.ns).text
    BY <1>1, <1>5 DEF FieldsOf, Namespaces
  <2> QED
    BY <2>4, <2>5, <2>6, <2>7
<1>6. CASE /\ f.name \in FieldsOf(f.ns).time /\ op \in Orders
           /\ val.is = "func" /\ val.name = "date" /\ Len(val.args) = 1
           /\ val.args[1].is = "string"
           /\ Faithful(f, DateText[val.args[1].text], DateInstant[val.args[1].text])
  <2> DEFINE x == val.args[1].text
             n == DateInstant[x]
  <2>1. x \in Texts
    <3>1. 1 \in DOMAIN val.args
      BY <1>1, <1>6 DEF ArgumentsOK
    <3> QED
      BY <1>1, <1>6, <3>1 DEF ValueTexts, Literals
  <2>2. ValueOK(v, "time") /\ v.type = "time"
    BY <1>1, <1>2, <1>6, FieldTypes DEF ValueOK
  <2>3. /\ n # None /\ n \in Int /\ DateText[x] \in Texts
        /\ v.set => /\ v.num < n <=> Rank[v.text] < Rank[DateText[x]]
                    /\ v.num = n <=> v.text = DateText[x]
    BY <1>6, <2>1, LiteralNumbers DEF Faithful
  <2>4. MemCompare(v, op, val, repo.teams, CurrentUser) <=> v.set /\ Ordered(op, v.num, n)
    BY <1>6, <2>2, <2>3 DEF MemCompare, MemItem, MemFunc, Literals
  <2>5. SQLText(v, op, DateText[x], LikeWhole) = "T" <=> v.set /\ Ordered(op, v.num, n)
    BY <1>6, <2>1, <2>2, <2>3, OrderAgrees
  <2>6. SQLCompare(v, op, val, repo.teams) = SQLText(v, op, DateText[x], LikeWhole)
    BY <1>6 DEF SQLCompare, SQLFunc, Literals
  <2>7. f.name \notin FieldsOf(f.ns).text
    BY <1>1, <1>6 DEF FieldsOf, Namespaces
  <2> QED
    BY <2>4, <2>5, <2>6, <2>7
<1>7. CASE /\ f.name \in FieldsOf(f.ns).duration /\ op \in Orders
           /\ val.is \in Literals /\ Faithful(f, val.text, Minutes[val.text])
  <2> DEFINE x == val.text
             n == Minutes[x]
  <2>1. x \in Texts
    BY <1>1, <1>7 DEF ValueTexts, Literals
  <2>2. ValueOK(v, "duration") /\ v.type = "duration"
    BY <1>1, <1>2, <1>7, FieldTypes DEF ValueOK
  <2>3. /\ n # None /\ n \in Int
        /\ v.set => /\ v.num < n <=> Rank[v.text] < Rank[x]
                    /\ v.num = n <=> v.text = x
    BY <1>7, <2>1, LiteralNumbers DEF Faithful
  <2>4. MemCompare(v, op, val, repo.teams, CurrentUser) <=> v.set /\ Ordered(op, v.num, n)
    BY <1>7, <2>2, <2>3 DEF MemCompare, MemItem, MemText, Literals
  <2>5. \A pattern : SQLText(v, op, x, pattern) = "T" <=> v.set /\ Ordered(op, v.num, n)
    BY <1>7, <2>1, <2>2, <2>3, OrderAgrees
  <2>6. \E pattern : SQLCompare(v, op, val, repo.teams) = SQLText(v, op, x, pattern)
    BY <1>7 DEF SQLCompare, Literals
  <2>7. f.name \notin FieldsOf(f.ns).text
    BY <1>1, <1>7 DEF FieldsOf, Namespaces
  <2> QED
    BY <2>4, <2>5, <2>6, <2>7
<1>8. SafeCompare(f, op, val)
  BY DEF SafeLeaf
<1> QED
  BY <1>3, <1>4, <1>5, <1>6, <1>7, <1>8 DEF SafeCompare

-----------------------------------------------------------------------------
(***************************************************************************)
(* ROWS                                                                    *)
(***************************************************************************)

\* Rows q and r are joined with the same in namespaces js.
SameJoins(q, r, js) == \A ns \in js : q[ns] = r[ns]

\* A row without the joins it is not asked for is a row too.
LEMMA ProjectedRow ==
  ASSUME RepositoryOK(repo), NEW ks, NEW js, js \subseteq ks, ks \subseteq Joinable,
         NEW r \in Joined(ks)
  PROVE  \E p \in Joined(js) : p.task = r.task /\ \A ns \in js : p[ns] = r[ns]
<1> DEFINE p == [task |-> r.task,
                 iteration |-> IF "iteration" \in js THEN r.iteration ELSE None,
                 sla |-> IF "sla" \in js THEN r.sla ELSE None]
<1>1. r \in Rows /\ \A ns \in Joinable : ns \in ks <=> r[ns] # None
  BY DEF Joined
<1>2. /\ p.task = r.task
      /\ \A ns \in Joinable : p[ns] = IF ns \in js THEN r[ns] ELSE None
  BY DEF Joinable
<1>3. p \in [task: repo.tasks, iteration: repo.iterations \cup {None}, sla: repo.results \cup {None}]
  BY <1>1 DEF Rows
<1>4. \A ns \in Joinable : p[ns] \in Owners(ns, p.task) \cup {None}
  BY <1>1, <1>2 DEF Rows
<1>5. p \in Rows
  BY <1>3, <1>4 DEF Rows
<1>6. \A ns \in Joinable : ns \in js <=> p[ns] # None
  BY <1>1, <1>2
<1>7. p \in Joined(js)
  BY <1>5, <1>6 DEF Joined
<1> QED
  BY <1>2, <1>7

\* Rows of one task with different joins make one row with all of them.
LEMMA MergedRow ==
  ASSUME RepositoryOK(repo), NEW js, NEW ks, js \subseteq Joinable, ks \subseteq Joinable,
         \A ns \in js : ns \notin ks, NEW q \in Joined(js), NEW r \in Joined(ks), q.task = r.task
  PROVE  \E p \in Joined(js \cup ks) :
           /\ p.task = q.task
           /\ SameJoins(p, q, js)
           /\ SameJoins(p, r, ks)
<1> DEFINE p == [task |-> q.task,
                 iteration |-> IF "iteration" \in js THEN q.iteration ELSE r.iteration,
                 sla |-> IF "sla" \in js THEN q.sla ELSE r.sla]
<1>1. /\ q \in Rows /\ \A ns \in Joinable : ns \in js <=> q[ns] # None
      /\ r \in Rows /\ \A ns \in Joinable : ns \in ks <=> r[ns] # None
  BY DEF Joined
<1>2. /\ p.task = q.task /\ p.task = r.task
      /\ \A ns \in Joinable : p[ns] = IF ns \in js THEN q[ns] ELSE r[ns]
  BY DEF Joinable
<1>3. p \in [task: repo.tasks, iteration: repo.iterations \cup {None}, sla: repo.results \cup {None}]
  BY <1>1 DEF Rows
<1>4. \A ns \in Joinable : p[ns] \in Owners(ns, p.task) \cup {None}
  BY <1>1, <1>2 DEF Rows
<1>5. p \in Rows
  BY <1>3, <1>4 DEF Rows
<1>6. \A ns \in Joinable : ns \in js \cup ks <=> p[ns] # None
  BY <1>1, <1>2
<1>7. p \in Joined(js \cup ks)
  BY <1>5, <1>6 DEF Joined
<1>8. SameJoins(p, q, js) /\ SameJoins(p, r, ks)
  BY <1>2 DEF SameJoins
<1> HIDE DEF p
<1> QED
  BY <1>2, <1>7, <1>8

-----------------------------------------------------------------------------
(***************************************************************************)
(* THE INVARIANT OF AN EXPRESSION                                          *)
(***************************************************************************)

Expr == [mem: SUBSET repo.tasks, rule: SUBSET repo.tasks,
         sql: [Rows -> {"T", "F", "N"}], joins: SUBSET Joinable, unbound: BOOLEAN,
         ns: SUBSET Namespaces, crossOr: BOOLEAN, error: BOOLEAN, exact: BOOLEAN, sound: BOOLEAN, safe: BOOLEAN, impersonal: BOOLEAN]

\* The condition reads nothing of a row but the task and the joins.
Local(e) ==
  \A q \in Rows : \A r \in Rows :
    q.task = r.task /\ (\A ns \in e.joins : q[ns] = r[ns]) => e.sql[q] = e.sql[r]

ScopeOK(e) ==
  /\ e.ns # {}
  /\ e.safe => e.sound
  /\ e.exact => e.safe /\ e.joins = {}
  /\ e.sound => e.joins = e.ns \cap Joinable /\ ~e.unbound
  /\ e.crossOr => \E x \in e.ns : \E y \in e.ns : x # y

ExactOK(e) ==
  e.exact => \A r \in Rows : /\ e.sql[r] \in {"T", "F"}
                             /\ e.sql[r] = "T" <=> r.task \in e.mem

SoundOK(e) ==
  e.sound => \A r \in Joined(e.joins) : e.sql[r] = "T" => r.task \in e.mem

SafeOK(e) ==
  e.safe /\ ~e.crossOr => \A t \in e.mem : \E r \in Joined(e.joins) : r.task = t /\ e.sql[r] = "T"

RuleOK(e) == e.impersonal => e.rule = e.mem

ExprInv(e) == Local(e) /\ ScopeOK(e) /\ ExactOK(e) /\ SoundOK(e) /\ SafeOK(e) /\ RuleOK(e)

Good == {e \in Expr : ExprInv(e)}

-----------------------------------------------------------------------------
(***************************************************************************)
(* PRIMARIES                                                               *)
(***************************************************************************)

\* The condition of a comparison has a value.
LEMMA CompareValue ==
  ASSUME NEW v, NEW l, PrimaryOK(l), l.form = "compare"
  PROVE  SQLCompare(v, l.op, l.value, repo.teams) \in {"T", "F", "N"}
<1>1. \A b : Truth(b) \in {"T", "F"}
  BY DEF Truth
<1>2. \A op, x, pattern : SQLText(v, op, x, pattern) \in {"T", "F", "N"}
  BY <1>1 DEF SQLText
<1>3. \A xs : SQLIn(v, xs) \in {"T", "F", "N"}
  BY <1>1 DEF SQLIn
<1>4. \A op, fn : SQLFunc(v, op, fn, repo.teams) \in {"T", "F", "N"}
  BY <1>2, <1>3 DEF SQLFunc
<1>5. l.value.is \in {"string", "number", "ident", "list", "func"}
  BY DEF PrimaryOK, Literals
<1> QED
  BY <1>2, <1>3, <1>4, <1>5 DEF SQLCompare

\* A column of a task is given to exists() exactly when the task has a value.
LEMMA ExistsAgrees ==
  ASSUME RepositoryOK(repo), NEW l, ExistsColumn(l), NEW t \in repo.tasks
  PROVE  /\ SQLExists(t.values[l.field.name]) \in {"T", "F"}
         /\ l.field.name # "path"
              => (SQLExists(t.values[l.field.name]) = "T" <=> MemExists(l.field, t))
<1> DEFINE n == l.field.name
           v == t.values[n]
<1>1. l.field.ns = "task" /\ HasColumn(l.field) /\ n \in Columns("task")
  BY DEF ExistsColumn, HasColumn
<1>2. \E ty \in Types : n \in FieldsOf("task")[ty]
  BY <1>1 DEF Columns
<1>3. OwnerOK(t, "task")
  BY DEF RepositoryOK
<1>4. /\ v.set \in BOOLEAN
      /\ v.type = "text" => (v.set <=> v.text # Empty)
  BY <1>2, <1>3 DEF OwnerOK, ValueOK
<1>5. SQLExists(v) = Truth(v.set)
  BY <1>4 DEF SQLExists, Null, Truth, Empty
<1>6. n \notin {"labels", "dependencies", "change_log"}
  BY <1>2 DEF FieldsOf, Types
<1>7. n # "path" => (MemExists(l.field, t) <=> v.set)
  BY <1>1, <1>4, <1>6 DEF MemExists
<1> QED
  BY <1>5, <1>7 DEF Truth

\* What the condition of a safe primary says of a row with its join.
LEMMA SafeLeafAgrees ==
  ASSUME RepositoryOK(repo), NEW l, PrimaryOK(l), SafeLeaf(l),
         NEW r \in Joined(LeafExpr(l).joins)
  PROVE  SQLLeaf(l, r) = "T" => MemLeaf(l, r.task, EngineContext)
<1>1. r \in Rows /\ r.task \in repo.tasks
  BY DEF Joined, Rows
<1>2. CASE l.form = "compare"
  <2>1. CASE ~HasColumn(l.field)
    BY <1>2, <2>1 DEF SQLLeaf
  <2>2. CASE HasColumn(l.field) /\ r[l.field.ns] # None
    <3>1. l.field.ns \in Namespaces
      BY <1>2 DEF PrimaryOK
    <3>2. r[l.field.ns] \in Owners(l.field.ns, r.task)
      BY <1>1, <2>2, <3>1 DEF Rows, Owners, Joinable, Namespaces
    <3>3. SQLCompare(r[l.field.ns].values[l.field.name], l.op, l.value, repo.teams) = "T"
            => MemCompare(r[l.field.ns].values[l.field.name], l.op, l.value, repo.teams, CurrentUser)
      BY <1>1, <1>2, <2>2, <3>2, ComparisonAgrees
    <3>4. SQLLeaf(l, r) = SQLCompare(r[l.field.ns].values[l.field.name], l.op, l.value, repo.teams)
      BY <1>2, <2>2 DEF SQLLeaf
    <3>5. MemLeaf(l, r.task, EngineContext)
            <=> \E o \in Owners(l.field.ns, r.task) :
                  MemCompare(o.values[l.field.name], l.op, l.value, repo.teams, CurrentUser)
      BY <1>2, <2>2 DEF MemLeaf, EngineContext
    <3> QED
      BY <3>2, <3>3, <3>4, <3>5
  <2>3. CASE HasColumn(l.field) /\ r[l.field.ns] = None
    BY <1>2, <2>3 DEF SQLLeaf
  <2> QED
    BY <2>1, <2>2, <2>3
<1>3. CASE l.form = "exists"
  <2>1. ExistsColumn(l) /\ l.field.name # "path"
    BY <1>3 DEF SafeLeaf
  <2>2. SQLExists(r.task.values[l.field.name]) = "T" <=> MemExists(l.field, r.task)
    BY <1>1, <2>1, ExistsAgrees
  <2> QED
    BY <1>3, <2>1, <2>2 DEF SQLLeaf, MemLeaf
<1>4. CASE l.form = "missing"
  <2>1. ExistsColumn(l) /\ l.field.name # "path"
    BY <1>4 DEF SafeLeaf
  <2>2. /\ SQLExists(r.task.values[l.field.name]) = "T" <=> MemExists(l.field, r.task)
        /\ SQLExists(r.task.values[l.field.name]) \in {"T", "F"}
    BY <1>1, <2>1, ExistsAgrees
  <2>3. SQLLeaf(l, r) = Not3(SQLExists(r.task.values[l.field.name]))
    BY <1>4, <2>1 DEF SQLLeaf
  <2>4. MemLeaf(l, r.task, EngineContext) <=> ~MemExists(l.field, r.task)
    BY <1>4 DEF MemLeaf
  <2> QED
    BY <2>2, <2>3, <2>4 DEF Not3
<1>5. CASE l.form = "has"
  BY <1>5 DEF SafeLeaf, SQLLeaf, MemLeaf, Truth
<1>6. CASE l.form = "call"
  BY <1>6 DEF SQLLeaf
<1> QED
  BY <1>2, <1>3, <1>4, <1>5, <1>6 DEF PrimaryOK

\* The condition of an exact primary has the truth value of the evaluator.
LEMMA ExactLeafAgrees ==
  ASSUME RepositoryOK(repo), NEW l, PrimaryOK(l), ExactLeaf(l), NEW r \in Rows
  PROVE  SQLLeaf(l, r) \in {"T", "F"} /\ (SQLLeaf(l, r) = "T" <=> MemLeaf(l, r.task, EngineContext))
<1>1. r.task \in repo.tasks /\ r.task # None /\ SafeLeaf(l)
  BY DEF Rows, RepositoryOK, ExactLeaf
<1>2. CASE l.form = "compare"
  <2>1. CASE ~HasColumn(l.field)
    BY <1>2, <2>1 DEF SQLLeaf, MemLeaf
  <2>2. CASE HasColumn(l.field)
    <3> DEFINE v == r.task.values[l.field.name]
    <3>1. l.field.ns = "task" /\ l.field.name \in FieldsOf(l.field.ns).text
      BY <1>2, <2>2 DEF ExactLeaf
    <3>2. Owners(l.field.ns, r.task) = {r.task} /\ r[l.field.ns] = r.task
      BY <3>1 DEF Owners
    <3>3. /\ SQLCompare(v, l.op, l.value, repo.teams) = "T"
               <=> MemCompare(v, l.op, l.value, repo.teams, CurrentUser)
          /\ SQLCompare(v, l.op, l.value, repo.teams) \in {"T", "F"}
      BY <1>1, <1>2, <2>2, <3>1, <3>2, ComparisonAgrees
    <3>4. SQLLeaf(l, r) = SQLCompare(v, l.op, l.value, repo.teams)
      BY <1>1, <1>2, <2>2, <3>2 DEF SQLLeaf
    <3>5. MemLeaf(l, r.task, EngineContext) <=> MemCompare(v, l.op, l.value, repo.teams, CurrentUser)
      BY <1>2, <2>2, <3>2 DEF MemLeaf, EngineContext
    <3> QED
      BY <3>3, <3>4, <3>5
  <2> QED
    BY <2>1, <2>2
<1>3. CASE l.form = "exists"
  <2>1. ExistsColumn(l) /\ l.field.name # "path"
    BY <1>1, <1>3 DEF SafeLeaf
  <2> QED
    BY <1>1, <1>3, <2>1, ExistsAgrees DEF SQLLeaf, MemLeaf
<1>4. CASE l.form = "missing"
  <2>1. ExistsColumn(l) /\ l.field.name # "path"
    BY <1>1, <1>4 DEF SafeLeaf
  <2>2. /\ SQLExists(r.task.values[l.field.name]) = "T" <=> MemExists(l.field, r.task)
        /\ SQLExists(r.task.values[l.field.name]) \in {"T", "F"}
    BY <1>1, <2>1, ExistsAgrees
  <2>3. SQLLeaf(l, r) = Not3(SQLExists(r.task.values[l.field.name]))
    BY <1>4, <2>1 DEF SQLLeaf
  <2>4. MemLeaf(l, r.task, EngineContext) <=> ~MemExists(l.field, r.task)
    BY <1>4 DEF MemLeaf
  <2> QED
    BY <2>2, <2>3, <2>4 DEF Not3
<1>5. CASE l.form = "has"
  BY <1>1, <1>5 DEF SafeLeaf, SQLLeaf, MemLeaf, Truth
<1>6. CASE l.form = "call"
  BY <1>6 DEF SQLLeaf, MemLeaf
<1> QED
  BY <1>2, <1>3, <1>4, <1>5, <1>6 DEF PrimaryOK

\* A predicate that asks for no user holds for all users alike.
LEMMA AnyUser ==
  ASSUME NEW v, NEW op, NEW val, ~NamesUser(val), NEW teams, NEW user, NEW other
  PROVE  MemCompare(v, op, val, teams, user) <=> MemCompare(v, op, val, teams, other)
<1>1. ASSUME NEW o, NEW x, ~(x.is = "func" /\ x.name \in {"me", "my_team"})
      PROVE  MemItem(v, o, x, teams, user) <=> MemItem(v, o, x, teams, other)
  BY <1>1 DEF MemItem, MemFunc
<1>2. MemItem(v, op, val, teams, user) <=> MemItem(v, op, val, teams, other)
  BY <1>1 DEF NamesUser
<1>3. ASSUME val.is = "list", NEW i \in DOMAIN val.items
      PROVE  MemItem(v, "=", val.items[i], teams, user) <=> MemItem(v, "=", val.items[i], teams, other)
  BY <1>1, <1>3 DEF NamesUser
<1> QED
  BY <1>2, <1>3 DEF MemCompare

\* A rule with such a primary selects what a query with it selects.
LEMMA ImpersonalAgrees ==
  ASSUME NEW l, PrimaryOK(l), ImpersonalLeaf(l), NEW t
  PROVE  MemLeaf(l, t, EngineContext) <=> MemLeaf(l, t, RuleContext)
<1>1. CASE l.form = "compare"
  <2>1. l.field.ns # "sla" /\ ~NamesUser(l.value)
    BY <1>1 DEF ImpersonalLeaf
  <2>2. \A o : MemCompare(o.values[l.field.name], l.op, l.value, repo.teams, CurrentUser)
              <=> MemCompare(o.values[l.field.name], l.op, l.value, repo.teams, Empty)
    BY <2>1, AnyUser
  <2>3. EngineContext.user = CurrentUser /\ RuleContext.user = Empty
    BY DEF EngineContext, RuleContext
  <2> QED
    BY <1>1, <2>1, <2>2, <2>3 DEF MemLeaf
<1>2. CASE l.form # "compare"
  BY <1>2 DEF MemLeaf, PrimaryOK
<1> QED
  BY <1>1, <1>2

\* The record of a primary has the types of an expression.
LEMMA LeafTyped ==
  ASSUME RepositoryOK(repo), NEW l, PrimaryOK(l)
  PROVE  LeafExpr(l) \in Expr
<1>1. \A r \in Rows : SQLLeaf(l, r) \in {"T", "F", "N"}
  <2> SUFFICES ASSUME NEW r \in Rows PROVE SQLLeaf(l, r) \in {"T", "F", "N"}
    OBVIOUS
  <2>1. \A b : Truth(b) \in {"T", "F"}
    BY DEF Truth
  <2>2. \A v : SQLExists(v) \in {"T", "F"}
    BY <2>1 DEF SQLExists
  <2>3. \A v : Not3(SQLExists(v)) \in {"T", "F"}
    BY <2>2 DEF Not3
  <2>4. CASE l.form = "compare"
    BY <2>4, CompareValue DEF SQLLeaf
  <2>5. CASE l.form = "exists"
    BY <2>2, <2>5 DEF SQLLeaf
  <2>6. CASE l.form = "missing"
    BY <2>3, <2>6 DEF SQLLeaf
  <2>7. CASE l.form = "has"
    BY <2>1, <2>7 DEF SQLLeaf
  <2>8. CASE l.form = "call"
    BY <2>8 DEF SQLLeaf
  <2> QED
    BY <2>4, <2>5, <2>6, <2>7, <2>8 DEF PrimaryOK
<1>2. SafeLeaf(l) \in BOOLEAN
  BY DEF SafeLeaf, PrimaryOK, SafeCompare, ExistsColumn
<1>3. ExactLeaf(l) \in BOOLEAN /\ LeafError(l) \in BOOLEAN /\ ImpersonalLeaf(l) \in BOOLEAN
  BY DEF ExactLeaf, LeafError, ImpersonalLeaf
<1>4. LeafNamespace(l) \in Namespaces
  BY DEF LeafNamespace, PrimaryOK, Namespaces
<1>5. (l.form = "compare" /\ HasColumn(l.field) /\ Unbound(l.value)) \in BOOLEAN
  OBVIOUS
<1> QED
  BY <1>1, <1>2, <1>3, <1>4, <1>5 DEF LeafExpr, Expr

LEMMA LeafGood ==
  ASSUME RepositoryOK(repo), NEW l, PrimaryOK(l)
  PROVE  LeafExpr(l) \in Good
<1> DEFINE e == LeafExpr(l)
<1>1. /\ e.mem = {t \in repo.tasks : MemLeaf(l, t, EngineContext)}
      /\ \A r \in Rows : e.sql[r] = SQLLeaf(l, r)
      /\ e.joins = {LeafNamespace(l)} \cap (IF l.form = "compare" THEN Joinable ELSE {})
      /\ e.ns = {LeafNamespace(l)}
      /\ e.crossOr = FALSE /\ e.exact = ExactLeaf(l) /\ e.sound = SafeLeaf(l) /\ e.safe = SafeLeaf(l)
      /\ e.unbound = (l.form = "compare" /\ HasColumn(l.field) /\ Unbound(l.value))
  BY DEF LeafExpr
<1>2. \A r \in Rows : r.task \in repo.tasks
  BY DEF Rows
<1>3. Local(e)
  <2> SUFFICES ASSUME NEW q \in Rows, NEW r \in Rows, q.task = r.task, \A ns \in e.joins : q[ns] = r[ns]
               PROVE  SQLLeaf(l, q) = SQLLeaf(l, r)
    BY <1>1 DEF Local
  <2>1. CASE l.form = "compare"
    <3>1. q[l.field.ns] = r[l.field.ns]
      BY <1>1, <2>1 DEF LeafNamespace, PrimaryOK, Namespaces, Joinable
    <3> QED
      BY <2>1, <3>1 DEF SQLLeaf
  <2>2. CASE l.form # "compare"
    BY <2>2 DEF SQLLeaf, PrimaryOK
  <2> QED
    BY <2>1, <2>2
<1>4. ScopeOK(e)
  <2>1. SafeLeaf(l) => e.joins = e.ns \cap Joinable
    BY <1>1 DEF SafeLeaf, ExistsColumn, LeafNamespace, PrimaryOK, Joinable
  <2>2. ExactLeaf(l) => SafeLeaf(l) /\ e.joins = {}
    BY <1>1 DEF ExactLeaf, LeafNamespace, Joinable
  <2>3. SafeLeaf(l) => ~e.unbound
    BY <1>1 DEF SafeLeaf, SafeCompare, SafeText, SafeTeam, Unbound, Literals
  <2> QED
    BY <1>1, <2>1, <2>2, <2>3 DEF ScopeOK
<1>5. ExactOK(e)
  BY <1>1, <1>2, ExactLeafAgrees DEF ExactOK
<1>6. SoundOK(e)
  <2> SUFFICES ASSUME SafeLeaf(l), NEW r \in Joined(e.joins), e.sql[r] = "T"
               PROVE  r.task \in e.mem
    BY <1>1 DEF SoundOK
  <2>1. r \in Rows
    BY DEF Joined
  <2>2. MemLeaf(l, r.task, EngineContext)
    BY <1>1, <2>1, SafeLeafAgrees
  <2> QED
    BY <1>1, <1>2, <2>1, <2>2
<1>7. SafeOK(e)
  <2> SUFFICES ASSUME SafeLeaf(l), NEW t \in repo.tasks, MemLeaf(l, t, EngineContext)
               PROVE  \E r \in Joined(e.joins) : r.task = t /\ SQLLeaf(l, r) = "T"
    <3>1. \A r \in Joined(e.joins) : r \in Rows
      BY DEF Joined
    <3>2. SafeOK(e) <=> (SafeLeaf(l) => \A t \in e.mem :
                           \E r \in Joined(e.joins) : r.task = t /\ e.sql[r] = "T")
      BY <1>1 DEF SafeOK
    <3>3. \A t \in e.mem : t \in repo.tasks /\ MemLeaf(l, t, EngineContext)
      BY <1>1
    <3>4. \A r \in Joined(e.joins) : e.sql[r] = SQLLeaf(l, r)
      BY <1>1, <3>1
    <3> HIDE DEF e
    <3> QED
      BY <3>2, <3>3, <3>4
  <2> DEFINE bare == [task |-> t, iteration |-> None, sla |-> None]
  <2>1. bare \in Rows /\ \A ns \in Joinable : bare[ns] = None
    BY DEF Rows, Joinable
  <2>2. CASE l.form = "compare" /\ l.field.ns \in Joinable
    <3>1. l.form = "compare" /\ HasColumn(l.field)
      BY <2>2 DEF MemLeaf, EngineContext
    <3>2. PICK o \in Owners(l.field.ns, t) :
            MemCompare(o.values[l.field.name], l.op, l.value, repo.teams, CurrentUser)
      BY <2>2 DEF MemLeaf, EngineContext
    <3> DEFINE r == [task |-> t,
                     iteration |-> IF l.field.ns = "iteration" THEN o ELSE None,
                     sla |-> IF l.field.ns = "sla" THEN o ELSE None]
    <3>3. o # None /\ (l.field.ns = "iteration" => o \in repo.iterations)
                   /\ (l.field.ns = "sla" => o \in repo.results)
      BY <2>2 DEF Owners, Joinable, RepositoryOK
    <3>4. r.task = t /\ r[l.field.ns] = o
          /\ \A ns \in Joinable : r[ns] = IF ns = l.field.ns THEN o ELSE None
      BY <2>2 DEF Joinable
    <3>5. r \in [task: repo.tasks, iteration: repo.iterations \cup {None}, sla: repo.results \cup {None}]
      BY <2>2, <3>3 DEF Joinable
    <3>6. r \in Rows
      BY <3>4, <3>5 DEF Rows
    <3>7. e.joins = {l.field.ns}
      BY <1>1, <2>2 DEF LeafNamespace
    <3>8. r \in Joined(e.joins)
      BY <3>3, <3>4, <3>6, <3>7 DEF Joined
    <3>9. SQLCompare(o.values[l.field.name], l.op, l.value, repo.teams) = "T"
      BY <3>1, <3>2, ComparisonAgrees
    <3>10. SQLLeaf(l, r) = "T"
      BY <3>1, <3>3, <3>4, <3>9 DEF SQLLeaf
    <3> QED
      BY <3>4, <3>8, <3>10
  <2>3. CASE l.form = "compare" /\ l.field.ns \notin Joinable
    <3>1. l.field.ns = "task" /\ HasColumn(l.field)
      BY <2>3 DEF PrimaryOK, Namespaces, Joinable, MemLeaf
    <3>2. e.joins = {}
      BY <1>1, <2>3 DEF LeafNamespace
    <3>3. bare \in Joined(e.joins)
      BY <2>1, <3>2 DEF Joined
    <3>4. Owners(l.field.ns, t) = {t} /\ bare[l.field.ns] = t /\ t # None
      BY <3>1 DEF Owners, RepositoryOK
    <3>5. MemCompare(t.values[l.field.name], l.op, l.value, repo.teams, CurrentUser)
      BY <2>3, <3>4 DEF MemLeaf, EngineContext
    <3>6. SQLCompare(t.values[l.field.name], l.op, l.value, repo.teams) = "T"
      BY <2>3, <3>1, <3>4, <3>5, ComparisonAgrees
    <3>7. SQLLeaf(l, bare) = "T"
      BY <2>3, <3>1, <3>4, <3>6 DEF SQLLeaf
    <3> QED
      BY <3>3, <3>7
  <2>4. CASE l.form # "compare"
    <3>1. e.joins = {}
      BY <1>1, <2>4
    <3>2. bare \in Joined(e.joins)
      BY <2>1, <3>1 DEF Joined
    <3>3. ExactLeaf(l)
      BY <2>4 DEF ExactLeaf
    <3>4. bare.task = t
      OBVIOUS
    <3>5. SQLLeaf(l, bare) = "T"
      BY <2>1, <3>3, <3>4, ExactLeafAgrees
    <3> QED
      BY <3>2, <3>4, <3>5
  <2> QED
    BY <2>2, <2>3, <2>4
<1>8. RuleOK(e)
  <2>1. /\ e.rule = {t \in repo.tasks : MemLeaf(l, t, RuleContext)}
        /\ e.impersonal = ImpersonalLeaf(l)
    BY DEF LeafExpr
  <2> QED
    BY <1>1, <2>1, ImpersonalAgrees DEF RuleOK
<1>9. e \in Expr
  BY LeafTyped
<1> QED
  BY <1>3, <1>4, <1>5, <1>6, <1>7, <1>8, <1>9 DEF Good, ExprInv

-----------------------------------------------------------------------------
(***************************************************************************)
(* NOT, AND AND OR                                                         *)
(***************************************************************************)

\* NOT leaves the exact fragment exact, and nothing else safe.
LEMMA NotGood ==
  ASSUME NEW e \in Good
  PROVE  NotExpr(e) \in Good
<1> DEFINE n == NotExpr(e)
<1>1. e \in Expr /\ Local(e) /\ ScopeOK(e) /\ ExactOK(e) /\ RuleOK(e)
  BY DEF Good, ExprInv
<1>2. /\ n.mem = repo.tasks \ e.mem
      /\ n.rule = repo.tasks \ e.rule /\ n.impersonal = e.impersonal
      /\ \A r \in Rows : n.sql[r] = Not3(e.sql[r])
      /\ n.joins = e.joins /\ n.ns = e.ns /\ n.crossOr = e.crossOr
      /\ n.exact = e.exact /\ n.sound = e.exact /\ n.safe = e.exact
      /\ n.unbound = e.unbound
  BY <1>1 DEF NotExpr, Expr
<1>3. n \in Expr
  <2>1. \A r \in Rows : Not3(e.sql[r]) \in {"T", "F", "N"}
    BY <1>1 DEF Expr, Not3
  <2> QED
    BY <1>1, <2>1 DEF NotExpr, Expr
<1>4. Local(n)
  BY <1>1, <1>2 DEF Local
<1>5. ScopeOK(n)
  BY <1>1, <1>2 DEF ScopeOK
<1>6. \A r \in Rows : r.task \in repo.tasks
  BY DEF Rows
<1>7. e.exact => \A r \in Rows : /\ n.sql[r] \in {"T", "F"}
                                 /\ n.sql[r] = "T" <=> r.task \in n.mem
  BY <1>1, <1>2, <1>6 DEF ExactOK, Not3
<1>8. ExactOK(n)
  BY <1>2, <1>7 DEF ExactOK
<1>9. SoundOK(n)
  BY <1>2, <1>7 DEF SoundOK, Joined
<1>10. SafeOK(n)
  <2> SUFFICES ASSUME e.exact, NEW t \in n.mem
               PROVE  \E r \in Joined(n.joins) : r.task = t /\ n.sql[r] = "T"
    BY <1>2 DEF SafeOK
  <2> DEFINE bare == [task |-> t, iteration |-> None, sla |-> None]
  <2>1. t \in repo.tasks /\ n.joins = {}
    BY <1>1, <1>2 DEF ScopeOK
  <2>2. bare \in Joined({})
    BY <2>1 DEF Joined, Rows, Joinable
  <2>3. bare \in Rows /\ bare.task = t
    BY <2>2 DEF Joined
  <2>4. n.sql[bare] = "T"
    BY <1>7, <2>3
  <2> QED
    BY <2>1, <2>2, <2>3, <2>4
<1>11. RuleOK(n)
  BY <1>1, <1>2 DEF RuleOK
<1> QED
  BY <1>3, <1>4, <1>5, <1>8, <1>9, <1>10, <1>11 DEF Good, ExprInv

\* The record of AND or OR, and the types of its fields.
LEMMA BinaryFields ==
  ASSUME NEW a \in Good, NEW b \in Good, NEW op \in {"AND", "OR"}
  PROVE  LET e == BinaryExpr(op, a, b)
         IN  /\ e \in Expr
             /\ op = "AND" => e.mem = a.mem \cap b.mem
             /\ op = "OR" => e.mem = a.mem \cup b.mem
             /\ op = "AND" => e.rule = a.rule \cap b.rule
             /\ op = "OR" => e.rule = a.rule \cup b.rule
             /\ (e.impersonal <=> a.impersonal /\ b.impersonal)
             /\ \A r \in Rows : e.sql[r] = Connective(op, a.sql[r], b.sql[r])
             /\ e.joins = a.joins \cup b.joins /\ e.ns = a.ns \cup b.ns
             /\ (e.unbound <=> a.unbound \/ b.unbound)
             /\ (e.crossOr <=> CrossOr(op, a, b))
             /\ (e.exact <=> a.exact /\ b.exact) /\ (e.sound <=> a.sound /\ b.sound)
             /\ (e.safe <=> a.safe /\ b.safe /\ (op = "AND" => a.joins \cap b.joins = {}))
<1>1. a \in Expr /\ b \in Expr
  BY DEF Good
<1>2. \A r \in Rows : Connective(op, a.sql[r], b.sql[r]) \in {"T", "F", "N"}
  BY <1>1 DEF Expr, Connective, And3, Or3
<1>3. CrossOr(op, a, b) \in BOOLEAN
  BY DEF CrossOr
<1> QED
  BY <1>1, <1>2, <1>3 DEF BinaryExpr, Expr

LEMMA ConnectiveTrue ==
  ASSUME NEW x \in {"T", "F", "N"}, NEW y \in {"T", "F", "N"}
  PROVE  /\ Connective("AND", x, y) = "T" <=> x = "T" /\ y = "T"
         /\ Connective("OR", x, y) = "T" <=> x = "T" \/ y = "T"
         /\ \A op \in {"AND", "OR"} :
              x # "N" /\ y # "N" => Connective(op, x, y) \in {"T", "F"}
BY DEF Connective, And3, Or3

LEMMA BinaryScope ==
  ASSUME NEW a \in Good, NEW b \in Good, NEW op \in {"AND", "OR"}
  PROVE  ScopeOK(BinaryExpr(op, a, b))
<1>1. ScopeOK(a) /\ ScopeOK(b) /\ a \in Expr /\ b \in Expr
  BY DEF Good, ExprInv
<1>2. CrossOr(op, a, b) => \E x \in a.ns \cup b.ns : \E y \in a.ns \cup b.ns : x # y
  BY <1>1 DEF CrossOr, ScopeOK
<1>3. a.exact /\ b.exact => a.joins \cap b.joins = {} /\ a.joins \cup b.joins = {}
  BY <1>1 DEF ScopeOK
<1>4. a.sound /\ b.sound => a.joins \cup b.joins = (a.ns \cup b.ns) \cap Joinable
  BY <1>1 DEF ScopeOK
<1> QED
  BY <1>1, <1>2, <1>3, <1>4, BinaryFields DEF ScopeOK

LEMMA BinaryLocal ==
  ASSUME NEW a \in Good, NEW b \in Good, NEW op \in {"AND", "OR"}
  PROVE  Local(BinaryExpr(op, a, b))
<1> DEFINE e == BinaryExpr(op, a, b)
<1>1. Local(a) /\ Local(b)
  BY DEF Good, ExprInv
<1>2. /\ \A r \in Rows : e.sql[r] = Connective(op, a.sql[r], b.sql[r])
      /\ e.joins = a.joins \cup b.joins
  BY BinaryFields
<1> SUFFICES ASSUME NEW q \in Rows, NEW r \in Rows, q.task = r.task, \A ns \in e.joins : q[ns] = r[ns]
             PROVE  e.sql[q] = e.sql[r]
  BY DEF Local
<1>3. a.sql[q] = a.sql[r] /\ b.sql[q] = b.sql[r]
  BY <1>1, <1>2 DEF Local
<1> QED
  BY <1>2, <1>3

LEMMA BinaryExact ==
  ASSUME NEW a \in Good, NEW b \in Good, NEW op \in {"AND", "OR"}
  PROVE  ExactOK(BinaryExpr(op, a, b))
<1> DEFINE e == BinaryExpr(op, a, b)
<1>1. /\ \A r \in Rows : e.sql[r] = Connective(op, a.sql[r], b.sql[r])
      /\ op = "AND" => e.mem = a.mem \cap b.mem
      /\ op = "OR" => e.mem = a.mem \cup b.mem
      /\ (e.exact <=> a.exact /\ b.exact)
  BY BinaryFields
<1> SUFFICES ASSUME a.exact, b.exact, NEW r \in Rows
             PROVE  e.sql[r] \in {"T", "F"} /\ (e.sql[r] = "T" <=> r.task \in e.mem)
  BY <1>1 DEF ExactOK
<1>2. /\ a.sql[r] \in {"T", "F"} /\ (a.sql[r] = "T" <=> r.task \in a.mem)
      /\ b.sql[r] \in {"T", "F"} /\ (b.sql[r] = "T" <=> r.task \in b.mem)
  BY DEF Good, ExprInv, ExactOK
<1>3. CASE op = "AND"
  BY <1>1, <1>2, <1>3, ConnectiveTrue
<1>4. CASE op = "OR"
  BY <1>1, <1>2, <1>4, ConnectiveTrue
<1> QED
  BY <1>3, <1>4

\* A condition read from a row with more joins than it has is the same.
LEMMA PartSound ==
  ASSUME RepositoryOK(repo), NEW a \in Good, a.sound, NEW ks, a.joins \subseteq ks,
         ks \subseteq Joinable, NEW r \in Joined(ks), a.sql[r] = "T"
  PROVE  r.task \in a.mem
<1>1. Local(a) /\ SoundOK(a)
  BY DEF Good, ExprInv
<1>2. PICK p \in Joined(a.joins) : p.task = r.task /\ \A ns \in a.joins : p[ns] = r[ns]
  BY ProjectedRow
<1>3. p \in Rows /\ r \in Rows
  BY DEF Joined
<1>4. a.sql[p] = "T"
  BY <1>1, <1>2, <1>3 DEF Local
<1> QED
  BY <1>1, <1>2, <1>4 DEF SoundOK

LEMMA BinarySound ==
  ASSUME RepositoryOK(repo), NEW a \in Good, NEW b \in Good, NEW op \in {"AND", "OR"}
  PROVE  SoundOK(BinaryExpr(op, a, b))
<1> DEFINE e == BinaryExpr(op, a, b)
<1>1. /\ \A r \in Rows : e.sql[r] = Connective(op, a.sql[r], b.sql[r])
      /\ op = "AND" => e.mem = a.mem \cap b.mem
      /\ op = "OR" => e.mem = a.mem \cup b.mem
      /\ (e.sound <=> a.sound /\ b.sound) /\ e.joins = a.joins \cup b.joins
  BY BinaryFields
<1> SUFFICES ASSUME a.sound, b.sound, NEW r \in Joined(e.joins), e.sql[r] = "T"
             PROVE  r.task \in e.mem
  BY <1>1 DEF SoundOK
<1>2. r \in Rows /\ a \in Expr /\ b \in Expr
  BY DEF Joined, Good
<1>3. a.sql[r] \in {"T", "F", "N"} /\ b.sql[r] \in {"T", "F", "N"} /\ e.joins \subseteq Joinable
  BY <1>1, <1>2 DEF Expr
<1>4. a.sql[r] = "T" => r.task \in a.mem
  BY <1>1, <1>3, PartSound
<1>5. b.sql[r] = "T" => r.task \in b.mem
  BY <1>1, <1>3, PartSound
<1>6. CASE op = "AND"
  BY <1>1, <1>2, <1>3, <1>4, <1>5, <1>6, ConnectiveTrue
<1>7. CASE op = "OR"
  BY <1>1, <1>2, <1>3, <1>4, <1>5, <1>7, ConnectiveTrue
<1> QED
  BY <1>6, <1>7

\* Both sides of an OR without crossOr have the same joins, and an AND of
\* safe sides has disjoint ones, so that their rows merge.
LEMMA BinarySafe ==
  ASSUME RepositoryOK(repo), NEW a \in Good, NEW b \in Good, NEW op \in {"AND", "OR"}
  PROVE  SafeOK(BinaryExpr(op, a, b))
<1> DEFINE e == BinaryExpr(op, a, b)
<1>1. /\ \A r \in Rows : e.sql[r] = Connective(op, a.sql[r], b.sql[r])
      /\ op = "AND" => e.mem = a.mem \cap b.mem
      /\ op = "OR" => e.mem = a.mem \cup b.mem
      /\ (e.safe <=> a.safe /\ b.safe /\ (op = "AND" => a.joins \cap b.joins = {}))
      /\ e.joins = a.joins \cup b.joins /\ (e.crossOr <=> CrossOr(op, a, b))
  BY BinaryFields
<1> SUFFICES ASSUME a.safe, b.safe, op = "AND" => a.joins \cap b.joins = {},
                    ~CrossOr(op, a, b), NEW t \in e.mem
             PROVE  \E r \in Joined(e.joins) : r.task = t /\ e.sql[r] = "T"
  BY <1>1 DEF SafeOK
<1>2. /\ a \in Expr /\ Local(a) /\ ScopeOK(a) /\ SafeOK(a)
      /\ b \in Expr /\ Local(b) /\ ScopeOK(b) /\ SafeOK(b)
  BY DEF Good, ExprInv
<1>3. ~a.crossOr /\ ~b.crossOr
  BY DEF CrossOr
<1>4. \A js : \A r \in Joined(js) : r \in Rows
  BY DEF Joined
<1>5. \A r \in Rows : a.sql[r] \in {"T", "F", "N"} /\ b.sql[r] \in {"T", "F", "N"}
  BY <1>2 DEF Expr
<1>6. CASE op = "AND"
  <2>1. t \in a.mem /\ t \in b.mem
    BY <1>1, <1>6
  <2>2. PICK q \in Joined(a.joins) : q.task = t /\ a.sql[q] = "T"
    BY <1>2, <1>3, <2>1 DEF SafeOK
  <2>3. PICK r \in Joined(b.joins) : r.task = t /\ b.sql[r] = "T"
    BY <1>2, <1>3, <2>1 DEF SafeOK
  <2>4. a.joins \subseteq Joinable /\ b.joins \subseteq Joinable
    BY <1>2 DEF Expr
  <2> HIDE DEF e
  <2>5. PICK p \in Joined(a.joins \cup b.joins) :
          /\ p.task = q.task
          /\ \A ns \in a.joins : p[ns] = q[ns]
          /\ \A ns \in b.joins : p[ns] = r[ns]
    <3>1. q.task = r.task
      BY <2>2, <2>3
    <3>2. a.joins \cap b.joins = {}
      BY <1>6
    <3>3. PICK p \in Joined(a.joins \cup b.joins) :
            p.task = q.task /\ SameJoins(p, q, a.joins) /\ SameJoins(p, r, b.joins)
      BY <2>4, <3>1, <3>2, MergedRow
    <3> QED
      BY <3>3 DEF SameJoins
  <2>6. a.sql[p] = "T" /\ b.sql[p] = "T"
    BY <1>2, <1>4, <2>2, <2>3, <2>5 DEF Local
  <2>7. e.sql[p] = "T"
    BY <1>1, <1>4, <1>5, <1>6, <2>5, <2>6, ConnectiveTrue
  <2> QED
    BY <1>1, <2>2, <2>5, <2>7
<1>7. CASE op = "OR"
  <2>1. a.ns = b.ns
    BY <1>2, <1>7 DEF CrossOr, ScopeOK
  <2>2. a.joins = e.joins /\ b.joins = e.joins
    BY <1>1, <1>2, <2>1 DEF ScopeOK
  <2>3. t \in a.mem \/ t \in b.mem
    BY <1>1, <1>7
  <2>4. PICK r \in Joined(e.joins) : r.task = t /\ (a.sql[r] = "T" \/ b.sql[r] = "T")
    BY <1>2, <1>3, <2>2, <2>3 DEF SafeOK
  <2>5. e.sql[r] = "T"
    BY <1>1, <1>4, <1>5, <1>7, <2>4, ConnectiveTrue
  <2> QED
    BY <2>4, <2>5
<1> QED
  BY <1>6, <1>7

LEMMA BinaryRule ==
  ASSUME NEW a \in Good, NEW b \in Good, NEW op \in {"AND", "OR"}
  PROVE  RuleOK(BinaryExpr(op, a, b))
<1> DEFINE e == BinaryExpr(op, a, b)
<1>1. RuleOK(a) /\ RuleOK(b)
  BY DEF Good, ExprInv
<1>2. /\ op = "AND" => e.mem = a.mem \cap b.mem /\ e.rule = a.rule \cap b.rule
      /\ op = "OR" => e.mem = a.mem \cup b.mem /\ e.rule = a.rule \cup b.rule
      /\ (e.impersonal <=> a.impersonal /\ b.impersonal)
  BY BinaryFields
<1> HIDE DEF e
<1>3. e.impersonal => e.rule = e.mem
  BY <1>1, <1>2 DEF RuleOK
<1> QED
  BY <1>3 DEF RuleOK, e

LEMMA BinaryGood ==
  ASSUME RepositoryOK(repo), NEW a \in Good, NEW b \in Good, NEW op \in {"AND", "OR"}
  PROVE  BinaryExpr(op, a, b) \in Good
BY BinaryFields, BinaryScope, BinaryLocal, BinaryExact, BinarySound, BinarySafe, BinaryRule
   DEF Good, ExprInv

-----------------------------------------------------------------------------
(***************************************************************************)
(* THE STACK                                                               *)
(***************************************************************************)

\* Every expression on the stack is good, and the nodes that combine what is
\* open are within the bound.
QueryInv ==
  /\ repo \in Repositories
  /\ nodes \in Nat /\ nodes <= MaxNodes
  /\ stack \in Seq(Good)
  /\ stack # << >> => nodes + Len(stack) - 1 <= MaxNodes

\* The repository does not change, so neither does what an expression is.
LEMMA GoodUnchanged ==
  ASSUME repo' = repo
  PROVE  Good' = Good
<1>1. Rows' = Rows
  BY DEF Rows, Owners
<1>2. \A js : Joined(js)' = Joined(js)
  BY <1>1 DEF Joined
<1>3. Expr' = Expr
  BY <1>1 DEF Expr
<1>4. \A e : ExprInv(e)' <=> ExprInv(e)
  BY <1>1, <1>2 DEF ExprInv, Local, ScopeOK, ExactOK, SoundOK, SafeOK
<1> QED
  BY <1>3, <1>4 DEF Good

LEMMA QueryInvInit ==
  ASSUME Init
  PROVE  QueryInv
BY QueryAssumption DEF Init, QueryInv

LEMMA QueryInvStep ==
  ASSUME QueryInv, [Next]_vars
  PROVE  QueryInv'
<1> USE DEF QueryInv
<1>1. RepositoryOK(repo) /\ \A l \in Primaries : PrimaryOK(l)
  BY QueryAssumption
<1>2. MaxNodes \in Nat
  BY QueryAssumption
<1>4. ASSUME NEW l \in Primaries, Primary(l)
      PROVE  QueryInv'
  <2>1. LeafExpr(l) \in Good
    BY <1>1, LeafGood
  <2>2. stack' \in Seq(Good) /\ Len(stack') = Len(stack) + 1
    BY <1>4, <2>1 DEF Primary
  <2>3. stack' \in Seq(Good')
    BY <1>4, <2>2, GoodUnchanged DEF Primary
  <2> QED
    BY <1>2, <1>4, <2>2, <2>3 DEF Primary
<1>5. ASSUME Negate
      PROVE  QueryInv'
  <2>1. Len(stack) \in Nat /\ Len(stack) >= 1 /\ stack[Len(stack)] \in Good
    BY <1>5 DEF Negate
  <2>2. NotExpr(stack[Len(stack)]) \in Good
    BY <2>1, NotGood
  <2>3. stack' \in Seq(Good) /\ Len(stack') = Len(stack)
    BY <1>5, <2>1, <2>2 DEF Negate, Top
  <2>4. stack' \in Seq(Good')
    BY <1>5, <2>3, GoodUnchanged DEF Negate
  <2> QED
    BY <1>2, <1>5, <2>1, <2>3, <2>4 DEF Negate, Top
<1>6. ASSUME NEW op \in {"AND", "OR"}, Combine(op)
      PROVE  QueryInv'
  <2>1. /\ Len(stack) \in Nat /\ Len(stack) >= 2
        /\ stack[Len(stack) - 1] \in Good /\ stack[Len(stack)] \in Good
        /\ stack \in Seq(Good)
    BY <1>6 DEF Combine
  <2>2. BinaryExpr(op, stack[Len(stack) - 1], stack[Len(stack)]) \in Good
    BY <1>1, <2>1, BinaryGood
  <2>3. /\ SubSeq(stack, 1, Len(stack) - 2) \in Seq(Good)
        /\ Len(SubSeq(stack, 1, Len(stack) - 2)) = Len(stack) - 2
    <3>1. \A i \in 1 .. Len(stack) - 2 : stack[i] \in Good
      BY <2>1
    <3>2. CASE Len(stack) = 2
      BY <3>2, SubSeqEmpty
    <3>3. CASE Len(stack) > 2
      BY <2>1, <3>1, <3>3, SubSeqProperties
    <3>4. Len(stack) = 2 \/ Len(stack) > 2
      <4> DEFINE n == Len(stack)
      <4>1. n \in Nat /\ n >= 2
        BY <2>1
      <4> HIDE DEF n
      <4>2. n = 2 \/ n > 2
        BY <4>1
      <4> QED
        BY <4>2 DEF n
    <3> QED
      BY <3>2, <3>3, <3>4
  <2>4. stack' \in Seq(Good) /\ Len(stack') = Len(stack) - 1
    BY <1>6, <2>1, <2>2, <2>3 DEF Combine, Top
  <2>5. stack' \in Seq(Good')
    BY <1>6, <2>4, GoodUnchanged DEF Combine
  <2>6. repo' \in Repositories
    BY <1>6 DEF Combine
  <2>7. nodes + Len(stack) - 1 <= MaxNodes /\ nodes' = nodes + 1 /\ nodes \in Nat
    BY <1>6, <2>1 DEF Combine
  <2>8. nodes' \in Nat /\ nodes' <= MaxNodes /\ nodes' + Len(stack') - 1 <= MaxNodes
    BY <1>2, <2>1, <2>4, <2>7
  <2> QED
    BY <2>5, <2>6, <2>8
<1>7. CASE UNCHANGED vars
  <2>1. Good' = Good
    BY <1>7, GoodUnchanged DEF vars
  <2> QED
    BY <1>7, <2>1 DEF vars
<1> QED
  BY <1>4, <1>5, <1>6, <1>7 DEF Next

LEMMA QueryInvariant == Spec => []QueryInv
<1>1. Init => QueryInv
  BY QueryInvInit
<1>2. QueryInv /\ [Next]_vars => QueryInv'
  BY QueryInvStep
<1> QED
  BY <1>1, <1>2, PTL DEF Spec

-----------------------------------------------------------------------------
(***************************************************************************)
(* THE PROPERTIES                                                          *)
(***************************************************************************)

\* A validated expression has no OR across namespaces.
LEMMA ValidNotCross ==
  ASSUME NEW e \in Good, Valid(e)
  PROVE  ~e.crossOr
<1>1. IsFiniteSet(e.ns)
  <2>1. e.ns \subseteq {"task", "iteration", "sla"}
    BY DEF Good, Expr, Namespaces
  <2>2. IsFiniteSet({"task", "iteration", "sla"})
    <3>1. IsFiniteSet({"task"}) /\ IsFiniteSet({"iteration"}) /\ IsFiniteSet({"sla"})
      BY FS_Singleton
    <3>2. IsFiniteSet({"task"} \cup {"iteration"})
      BY <3>1, FS_Union
    <3>3. IsFiniteSet(({"task"} \cup {"iteration"}) \cup {"sla"})
      BY <3>1, <3>2, FS_Union
    <3>4. {"task", "iteration", "sla"} = ({"task"} \cup {"iteration"}) \cup {"sla"}
      OBVIOUS
    <3> QED
      BY <3>3, <3>4
  <2> QED
    BY <2>1, <2>2, FS_Subset
<1>2. SUFFICES ASSUME e.crossOr PROVE Cardinality(e.ns) > 1
  BY DEF Valid
<1>3. PICK x \in e.ns, y \in e.ns : x # y
  BY <1>2 DEF Good, ExprInv, ScopeOK
<1>4. IsFiniteSet({x} \cup {y}) /\ Cardinality({x} \cup {y}) = 2
  <2>1. Cardinality({x}) = 1 /\ IsFiniteSet({x})
    BY FS_Singleton
  <2>2. Cardinality({x} \cup {y}) = Cardinality({x}) + 1 /\ IsFiniteSet({x} \cup {y})
    BY <1>3, <2>1, FS_AddElement
  <2> QED
    BY <2>1, <2>2
<1>5. Cardinality({x} \cup {y}) <= Cardinality(e.ns) /\ Cardinality(e.ns) \in Nat
  <2>1. {x} \cup {y} \subseteq e.ns
    BY <1>3
  <2> QED
    BY <1>1, <2>1, FS_Subset, FS_CardinalityType
<1> QED
  BY <1>4, <1>5

LEMMA OnStack ==
  ASSUME QueryInv, NEW e \in Expressions
  PROVE  e \in Good
BY DEF QueryInv, Expressions

\* The answer of a sound expression holds only tasks the evaluator selects.
LEMMA SoundAnswer ==
  ASSUME NEW e \in Good, e.sound
  PROVE  SQLAnswer(e) \subseteq MemAnswer(e)
<1>1. SoundOK(e)
  BY DEF Good, ExprInv
<1>2. SUFFICES ASSUME NEW r \in Joined(e.joins), ~r.task.stub, e.sql[r] = "T"
               PROVE  r.task \in MemAnswer(e)
  BY DEF SQLAnswer
<1>3. r.task \in e.mem
  BY <1>1, <1>2 DEF SoundOK
<1> QED
  BY <1>2, <1>3 DEF MemAnswer

\* The answer of a safe one holds all of them.
LEMMA SafeAnswer ==
  ASSUME NEW e \in Good, e.safe, Valid(e)
  PROVE  MemAnswer(e) \subseteq SQLAnswer(e)
<1>1. SafeOK(e) /\ ~e.crossOr
  BY ValidNotCross DEF Good, ExprInv
<1>2. SUFFICES ASSUME NEW t \in e.mem, ~t.stub
               PROVE  t \in SQLAnswer(e)
  BY DEF MemAnswer
<1>3. PICK r \in Joined(e.joins) : r.task = t /\ e.sql[r] = "T"
  BY <1>1 DEF SafeOK
<1> QED
  BY <1>2, <1>3 DEF SQLAnswer

\* A rule that asks for no user and no results selects as the evaluator does
\* for the engine's.
LEMMA RuleAnswers ==
  ASSUME NEW e \in Good, e.impersonal
  PROVE  RuleAnswer(e) = MemAnswer(e)
BY DEF Good, ExprInv, RuleOK, RuleAnswer, MemAnswer

(***************************************************************************)
(* The variables have their types, whatever is queried: every pass returns *)
(* for every expression what its callers expect (eval.go, compiler.go,     *)
(* validate.go).                                                           *)
(***************************************************************************)
THEOREM TypeCorrect == Spec => []TypeOK
<1>1. QueryInv => TypeOK
  <2> SUFFICES ASSUME QueryInv PROVE TypeOK
    OBVIOUS
  <2>1. repo \in Repositories /\ nodes \in 0..MaxNodes
    BY QueryAssumption DEF QueryInv
  <2>2. \A e \in Expr : ExpressionOK(e)
    BY DEF Expr, ExpressionOK
  <2> QED
    BY <2>1, <2>2, OnStack DEF TypeOK, Good
<1> QED
  BY <1>1, QueryInvariant, PTL

(***************************************************************************)
(* SafeQueriesAgree: Engine.Query and the evaluator, given the same user   *)
(* and SLA results, select the same tasks for every validated expression   *)
(* of the safe fragment, of any size and on any repository; so does an SLA *)
(* rule (sla.go:37) with a text that asks for neither.                     *)
(***************************************************************************)
THEOREM EnginesAgree == Spec => []SafeQueriesAgree
<1>1. QueryInv => SafeQueriesAgree
  <2> SUFFICES ASSUME QueryInv, NEW e \in Expressions, e.safe, Valid(e)
               PROVE  /\ ~e.unbound
                      /\ SQLAnswer(e) = MemAnswer(e)
                      /\ e.impersonal => SQLAnswer(e) = RuleAnswer(e)
    BY DEF SafeQueriesAgree
  <2>1. e \in Good
    BY OnStack
  <2>2. e.sound /\ ~e.unbound
    BY <2>1 DEF Good, ExprInv, ScopeOK
  <2> QED
    BY <2>1, <2>2, SoundAnswer, SafeAnswer, RuleAnswers
<1> QED
  BY <1>1, QueryInvariant, PTL

(***************************************************************************)
(* SQLAddsNothing: without the conditions on AND and on the validator, the *)
(* compiled query still returns no task the evaluator rejects for the same *)
(* user and SLA results, nor one that a rule without use of them rejects.  *)
(***************************************************************************)
THEOREM SQLSound == Spec => []SQLAddsNothing
<1>1. QueryInv => SQLAddsNothing
  BY OnStack, SoundAnswer, RuleAnswers DEF SQLAddsNothing
<1> QED
  BY <1>1, QueryInvariant, PTL

\* The rows an answer is taken from.
LEMMA Answered ==
  ASSUME NEW e, NEW t
  PROVE  t \in SQLAnswer(e)
           <=> \E r \in Joined(e.joins) : r.task = t /\ ~t.stub /\ e.sql[r] = "T"
BY DEF SQLAnswer

\* A row that satisfies AND gives one that satisfies the left side.
LEMMA NarrowedBy ==
  ASSUME RepositoryOK(repo), NEW a \in Good, NEW ks, a.joins \subseteq ks, ks \subseteq Joinable,
         NEW r \in Joined(ks), ~r.task.stub, a.sql[r] = "T"
  PROVE  r.task \in SQLAnswer(a)
<1>1. Local(a)
  BY DEF Good, ExprInv
<1>2. PICK p \in Joined(a.joins) : p.task = r.task /\ \A ns \in a.joins : p[ns] = r[ns]
  BY ProjectedRow
<1>3. p \in Rows /\ r \in Rows
  BY DEF Joined
<1>4. a.sql[p] = "T"
  BY <1>1, <1>2, <1>3 DEF Local
<1> QED
  BY <1>2, <1>4, Answered

LEMMA AndAnswer ==
  ASSUME RepositoryOK(repo), NEW a \in Good, NEW b \in Good
  PROVE  SQLAnswer(BinaryExpr("AND", a, b)) \subseteq SQLAnswer(a) \cap SQLAnswer(b)
<1> DEFINE e == BinaryExpr("AND", a, b)
<1>1. /\ \A r \in Rows : e.sql[r] = Connective("AND", a.sql[r], b.sql[r])
      /\ e.joins = a.joins \cup b.joins
  BY BinaryFields
<1>2. SUFFICES ASSUME NEW r \in Joined(e.joins), ~r.task.stub, e.sql[r] = "T"
               PROVE  r.task \in SQLAnswer(a) \cap SQLAnswer(b)
  BY Answered
<1>3. r \in Rows /\ a \in Expr /\ b \in Expr
  BY DEF Joined, Good
<1>4. a.sql[r] \in {"T", "F", "N"} /\ b.sql[r] \in {"T", "F", "N"} /\ e.joins \subseteq Joinable
  BY <1>1, <1>3 DEF Expr
<1>5. a.sql[r] = "T" /\ b.sql[r] = "T"
  BY <1>1, <1>2, <1>3, <1>4, ConnectiveTrue
<1>6. r.task \in SQLAnswer(a)
  BY <1>1, <1>2, <1>4, <1>5, NarrowedBy
<1>7. r.task \in SQLAnswer(b)
  BY <1>1, <1>2, <1>4, <1>5, NarrowedBy
<1> QED
  BY <1>6, <1>7

LEMMA OrAnswer ==
  ASSUME NEW a \in Good, NEW b \in Good, BinaryExpr("OR", a, b) \in Good,
         Valid(BinaryExpr("OR", a, b)),
         a.joins = a.ns \cap Joinable, b.joins = b.ns \cap Joinable
  PROVE  SQLAnswer(a) \cup SQLAnswer(b) \subseteq SQLAnswer(BinaryExpr("OR", a, b))
<1> DEFINE e == BinaryExpr("OR", a, b)
<1>1. /\ \A r \in Rows : e.sql[r] = Connective("OR", a.sql[r], b.sql[r])
      /\ e.joins = a.joins \cup b.joins /\ (e.crossOr <=> CrossOr("OR", a, b))
  BY BinaryFields
<1>2. a \in Expr /\ ScopeOK(a) /\ b \in Expr /\ ScopeOK(b)
  BY DEF Good, ExprInv
<1>3. ~CrossOr("OR", a, b)
  BY <1>1, ValidNotCross
<1>4. a.ns = b.ns
  BY <1>2, <1>3 DEF CrossOr, ScopeOK
<1>5. a.joins = e.joins /\ b.joins = e.joins
  BY <1>1, <1>4
<1>6. \A r \in Joined(e.joins) : a.sql[r] = "T" \/ b.sql[r] = "T" => e.sql[r] = "T"
  <2> SUFFICES ASSUME NEW r \in Joined(e.joins), a.sql[r] = "T" \/ b.sql[r] = "T"
               PROVE  e.sql[r] = "T"
    OBVIOUS
  <2>1. r \in Rows
    BY DEF Joined
  <2>2. a.sql[r] \in {"T", "F", "N"} /\ b.sql[r] \in {"T", "F", "N"}
    BY <1>2, <2>1 DEF Expr
  <2> QED
    BY <1>1, <2>1, <2>2, ConnectiveTrue
<1> HIDE DEF e
<1> QED
  BY <1>5, <1>6, Answered DEF e

\* What a step of the parser combines, and where the result is.
LEMMA Combined ==
  ASSUME QueryInv, NEW op \in {"AND", "OR"}, Combine(op)
  PROVE  /\ stack[Top - 1] \in Good /\ stack[Top] \in Good
         /\ stack'[Len(stack')] = BinaryExpr(op, stack[Top - 1], stack[Top])
<1>1. stack \in Seq(Good) /\ Len(stack) \in Nat /\ Len(stack) >= 2
  BY DEF QueryInv, Combine
<1>2. stack[Top - 1] \in Good /\ stack[Top] \in Good
  BY <1>1 DEF Top
<1> DEFINE rest == SubSeq(stack, 1, Len(stack) - 2)
           e == BinaryExpr(op, stack[Top - 1], stack[Top])
<1>3. rest \in Seq(Good)
  <2>1. \A i \in 1 .. Len(stack) - 2 : stack[i] \in Good
    BY <1>1
  <2>2. Len(stack) - 2 \in Int
    BY <1>1
  <2> QED
    BY <2>1, <2>2, SubSeqProperties
<1>4. e \in Good
  BY <1>2, BinaryGood, QueryAssumption DEF QueryInv
<1>5. stack' = Append(rest, e)
  BY DEF Combine, Top
<1> HIDE DEF rest, e
<1>6. stack'[Len(stack')] = e
  BY <1>3, <1>4, <1>5
<1> QED
  BY <1>2, <1>6 DEF e

(***************************************************************************)
(* AndNarrows: putting AND between two queries only removes tasks, on any  *)
(* repository and for expressions of any size.                             *)
(***************************************************************************)
THEOREM AndNarrowsAlways == Spec => AndNarrows
<1> DEFINE narrows ==
      SQLAnswer(stack'[Len(stack')]) \subseteq SQLAnswer(stack[Top - 1]) \cap SQLAnswer(stack[Top])
<1>1. QueryInv /\ [Next]_vars => [Combine("AND") => narrows]_vars
  <2> SUFFICES ASSUME QueryInv, Combine("AND") PROVE narrows
    OBVIOUS
  <2>1. RepositoryOK(repo)
    BY QueryAssumption DEF QueryInv
  <2>2. /\ stack[Top - 1] \in Good /\ stack[Top] \in Good
        /\ stack'[Len(stack')] = BinaryExpr("AND", stack[Top - 1], stack[Top])
    BY Combined
  <2>3. SQLAnswer(BinaryExpr("AND", stack[Top - 1], stack[Top]))
          \subseteq SQLAnswer(stack[Top - 1]) \cap SQLAnswer(stack[Top])
    BY <2>1, <2>2, AndAnswer
  <2> QED
    BY <2>2, <2>3
<1> QED
  BY <1>1, QueryInvariant, PTL DEF Spec, AndNarrows

(***************************************************************************)
(* OrWidens: an OR that the validator accepts loses no task of either      *)
(* side, although joins are inner: that is what rejecting OR across        *)
(* namespaces (validate.go:288) is enough for.                             *)
(***************************************************************************)
THEOREM OrWidensAlways == Spec => OrWidens
<1> DEFINE a == stack[Top - 1]
           b == stack[Top]
           e == stack'[Len(stack')]
           widens == Valid(e) /\ a.joins = a.ns \cap Joinable /\ b.joins = b.ns \cap Joinable
                       => SQLAnswer(a) \cup SQLAnswer(b) \subseteq SQLAnswer(e)
<1>1. QueryInv /\ [Next]_vars => [Combine("OR") => widens]_vars
  <2> SUFFICES ASSUME QueryInv, Combine("OR") PROVE widens
    OBVIOUS
  <2>1. a \in Good /\ b \in Good /\ e = BinaryExpr("OR", a, b)
    BY Combined
  <2>2. BinaryExpr("OR", a, b) \in Good
    BY <2>1, BinaryGood, QueryAssumption DEF QueryInv
  <2> HIDE DEF a, b, e
  <2> QED
    BY <2>1, <2>2, OrAnswer
<1> QED
  BY <1>1, QueryInvariant, PTL DEF Spec, OrWidens

=============================================================================
