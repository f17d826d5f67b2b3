----------------------------- MODULE Comparison -----------------------------
(***************************************************************************)
(* One predicate of the query language, evaluated twice.                   *)
(*                                                                         *)
(* query/eval.go decides a predicate on the tasks in memory, for a user    *)
(* that its caller names: the conformance tests name one, evaluateSLA,     *)
(* which selects the tasks of an SLA rule, names none.  sql/compiler.go    *)
(* turns the same predicate into a condition on the rows store.go wrote,   *)
(* and Engine.Query runs that.  query/validate.go decides which predicates *)
(* a query may have.  This module holds the three, Query.tla what becomes  *)
(* of predicates under AND, OR and NOT.                                    *)
(*                                                                         *)
(* A field value is [type, set, text, num]: type "text", "time",           *)
(* "duration" or "number"; set is FALSE for a value that is absent; text   *)
(* is what the column holds (Time.Format, Duration.String), num the        *)
(* instant, the minutes or the number in memory.  The two need not agree:  *)
(* Format drops parts of a second, String rounds to a tenth of an hour.    *)
(*                                                                         *)
(* A literal is [is, text] with is "string", "number" or "ident"; a value  *)
(* is a literal, [is |-> "func", name, args] or [is |-> "list", items].    *)
(***************************************************************************)
EXTENDS Integers, Sequences, FiniteSets

CONSTANTS
  None,          \* no instant, no duration, no number, no row to join with
  Texts,         \* the texts that occur in the repository and in queries
  Rank,          \* Rank[x]: the place of x among them in the order of bytes
  Contained,     \* << x, y >>: y occurs in x, both in lower case
  Like,          \* << x, y >>: x LIKE '%' || y || '%' holds
  LikeWhole,     \* << x, y >>: x LIKE y holds
  SameFold,      \* << x, y >>: strings.EqualFold
  Instant,       \* Instant[x]: time.Parse of x, or None
  Minutes,       \* Minutes[x]: model.ParseDuration of x, or None
  Number,        \* Number[x]: the number SQLite reads x as, or None
  RelativeDates, \* the texts looksLikeRelativeDate accepts
  DateInstant,   \* DateInstant[x]: query.ResolveDate of x, or None
  DateText,      \* DateText[x]: engineContext.ResolveDate of x
  TeamText,      \* TeamText[x]: "team:" followed by x
  CurrentUser    \* of the engine: the option WithCurrentUser, "" when not given

Empty == ""  \* the empty text

IntOrNone == Int \cup {None}

ASSUME ComparisonAssumption ==
  /\ None \notin Int /\ None \notin Texts
  /\ Empty \in Texts /\ CurrentUser \in Texts
  /\ Rank \in [Texts -> Nat]
  /\ \A x, y \in Texts : Rank[x] = Rank[y] => x = y
  /\ \A x \in Texts : Rank[Empty] <= Rank[x]
  /\ Instant \in [Texts -> IntOrNone] /\ Minutes \in [Texts -> IntOrNone]
  /\ Number \in [Texts -> IntOrNone] /\ DateInstant \in [Texts -> IntOrNone]
  /\ DateText \in [Texts -> Texts]
  /\ TeamText \in [Texts -> Texts \ {Empty}]

-----------------------------------------------------------------------------
(***************************************************************************)
(* FIELDS                                                                  *)
(***************************************************************************)

\* The fields of validate.go, by namespace and by the type of their values.
FieldsOf(ns) ==
  CASE ns = "task" ->
         [text |-> {"status", "assignee", "path", "summary", "type"},
          time |-> {"due", "created_at", "updated_at"},
          duration |-> {"estimate"}, number |-> {"weight"},
          list |-> {"dependencies", "labels"}]
    [] ns = "iteration" ->
         [text |-> {"id", "team"}, time |-> {"start", "end"},
          duration |-> {}, number |-> {}, list |-> {}]
    [] ns = "sla" ->
         [text |-> {"id", "status"}, time |-> {},
          duration |-> {"target", "elapsed", "remaining"}, number |-> {}, list |-> {}]

Namespaces == {"task", "iteration", "sla"}
Types == {"text", "time", "duration", "number"}

\* The names that fieldMapping gives a column.
Columns(ns) == UNION {FieldsOf(ns)[ty] : ty \in Types}

Enums == {<< "task", "status" >>, << "sla", "status" >>}

\* A field of a query: [ns, name].  Names without a dot are the task's.
HasColumn(f) == f.name \in Columns(f.ns)
IsList(f) == f.name \in FieldsOf(f.ns).list
Known(f) == HasColumn(f) \/ IsList(f)

-----------------------------------------------------------------------------
(***************************************************************************)
(* VALIDATION                                                              *)
(***************************************************************************)

Orders == {"=", "!=", "<", "<=", ">", ">="}
Operators == Orders \cup {"~", "IN"}
Literals == {"string", "number", "ident"}

OperatorError(f, op) ==
  \/ << f.ns, f.name >> \in Enums /\ op \notin {"=", "!=", "IN"}
  \/ IsList(f) /\ op \notin {"=", "!=", "~"}

Arity(name) == CASE name \in {"exists", "missing", "date", "team"} -> 1
                 [] name = "has" -> 2
                 [] name \in {"me", "my_team"} -> 0
                 [] OTHER -> -1

FuncError(v) ==
  \/ Len(v.args) # Arity(v.name)
  \/ /\ v.name = "date" /\ v.args[1].is = "string"
     /\ Instant[v.args[1].text] = None /\ v.args[1].text \notin RelativeDates

ItemError(v) ==
  \/ v.is = "string" /\ v.text \in RelativeDates
  \/ v.is = "func" /\ FuncError(v)

ValueError(v) ==
  \/ ItemError(v)
  \/ v.is = "list" /\ \E i \in DOMAIN v.items : ItemError(v.items[i])

-----------------------------------------------------------------------------
(***************************************************************************)
(* THE EVALUATOR                                                           *)
(***************************************************************************)

Ordered(op, a, b) ==
  \/ op = "=" /\ a = b
  \/ op = "!=" /\ a # b
  \/ op = "<" /\ a < b
  \/ op = "<=" /\ a <= b
  \/ op = ">" /\ a > b
  \/ op = ">=" /\ a >= b

\* The field str of fieldValue, which only the text fields fill.
Str(v) == IF v.type = "text" THEN v.text ELSE Empty

\* compareString.
MemText(v, op, x) ==
  CASE v.type = "time" -> Instant[x] # None /\ Ordered(op, v.num, Instant[x])
    [] v.type = "duration" -> Minutes[x] # None /\ Ordered(op, v.num, Minutes[x])
    [] OTHER -> \/ Ordered(op, Rank[Str(v)], Rank[x])
                \/ op = "~" /\ << Str(v), x >> \in Contained

Members(teams) == UNION {t.members : t \in teams}
IsMe(m, user) == m.id = user \/ m.email = user

\* compareFuncValue, with user for EvalContext.CurrentUser.
MemFunc(v, op, fn, teams, user) ==
  \/ /\ fn.name = "date" /\ Len(fn.args) = 1 /\ fn.args[1].is = "string"
     /\ v.type = "time"
     /\ DateInstant[fn.args[1].text] # None
     /\ Ordered(op, v.num, DateInstant[fn.args[1].text])
  \/ /\ fn.name = "team" /\ Len(fn.args) = 1 /\ fn.args[1].is = "string"
     /\ \/ Str(v) = TeamText[fn.args[1].text]
        \/ \E t \in teams : /\ t.name = fn.args[1].text
                            /\ \E m \in t.members : Str(v) \in {m.id, m.email, m.value}
  \/ /\ fn.name = "me"
     /\ \/ MemText(v, op, user)
        \/ \E m \in Members(teams) :
             /\ IsMe(m, user)
             /\ MemText(v, op, m.id) \/ (m.email # Empty /\ MemText(v, op, m.email))
  \/ /\ fn.name = "my_team"
     /\ \E t \in teams : Str(v) = TeamText[t.name] /\ \E m \in t.members : IsMe(m, user)

MemItem(v, op, val, teams, user) ==
  \/ val.is \in Literals /\ MemText(v, op, val.text)
  \/ val.is = "func" /\ MemFunc(v, op, val, teams, user)

\* compareValue.
MemCompare(v, op, val, teams, user) ==
  /\ v.set
  /\ \/ MemItem(v, op, val, teams, user)
     \/ /\ val.is = "list" /\ op = "IN"
        /\ \E i \in DOMAIN val.items : MemItem(v, "=", val.items[i], teams, user)

-----------------------------------------------------------------------------
(***************************************************************************)
(* THE COMPILED CONDITION: "T", "F", or "N" for NULL                       *)
(***************************************************************************)

Truth(b) == IF b THEN "T" ELSE "F"
Not3(a) == CASE a = "T" -> "F" [] a = "F" -> "T" [] a = "N" -> "N"
And3(a, b) == IF "F" \in {a, b} THEN "F" ELSE IF "N" \in {a, b} THEN "N" ELSE "T"
Or3(a, b) == IF "T" \in {a, b} THEN "T" ELSE IF "N" \in {a, b} THEN "N" ELSE "F"

\* An absent text is stored as '', everything else as NULL.
Null(v) == ~v.set /\ v.type # "text"

\* col op x.  A number column compares numerically with a text that reads as
\* a number, and is less than any other text.
SQLHolds(v, op, x) ==
  IF v.type = "number"
  THEN IF Number[x] = None THEN op \in {"<", "<=", "!="}
                           ELSE Ordered(op, v.num, Number[x])
  ELSE Ordered(op, Rank[v.text], Rank[x])

\* A scalar compared with IN becomes "=" (the default of compileSQLOp).
SQLOp(op) == IF op = "IN" THEN "=" ELSE op

SQLText(v, op, x, pattern) ==
  IF Null(v) THEN "N"
  ELSE IF op = "~" THEN Truth(<< v.text, x >> \in pattern)
  ELSE Truth(SQLHolds(v, SQLOp(op), x))

SQLIn(v, xs) ==
  IF xs = {} THEN "F"
  ELSE IF Null(v) THEN "N"
  ELSE Truth(\E x \in xs : SQLHolds(v, "=", x))

Addresses(m) == {m.id} \cup ({m.email} \ {Empty})

\* Faulty variants: addresses are not collected; the members are not looked at.
MyAliasesIdentifiers(teams) ==
  IF CurrentUser = Empty THEN {}
  ELSE {CurrentUser} \cup {m.id : m \in {x \in Members(teams) : IsMe(x, CurrentUser)}}

MyTeamsAll(teams) == {t.name : t \in teams}

\* engineContext.CurrentUserAliases and CurrentUserTeams.
MyAliases(teams) ==
  IF CurrentUser = Empty THEN {}
  ELSE {CurrentUser} \cup UNION {Addresses(m) : m \in {x \in Members(teams) : IsMe(x, CurrentUser)}}

MyTeams(teams) ==
  {t.name : t \in {x \in teams : \E m \in x.members : IsMe(m, CurrentUser)}}

\* What team(x) stands for: the tag and the addresses of the members.
TeamTexts(teams, x) ==
  {TeamText[x]} \cup UNION {Addresses(m) : m \in Members({t \in teams : t.name = x})}

\* compileFuncValuePredicate.
SQLFunc(v, op, fn, teams) ==
  CASE fn.name = "date" /\ Len(fn.args) = 1 /\ fn.args[1].is = "string" ->
         SQLText(v, op, DateText[fn.args[1].text], LikeWhole)
    [] fn.name = "team" /\ Len(fn.args) = 1 /\ fn.args[1].is = "string" ->
         SQLIn(v, TeamTexts(teams, fn.args[1].text))
    [] fn.name = "me" ->
         IF Cardinality(MyAliases(teams)) <= 1 THEN SQLText(v, op, CurrentUser, LikeWhole)
                                               ELSE SQLIn(v, MyAliases(teams))
    [] fn.name = "my_team" -> SQLIn(v, {TeamText[t] : t \in MyTeams(teams)})
    [] OTHER -> "F"

\* The parameters appended for a list: the strings in it.
ItemTexts(val) ==
  {val.items[i].text : i \in {j \in DOMAIN val.items : val.items[j].is = "string"}}

\* compilePredicate for a field with a column.  A list is compiled to IN
\* whatever the operator.
SQLCompare(v, op, val, teams) ==
  CASE val.is = "string" -> SQLText(v, op, val.text, Like)
    [] val.is \in {"number", "ident"} -> SQLText(v, op, val.text, LikeWhole)
    [] val.is = "list" -> SQLIn(v, ItemTexts(val))
    [] val.is = "func" -> SQLFunc(v, op, val, teams)

\* A list gets a placeholder for every item, so that one item that is not a
\* string leaves a placeholder without a parameter: the statement fails.
Unbound(val) == val.is = "list" /\ \E i \in DOMAIN val.items : val.items[i].is # "string"

=============================================================================
