------------------------------- MODULE Query -------------------------------
(***************************************************************************)
(* Expressions of the query language and what the program makes of them.   *)
(*                                                                         *)
(* The parser builds an expression bottom up: a primary, a NOT of what it  *)
(* has, an AND or OR of two.  Every later pass is a recursion over the     *)
(* expression that combines what it returned for the parts: the validator  *)
(* (validateExpr, collectNamespaces, hasORCrossNamespace), the evaluator   *)
(* (evalExpr) and the compiler (compileExpr).  So an expression is a       *)
(* record of what each pass returns for it, and building an expression     *)
(* runs all passes:                                                        *)
(*   mem      the tasks on which evalExpr returns true, for the user and   *)
(*            with the SLA results of the engine                           *)
(*   rule     the same for the query of an SLA rule: evaluateSLA names no  *)
(*            user and has no results yet                                  *)
(*   sql      the value of the compiled condition on each joined row       *)
(*   joins    needsIterJoin and needsSLAJoin of compileState               *)
(*   unbound  a placeholder of the statement has no parameter              *)
(*   ns       the namespaces collectNamespaces finds                       *)
(*   crossOr  what hasORCrossNamespace returns                             *)
(*   error    validateExpr reports an error                                *)
(*   exact, sound, safe, impersonal  not computed by the program: the      *)
(*            fragments of the language the properties speak about         *)
(* The state is the stack of expressions the parser is working on.  Every  *)
(* expression on it is a query of its own, which the properties consider.  *)
(*                                                                         *)
(* A repository is [tasks, teams, iterations, results]:                    *)
(*   tasks       [path, stub, values, labels, deps, logged]                *)
(*   teams       [name, members], members being [id, email, value]         *)
(*   iterations  [tasks, values]         results  [task, values]           *)
(* values maps each column name of the namespace to a value (Comparison).  *)
(* A primary is [form |-> "compare", field, op, value], [form |-> "exists" *)
(* or "missing", field, dotted], [form |-> "has", field, text] or          *)
(* [form |-> "call", name, args, ns] for every other function call; ns is  *)
(* the namespace of an identifier that is the first argument, else "task". *)
(***************************************************************************)
EXTENDS Comparison

CONSTANTS Repositories,  \* the repositories queries may run on
          Primaries,     \* the primaries queries are made of
          MaxNodes       \* bound on the nodes built for one query

ValueOK(v, ty) ==
  v.type = ty /\ v.set \in BOOLEAN /\ v.text \in Texts /\ v.num \in Int

\* Columns filled by the fields of their type.  A text field of a task is
\* absent exactly when it is empty; iterations and results have every value.
OwnerOK(o, ns) ==
  \A ty \in Types : \A n \in FieldsOf(ns)[ty] :
    /\ ValueOK(o.values[n], ty)
    /\ ns # "task" => o.values[n].set
    /\ ns = "task" /\ ty = "text" => (o.values[n].set <=> o.values[n].text # Empty)

RepositoryOK(rp) ==
  /\ None \notin rp.tasks \cup rp.iterations \cup rp.results
  /\ \A t \in rp.tasks : OwnerOK(t, "task")
  /\ \A i \in rp.iterations : OwnerOK(i, "iteration")
  /\ \A s \in rp.results : OwnerOK(s, "sla")
  /\ IsFiniteSet(Members(rp.teams))
  /\ \A t \in rp.teams :
       t.name \in Texts /\ \A m \in t.members : {m.id, m.email, m.value} \subseteq Texts

\* The texts of a value of a query.
ValueTexts(val) ==
  CASE val.is \in Literals -> {val.text}
    [] val.is = "list" -> ItemTexts(val)
    [] val.is = "func" -> {val.args[i].text : i \in DOMAIN val.args}

ArgumentsOK(fn) == DOMAIN fn.args = 1..Len(fn.args)

PrimaryOK(l) ==
  /\ l.form \in {"compare", "exists", "missing", "has", "call"}
  /\ l.form = "compare" => /\ l.op \in Operators
                           /\ l.value.is \in Literals \cup {"list", "func"}
                           /\ ValueTexts(l.value) \subseteq Texts
                           /\ l.value.is = "func" => ArgumentsOK(l.value)
  /\ IF l.form = "call" THEN l.ns \in Namespaces ELSE l.field.ns \in Namespaces

ASSUME QueryAssumption ==
  /\ MaxNodes \in Nat
  /\ \A rp \in Repositories : RepositoryOK(rp)
  /\ \A l \in Primaries : PrimaryOK(l)

VARIABLES repo,   \* the indexed repository
          stack,  \* the expressions built and not yet combined
          nodes   \* the nodes built so far

vars == << repo, stack, nodes >>

-----------------------------------------------------------------------------
(***************************************************************************)
(* THE ROWS OF THE JOIN                                                    *)
(***************************************************************************)

\* What the fields of a namespace are read from, for one task.
Owners(ns, t) ==
  CASE ns = "task" -> {t}
    [] ns = "iteration" -> {i \in repo.iterations : t.path \in i.tasks}
    [] ns = "sla" -> {s \in repo.results : s.task = t.path}

Joinable == {"iteration", "sla"}

\* Every row of tasks t, joined or not with iterations i and sla_results sr.
Rows ==
  {r \in [task: repo.tasks, iteration: repo.iterations \cup {None}, sla: repo.results \cup {None}] :
     \A ns \in Joinable : r[ns] \in Owners(ns, r.task) \cup {None}}

\* The rows of the FROM clause with the joins js, all of them inner joins.
Joined(js) ==
  {r \in Rows : \A ns \in Joinable : ns \in js <=> r[ns] # None}

\* DefaultCompiler.Compile and the result of the statement.
SQLAnswer(e) == {r.task : r \in {x \in Joined(e.joins) : ~x.task.stub /\ e.sql[x] = "T"}}

\* Evaluate.
MemAnswer(e) == {t \in e.mem : ~t.stub}
RuleAnswer(e) == {t \in e.rule : ~t.stub}

-----------------------------------------------------------------------------
(***************************************************************************)
(* PRIMARIES                                                               *)
(***************************************************************************)

\* taskFieldExists.
MemExists(f, t) ==
  /\ f.ns = "task"
  /\ CASE f.name = "labels" -> t.labels # {}
       [] f.name = "dependencies" -> t.deps # {}
       [] f.name = "change_log" -> t.logged
       [] f.name = "path" -> FALSE
       [] HasColumn(f) -> t.values[f.name].set
       [] OTHER -> FALSE

\* EvalContext: the user, and whether there are results to evaluate sla on.
EngineContext == [user |-> CurrentUser, results |-> TRUE]
RuleContext == [user |-> Empty, results |-> FALSE]

MemLeaf(l, t, ctx) ==
  CASE l.form = "compare" ->
         /\ HasColumn(l.field)
         /\ l.field.ns = "sla" => ctx.results
         /\ \E o \in Owners(l.field.ns, t) :
              MemCompare(o.values[l.field.name], l.op, l.value, repo.teams, ctx.user)
    [] l.form = "exists" -> MemExists(l.field, t)
    [] l.form = "missing" -> ~MemExists(l.field, t)
    [] l.form = "has" ->
         /\ l.field.ns = "task"
         /\ \/ l.field.name = "labels" /\ \E x \in t.labels : << x, l.text >> \in SameFold
            \/ l.field.name = "dependencies" /\ l.text \in t.deps
    [] l.form = "call" -> FALSE

\* "task." is put before the name in any case, so that a name with a
\* namespace has no column.
ExistsColumn(l) == l.field.ns = "task" /\ ~l.dotted /\ HasColumn(l.field)

SQLExists(v) == Truth(~Null(v) /\ (v.type = "text" => v.text # Empty))

SQLLeaf(l, r) ==
  CASE l.form = "compare" ->
         IF ~HasColumn(l.field) THEN "F"
         ELSE IF r[l.field.ns] = None THEN "N"
         ELSE SQLCompare(r[l.field.ns].values[l.field.name], l.op, l.value, repo.teams)
    [] l.form = "exists" ->
         IF ExistsColumn(l) THEN SQLExists(r.task.values[l.field.name]) ELSE "F"
    [] l.form = "missing" ->
         IF ExistsColumn(l) THEN Not3(SQLExists(r.task.values[l.field.name])) ELSE "F"
    [] l.form = "has" ->
         Truth(/\ l.field.ns = "task"
               /\ \/ l.field.name = "labels" /\ l.text \in r.task.labels
                  \/ l.field.name = "dependencies" /\ l.text \in r.task.deps)
    [] l.form = "call" -> "F"

\* validatePredicate and validateFuncCall.  Engine.Query allows sla fields
\* whenever the query has one.
LeafError(l) ==
  \/ /\ l.form = "compare" /\ Known(l.field)
     /\ OperatorError(l.field, l.op) \/ ValueError(l.value)
  \/ l.form = "call" /\ Len(l.args) # Arity(l.name)

LeafNamespace(l) == IF l.form = "call" THEN l.ns ELSE l.field.ns

-----------------------------------------------------------------------------
(***************************************************************************)
(* THE FRAGMENTS                                                           *)
(*                                                                         *)
(* exact: an expression on text fields of the task whose condition is      *)
(* never NULL; it may be negated.  sound: primaries both passes should     *)
(* decide alike, and exact expressions, under AND and OR.  safe: sound,    *)
(* with no AND that has iteration predicates on both sides, or sla         *)
(* predicates on both sides.  impersonal: an expression that asks for      *)
(* nothing a rule is not given, the user and the SLA results.              *)
(***************************************************************************)

\* In the column of f, texts compare with x as instants or minutes with n.
Faithful(f, x, n) ==
  /\ n # None
  /\ \A t \in repo.tasks : \A o \in Owners(f.ns, t) :
       LET v == o.values[f.name]
       IN  v.set => /\ v.num < n <=> Rank[v.text] < Rank[x]
                    /\ v.num = n <=> v.text = x

\* y LIKE '%x%' means what strings.Contains means, and x is not empty.
PlainPattern(x) ==
  /\ << Empty, x >> \notin Contained
  /\ \A y \in Texts : << y, x >> \in Contained <=> << y, x >> \in Like

SafeText(op, val) ==
  \/ /\ val.is \in Literals /\ val.text # Empty /\ op \in {"=", ">", ">="}
  \/ /\ val.is = "string" /\ op = "~" /\ PlainPattern(val.text)
  \/ /\ val.is = "list" /\ op = "IN"
     /\ \A i \in DOMAIN val.items : val.items[i].is = "string" /\ val.items[i].text # Empty
  \/ val.is = "func" /\ val.name = "my_team"
  \/ /\ val.is = "func" /\ val.name = "me" /\ op = "="
     /\ Empty \notin {CurrentUser} \cup MyAliases(repo.teams)

SafeTeam(val) ==
  /\ val.is = "func" /\ val.name = "team" /\ Len(val.args) = 1 /\ val.args[1].is = "string"
  /\ Empty \notin TeamTexts(repo.teams, val.args[1].text)
  /\ \A t \in repo.teams : \A m \in t.members : m.value \in Addresses(m)

SafeCompare(f, op, val) ==
  \/ ~HasColumn(f)
  \/ f.name \in FieldsOf(f.ns).text /\ SafeText(op, val)
  \/ f.ns = "task" /\ f.name \in FieldsOf("task").text /\ SafeTeam(val)
  \/ /\ f.name \in FieldsOf(f.ns).time /\ op \in Orders
     /\ \/ val.is \in Literals /\ Faithful(f, val.text, Instant[val.text])
        \/ /\ val.is = "func" /\ val.name = "date" /\ Len(val.args) = 1
           /\ val.args[1].is = "string"
           /\ Faithful(f, DateText[val.args[1].text], DateInstant[val.args[1].text])
  \/ /\ f.name \in FieldsOf(f.ns).duration /\ op \in Orders
     /\ val.is \in Literals /\ Faithful(f, val.text, Minutes[val.text])

SafeLeaf(l) ==
  CASE l.form = "compare" -> SafeCompare(l.field, l.op, l.value)
    [] l.form \in {"exists", "missing"} -> ExistsColumn(l) /\ l.field.name # "path"
    [] l.form = "has" -> l.field.ns = "task" /\ l.field.name # "labels"
    [] l.form = "call" -> LeafNamespace(l) = "task"

ExactLeaf(l) ==
  /\ SafeLeaf(l)
  /\ l.form = "compare" =>
       /\ l.field.ns = "task"
       /\ HasColumn(l.field) => l.field.name \in FieldsOf("task").text

NamesUser(val) ==
  \/ val.is = "func" /\ val.name \in {"me", "my_team"}
  \/ /\ val.is = "list"
     /\ \E i \in DOMAIN val.items :
          val.items[i].is = "func" /\ val.items[i].name \in {"me", "my_team"}

ImpersonalLeaf(l) == l.form = "compare" => l.field.ns # "sla" /\ ~NamesUser(l.value)

-----------------------------------------------------------------------------
(***************************************************************************)
(* THE PASSES                                                              *)
(***************************************************************************)

LeafExpr(l) ==
  [mem |-> {t \in repo.tasks : MemLeaf(l, t, EngineContext)},
   rule |-> {t \in repo.tasks : MemLeaf(l, t, RuleContext)},
   sql |-> [r \in Rows |-> SQLLeaf(l, r)],
   joins |-> {LeafNamespace(l)} \cap (IF l.form = "compare" THEN Joinable ELSE {}),
   unbound |-> l.form = "compare" /\ HasColumn(l.field) /\ Unbound(l.value),
   ns |-> {LeafNamespace(l)},
   crossOr |-> FALSE,
   error |-> LeafError(l),
   exact |-> ExactLeaf(l),
   sound |-> SafeLeaf(l),
   safe |-> SafeLeaf(l),
   impersonal |-> ImpersonalLeaf(l)]

NotExpr(e) ==
  [e EXCEPT !.mem = repo.tasks \ e.mem,
            !.rule = repo.tasks \ e.rule,
            !.sql = [r \in Rows |-> Not3(e.sql[r])],
            !.sound = e.exact,
            !.safe = e.exact]

\* Faulty variant: only the left side of an OR is looked at.
CrossOrOfOuter(op, a, b) == op = "OR" /\ \E x, y \in a.ns : x # y

CrossOr(op, a, b) ==
  \/ op = "OR" /\ \E x \in a.ns : \E y \in b.ns : x # y
  \/ a.crossOr
  \/ b.crossOr

\* Faulty variant: the two connectives are confused.
ConnectiveSwapped(op, x, y) == IF op = "AND" THEN Or3(x, y) ELSE And3(x, y)

Connective(op, x, y) == IF op = "OR" THEN Or3(x, y) ELSE And3(x, y)

BinaryExpr(op, a, b) ==
  [mem |-> IF op = "AND" THEN a.mem \cap b.mem ELSE a.mem \cup b.mem,
   rule |-> IF op = "AND" THEN a.rule \cap b.rule ELSE a.rule \cup b.rule,
   sql |-> [r \in Rows |-> Connective(op, a.sql[r], b.sql[r])],
   joins |-> a.joins \cup b.joins,
   unbound |-> a.unbound \/ b.unbound,
   ns |-> a.ns \cup b.ns,
   crossOr |-> CrossOr(op, a, b),
   error |-> a.error \/ b.error,
   exact |-> a.exact /\ b.exact,
   sound |-> a.sound /\ b.sound,
   safe |-> a.safe /\ b.safe /\ (op = "AND" => a.joins \cap b.joins = {}),
   impersonal |-> a.impersonal /\ b.impersonal]

\* Validate reports no error.
Valid(e) == ~e.error /\ ~(Cardinality(e.ns) > 1 /\ e.crossOr)

-----------------------------------------------------------------------------
(***************************************************************************)
(* THE PARSER                                                              *)
(***************************************************************************)

Init ==
  /\ repo \in Repositories
  /\ stack = << >>
  /\ nodes = 0

\* parsePrimary, when the bound leaves room to combine all that is open.
Primary(l) ==
  /\ nodes + Len(stack) < MaxNodes
  /\ stack' = Append(stack, LeafExpr(l))
  /\ nodes' = nodes + 1
  /\ UNCHANGED repo

Top == Len(stack)

\* parseUnary.
Negate ==
  /\ stack # << >>
  /\ nodes + Len(stack) - 1 < MaxNodes
  /\ stack' = [stack EXCEPT ![Top] = NotExpr(@)]
  /\ nodes' = nodes + 1
  /\ UNCHANGED repo

\* parseAnd and parseOr.
Combine(op) ==
  /\ Len(stack) >= 2
  /\ stack' = Append(SubSeq(stack, 1, Top - 2), BinaryExpr(op, stack[Top - 1], stack[Top]))
  /\ nodes' = nodes + 1
  /\ UNCHANGED repo

Next ==
  \/ \E l \in Primaries : Primary(l)
  \/ Negate
  \/ Combine("AND")
  \/ Combine("OR")

Spec == Init /\ [][Next]_vars

-----------------------------------------------------------------------------
(***************************************************************************)
(* PROPERTIES                                                              *)
(***************************************************************************)

Expressions == {stack[i] : i \in DOMAIN stack}

ExpressionOK(e) ==
  /\ e.mem \subseteq repo.tasks /\ e.rule \subseteq repo.tasks
  /\ e.sql \in [Rows -> {"T", "F", "N"}]
  /\ e.joins \subseteq Joinable
  /\ e.ns \subseteq Namespaces
  /\ {e.unbound, e.crossOr, e.error, e.exact, e.sound, e.safe, e.impersonal} \subseteq BOOLEAN

\* Types of the variables.
TypeOK ==
  /\ repo \in Repositories
  /\ nodes \in 0..MaxNodes
  /\ \A e \in Expressions : ExpressionOK(e)

(***************************************************************************)
(* On the safe fragment, a query the validator accepts runs, as many       *)
(* parameters as placeholders, and has the answer the evaluator gives it   *)
(* for the same user and SLA results, NULLs, joins and duplicate rows      *)
(* notwithstanding.  An SLA rule with the same text selects the same tasks *)
(* if it has no me(), my_team() and sla field: no user is named when rules *)
(* are evaluated (sla.go:37), so that me() is whoever has no address.      *)
(***************************************************************************)
SafeQueriesAgree ==
  \A e \in Expressions : e.safe /\ Valid(e) =>
    /\ ~e.unbound
    /\ SQLAnswer(e) = MemAnswer(e)
    /\ e.impersonal => SQLAnswer(e) = RuleAnswer(e)

(***************************************************************************)
(* An AND of two iteration predicates asks for one iteration in SQL and    *)
(* for one each in eval.go:112.  So the two may differ, but only one way:  *)
(* SQL never answers a task that the evaluator rejects for the same user   *)
(* and SLA results, nor one that a rule without use of them rejects.       *)
(***************************************************************************)
SQLAddsNothing ==
  \A e \in Expressions : e.sound =>
    /\ SQLAnswer(e) \subseteq MemAnswer(e)
    /\ e.impersonal => SQLAnswer(e) \subseteq RuleAnswer(e)

(***************************************************************************)
(* Putting AND between two queries never adds a task to the answer of      *)
(* either, whatever they are, although the joins of one apply to the other *)
(* (compiler.go:48-58).                                                    *)
(***************************************************************************)
AndNarrows ==
  [][Combine("AND") =>
       SQLAnswer(stack'[Len(stack')]) \subseteq SQLAnswer(stack[Top - 1]) \cap SQLAnswer(stack[Top])]_vars

(***************************************************************************)
(* Putting OR between two queries loses no task of either, if the          *)
(* validator accepts it and functions name no field outside task: what     *)
(* rejecting OR across namespaces (validate.go:288) is for, because an     *)
(* inner join drops the tasks that only the other side selects.            *)
(***************************************************************************)
OrWidens ==
  [][Combine("OR") =>
       LET a == stack[Top - 1]
           b == stack[Top]
           e == stack'[Len(stack')]
       IN  Valid(e) /\ a.joins = a.ns \cap Joinable /\ b.joins = b.ns \cap Joinable
             => SQLAnswer(a) \cup SQLAnswer(b) \subseteq SQLAnswer(e)]_vars

-----------------------------------------------------------------------------
(***************************************************************************)
(* CLAIMS OF THE SOURCE THAT THE CODE DOES NOT KEEP                        *)
(***************************************************************************)

\* compiler.go:92: "NOT on iteration/sla negates existence".  The compiled NOT
\* holds of every joined row that does not match: a task with no iteration is
\* missing, and a task with a second one is returned.
NotNegatesExistence ==
  \A e \in Expressions :
    e.joins # {} /\ e.sound /\ Valid(e) =>
      SQLAnswer(NotExpr(e)) = {t \in repo.tasks : ~t.stub} \ SQLAnswer(e)

\* validate.go:17: duration fields "supports ordering".  A quoted duration is
\* taken for a relative date and rejected, unless white space pads it.
DurationsOrdered ==
  \A l \in Primaries :
    /\ l.form = "compare" /\ HasColumn(l.field)
    /\ l.field.name \in FieldsOf(l.field.ns).duration
    /\ l.op \in Orders /\ l.value.is = "string" /\ Minutes[l.value.text] # None
    /\ \E t \in repo.tasks : MemLeaf(l, t, EngineContext)
    => Valid(LeafExpr(l))

=============================================================================
