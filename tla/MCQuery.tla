------------------------------ MODULE MCQuery ------------------------------
(***************************************************************************)
(* Two small repositories and the primaries that tell the passes apart.    *)
(* In Full, task "a" has two iterations and two SLA results, "b" has one   *)
(* iteration, no due date and no status, "d" neither, "s" is a stub.       *)
(***************************************************************************)
EXTENDS Query

\* The texts in the order of bytes.
TextOrder ==
  << "", " 3d", "-1d", "0.5h", "1", "1h", "2024-01-01T00:00:00Z",
     "2024-01-02T00:00:00Z", "3", "3d", "5", "a", "b", "breached", "bug", "d",
     "done", "fix", "ok", "s", "s1", "s2", "t1", "t2", "team:t1", "team:t2",
     "todo", "u", "u@x", "v" >>

MCTexts == {TextOrder[i] : i \in DOMAIN TextOrder}
MCRank == [x \in MCTexts |-> CHOOSE i \in DOMAIN TextOrder : TextOrder[i] = x]

Table(entries) ==
  [x \in MCTexts |-> IF \E e \in entries : e[1] = x
                     THEN (CHOOSE e \in entries : e[1] = x)[2] ELSE None]

\* Texts of at most one word: a text contains itself and the empty text.
MCContained == {<< x, y >> \in MCTexts \X MCTexts : y \in {"", x}}
MCLike == MCContained
MCLikeWhole == {<< x, x >> : x \in MCTexts}
MCSameFold == MCLikeWhole

MCInstant == Table({<< "2024-01-01T00:00:00Z", 1 >>, << "2024-01-02T00:00:00Z", 2 >>})
MCMinutes == Table({<< " 3d", 1440 >>, << "3d", 1440 >>, << "1h", 60 >>, << "0.5h", 30 >>})
MCNumber == Table({<< "1", 1 >>, << "3", 3 >>, << "5", 5 >>})
MCRelativeDates == {"-1d", "0.5h", "1h", "3d"}
MCDateInstant == Table({<< "2024-01-01T00:00:00Z", 1 >>, << "2024-01-02T00:00:00Z", 2 >>, << "-1d", 1 >>})
MCDateText == [x \in MCTexts |-> IF x = "-1d" THEN "2024-01-01T00:00:00Z" ELSE x]
MCTeamText == [x \in MCTexts |-> IF x = "t1" THEN "team:t1" ELSE "team:t2"]

-----------------------------------------------------------------------------
Absent(ty) == [type |-> ty, set |-> FALSE, text |-> "", num |-> 0]
Text(x) == [type |-> "text", set |-> x # "", text |-> x, num |-> 0]
Time(n) == [type |-> "time", set |-> TRUE, num |-> n,
            text |-> IF n = 1 THEN "2024-01-01T00:00:00Z" ELSE "2024-01-02T00:00:00Z"]
Hours(n) == [type |-> "duration", set |-> TRUE, num |-> n,
             text |-> IF n = 60 THEN "1h" ELSE "0.5h"]
Num(n) == [type |-> "number", set |-> TRUE, num |-> n, text |-> IF n = 5 THEN "5" ELSE "1"]

Bare(p) ==
  [path |-> p, stub |-> FALSE, labels |-> {}, deps |-> {}, logged |-> FALSE,
   values |-> [n \in Columns("task") |->
                 CASE n = "path" -> Text(p)
                   [] n \in FieldsOf("task").time -> Absent("time")
                   [] n = "estimate" -> Absent("duration")
                   [] n = "weight" -> Absent("number")
                   [] OTHER -> Text("")]]

TaskA ==
  [Bare("a") EXCEPT !.labels = {"bug"}, !.deps = {"b"},
     !.values = [@ EXCEPT !["status"] = Text("todo"), !["assignee"] = Text("u@x"),
                          !["summary"] = Text("fix"), !["due"] = Time(2),
                          !["estimate"] = Hours(60), !["weight"] = Num(5)]]
TaskB == [Bare("b") EXCEPT !.values = [@ EXCEPT !["assignee"] = Text("team:t1")]]
TaskD ==
  [Bare("d") EXCEPT
     !.values = [@ EXCEPT !["status"] = Text("done"), !["assignee"] = Text("team:t2"),
                          !["due"] = Time(1)]]
Stub == [Bare("s") EXCEPT !.stub = TRUE]

Iteration(id, team, n, ts) ==
  [tasks |-> ts, values |-> [id |-> Text(id), team |-> Text(team),
                             start |-> Time(1), end |-> Time(n)]]

Result(id, st, n) ==
  [task |-> "a", values |-> [id |-> Text(id), status |-> Text(st), target |-> Hours(60),
                             elapsed |-> Hours(n), remaining |-> Hours(30)]]

Full ==
  [tasks |-> {TaskA, TaskB, TaskD, Stub},
   teams |-> {[name |-> "t1", members |-> {[id |-> "u", email |-> "u@x", value |-> "u@x"]}],
              [name |-> "t2", members |-> {[id |-> "v", email |-> "", value |-> "v"]}]},
   iterations |-> {Iteration("s1", "t1", 1, {"a", "b"}), Iteration("s2", "t2", 2, {"a", "s"})},
   results |-> {Result("s1", "ok", 30), Result("s2", "breached", 60)}]

Plain == [Full EXCEPT !.teams = {}, !.iterations = {}, !.results = {}]

MCRepositories == {Full, Plain}

-----------------------------------------------------------------------------
Field(ns, n) == [ns |-> ns, name |-> n]
Cmp(ns, n, op, v) == [form |-> "compare", field |-> Field(ns, n), op |-> op, value |-> v]
Quoted(x) == [is |-> "string", text |-> x]
Nr(x) == [is |-> "number", text |-> x]
Fn(n, args) == [is |-> "func", name |-> n, args |-> args]
List(items) == [is |-> "list", items |-> items]

\* Primaries in the exact fragment and of every namespace.
Core ==
  {Cmp("task", "status", "=", Quoted("todo")),
   Cmp("task", "assignee", "=", Fn("me", << >>)),
   Cmp("task", "assignee", "=", Fn("my_team", << >>)),
   Cmp("task", "due", "<", Fn("date", << Quoted("2024-01-02T00:00:00Z") >>)),
   Cmp("iteration", "team", "=", Quoted("t1")),
   Cmp("iteration", "end", ">", Quoted("2024-01-01T00:00:00Z")),
   Cmp("sla", "status", "=", Quoted("breached")),
   [form |-> "missing", field |-> Field("task", "status"), dotted |-> FALSE]}

Others ==
  {Cmp("task", "assignee", "=", Fn("team", << Quoted("t1") >>)),
   Cmp("task", "assignee", "IN", List(<< Quoted("u"), Quoted("v") >>)),
   Cmp("task", "summary", "~", Quoted("fix")),
   Cmp("task", "status", "!=", Quoted("done")),
   Cmp("task", "status", "~", Quoted("done")),
   Cmp("task", "status", "IN", List(<< Nr("3") >>)),
   Cmp("task", "weight", ">", Nr("3")),
   Cmp("task", "estimate", "<", Quoted("3d")),
   Cmp("task", "estimate", "<", Quoted(" 3d")),
   Cmp("task", "bogus", "=", Quoted("a")),
   Cmp("iteration", "bogus", "=", Quoted("a")),
   [form |-> "exists", field |-> Field("task", "due"), dotted |-> FALSE],
   [form |-> "exists", field |-> Field("iteration", "team"), dotted |-> TRUE],
   [form |-> "has", field |-> Field("task", "dependencies"), text |-> "b"],
   [form |-> "has", field |-> Field("task", "labels"), text |-> "bug"],
   [form |-> "call", name |-> "me", args |-> << >>, ns |-> "task"],
   [form |-> "call", name |-> "team", args |-> << [is |-> "ident", text |-> "s1"] >>,
    ns |-> "iteration"],
   [form |-> "call", name |-> "exists", args |-> << >>, ns |-> "task"]}

AllPrimaries == Core \cup Others

=============================================================================
