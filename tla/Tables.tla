------------------------------- MODULE Tables -------------------------------
(***************************************************************************)
(* The relational image of a tsk repository.                               *)
(*                                                                         *)
(* store/schema.go declares eleven tables; SQLiteStore.WriteRepository     *)
(* turns the model.Repository that the parser and evaluateSLA produced     *)
(* into rows of them, and the reading methods of store.go turn rows back   *)
(* into tasks and team members.  This module holds the two conversions as  *)
(* constant-level operators; Store.tla and Engine.tla hold the behaviour.  *)
(*                                                                         *)
(* A database content is a set of rows <<table, key, val>>.  "key" is the  *)
(* PRIMARY KEY of a table that has one, and the column that refers to the  *)
(* owner (task_path, team_name, iteration_id, rule_id) otherwise.          *)
(*                                                                         *)
(* A repository is a record of sets of entities, one set per loop of       *)
(* WriteRepository:                                                        *)
(*   version     the version, as a set with at most one element            *)
(*   tasks       [path, stub, status, assignee, labels, deps, log]         *)
(*   teams       [name, members], members being [id, email] records        *)
(*   iterations  [id, team, tasks], tasks being a sequence of paths        *)
(*   rules       [id, query] ; two rules may share an id                   *)
(*   results     [rule, task, status]                                      *)
(* The columns whose text encoding loses information (dates, durations)    *)
(* are left out here.                                                      *)
(***************************************************************************)
EXTENDS Naturals, Sequences, FiniteSets

(***************************************************************************)
(* The order in which WriteRepository clears the tables, and the order of  *)
(* its insert loops.                                                       *)
(***************************************************************************)
\* Faulty variants: a table added to the schema and forgotten here.
ClearOrderWithoutLabels ==
  << "sla_results", "sla_rules", "team_members", "teams", "iteration_tasks",
     "iterations", "change_log", "task_dependencies", "tasks",
     "repository_meta" >>

ClearOrderWithoutRules ==
  << "sla_results", "team_members", "teams", "iteration_tasks",
     "iterations", "change_log", "task_dependencies", "task_labels", "tasks",
     "repository_meta" >>

ClearOrder ==
  << "sla_results", "sla_rules", "team_members", "teams", "iteration_tasks",
     "iterations", "change_log", "task_dependencies", "task_labels", "tasks",
     "repository_meta" >>

AllTables == {ClearOrder[i] : i \in 1..Len(ClearOrder)}

WriteOrder ==
  << "version", "tasks", "teams", "iterations", "rules", "results" >>

Stages == {WriteOrder[i] : i \in 1..Len(WriteOrder)}

(***************************************************************************)
(* The row an entity is inserted as, and the rows of what it owns.         *)
(***************************************************************************)
OwnRow(s, e) ==
  CASE s = "version"    -> << "repository_meta", "version", e >>
    [] s = "tasks"      -> << "tasks", e.path,
                              [stub |-> e.stub, status |-> e.status,
                               assignee |-> e.assignee] >>
    [] s = "teams"      -> << "teams", e.name, "team" >>
    [] s = "iterations" -> << "iterations", e.id, e.team >>
    [] s = "rules"      -> << "sla_rules", e.id, e.query >>
    [] s = "results"    -> << "sla_results", e.rule,
                              [task |-> e.task, status |-> e.status] >>

\* Labels and dependencies are sets: one that a file names twice, and the code
\* inserts twice (the tables have no key), counts once.
ChildRows(s, e) ==
  CASE s = "tasks"      ->
         {<< "task_labels", e.path, l >> : l \in e.labels}
           \cup {<< "task_dependencies", e.path, d >> : d \in e.deps}
           \cup {<< "change_log", e.path, c >> : c \in e.log}
    [] s = "teams"      -> {<< "team_members", e.name, m >> : m \in e.members}
    [] s = "iterations" ->
         {<< "iteration_tasks", e.id, << i, e.tasks[i] >> >>
             : i \in DOMAIN e.tasks}
    [] OTHER            -> {}

RowsOf(s, e) == {OwnRow(s, e)} \cup ChildRows(s, e)

(***************************************************************************)
(* An INSERT fails when its table has a PRIMARY KEY and the key is taken.  *)
(* sla_results is the one table of the own rows without a PRIMARY KEY.     *)
(***************************************************************************)
KeyTaken(d, s, e) ==
  /\ s # "results"
  /\ \E r \in d : r[1] = OwnRow(s, e)[1] /\ r[2] = OwnRow(s, e)[2]

(***************************************************************************)
(* The rows of the entities es[s] of every stage s: what the database      *)
(* holds once exactly those entities have been inserted into empty tables. *)
(***************************************************************************)
Image(es) == UNION {UNION {RowsOf(s, e) : e \in es[s]} : s \in Stages}

\* No two entities of a repository claim the same primary key.
KeysUnique(repo) ==
  \A s \in Stages \ {"results"} : \A e1, e2 \in repo[s] :
     /\ OwnRow(s, e1)[1] = OwnRow(s, e2)[1]
     /\ OwnRow(s, e1)[2] = OwnRow(s, e2)[2]
     => e1 = e2

(***************************************************************************)
(* What the reading methods make of a content.  A task read back carries   *)
(* the columns of its row in "tasks" and nothing from the child tables.    *)
(***************************************************************************)
TaskRows(d) == {r \in d : r[1] = "tasks"}

ScanTask(r) ==
  [path |-> r[2], stub |-> r[3].stub, status |-> r[3].status,
   assignee |-> r[3].assignee, labels |-> {}, deps |-> {}, log |-> {}]

TaskByPath(d, p) == {ScanTask(r) : r \in {x \in TaskRows(d) : x[2] = p}}

AllTasks(d) == {ScanTask(r) : r \in {x \in TaskRows(d) : ~x[3].stub}}

AllTeamNames(d) == {r[2] : r \in {x \in d : x[1] = "teams"}}

TeamMembers(d, t) ==
  {r[3] : r \in {x \in d : x[1] = "team_members" /\ x[2] = t}}

=============================================================================
