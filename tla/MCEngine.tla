------------------------------ MODULE MCEngine ------------------------------
(***************************************************************************)
(* One client and one indexer that commits up to two of three versions of  *)
(* a repository.  Between "first" and "second" task "a" changes its        *)
(* status, "b" becomes a stub and the user's team is renamed from 1 to 2;  *)
(* "third" has neither "b" nor any team.  "c" is the same in all.          *)
(***************************************************************************)
EXTENDS Engine

CONSTANTS c1, w1

MCClients == {c1}
MCIndexers == {w1}

Task(p, st, to, labels) ==
  [path |-> p, stub |-> FALSE, status |-> st, assignee |-> to,
   labels |-> labels, deps |-> {}, log |-> {}]

User == [id |-> "u", email |-> "u@x"]
Other == [id |-> "v", email |-> ""]

First ==
  [version |-> {[is |-> "1"]},
   tasks |-> {Task("a", "todo", Person("u"), {}),
              Task("b", "done", TeamTag(1), {}),
              Task("c", "done", Person("u@x"), {"l"})},
   teams |-> {[name |-> 1, members |-> {User}], [name |-> 3, members |-> {Other}]},
   iterations |-> {}, rules |-> {}, results |-> {}]

Second ==
  [First EXCEPT
     !.tasks = {Task("a", "done", Person("v"), {}),
                [Task("b", "", Person(""), {}) EXCEPT !.stub = TRUE],
                Task("c", "done", Person("u@x"), {"l"})},
     !.teams = {[name |-> 2, members |-> {User, Other}]}]

Third ==
  [First EXCEPT
     !.tasks = {Task("a", "todo", TeamTag(3), {}), Task("c", "done", Person("u@x"), {"l"})},
     !.teams = {}]

MCRepositories == {First, Second, Third}

Me(op) == [kind |-> "me", op |-> op]

MCQueries ==
  {[kind |-> "status", value |-> "done"], Me("="), [kind |-> "my_team"],
   [kind |-> "team", team |-> 2], [kind |-> "search", term |-> "done"],
   [kind |-> "lookup", path |-> "b"], [kind |-> "malformed"]}

\* For the run about one claim.
NotMeOnly == {Me("!=")}

=============================================================================
