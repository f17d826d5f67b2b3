------------------------------- MODULE MCStore -------------------------------
(***************************************************************************)
(* Two indexers, three repositories that compete for the same primary      *)
(* keys: "old" and "new" share a task, a team, an iteration and a rule     *)
(* with different values, and "twice" declares the same rule id twice.     *)
(***************************************************************************)
EXTENDS Store

CONSTANTS w1, w2

MCIndexers == {w1, w2}

Task(p, st, labels) ==
  [path |-> p, stub |-> FALSE, status |-> st, assignee |-> "",
   labels |-> labels, deps |-> {}, log |-> {}]

Old == [version    |-> {[is |-> "1"]},
        tasks      |-> {Task("a", "todo", {"x"}), Task("b", "done", {})},
        teams      |-> {[name |-> "t", members |-> {[id |-> "u", email |-> "e"]}]},
        iterations |-> {[id |-> "t/1", team |-> "t", tasks |-> << "b", "a" >>]},
        rules      |-> {[id |-> "r", query |-> "q1"]},
        results    |-> {[rule |-> "r", task |-> "a", status |-> "ok"]}]

New == [version    |-> {},
        tasks      |-> {Task("a", "done", {})},
        teams      |-> {[name |-> "t", members |-> {}]},
        iterations |-> {},
        rules      |-> {[id |-> "r", query |-> "q2"]},
        results    |-> {}]

Twice == [New EXCEPT !.rules = {[id |-> "r", query |-> "q1"],
                                [id |-> "r", query |-> "q2"]}]

MCRepositories == {Old, New, Twice}

=============================================================================
