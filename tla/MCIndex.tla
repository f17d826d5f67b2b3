------------------------------ MODULE MCIndex -------------------------------
(***************************************************************************)
(* Tasks in a directory and in one below it, which may be renamed to a     *)
(* hidden one.  "x" is a document, "bad" a text that cannot be parsed.     *)
(***************************************************************************)
EXTENDS Index

CONSTANTS w1, w2

MCIndexers == {w1, w2}

A == << "tasks", "a.md" >>
B == << "tasks", "b.md" >>
Nested == << "tasks", "d", "a.md" >>
Old == << "tasks", ".d", "a.md" >>

MCPaths == {A, B, Nested, Old}
MCTexts == {"x", "bad"}
MCMarkdown == {"a.md", "b.md"}
MCHidden == {".d"}
MCNameOrder ==
  [n \in {".d", "a.md", "b.md", "d", "tasks"} |->
     CASE n = ".d" -> 1 [] n = "a.md" -> 2 [] n = "b.md" -> 3 [] n = "d" -> 4 [] n = "tasks" -> 5]

MCFirstFiles ==
  [p \in MCPaths |-> IF p \in {A, Nested} THEN "x" ELSE Absent]

Nothing == [s \in Stages |-> {}]

Task(p, x) == [path |-> p, stub |-> FALSE, status |-> x, assignee |-> "",
               labels |-> {}, deps |-> {}, log |-> {}]

MCMeaning ==
  [p \in MCPaths |-> [x \in MCTexts |->
     IF x = "bad" THEN Malformed ELSE [Nothing EXCEPT !["tasks"] = {Task(p, x)}]]]

=============================================================================
