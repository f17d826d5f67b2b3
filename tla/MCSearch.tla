------------------------------ MODULE MCSearch ------------------------------
(***************************************************************************)
(* One task with all short summaries and some labels and bodies, among a   *)
(* fixed task, a stub and one of the same score; queries of one and of two *)
(* words.  "B" and "b" have one byte, "O" and "o" stand for letters of two  *)
(* bytes, "I" for one of two whose lower case "i" has one (dotted I).      *)
(***************************************************************************)
EXTENDS Search

MCLower == [ch \in {"a", "b", "B", "o", "O", "i", "I"} |->
  CASE ch = "B" -> "b" [] ch = "O" -> "o" [] ch = "I" -> "i" [] OTHER -> ch]
MCWidth == [ch \in DOMAIN MCLower |-> IF ch \in {"o", "O", "I"} THEN 2 ELSE 1]

UpTo(S, n) == UNION {[1..m -> S] : m \in 0..n}

TaskOf(path, summary, body, labels) ==
  [stub |-> FALSE, labels |-> labels,
   fields |-> [f \in SingleFields |-> CASE f = "path" -> path [] f = "summary" -> summary
                                        [] f = "body" -> body [] OTHER -> << >>]]

Fixed == TaskOf(<< "a" >>, << "b" >>, << >>, << >>)
Stub == [TaskOf(<< "a", "b" >>, << "a" >>, << >>, << >>) EXCEPT !.stub = TRUE]

Summaries == UpTo({"a", "B"}, 4) \cup UpTo({"O", "I", "b"}, 2)
Extras == {<< << >>, << >> >>, << << "a", "a", "a" >>, << >> >>,
           << << "b" >>, << << "a" >>, << "a" >>, << "B", "a" >> >> >>}

Words == UpTo({"a", "B"}, 2) \ {<< >>}
Queries == {<< >>} \cup {<< w >> : w \in Words \cup {<< "i" >>, << "O", "b" >>, << "a", "b", "a" >>}}
             \cup {<< v, w >> : v, w \in Words}

MCInputs ==
  {[tasks |-> << TaskOf(<< "b" >>, s, x[1], x[2]), Fixed, Stub, Fixed >>, query |-> q] :
     s \in Summaries, x \in Extras, q \in Queries}

=============================================================================
