------------------------------- MODULE Search -------------------------------
(***************************************************************************)
(* search/search.go: tasks are scored by the occurrences of the words of a *)
(* query in their fields, and returned with the best first.                *)
(*                                                                         *)
(* The scoring is written twice: Search counts with strings.Count, and     *)
(* SearchWithHighlights, which Engine.Search calls, with a loop of its own *)
(* that collects the positions.  Both work on the text in lower case.      *)
(*                                                                         *)
(* A text is a sequence of characters; Width is their length in UTF-8, so  *)
(* that positions count bytes.  A score is twenty times the float64 of the *)
(* code, which is exact.  A task is [stub, fields, labels].  Highlights    *)
(* are a set: their order by weight is for display.                        *)
(***************************************************************************)
EXTENDS Integers, Sequences, FiniteSets, FiniteSetsExt, SequencesExt

CONSTANTS Inputs,  \* [tasks, query]; a query is a sequence of words
          Lower,   \* Lower[ch]: unicode.ToLower
          Width    \* Width[ch]: the bytes of a character

SingleFields == {"path", "summary", "assignee", "status", "type", "body"}

Texts == Seq(DOMAIN Lower)

Task == [stub : BOOLEAN, fields : [SingleFields -> Texts], labels : Seq(Texts)]

\* The words of a query are not empty: strings.Fields separates them.
ASSUME SearchAssumption ==
  /\ \A ch \in DOMAIN Lower : Lower[ch] \in DOMAIN Lower /\ Lower[Lower[ch]] = Lower[ch]
                              /\ Width[ch] \in Nat \ {0}
  /\ \A call \in Inputs : call.tasks \in Seq(Task) /\ call.query \in Seq(Texts \ {<< >>})

VARIABLES input,    \* the tasks and the query of this call
          next,     \* the task to be scored next
          results,  \* Search: the tasks so far, [task, score]
          matches,  \* SearchWithHighlights: [task, score, highlights]
          phase     \* "score", then "ranked"

vars == << input, next, results, matches, phase >>

Weight(field) ==
  CASE field = "path" -> 100 [] field = "summary" -> 80 [] field = "labels" -> 60
    [] field = "assignee" -> 50 [] field = "status" -> 40 [] field = "type" -> 35
    [] field = "body" -> 10

\* getTaskFields: every label is a field of its own.
TaskFields(task) ==
  {[name |-> f, at |-> 0, value |-> task.fields[f]] : f \in SingleFields}
    \cup {[name |-> "labels", at |-> i, value |-> task.labels[i]] : i \in DOMAIN task.labels}

ToLower(text) == [i \in DOMAIN text |-> Lower[text[i]]]

\* tokenize: the words in lower case.
Tokens == [i \in DOMAIN input.query |-> ToLower(input.query[i])]

\* The bytes of the first n characters.
Bytes(text, n) == SumFunction([i \in 1..n |-> Width[text[i]]])

\* token stands at the i-th character of text.
OccursAt(text, token, i) ==
  i + Len(token) - 1 <= Len(text) /\ SubSeq(text, i, i + Len(token) - 1) = token

\* strings.Index of text from the i-th character on; 0 when there is none.
IndexFrom(text, token, i) ==
  LET places == {j \in i .. Len(text) : OccursAt(text, token, j)}
  IN IF places = {} THEN 0 ELSE Min(places)

\* strings.Count
Count(text, token) ==
  LET from[i \in 1 .. Len(text) + 1] ==
        LET j == IndexFrom(text, token, i)
        IN IF j = 0 THEN 0 ELSE 1 + from[j + Len(token)]
  IN from[1]

\* Faulty variant: the end of a range counts the characters of the token
\* instead of its bytes.
FindRunePositions(text, token) ==
  LET lower == ToLower(text)
      from[i \in 1 .. Len(lower) + 1] ==
        LET j == IndexFrom(lower, token, i)
        IN IF j = 0 THEN << >>
           ELSE << [start |-> Bytes(lower, j - 1), end |-> Bytes(lower, j - 1) + Len(token)] >>
                  \o from[j + Len(token)]
  IN from[1]

\* Faulty variant: the search goes on within the occurrence.
FindOverlappingPositions(text, token) ==
  LET lower == ToLower(text)
      starts == {j \in DOMAIN lower : OccursAt(lower, token, j)}
  IN [n \in 1..Cardinality(starts) |->
        LET j == SetToSortSeq(starts, <)[n]
        IN [start |-> Bytes(lower, j - 1), end |-> Bytes(lower, j - 1 + Len(token))]]

\* findAllPositions: the ranges of bytes in the lower-case text.
FindAllPositions(text, token) ==
  LET lower == ToLower(text)
      from[i \in 1 .. Len(lower) + 1] ==
        LET j == IndexFrom(lower, token, i)
        IN IF j = 0 THEN << >>
           ELSE << [start |-> Bytes(lower, j - 1), end |-> Bytes(lower, j - 1 + Len(token))] >>
                  \o from[j + Len(token)]
  IN from[1]

\* The weight once, and three tenths of it for every further occurrence.
FieldScore(weight, count) == IF count = 0 THEN 0 ELSE weight * (10 + 3 * (count - 1))

\* The scores of the tokens, and half of it more when all of several occur.
Total(scores) ==
  LET sum == SumFunction(scores)
  IN IF Len(scores) > 1 /\ \A i \in DOMAIN scores : scores[i] > 0 THEN 3 * sum ELSE 2 * sum

\* scoreTask
ScoreTask(task) ==
  Total([i \in DOMAIN Tokens |->
    SumFunction([f \in TaskFields(task) |->
                   FieldScore(Weight(f.name), Count(ToLower(f.value), Tokens[i]))])])

\* scoreTaskWithHighlights: its total, and its highlights.
ScoreTaskWithHighlights(task) ==
  Total([i \in DOMAIN Tokens |->
    SumFunction([f \in TaskFields(task) |->
                   FieldScore(Weight(f.name), Len(FindAllPositions(f.value, Tokens[i])))])])

\* The positions found for a field of that name with that text: of each token
\* in turn, and of each label when several are the same.
PositionsIn(task, name, text) ==
  LET times == Cardinality({f \in TaskFields(task) : f.name = name /\ f.value = text})
      found == [i \in DOMAIN Tokens |-> FindAllPositions(text, Tokens[i])]
  IN FlattenSeq([i \in DOMAIN found |-> FlattenSeq([n \in 1..times |-> found[i]])])

Highlights(task) ==
  {h \in {[field |-> f.name, text |-> f.value, positions |-> PositionsIn(task, f.name, f.value)] :
            f \in TaskFields(task)} : h.positions # << >>}

Init ==
  /\ input \in Inputs
  /\ next = 1 /\ results = << >> /\ matches = << >> /\ phase = "score"

\* Without a word there is no result.
Scoring == phase = "score" /\ input.query # << >> /\ next <= Len(input.tasks)

\* Faulty variant: a task needs all the words.
ScoreIfAll ==
  /\ Scoring
  /\ LET task == input.tasks[next]
         score == ScoreTask(task)
         all == \A i \in DOMAIN Tokens : \E f \in TaskFields(task) :
                  Count(ToLower(f.value), Tokens[i]) > 0
         marked == ScoreTaskWithHighlights(task)
     IN /\ results' = IF task.stub \/ score = 0 \/ ~all THEN results
                      ELSE Append(results, [task |-> next, score |-> score])
        /\ matches' = IF task.stub \/ marked = 0 \/ ~all THEN matches
                      ELSE Append(matches, [task |-> next, score |-> marked,
                                            highlights |-> Highlights(task)])
  /\ next' = next + 1
  /\ UNCHANGED << input, phase >>

\* The loops of Search and of SearchWithHighlights, a task at a time.
Score ==
  /\ Scoring
  /\ LET task == input.tasks[next]
         score == ScoreTask(task)
         marked == ScoreTaskWithHighlights(task)
     IN /\ results' = IF task.stub \/ score = 0 THEN results
                      ELSE Append(results, [task |-> next, score |-> score])
        /\ matches' = IF task.stub \/ marked = 0 THEN matches
                      ELSE Append(matches, [task |-> next, score |-> marked,
                                            highlights |-> Highlights(task)])
  /\ next' = next + 1
  /\ UNCHANGED << input, phase >>

\* sort.Slice promises no order of equal scores.
Descending(list) == \A i, j \in DOMAIN list : i < j => list[i].score >= list[j].score

Sorted(list) == {s \in SetToSeqs(ToSet(list)) : Descending(s)}

Rank ==
  /\ phase = "score" /\ ~Scoring
  /\ results' \in Sorted(results)
  /\ matches' \in Sorted(matches)
  /\ phase' = "ranked"
  /\ UNCHANGED << input, next >>

Returned == phase = "ranked" /\ UNCHANGED vars

Next == Score \/ Rank \/ Returned

Spec == Init /\ [][Next]_vars

-----------------------------------------------------------------------------
(***************************************************************************)
(* PROPERTIES                                                              *)
(***************************************************************************)

\* The two scorers agree: Search and SearchWithHighlights return the same tasks
\* with the same scores (search.go:134-202, 229-282).
ScorersAgree ==
  {[task |-> m.task, score |-> m.score] : m \in ToSet(matches)} = ToSet(results)

\* A word occurs in a text when the texts are the same but for the case.
Occurs(text, word) == \E i \in DOMAIN text : OccursAt(ToLower(text), ToLower(word), i)

Found(task) == \E i \in DOMAIN input.query : \E f \in TaskFields(task) :
  Occurs(f.value, input.query[i])

\* What is returned are exactly the tasks, and no stubs, in which some word of
\* the query occurs, each of them once, none before one with a better score
\* (search.go:84-110).
ExactlyTheFound == phase = "ranked" =>
  /\ {m.task : m \in ToSet(matches)} =
       {t \in DOMAIN input.tasks : ~input.tasks[t].stub /\ Found(input.tasks[t])}
  /\ \A i, j \in DOMAIN matches : i < j => /\ matches[i].task # matches[j].task
                                           /\ matches[i].score >= matches[j].score

\* The characters of text from byte b to byte e, or none when a character or
\* the text does not end there.
Slice(text, b, e) ==
  LET Ends(n) == {k \in 0..Len(text) : Bytes(text, k) = n}
  IN {SubSeq(text, i + 1, j) : i \in Ends(b), j \in Ends(e)}

\* A position in a highlight covers a word of the query in the text.
Marks(h, p) == \E s \in Slice(h.text, p.start, p.end) : \E i \in DOMAIN Tokens :
  ToLower(s) = Tokens[i]

SameWidth(text) == \A i \in DOMAIN text : Width[Lower[text[i]]] = Width[text[i]]

\* As long as lower case has as many bytes, every highlighted range of the text
\* reads as a word of the query (search.go:22-26, 206-227).
HighlightsReadAsWords ==
  \A m \in ToSet(matches) : \A h \in m.highlights :
    SameWidth(h.text) => \A k \in DOMAIN h.positions : Marks(h, h.positions[k])

=============================================================================
