----------------------------- MODULE EngineProofs -----------------------------
(***************************************************************************)
(* Proofs about Engine.tla, for any number of clients, indexers,           *)
(* repositories and commits.                                               *)
(*                                                                         *)
(* NothingInvented speaks of calls that have returned.  Found states it of *)
(* every task a call has read so far, which is inductive: the window of a  *)
(* call only grows, and each reading is of the content committed then.     *)
(***************************************************************************)
EXTENDS Engine, SequenceTheorems, FiniteSetTheorems, TLAPS

Contents == {{}} \cup {Image(r) : r \in {x \in Repositories : KeysUnique(x)}}

\* The contents committed so far, the last of them being the current one.
HistoryOK ==
  /\ history \in Seq(Contents)
  /\ Len(history) >= 1
  /\ content = history[Len(history)]
  /\ call \in [Indexers -> Repositories \cup {NoRepo}]

\* A task of one content in c's window.
Seen(c, t) == \E i \in from[c]..Len(history) : t \in TaskByPath(history[i], t.path)

Found == \A c \in Clients : \A t \in answer[c] : Seen(c, t)

Absent(c) ==
  \E i \in from[c]..Len(history) : TaskByPath(history[i], query[c].path) = {}

Missing ==
  \A c \in Clients : phase[c] = "idle" /\ outcome[c] = "notfound" => Absent(c)

IInv == TypeOK /\ HistoryOK /\ Found /\ Missing

-----------------------------------------------------------------------------
\* What is read from a content is a task of that content, under its own path.
LEMMA ReadFacts ==
  ASSUME NEW d \in Contents, NEW t, NEW p, t \in TaskByPath(d, p) \/ t \in AllTasks(d)
  PROVE  t \in TaskByPath(d, t.path) /\ t \in AllTasksEver
<1>1. PICK r \in TaskRows(d) : t = ScanTask(r)
  BY DEF TaskByPath, AllTasks
<1>2. t.path = r[2]
  BY <1>1 DEF ScanTask
<1>3. t \in TaskByPath(d, t.path)
  BY <1>1, <1>2 DEF TaskByPath
<1>4. PICK x \in Repositories : d = Image(x)
  BY <1>1 DEF Contents, TaskRows
<1>5. t \in AllTasksEver
  BY <1>1, <1>4 DEF AllTasksEver
<1> QED
  BY <1>3, <1>5

\* The current content is in the window of every call.
LEMMA CurrentInWindow ==
  ASSUME IInv, NEW c \in Clients
  PROVE  /\ Len(history) \in from[c]..Len(history)
         /\ history[Len(history)] = content /\ content \in Contents
  BY DEF IInv, TypeOK, HistoryOK

\* The tasks that a step of c adds to its answer are tasks of the content.
LEMMA AnswerGrows ==
  ASSUME IInv, NEW c \in Clients, NEW A,
         \A t \in A : t \in answer[c] \/ t \in AllTasks(content)
                        \/ \E p : t \in TaskByPath(content, p),
         answer' = [answer EXCEPT ![c] = A], UNCHANGED << history, from >>
  PROVE  Found' /\ answer' \in [Clients -> SUBSET AllTasksEver]
<1>1. \A t \in A : t \in AllTasksEver /\ Seen(c, t)
  <2> SUFFICES ASSUME NEW t \in A PROVE t \in AllTasksEver /\ Seen(c, t)
    OBVIOUS
  <2>1. CASE t \in answer[c]
    BY <2>1 DEF IInv, Found, TypeOK
  <2>2. CASE t \in AllTasks(content) \/ \E p : t \in TaskByPath(content, p)
    BY <2>2, ReadFacts, CurrentInWindow DEF Seen
  <2> QED
    BY <2>1, <2>2
<1>2. answer \in [Clients -> SUBSET AllTasksEver]
  BY DEF IInv, TypeOK
<1>3. \A d \in Clients : \A t : Seen(d, t) => Seen(d, t)'
  BY DEF Seen
<1> QED
  BY <1>1, <1>2, <1>3 DEF IInv, Found

-----------------------------------------------------------------------------
\* A statement before the tasks are read leaves what the call has found alone.
LEMMA CompilingPreserves ==
  ASSUME IInv, NEW c \in Clients, ReadNames(c) \/ ReadMembers(c) \/ Select(c)
  PROVE  IInv'
<1>1. /\ UNCHANGED << storeVars, history, query, answer, outcome, from >>
      /\ phase' = [phase EXCEPT ![c] = phase'[c]] /\ phase'[c] \in {"select", "members", "hydrate"}
      /\ missed' \in [Clients -> BOOLEAN]
  BY DEF ReadNames, ReadMembers, Select, NextPhase, IInv, TypeOK
<1>2. TypeOK' /\ HistoryOK'
  BY <1>1 DEF IInv, TypeOK, HistoryOK, storeVars
<1>3. Found'
  BY <1>1 DEF IInv, Found, Seen
<1>4. Missing'
  BY <1>1 DEF IInv, TypeOK, Missing, Absent
<1> QED
  BY <1>2, <1>3, <1>4 DEF IInv

LEMMA HydratePreserves ==
  ASSUME IInv, NEW c \in Clients, Hydrate(c)
  PROVE  IInv'
<1>1. PICK p \in paths[c] : answer' = [answer EXCEPT ![c] = @ \cup TaskByPath(content, p)]
  BY DEF Hydrate
<1>2. UNCHANGED << storeVars, history, query, phase, outcome, missed, from >>
  BY DEF Hydrate
<1>3. Found' /\ answer' \in [Clients -> SUBSET AllTasksEver]
  <2> DEFINE A == answer[c] \cup TaskByPath(content, p)
  <2>1. answer' = [answer EXCEPT ![c] = A]
    BY <1>1
  <2>2. \A t \in A : t \in answer[c] \/ \E x : t \in TaskByPath(content, x)
    OBVIOUS
  <2> HIDE DEF A
  <2> QED
    BY <1>2, <2>1, <2>2, AnswerGrows
<1>4. TypeOK' /\ HistoryOK'
  BY <1>2, <1>3 DEF IInv, TypeOK, HistoryOK, storeVars
<1>5. Missing'
  BY <1>2 DEF IInv, Missing, Absent
<1> QED
  BY <1>3, <1>4, <1>5 DEF IInv

\* A call that returns tasks of its answer or of the content, and reports an
\* absent task only for an absent path.
LEMMA FinishPreserves ==
  ASSUME IInv, NEW c \in Clients, NEW A, NEW how \in {"ok", "error", "notfound"},
         Finish(c, how, A),
         \A t \in A : t \in answer[c] \/ t \in AllTasks(content)
                        \/ \E p : t \in TaskByPath(content, p),
         how = "notfound" => TaskByPath(content, query[c].path) = {}
  PROVE  IInv'
<1>1. /\ UNCHANGED << storeVars, history, query, missed, from >>
      /\ phase' = [phase EXCEPT ![c] = "idle"]
      /\ outcome' = [outcome EXCEPT ![c] = how]
      /\ answer' = [answer EXCEPT ![c] = A]
  BY DEF Finish
<1>2. Found' /\ answer' \in [Clients -> SUBSET AllTasksEver]
  BY <1>1, AnswerGrows
<1>3. TypeOK' /\ HistoryOK'
  BY <1>1, <1>2 DEF IInv, TypeOK, HistoryOK, storeVars
<1>4. Missing'
  <2> SUFFICES ASSUME NEW d \in Clients, phase'[d] = "idle", outcome'[d] = "notfound"
               PROVE  Absent(d)'
    BY DEF Missing
  <2>1. CASE d = c
    <3>1. TaskByPath(content, query[c].path) = {}
      BY <1>1, <2>1 DEF IInv, TypeOK
    <3> QED
      BY <1>1, <2>1, <3>1, CurrentInWindow DEF Absent
  <2>2. CASE d # c
    BY <1>1, <2>2 DEF IInv, TypeOK, Missing, Absent
  <2> QED
    BY <2>1, <2>2
<1> QED
  BY <1>2, <1>3, <1>4 DEF IInv

LEMMA SubmitPreserves ==
  ASSUME IInv, NEW c \in Clients, NEW q \in Queries, Submit(c, q)
  PROVE  IInv'
<1>1. /\ UNCHANGED << storeVars, history >>
      /\ query' = [query EXCEPT ![c] = q]
      /\ phase' = [phase EXCEPT ![c] = FirstPhase(q)]
      /\ answer' = [answer EXCEPT ![c] = {}]
      /\ outcome' = [outcome EXCEPT ![c] = IF q.kind = "malformed" THEN "invalid" ELSE "none"]
      /\ missed' = [missed EXCEPT ![c] = FALSE]
      /\ from' = [from EXCEPT ![c] = Len(history)]
  BY DEF Submit
<1>2. FirstPhase(q) \in {"idle", "names", "members", "select", "hydrate", "scan", "read"}
  <2>1. q.kind \in Kinds
    BY EngineAssumption
  <2> QED
    BY <2>1 DEF Kinds, FirstPhase
<1>3. TypeOK' /\ HistoryOK'
  BY <1>1, <1>2, CurrentInWindow DEF IInv, TypeOK, HistoryOK, storeVars
<1>4. Found'
  BY <1>1 DEF IInv, TypeOK, Found, Seen
<1>5. Missing'
  BY <1>1 DEF IInv, TypeOK, Missing, Absent
<1> QED
  BY <1>3, <1>4, <1>5 DEF IInv

\* A step of the store: the window of every call keeps its contents.
LEMMA IndexPreserves ==
  ASSUME IInv, NEW w \in Indexers, Index(w)
  PROVE  IInv'
<1>1. UNCHANGED << query, phase, answer, outcome, missed, from >>
  BY DEF Index, clientVars
<1>2. /\ history' \in Seq(Contents) /\ Len(history') \in Len(history)..MaxCommits + 1
      /\ content' = history'[Len(history')]
      /\ \A i \in 1..Len(history) : history'[i] = history[i]
      /\ call' \in [Indexers -> Repositories \cup {NoRepo}]
  <2>1. /\ history \in Seq(Contents) /\ Len(history) \in 1..MaxCommits + 1
        /\ content = history[Len(history)]
        /\ call \in [Indexers -> Repositories \cup {NoRepo}]
    BY EngineAssumption DEF IInv, TypeOK, HistoryOK
  <2>2. CASE Apply(w) /\ Len(history) <= MaxCommits /\ history' = Append(history, content')
    <3>1. content' \in Contents
      BY <2>1, <2>2 DEF Apply, Contents
    <3>2. call' = call
      BY <2>2 DEF Apply
    <3> QED
      BY <2>1, <2>2, <3>1, <3>2, EngineAssumption
  <2>3. CASE /\ UNCHANGED << content, history >>
             /\ \/ \E r \in Repositories : Invoke(w, r)
                \/ Acknowledge(w)
                \/ Reject(w)
                \/ Abandon(w)
    BY <2>1, <2>3 DEF Invoke, Acknowledge, Reject, Abandon
  <2> QED
    BY <2>2, <2>3 DEF Index, Invoke, Acknowledge, Reject, Abandon
<1>3. \A c \in Clients : from[c] \in 1..Len(history)
  BY DEF IInv, TypeOK
<1>4. \A c \in Clients : \A i \in from[c]..Len(history) :
         i \in from[c]..Len(history') /\ history'[i] = history[i]
  BY <1>2, <1>3 DEF IInv, HistoryOK
<1>5. TypeOK' /\ HistoryOK'
  BY <1>1, <1>2, EngineAssumption DEF IInv, TypeOK, HistoryOK
<1>6. Found'
  BY <1>1, <1>4 DEF IInv, Found, Seen
<1>7. Missing'
  BY <1>1, <1>4 DEF IInv, Missing, Absent
<1> QED
  BY <1>5, <1>6, <1>7 DEF IInv

-----------------------------------------------------------------------------
\* At the start nobody has called and the database is empty.
LEMMA InitIInv == Init => IInv
<1> SUFFICES ASSUME Init PROVE IInv
  OBVIOUS
<1>1. HistoryOK /\ Len(history) = 1
  BY DEF Init, StoreInit, HistoryOK, Contents
<1>2. TypeOK
  BY <1>1, EngineAssumption DEF Init, StoreInit, TypeOK
<1> QED
  BY <1>1, <1>2 DEF Init, IInv, Found, Missing

\* Each step of a client or an indexer keeps the invariant.
LEMMA NextIInv == IInv /\ [Next]_vars => IInv'
<1> SUFFICES ASSUME IInv, [Next]_vars PROVE IInv'
  OBVIOUS
<1>1. ASSUME NEW w \in Indexers, Index(w) PROVE IInv'
  BY <1>1, IndexPreserves
<1>2. ASSUME NEW c \in Clients, NEW q \in Queries, Submit(c, q) PROVE IInv'
  BY <1>2, SubmitPreserves
<1>3. ASSUME NEW c \in Clients, Step(c) PROVE IInv'
  <2>1. CASE ReadNames(c) \/ ReadMembers(c) \/ Select(c)
    BY <2>1, CompilingPreserves
  <2>2. CASE Hydrate(c)
    BY <2>2, HydratePreserves
  <2>3. CASE ReturnTasks(c)
    BY <2>3, FinishPreserves DEF ReturnTasks
  <2>4. CASE Search(c)
    <3>1. \A t \in Hits(AllTasks(content), query[c].term) : t \in AllTasks(content)
      BY DEF Hits
    <3> QED
      BY <2>4, <3>1, FinishPreserves DEF Search
  <2>5. CASE Lookup(c)
    BY <2>5, FinishPreserves DEF Lookup
  <2>6. CASE Fail(c)
    BY <2>6, FinishPreserves DEF Fail
  <2> QED
    BY <1>3, <2>1, <2>2, <2>3, <2>4, <2>5, <2>6 DEF Step
<1>4. CASE UNCHANGED vars
  BY <1>4 DEF vars, storeVars, clientVars, IInv, TypeOK, HistoryOK, Found, Seen, Missing, Absent
<1> QED
  BY <1>1, <1>2, <1>3, <1>4 DEF Next

\* The invariant holds throughout every run of clients and indexers.
THEOREM InductiveInvariant == Spec => []IInv
  BY InitIInv, NextIInv, PTL DEF Spec

\* Every variable keeps its type: an answer holds tasks of repositories only.
THEOREM TypeCorrect == Spec => []TypeOK
<1>1. IInv => TypeOK
  BY DEF IInv
<1> QED
  BY <1>1, InductiveInvariant, PTL

\* Every task a call returns was, as it is returned, in a content committed
\* while the call ran (store.go:332-367, engine.go:135-197).
THEOREM AnswersAreReal == Spec => []NothingInvented
<1>1. IInv => NothingInvented
  BY DEF IInv, Found, Seen, NothingInvented, Window
<1> QED
  BY <1>1, InductiveInvariant, PTL

\* ErrTaskNotFound means that the path was absent at some moment of the call
\* (engine.go:184-197).
THEOREM NotFoundIsTrue == Spec => []NotFoundMeansAbsent
<1>1. IInv => NotFoundMeansAbsent
  BY DEF IInv, Missing, Absent, NotFoundMeansAbsent, Window
<1> QED
  BY <1>1, InductiveInvariant, PTL

-----------------------------------------------------------------------------
(***************************************************************************)
(* WHAT IS NOT LOST                                                        *)
(*                                                                         *)
(* QuietAnswerExact and StableMatchReturned speak of calls that have       *)
(* returned; CallOK says, for each statement a call may run next, what the *)
(* statements before it have gathered.  Both are about the contents of the *)
(* call's window, which only grows: what holds for all of them can only    *)
(* become false, never true, by a commit.                                  *)
(***************************************************************************)

\* The call runs the statements of its kind.
Fits(c) ==
  /\ phase[c] = "names" => query[c].kind = "my_team" \/ (query[c].kind = "me" /\ CurrentUser # "")
  /\ phase[c] = "members" => query[c].kind \in {"me", "my_team", "team"}
  /\ phase[c] = "select" => toAsk[c] = {}
  /\ phase[c] \in {"names", "members", "select"} => answer[c] = {}
  /\ phase[c] \in {"select", "hydrate"} => query[c].kind \in {"status", "me", "my_team", "team"}
  /\ phase[c] = "scan" => query[c].kind = "search"
  /\ phase[c] = "read" => query[c].kind = "lookup"

\* Every content of c's window holds t as a match.
Steady(c, t) == \A i \in from[c]..Len(history) : t \in Exact(query[c], history[i])

\* What a call without aliases of the user keeps of its steady matches.
Kept(c) ==
  ~missed[c] /\ query[c].kind \in {"status", "team", "search", "lookup"} =>
    /\ phase[c] = "members" => toAsk[c] = {query[c].team} /\ who[c] = {TeamTag(query[c].team)}
    /\ phase[c] = "select" /\ query[c].kind = "team" =>
         \E i \in from[c]..Len(history) : who[c] = MeantBy(query[c], history[i])
    /\ phase[c] = "hydrate" =>
         \A t \in Exact(query[c], content) : Steady(c, t) => t \in answer[c] \/ t.path \in paths[c]
    /\ Answered(c) =>
         \A t \in Exact(query[c], content) : Steady(c, t) => t \in answer[c]

\* No commit has fallen into c's call.
Quiet(c) == \A i \in from[c]..Len(history) : history[i] = content

\* The teams a query asks for their members.
ToRead(q, d) ==
  CASE q.kind = "team" -> {q.team}
    [] q.kind = "my_team" \/ (q.kind = "me" /\ CurrentUser # "") -> AllTeamNames(d)
    [] OTHER -> {}

\* The assignees known once the teams in ts have been read.
Gathered(q, d, ts) == InitialWho(q) \cup UNION {Contribution(q, t, TeamMembers(d, t)) : t \in ts}

\* How far a call is on the one content it has seen.
Exactly(c) ==
  ~missed[c] /\ Quiet(c) /\ (query[c].kind = "me" => query[c].op = "=") =>
    /\ phase[c] = "names" => who[c] = InitialWho(query[c])
    /\ phase[c] \in {"members", "select"} =>
         /\ toAsk[c] \subseteq ToRead(query[c], content)
         /\ who[c] = Gathered(query[c], content, ToRead(query[c], content) \ toAsk[c])
    /\ phase[c] = "hydrate" =>
         /\ answer[c] \subseteq Exact(query[c], content)
         /\ paths[c] \subseteq {t.path : t \in Exact(query[c], content)}
         /\ \A t \in Exact(query[c], content) : t \in answer[c] \/ t.path \in paths[c]
    /\ Answered(c) => answer[c] = Exact(query[c], content)

CallOK(c) == Fits(c) /\ Kept(c) /\ Exactly(c)

Shapes == DOMAIN toAsk = Clients /\ DOMAIN who = Clients /\ DOMAIN paths = Clients

Progress == Shapes /\ \A c \in Clients : CallOK(c)

-----------------------------------------------------------------------------
(***************************************************************************)
(* FACTS ABOUT CONTENTS                                                    *)
(***************************************************************************)

LEMMA StagesAre ==
  Stages = {"version", "tasks", "teams", "iterations", "rules", "results"}
<1>1. Len(WriteOrder) = 6
  BY DEF WriteOrder
<1>2. 1..6 = {1, 2, 3, 4, 5, 6}
  OBVIOUS
<1> QED
  BY <1>1, <1>2 DEF Stages, WriteOrder

\* The rows of "tasks" and of "team_members" come from the tasks and the teams.
LEMMA OriginOfRow ==
  ASSUME NEW es, NEW x \in Image(es)
  PROVE  /\ x[1] = "tasks" => \E e \in es["tasks"] : x = OwnRow("tasks", e)
         /\ x[1] = "team_members" => \E e \in es["teams"] : x[2] = e.name
<1>1. PICK s \in Stages : \E e \in es[s] : x \in RowsOf(s, e)
  BY DEF Image
<1>2. PICK e \in es[s] : x \in RowsOf(s, e)
  BY <1>1
<1>3. ASSUME x[1] = "tasks" PROVE s = "tasks" /\ x = OwnRow("tasks", e)
  BY <1>2, <1>3, StagesAre DEF RowsOf, OwnRow, ChildRows
<1>4. ASSUME x[1] = "team_members" PROVE s = "teams" /\ x[2] = e.name
  BY <1>2, <1>4, StagesAre DEF RowsOf, OwnRow, ChildRows
<1> QED
  BY <1>2, <1>3, <1>4

\* A path has one row in "tasks".
LEMMA OneTaskRow ==
  ASSUME NEW d \in Contents, NEW x \in TaskRows(d), NEW y \in TaskRows(d), x[2] = y[2]
  PROVE  x = y
<1>1. PICK r \in Repositories : KeysUnique(r) /\ d = Image(r)
  BY DEF Contents, TaskRows
<1>2. PICK e \in r["tasks"] : x = OwnRow("tasks", e)
  BY <1>1, OriginOfRow DEF TaskRows
<1>3. PICK f \in r["tasks"] : y = OwnRow("tasks", f)
  BY <1>1, OriginOfRow DEF TaskRows
<1>4. "tasks" \in Stages \ {"results"}
  BY StagesAre
<1>5. e = f
  BY <1>1, <1>2, <1>3, <1>4 DEF KeysUnique, TaskRows
<1> QED
  BY <1>2, <1>3, <1>5

\* The team of a member has a name.
LEMMA TeamOfMember ==
  ASSUME NEW d \in Contents, NEW x \in d, x[1] = "team_members"
  PROVE  x[2] \in AllTeamNames(d)
<1>1. PICK r \in Repositories : d = Image(r)
  BY DEF Contents
<1>2. PICK e \in r["teams"] : x[2] = e.name
  BY <1>1, OriginOfRow
<1>3. OwnRow("teams", e) \in d
  BY <1>1, <1>2, StagesAre DEF Image, RowsOf
<1>4. OwnRow("teams", e)[1] = "teams" /\ OwnRow("teams", e)[2] = e.name
  BY DEF OwnRow
<1> QED
  BY <1>2, <1>3, <1>4 DEF AllTeamNames

\* The teams that have been read add up to what the query means.
LEMMA GatheredIsMeant ==
  ASSUME NEW d \in Contents, NEW q, q.kind \in {"me", "my_team", "team"}
  PROVE  Gathered(q, d, ToRead(q, d)) = MeantBy(q, d)
<1>1. CASE q.kind = "team"
  BY <1>1 DEF Gathered, ToRead, MeantBy, InitialWho, Contribution
<1>2. CASE q.kind = "me" /\ CurrentUser = ""
  BY <1>2 DEF Gathered, ToRead, MeantBy, InitialWho
<1> DEFINE U == UNION {Contribution(q, t, TeamMembers(d, t)) : t \in AllTeamNames(d)}
<1>3. CASE q.kind = "me" /\ CurrentUser # ""
  <2>1. U = UNION {Addresses(r[3]) : r \in Mine(d)}
    <3>1. ASSUME NEW a \in U PROVE a \in UNION {Addresses(r[3]) : r \in Mine(d)}
      <4>1. PICK t \in AllTeamNames(d) : a \in Contribution(q, t, TeamMembers(d, t))
        OBVIOUS
      <4>2. Contribution(q, t, TeamMembers(d, t)) =
              UNION {Addresses(m) : m \in {x \in TeamMembers(d, t) : IsMe(x)}}
        BY <1>3 DEF Contribution
      <4>3. PICK m \in TeamMembers(d, t) : IsMe(m) /\ a \in Addresses(m)
        BY <4>1, <4>2
      <4> QED
        BY <4>3 DEF TeamMembers, Mine
    <3>2. ASSUME NEW r \in Mine(d), NEW a \in Addresses(r[3]) PROVE a \in U
      <4>1. r[2] \in AllTeamNames(d) /\ r[3] \in TeamMembers(d, r[2]) /\ IsMe(r[3])
        BY TeamOfMember DEF Mine, TeamMembers
      <4>2. a \in Contribution(q, r[2], TeamMembers(d, r[2]))
        BY <1>3, <4>1 DEF Contribution
      <4> QED
        BY <4>1, <4>2
    <3> QED
      BY <3>1, <3>2
  <2> QED
    BY <1>3, <2>1 DEF Gathered, ToRead, MeantBy, InitialWho
<1>4. CASE q.kind = "my_team"
  <2>1. U = {TeamTag(r[2]) : r \in Mine(d)}
    <3>1. ASSUME NEW a \in U PROVE a \in {TeamTag(r[2]) : r \in Mine(d)}
      <4>1. PICK t \in AllTeamNames(d) : a = TeamTag(t) /\ \E m \in TeamMembers(d, t) : IsMe(m)
        BY <1>4 DEF Contribution
      <4> QED
        BY <4>1 DEF TeamMembers, Mine
    <3>2. ASSUME NEW r \in Mine(d) PROVE TeamTag(r[2]) \in U
      <4>1. r[2] \in AllTeamNames(d) /\ r[3] \in TeamMembers(d, r[2]) /\ IsMe(r[3])
        BY TeamOfMember DEF Mine, TeamMembers
      <4>2. TeamTag(r[2]) \in Contribution(q, r[2], TeamMembers(d, r[2]))
        BY <1>4, <4>1 DEF Contribution
      <4> QED
        BY <4>1, <4>2
    <3> QED
      BY <3>1, <3>2
  <2> QED
    BY <1>4, <2>1 DEF Gathered, ToRead, MeantBy, InitialWho
<1> QED
  BY <1>1, <1>2, <1>3, <1>4

\* An exact match is read again by its path, with nothing beside it.
LEMMA ExactIsRead ==
  ASSUME NEW d \in Contents, NEW q, NEW t \in Exact(q, d)
  PROVE  TaskByPath(d, t.path) = {t}
<1>1. PICK r \in TaskRows(d) : t = ScanTask(r)
  BY DEF Exact
<1>2. t.path = r[2]
  BY <1>1 DEF ScanTask
<1>3. ASSUME NEW x \in TaskRows(d), x[2] = t.path PROVE x = r
  BY <1>2, <1>3, OneTaskRow
<1> QED
  BY <1>1, <1>2, <1>3 DEF TaskByPath

-----------------------------------------------------------------------------
(***************************************************************************)
(* THE STEPS OF A CALL AND THE COMMITS BESIDE IT                           *)
(***************************************************************************)

\* A step of c matters to c alone.
LEMMA OthersProgress ==
  ASSUME Progress, NEW c \in Clients, UNCHANGED << content, history >>, Shapes', CallOK(c)',
         \A d \in Clients \ {c} :
           /\ query'[d] = query[d] /\ phase'[d] = phase[d] /\ toAsk'[d] = toAsk[d]
           /\ who'[d] = who[d] /\ paths'[d] = paths[d] /\ answer'[d] = answer[d]
           /\ outcome'[d] = outcome[d] /\ missed'[d] = missed[d] /\ from'[d] = from[d]
  PROVE  Progress'
<1> SUFFICES ASSUME NEW d \in Clients \ {c} PROVE CallOK(d)'
  BY DEF Progress
<1>1. CallOK(d)
  BY DEF Progress
<1>2. /\ Quiet(d)' = Quiet(d)
      /\ \A t : Steady(d, t)' = Steady(d, t)
      /\ Answered(d)' = Answered(d)
  BY DEF Quiet, Steady, Answered
<1>3. Fits(d)'
  BY <1>1 DEF CallOK, Fits
<1>4. Kept(d)'
  BY <1>1, <1>2 DEF CallOK, Kept
<1>5. Exactly(d)'
  BY <1>1, <1>2 DEF CallOK, Exactly
<1> QED
  BY <1>3, <1>4, <1>5 DEF CallOK

\* A step that changes neither calls nor contents.
LEMMA UnchangedProgress ==
  ASSUME Progress, UNCHANGED << clientVars, content, history >>
  PROVE  Progress'
<1>1. /\ query' = query /\ phase' = phase /\ toAsk' = toAsk /\ who' = who /\ paths' = paths
      /\ answer' = answer /\ outcome' = outcome /\ missed' = missed /\ from' = from
      /\ content' = content /\ history' = history
  BY DEF clientVars
<1>2. Shapes'
  BY <1>1 DEF Progress, Shapes
<1> SUFFICES ASSUME NEW d \in Clients PROVE CallOK(d)'
  BY <1>2 DEF Progress
<1>3. CallOK(d)
  BY DEF Progress
<1>4. /\ Quiet(d)' = Quiet(d)
      /\ \A t : Steady(d, t)' = Steady(d, t)
      /\ Answered(d)' = Answered(d)
  BY <1>1 DEF Quiet, Steady, Answered
<1>5. Fits(d)'
  BY <1>1, <1>3 DEF CallOK, Fits
<1>6. Kept(d)'
  BY <1>1, <1>3, <1>4 DEF CallOK, Kept
<1>7. Exactly(d)'
  BY <1>1, <1>3, <1>4 DEF CallOK, Exactly
<1> QED
  BY <1>5, <1>6, <1>7 DEF CallOK

\* A commit lengthens the windows, and ends the quiet of a call unless it
\* leaves the content as it was.
LEMMA IndexProgress ==
  ASSUME IInv, Progress, NEW w \in Indexers, Index(w)
  PROVE  Progress'
<1>1. UNCHANGED clientVars
  BY DEF Index
<1>2. \/ UNCHANGED << content, history >>
      \/ history' = Append(history, content')
  BY DEF Index, Invoke, Apply, Acknowledge, Reject, Abandon
<1>3. CASE UNCHANGED << content, history >>
  BY <1>1, <1>3, UnchangedProgress
<1>4. CASE history' = Append(history, content')
  <2>1. /\ history \in Seq(Contents) /\ Len(history) \in Nat \ {0}
        /\ history[Len(history)] = content
        /\ \A c \in Clients : from[c] \in 1..Len(history)
    BY DEF IInv, TypeOK, HistoryOK
  <2>2. /\ Len(history') = Len(history) + 1
        /\ history'[Len(history')] = content'
        /\ \A i \in 1..Len(history) : history'[i] = history[i]
    BY <1>4, <2>1
  <2> SUFFICES ASSUME NEW c \in Clients PROVE CallOK(c)'
    BY <1>1 DEF clientVars, Progress, Shapes
  <2>3. CallOK(c)
    BY DEF Progress
  <2>4. /\ query'[c] = query[c] /\ phase'[c] = phase[c] /\ toAsk'[c] = toAsk[c]
        /\ who'[c] = who[c] /\ paths'[c] = paths[c] /\ answer'[c] = answer[c]
        /\ outcome'[c] = outcome[c] /\ missed'[c] = missed[c] /\ from'[c] = from[c]
        /\ Answered(c)' = Answered(c)
    BY <1>1 DEF clientVars, Answered
  <2>5. /\ \A i \in from[c]..Len(history) : i \in from'[c]..Len(history') /\ history'[i] = history[i]
        /\ Len(history) \in from[c]..Len(history)
        /\ Len(history') \in from'[c]..Len(history')
    BY <2>1, <2>2, <2>4
  <2>6. \A t : Steady(c, t)' => Steady(c, t) /\ t \in Exact(query[c], content)
    BY <2>1, <2>4, <2>5 DEF Steady
  <2>7. Quiet(c)' => Quiet(c) /\ content' = content
    BY <2>1, <2>4, <2>5 DEF Quiet
  <2>8. Fits(c)'
    BY <2>3, <2>4 DEF CallOK, Fits
  <2>9. Kept(c)'
    <3> SUFFICES ASSUME ~missed[c], query[c].kind \in {"status", "team", "search", "lookup"}
                 PROVE  Kept(c)'
      BY <2>4 DEF Kept
    <3>1. phase[c] = "select" /\ query[c].kind = "team" =>
            \E i \in from'[c]..Len(history') : who[c] = MeantBy(query[c], history'[i])
      BY <2>3, <2>5 DEF CallOK, Kept
    <3>2. /\ phase[c] = "members" => toAsk[c] = {query[c].team} /\ who[c] = {TeamTag(query[c].team)}
          /\ phase[c] = "hydrate" => \A t : Steady(c, t)' => t \in answer[c] \/ t.path \in paths[c]
          /\ Answered(c) => \A t : Steady(c, t)' => t \in answer[c]
      BY <2>3, <2>6 DEF CallOK, Kept
    <3> QED
      BY <2>4, <3>1, <3>2 DEF Kept
  <2>10. Exactly(c)'
    <3> SUFFICES ASSUME Quiet(c)' PROVE Exactly(c)'
      BY DEF Exactly
    <3>1. Exactly(c) /\ Quiet(c) /\ content' = content
      BY <2>3, <2>7 DEF CallOK
    <3> QED
      BY <2>4, <3>1 DEF Exactly
  <2> QED
    BY <2>8, <2>9, <2>10 DEF CallOK
<1> QED
  BY <1>2, <1>3, <1>4

\* A new call has gathered nothing yet.
LEMMA SubmitProgress ==
  ASSUME IInv, Progress, NEW c \in Clients, NEW q \in Queries, Submit(c, q)
  PROVE  Progress'
<1>1. /\ UNCHANGED << content, history >>
      /\ query'[c] = q /\ phase'[c] = FirstPhase(q)
      /\ toAsk'[c] = (IF q.kind = "team" THEN {q.team} ELSE {})
      /\ who'[c] = InitialWho(q)
      /\ outcome'[c] = (IF q.kind = "malformed" THEN "invalid" ELSE "none")
      /\ answer'[c] = {}
      /\ Shapes'
  BY DEF Submit, storeVars, IInv, TypeOK, Progress, Shapes
<1>2. q.kind \in Kinds
  BY EngineAssumption
<1>3. /\ FirstPhase(q) = "names" => q.kind \in {"me", "my_team"}
      /\ FirstPhase(q) = "names" /\ q.kind = "me" => CurrentUser # ""
      /\ FirstPhase(q) = "members" => q.kind = "team"
      /\ FirstPhase(q) = "select" => q.kind \in {"status", "me"} /\ (q.kind = "me" => CurrentUser = "")
      /\ FirstPhase(q) = "scan" => q.kind = "search"
      /\ FirstPhase(q) = "read" => q.kind = "lookup"
      /\ FirstPhase(q) # "hydrate"
  BY <1>2 DEF Kinds, FirstPhase
<1>4. Fits(c)'
  BY <1>1, <1>3 DEF Fits
<1>5. Kept(c)'
  BY <1>1, <1>3 DEF Kept, Answered, InitialWho
<1>6. Exactly(c)'
  <2>1. toAsk'[c] \subseteq ToRead(q, content) /\ (FirstPhase(q) = "members" => toAsk'[c] = ToRead(q, content))
    BY <1>1, <1>3 DEF ToRead
  <2>2. FirstPhase(q) = "select" => ToRead(q, content) = {}
    BY <1>3 DEF ToRead
  <2>3. Gathered(q, content, {}) = InitialWho(q)
    BY DEF Gathered
  <2>4. FirstPhase(q) \in {"members", "select"} =>
          who'[c] = Gathered(q, content, ToRead(q, content) \ toAsk'[c])
    <3> SUFFICES ASSUME FirstPhase(q) \in {"members", "select"}
                 PROVE  ToRead(q, content) \ toAsk'[c] = {}
      BY <1>1, <2>3
    <3> QED
      BY <2>1, <2>2
  <2>5. ~Answered(c)'
    BY <1>1 DEF Answered
  <2> QED
    BY <1>1, <1>3, <2>1, <2>4, <2>5 DEF Exactly
<1> QED
  BY <1>1, <1>4, <1>5, <1>6, OthersProgress DEF CallOK, Submit, IInv, TypeOK, Progress, Shapes

LEMMA ReadNamesProgress ==
  ASSUME IInv, Progress, NEW c \in Clients, ReadNames(c)
  PROVE  Progress'
<1>1. /\ UNCHANGED << content, history, query, who, paths, answer, outcome, from >>
      /\ phase[c] = "names" /\ phase'[c] = NextPhase(toAsk'[c])
      /\ missed'[c] \/ (missed'[c] = missed[c] /\ toAsk'[c] = AllTeamNames(content))
      /\ ~missed'[c] => ~missed[c]
      /\ ~missed[c] /\ ~missed'[c] => toAsk'[c] = AllTeamNames(content)
      /\ Shapes'
  BY DEF ReadNames, storeVars, IInv, TypeOK, Progress, Shapes
<1>2. CallOK(c) /\ query[c].kind \in {"me", "my_team"} /\ answer[c] = {}
  BY <1>1 DEF Progress, CallOK, Fits
<1>3. phase'[c] \in {"members", "select"} /\ (phase'[c] = "select" => toAsk'[c] = {})
  BY <1>1 DEF NextPhase
<1>4. Fits(c)'
  BY <1>1, <1>2, <1>3 DEF Fits
<1>5. Kept(c)'
  BY <1>1, <1>2 DEF Kept
<1>6. Exactly(c)'
  <2> SUFFICES ASSUME ~missed'[c], Quiet(c)', query[c].kind = "me" => query[c].op = "="
               PROVE  Exactly(c)'
    BY <1>1 DEF Exactly
  <2>1. Quiet(c)
    BY <1>1 DEF Quiet
  <2>2. who[c] = InitialWho(query[c])
    BY <1>1, <1>2, <2>1 DEF CallOK, Exactly
  <2>3. toAsk'[c] = AllTeamNames(content)
    BY <1>1
  <2>4. ToRead(query[c], content) = toAsk'[c]
    BY <1>1, <1>2, <2>3 DEF ToRead, Progress, CallOK, Fits
  <2>5. who[c] = Gathered(query[c], content, ToRead(query[c], content) \ toAsk'[c])
    <3>1. ToRead(query[c], content) \ toAsk'[c] = {}
      BY <2>4
    <3> QED
      BY <2>2, <3>1 DEF Gathered
  <2> QED
    BY <1>1, <1>3, <2>4, <2>5 DEF Exactly, Answered
<1> QED
  BY <1>1, <1>4, <1>5, <1>6, OthersProgress DEF CallOK, ReadNames, IInv, TypeOK, Progress, Shapes

LEMMA GatheredGrows ==
  ASSUME NEW q, NEW d, NEW ts, NEW t
  PROVE  Gathered(q, d, ts \cup {t}) = Gathered(q, d, ts) \cup Contribution(q, t, TeamMembers(d, t))
<1> DEFINE C(u) == Contribution(q, u, TeamMembers(d, u))
           X == UNION {C(u) : u \in ts \cup {t}}
           Y == UNION {C(u) : u \in ts}
<1>1. X = Y \cup C(t)
  <2> HIDE DEF C
  <2>1. \A a : a \in X <=> \E u \in ts \cup {t} : a \in C(u)
    OBVIOUS
  <2>2. \A a : a \in Y <=> \E u \in ts : a \in C(u)
    OBVIOUS
  <2> HIDE DEF X, Y
  <2> QED
    BY <2>1, <2>2
<1> QED
  BY <1>1 DEF Gathered

LEMMA ReadMembersProgress ==
  ASSUME IInv, Progress, NEW c \in Clients, ReadMembers(c)
  PROVE  Progress'
<1>1. PICK t \in toAsk[c] :
        /\ toAsk' = [toAsk EXCEPT ![c] = @ \ {t}]
        /\ \/ /\ who' = [who EXCEPT ![c] =
                           @ \cup Contribution(query[c], t, TeamMembers(content, t))]
              /\ UNCHANGED missed
           \/ missed' = [missed EXCEPT ![c] = TRUE] /\ UNCHANGED who
        /\ phase' = [phase EXCEPT ![c] = NextPhase(toAsk'[c])]
  BY DEF ReadMembers
<1>2. /\ UNCHANGED << content, history, query, paths, answer, outcome, from >>
      /\ phase[c] = "members" /\ phase'[c] = NextPhase(toAsk'[c])
      /\ toAsk'[c] = toAsk[c] \ {t}
      /\ ~missed'[c] =>
           /\ ~missed[c]
           /\ who'[c] = who[c] \cup Contribution(query[c], t, TeamMembers(content, t))
      /\ Shapes'
  BY <1>1 DEF ReadMembers, storeVars, IInv, TypeOK, Progress, Shapes
<1>3. CallOK(c) /\ query[c].kind \in {"me", "my_team", "team"} /\ answer[c] = {}
  BY <1>2 DEF Progress, CallOK, Fits
<1>4. phase'[c] \in {"members", "select"} /\ (phase'[c] = "select" <=> toAsk'[c] = {})
  BY <1>2 DEF NextPhase
<1>5. Fits(c)'
  BY <1>2, <1>3, <1>4 DEF Fits
<1>6. Kept(c)'
  <2> SUFFICES ASSUME ~missed'[c], query[c].kind = "team" PROVE Kept(c)'
    BY <1>2, <1>3 DEF Kept
  <2>1. toAsk[c] = {query[c].team} /\ who[c] = {TeamTag(query[c].team)}
    BY <1>2, <1>3 DEF CallOK, Kept
  <2>2. t = query[c].team /\ toAsk'[c] = {}
    BY <1>2, <2>1
  <2>3. who'[c] = MeantBy(query[c], content)
    BY <1>2, <2>1, <2>2 DEF MeantBy, Contribution
  <2>4. Len(history) \in from[c]..Len(history) /\ history[Len(history)] = content
    BY CurrentInWindow
  <2> QED
    BY <1>2, <1>4, <2>2, <2>3, <2>4 DEF Kept, Answered
<1>7. Exactly(c)'
  <2> SUFFICES ASSUME ~missed'[c], Quiet(c)', query[c].kind = "me" => query[c].op = "="
               PROVE  Exactly(c)'
    BY <1>2 DEF Exactly
  <2> DEFINE R == ToRead(query[c], content)
  <2>1. Quiet(c)
    BY <1>2 DEF Quiet
  <2>2. toAsk[c] \subseteq R /\ who[c] = Gathered(query[c], content, R \ toAsk[c])
    BY <1>2, <1>3, <2>1 DEF CallOK, Exactly
  <2>3. toAsk'[c] \subseteq R /\ R \ toAsk'[c] = (R \ toAsk[c]) \cup {t}
    BY <1>2, <2>2
  <2>4. who'[c] = Gathered(query[c], content, R \ toAsk'[c])
    <3>1. Gathered(query[c], content, (R \ toAsk[c]) \cup {t}) =
            Gathered(query[c], content, R \ toAsk[c])
              \cup Contribution(query[c], t, TeamMembers(content, t))
      BY GatheredGrows
    <3> QED
      BY <1>2, <2>2, <2>3, <3>1
  <2> QED
    BY <1>2, <1>4, <2>3, <2>4 DEF Exactly, Answered
<1> QED
  BY <1>1, <1>2, <1>5, <1>6, <1>7, OthersProgress DEF CallOK, IInv, TypeOK, Progress, Shapes

\* With the right assignees the compiled condition is the meaning of the query.
LEMMA HoldsIsMatches ==
  ASSUME NEW q, NEW d, NEW ws, NEW r, q.kind \in {"status", "me", "my_team", "team"},
         q.kind = "me" => q.op = "=",
         q.kind # "status" => ws = MeantBy(q, d)
  PROVE  Holds(q, ws, r) <=> Matches(q, r, d)
<1>1. CASE q.kind = "status"
  BY <1>1 DEF Holds, Matches
<1>2. CASE q.kind # "status"
  <2>1. ~(q.kind = "me" /\ q.op = "!=" /\ Cardinality(ws) <= 1)
    OBVIOUS
  <2> QED
    BY <1>2, <2>1 DEF Holds, Matches
<1> QED
  BY <1>1, <1>2

LEMMA SelectProgress ==
  ASSUME IInv, Progress, NEW c \in Clients, Select(c)
  PROVE  Progress'
<1>1. /\ UNCHANGED << content, history, query, toAsk, who, answer, outcome, missed, from >>
      /\ phase[c] = "select" /\ phase'[c] = "hydrate"
      /\ paths'[c] = Selected(query[c], who[c], content)
      /\ Shapes'
  BY DEF Select, storeVars, IInv, TypeOK, Progress, Shapes
<1>2. /\ CallOK(c) /\ query[c].kind \in {"status", "me", "my_team", "team"}
      /\ toAsk[c] = {} /\ answer[c] = {}
  BY <1>1 DEF Progress, CallOK, Fits
<1>3. content \in Contents
  BY CurrentInWindow
<1>4. Fits(c)'
  BY <1>1, <1>2 DEF Fits
<1>5. Kept(c)'
  <2> SUFFICES ASSUME ~missed[c], query[c].kind \in {"status", "team"},
                      NEW t \in Exact(query[c], content), Steady(c, t)
               PROVE  t.path \in paths'[c]
    BY <1>1, <1>2 DEF Kept, Answered, Steady
  <2>1. PICK r \in TaskRows(content) : t = ScanTask(r) /\ Matches(query[c], r, content)
    BY DEF Exact
  <2>2. t.path = r[2] /\ t.assignee = r[3].assignee
    BY <2>1 DEF ScanTask
  <2>3. ~r[3].stub /\ (query[c].kind = "status" => r[3].status = query[c].value)
    BY <2>1 DEF Matches
  <2>4. ASSUME query[c].kind = "team" PROVE r[3].assignee \in who[c]
    <3>1. PICK i \in from[c]..Len(history) : who[c] = MeantBy(query[c], history[i])
      BY <1>1, <1>2, <2>4 DEF CallOK, Kept
    <3>2. PICK x \in TaskRows(history[i]) : t = ScanTask(x) /\ Matches(query[c], x, history[i])
      BY <3>1 DEF Steady, Exact
    <3>3. t.assignee = x[3].assignee
      BY <3>2 DEF ScanTask
    <3>4. x[3].assignee \in MeantBy(query[c], history[i])
      BY <2>4, <3>2 DEF Matches
    <3> QED
      BY <2>2, <3>1, <3>3, <3>4
  <2>5. Holds(query[c], who[c], r)
    BY <2>3, <2>4 DEF Holds
  <2> QED
    BY <1>1, <2>1, <2>2, <2>5 DEF Selected
<1>6. Exactly(c)'
  <2> SUFFICES ASSUME ~missed[c], Quiet(c), query[c].kind = "me" => query[c].op = "="
               PROVE  paths'[c] = {t.path : t \in Exact(query[c], content)}
    BY <1>1, <1>2 DEF Exactly, Quiet, Answered
  <2>1. who[c] = Gathered(query[c], content, ToRead(query[c], content))
    <3>1. ToRead(query[c], content) \ toAsk[c] = ToRead(query[c], content)
      BY <1>2
    <3> QED
      BY <1>1, <1>2, <3>1 DEF CallOK, Exactly
  <2>2. query[c].kind # "status" => who[c] = MeantBy(query[c], content)
    BY <1>2, <1>3, <2>1, GatheredIsMeant
  <2>3. \A r : Holds(query[c], who[c], r) <=> Matches(query[c], r, content)
    BY <1>2, <2>2, HoldsIsMatches
  <2>4. \A r : ScanTask(r).path = r[2]
    BY DEF ScanTask
  <2> QED
    BY <1>1, <2>3, <2>4 DEF Selected, Exact
<1> QED
  BY <1>1, <1>4, <1>5, <1>6, OthersProgress DEF CallOK, Select, IInv, TypeOK, Progress, Shapes

LEMMA HydrateProgress ==
  ASSUME IInv, Progress, NEW c \in Clients, Hydrate(c)
  PROVE  Progress'
<1>1. PICK p \in paths[c] :
        /\ answer' = [answer EXCEPT ![c] = @ \cup TaskByPath(content, p)]
        /\ paths' = [paths EXCEPT ![c] = @ \ {p}]
  BY DEF Hydrate
<1>2. /\ UNCHANGED << content, history, query, phase, toAsk, who, outcome, missed, from >>
      /\ phase[c] = "hydrate"
      /\ answer'[c] = answer[c] \cup TaskByPath(content, p)
      /\ paths'[c] = paths[c] \ {p}
      /\ Shapes'
  BY <1>1 DEF Hydrate, storeVars, IInv, TypeOK, Progress, Shapes
<1>3. CallOK(c)
  BY DEF Progress
<1>4. \A t \in Exact(query[c], content) : TaskByPath(content, t.path) = {t}
  BY CurrentInWindow, ExactIsRead
<1>5. Fits(c)'
  BY <1>2, <1>3 DEF CallOK, Fits
<1>6. Kept(c)'
  BY <1>2, <1>3, <1>4 DEF CallOK, Kept, Answered, Steady
<1>7. Exactly(c)'
  <2> SUFFICES ASSUME ~missed[c], Quiet(c), query[c].kind = "me" => query[c].op = "="
               PROVE  Exactly(c)'
    BY <1>2 DEF Exactly, Quiet
  <2>1. /\ answer[c] \subseteq Exact(query[c], content)
        /\ paths[c] \subseteq {t.path : t \in Exact(query[c], content)}
        /\ \A t \in Exact(query[c], content) : t \in answer[c] \/ t.path \in paths[c]
    BY <1>2, <1>3 DEF CallOK, Exactly
  <2>2. PICK t \in Exact(query[c], content) : p = t.path
    BY <2>1
  <2>3. answer'[c] = answer[c] \cup {t}
    BY <1>2, <1>4, <2>2
  <2>4. \A u \in Exact(query[c], content) : u \in answer'[c] \/ u.path \in paths'[c]
    BY <1>2, <1>4, <2>1, <2>2
  <2> QED
    BY <1>2, <2>1, <2>3, <2>4 DEF Exactly, Answered
<1> QED
  BY <1>1, <1>2, <1>5, <1>6, <1>7, OthersProgress DEF CallOK, IInv, TypeOK, Progress, Shapes

\* A call that returns A, which is all the call should find.
LEMMA FinishProgress ==
  ASSUME IInv, Progress, NEW c \in Clients, NEW A, NEW how, Finish(c, how, A),
         how = "ok" /\ ~missed[c] =>
           /\ query[c].kind \in {"status", "team", "search", "lookup"} =>
                \A t \in Exact(query[c], content) : Steady(c, t) => t \in A
           /\ Quiet(c) /\ (query[c].kind = "me" => query[c].op = "=") =>
                A = Exact(query[c], content)
  PROVE  Progress'
<1>1. /\ UNCHANGED << content, history, query, toAsk, who, missed, from >>
      /\ phase'[c] = "idle" /\ outcome'[c] = how /\ answer'[c] = A
      /\ Shapes'
  BY DEF Finish, storeVars, IInv, TypeOK, Progress, Shapes
<1>2. Fits(c)'
  BY <1>1 DEF Fits
<1>3. Kept(c)'
  BY <1>1 DEF Kept, Answered, Steady
<1>4. Exactly(c)'
  BY <1>1 DEF Exactly, Answered, Quiet
<1> QED
  BY <1>1, <1>2, <1>3, <1>4, OthersProgress DEF CallOK, Finish, IInv, TypeOK, Progress, Shapes

LEMMA ReturnTasksProgress ==
  ASSUME IInv, Progress, NEW c \in Clients, ReturnTasks(c)
  PROVE  Progress'
<1>1. phase[c] = "hydrate" /\ paths[c] = {} /\ Finish(c, "ok", answer[c]) /\ CallOK(c)
  BY DEF ReturnTasks, Progress
<1>2. ASSUME ~missed[c], query[c].kind \in {"status", "team", "search", "lookup"}
      PROVE  \A t \in Exact(query[c], content) : Steady(c, t) => t \in answer[c]
  BY <1>1, <1>2 DEF CallOK, Kept
<1>3. ASSUME ~missed[c], Quiet(c), query[c].kind = "me" => query[c].op = "="
      PROVE  answer[c] = Exact(query[c], content)
  BY <1>1, <1>3 DEF CallOK, Exactly
<1> QED
  BY <1>1, <1>2, <1>3, FinishProgress

LEMMA SearchProgress ==
  ASSUME IInv, Progress, NEW c \in Clients, Search(c)
  PROVE  Progress'
<1>1. query[c].kind = "search" /\ Finish(c, "ok", Hits(AllTasks(content), query[c].term))
  BY DEF Search, Progress, CallOK, Fits
<1>2. \A r : /\ ScanTask(r).stub = r[3].stub /\ ScanTask(r).path = r[2]
             /\ ScanTask(r).status = r[3].status /\ ScanTask(r).labels = {}
  BY DEF ScanTask
<1>3. Hits(AllTasks(content), query[c].term) = Exact(query[c], content)
  <2>1. \A r : Matches(query[c], r, content) <=>
                 ~r[3].stub /\ query[c].term \in {r[2], r[3].status}
    BY <1>1 DEF Matches
  <2> QED
    BY <1>2, <2>1 DEF Hits, AllTasks, Exact
<1> QED
  BY <1>1, <1>3, FinishProgress

LEMMA LookupProgress ==
  ASSUME IInv, Progress, NEW c \in Clients, Lookup(c)
  PROVE  Progress'
<1> DEFINE found == TaskByPath(content, query[c].path)
           how == IF found = {} THEN "notfound" ELSE "ok"
<1>1. query[c].kind = "lookup" /\ Finish(c, how, found)
  BY DEF Lookup, Progress, CallOK, Fits
<1>2. found = Exact(query[c], content)
  BY <1>1 DEF TaskByPath, Exact, Matches
<1> HIDE DEF found, how
<1> QED
  BY <1>1, <1>2, FinishProgress

-----------------------------------------------------------------------------
LEMMA InitProgress == Init => Progress
  BY DEF Init, Progress, Shapes, CallOK, Fits, Kept, Exactly, Answered, NoQuery

LEMMA NextProgress == IInv /\ Progress /\ [Next]_vars => Progress'
<1> SUFFICES ASSUME IInv, Progress, [Next]_vars PROVE Progress'
  OBVIOUS
<1>1. ASSUME NEW w \in Indexers, Index(w) PROVE Progress'
  BY <1>1, IndexProgress
<1>2. ASSUME NEW c \in Clients, NEW q \in Queries, Submit(c, q) PROVE Progress'
  BY <1>2, SubmitProgress
<1>3. ASSUME NEW c \in Clients, Step(c) PROVE Progress'
  <2>1. CASE Fail(c)
    BY <2>1, FinishProgress DEF Fail
  <2> QED
    BY <1>3, <2>1, ReadNamesProgress, ReadMembersProgress, SelectProgress, HydrateProgress,
       ReturnTasksProgress, SearchProgress, LookupProgress DEF Step
<1>4. CASE UNCHANGED vars
  BY <1>4, UnchangedProgress DEF vars, storeVars
<1> QED
  BY <1>1, <1>2, <1>3, <1>4 DEF Next

LEMMA ProgressInvariant == Spec => [](IInv /\ Progress)
<1>1. IInv /\ Progress /\ [Next]_vars => (IInv /\ Progress)'
  BY NextIInv, NextProgress
<1> QED
  BY InitIInv, InitProgress, <1>1, PTL DEF Spec

\* Whatever is committed while a call runs, a task that matches in all of
\* those contents is in the answer (store.go:332-367, engine.go:135-197).
THEOREM SteadyMatchesReturned == Spec => []StableMatchReturned
<1>1. IInv /\ Progress => StableMatchReturned
  <2> SUFFICES ASSUME IInv, Progress, NEW c \in Clients, Answered(c), ~missed[c],
                      query[c].kind \in {"status", "team", "search", "lookup"},
                      NEW t \in Exact(query[c], content),
                      \A d \in Window(c) : t \in Exact(query[c], d)
               PROVE  t \in answer[c]
    BY DEF StableMatchReturned
  <2>1. Steady(c, t)
    BY DEF Steady, Window
  <2> QED
    BY <2>1 DEF Progress, CallOK, Kept
<1> QED
  BY <1>1, ProgressInvariant, PTL

\* A call without a commit in its time answers exactly, through all of its
\* statements (engine.go:135-160, 222-275, store.go:332-410).
THEOREM QuietCallsExact == Spec => []QuietAnswerExact
<1>1. IInv /\ Progress => QuietAnswerExact
  <2> SUFFICES ASSUME IInv, Progress, NEW c \in Clients, Answered(c), ~missed[c],
                      Cardinality(Window(c)) = 1, query[c].kind = "me" => query[c].op = "="
               PROVE  answer[c] = Exact(query[c], content)
    BY DEF QuietAnswerExact
  <2>1. /\ from[c] \in Int /\ Len(history) \in Int
        /\ Len(history) \in from[c]..Len(history) /\ history[Len(history)] = content
    BY CurrentInWindow DEF IInv, TypeOK, HistoryOK
  <2> DEFINE f == [i \in from[c]..Len(history) |-> history[i]]
  <2>2. f \in Surjection(from[c]..Len(history), Window(c))
    BY DEF Surjection, Window
  <2>3. IsFiniteSet(Window(c))
    <3>1. IsFiniteSet(from[c]..Len(history))
      BY <2>1, FS_Interval
    <3> HIDE DEF f
    <3> QED
      BY <2>2, <3>1, FS_Surjection
  <2>4. PICK d : Window(c) = {d}
    BY <2>3, FS_Singleton
  <2>5. Quiet(c)
    BY <2>1, <2>4 DEF Quiet, Window
  <2> QED
    BY <2>5 DEF Progress, CallOK, Exactly
<1> QED
  BY <1>1, ProgressInvariant, PTL

=============================================================================
