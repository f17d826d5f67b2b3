------------------------------- MODULE Engine -------------------------------
(***************************************************************************)
(* The reading side of the engine (engine/engine.go) against the store.    *)
(*                                                                         *)
(* A client runs Engine.Query, Search or TaskByPath while indexers replace *)
(* the content (StoreAbs, which Store.tla is proved to implement).  Search *)
(* and TaskByPath are one SQL statement each.  Query is several, each on   *)
(* whatever content is committed when it runs: compiling me() and          *)
(* my_team() reads the team names and then the members of each team,       *)
(* QueryTasks selects paths and then reads each task again by its path.    *)
(*                                                                         *)
(* A query is a record: kind "status" (status = value), "me" (assignee op  *)
(* me()), "my_team", "team" (assignee = team(...)), "malformed" (rejected  *)
(* by the parser or the validator), and, for the other two methods,        *)
(* "search" (term) and "lookup" (path).  The fuzzy matching of a term is   *)
(* reduced to equality with one of the searched fields.                    *)
(*                                                                         *)
(* An assignee is << "person", identifier or address >> or << "team",      *)
(* name >>; Person("") is the empty text of an unassigned task.  Team      *)
(* names are numbers here, so that ORDER BY name has a meaning.            *)
(***************************************************************************)
EXTENDS StoreAbs

CONSTANTS Clients,      \* the concurrent callers of the engine's readers
          Queries,      \* the calls they may make
          CurrentUser,  \* the option WithCurrentUser; "" when not given
          MaxCommits    \* bound on the number of committed contents

Kinds == {"status", "me", "my_team", "team", "malformed", "search", "lookup"}

ASSUME EngineAssumption ==
  /\ MaxCommits \in Nat
  /\ \A q \in Queries : q.kind \in Kinds

VARIABLES query,    \* query[c]: c's current or last call
          phase,    \* phase[c]: the statement c's call runs next
          toAsk,    \* toAsk[c]: teams whose members are still to be read
          who,      \* who[c]: the assignees the compiled query compares with
          paths,    \* paths[c]: selected paths not yet read again
          answer,   \* answer[c]: the tasks found so far, in the end the result
          outcome,  \* outcome[c]: how c's last call returned
          missed,   \* missed[c]: a statement of the call failed unreported
          history,  \* every content so far, the current one last
          from      \* from[c]: the place in history where c's call began

clientVars == << query, phase, toAsk, who, paths, answer, outcome, missed, from >>
vars == << storeVars, clientVars, history >>

NoQuery == [kind |-> "none"]

Init ==
  /\ StoreInit
  /\ query = [c \in Clients |-> NoQuery]
  /\ phase = [c \in Clients |-> "idle"]
  /\ toAsk = [c \in Clients |-> {}]
  /\ who = [c \in Clients |-> {}]
  /\ paths = [c \in Clients |-> {}]
  /\ answer = [c \in Clients |-> {}]
  /\ outcome = [c \in Clients |-> "none"]
  /\ missed = [c \in Clients |-> FALSE]
  /\ history = << content >>
  /\ from = [c \in Clients |-> 1]

-----------------------------------------------------------------------------
(***************************************************************************)
(* COMPILING AND EVALUATING A QUERY                                        *)
(***************************************************************************)

Person(id) == << "person", id >>
TeamTag(t) == << "team", t >>

IsMe(m) == m.id = CurrentUser \/ m.email = CurrentUser

Addresses(m) == {Person(m.id)} \cup ({Person(m.email)} \ {Person("")})

\* The first statement of a call.
FirstPhase(q) ==
  CASE q.kind = "malformed"                    -> "idle"
    [] q.kind = "search"                       -> "scan"
    [] q.kind = "lookup"                       -> "read"
    [] q.kind = "team"                         -> "members"
    [] q.kind = "my_team"                      -> "names"
    [] q.kind = "me" /\ CurrentUser # ""       -> "names"
    [] q.kind = "me" /\ CurrentUser = ""       -> "select"
    [] q.kind = "status"                       -> "select"

\* The assignees known before any team is read.
InitialWho(q) ==
  CASE q.kind = "me"   -> {Person(CurrentUser)}
    [] q.kind = "team" -> {TeamTag(q.team)}
    [] OTHER           -> {}

\* Faulty variant: only the identifiers of the members are compared.
ContributionWithoutEmails(q, t, members) ==
  CASE q.kind = "me"      -> {Person(m.id) : m \in {x \in members : IsMe(x)}}
    [] q.kind = "my_team" -> {TeamTag(u) : u \in {x \in {t} : \E m \in members : IsMe(m)}}
    [] q.kind = "team"    -> {Person(m.id) : m \in members}

\* What the members of team t add to them.
Contribution(q, t, members) ==
  CASE q.kind = "me"      -> UNION {Addresses(m) : m \in {x \in members : IsMe(x)}}
    [] q.kind = "my_team" -> {TeamTag(u) : u \in {x \in {t} : \E m \in members : IsMe(m)}}
    [] q.kind = "team"    -> UNION {Addresses(m) : m \in members}

\* The compiled WHERE clause on a row of "tasks".  me() keeps the operator
\* when it stands for one assignee and becomes IN when it stands for several.
Holds(q, ws, r) ==
  /\ ~r[3].stub
  /\ CASE q.kind = "status" -> r[3].status = q.value
       [] q.kind = "me" /\ q.op = "!=" /\ Cardinality(ws) <= 1 -> r[3].assignee \notin ws
       [] OTHER -> r[3].assignee \in ws

Selected(q, ws, d) == {r[2] : r \in {x \in TaskRows(d) : Holds(q, ws, x)}}

\* Searcher.SearchWithHighlights on the tasks read from the store.
Hits(tasks, term) ==
  {t \in tasks : ~t.stub /\ (term \in {t.path, t.status} \cup t.labels)}

-----------------------------------------------------------------------------
(***************************************************************************)
(* THE STEPS OF A CALL                                                     *)
(***************************************************************************)

Submit(c, q) ==
  /\ phase[c] = "idle"
  /\ query' = [query EXCEPT ![c] = q]
  /\ phase' = [phase EXCEPT ![c] = FirstPhase(q)]
  /\ toAsk' = [toAsk EXCEPT ![c] = IF q.kind = "team" THEN {q.team} ELSE {}]
  /\ who' = [who EXCEPT ![c] = InitialWho(q)]
  /\ paths' = [paths EXCEPT ![c] = {}]
  /\ answer' = [answer EXCEPT ![c] = {}]
  /\ outcome' = [outcome EXCEPT ![c] = IF q.kind = "malformed" THEN "invalid" ELSE "none"]
  /\ missed' = [missed EXCEPT ![c] = FALSE]
  /\ from' = [from EXCEPT ![c] = Len(history)]
  /\ UNCHANGED << storeVars, history >>

\* The phase of compilation that follows once the teams in ts remain unread.
NextPhase(ts) == IF ts = {} THEN "select" ELSE "members"

\* CurrentUserAliases and CurrentUserTeams begin with AllTeamNames.  On an
\* error they return what they have, and the query goes on.
ReadNames(c) ==
  /\ phase[c] = "names"
  /\ \/ /\ toAsk' = [toAsk EXCEPT ![c] = AllTeamNames(content)]
        /\ UNCHANGED missed
     \/ /\ missed' = [missed EXCEPT ![c] = TRUE]
        /\ UNCHANGED toAsk
  /\ phase' = [phase EXCEPT ![c] = NextPhase(toAsk'[c])]
  /\ UNCHANGED << storeVars, history, query, who, paths, answer, outcome, from >>

\* TeamMembers of the next team in the order of the names.  On an error the
\* team is skipped.
ReadMembers(c) ==
  /\ phase[c] = "members"
  /\ \E t \in toAsk[c] :
       /\ \A u \in toAsk[c] : t <= u
       /\ toAsk' = [toAsk EXCEPT ![c] = @ \ {t}]
       /\ \/ /\ who' = [who EXCEPT ![c] =
                          @ \cup Contribution(query[c], t, TeamMembers(content, t))]
             /\ UNCHANGED missed
          \/ /\ missed' = [missed EXCEPT ![c] = TRUE]
             /\ UNCHANGED who
       /\ phase' = [phase EXCEPT ![c] = NextPhase(toAsk'[c])]
  /\ UNCHANGED << storeVars, history, query, paths, answer, outcome, from >>

\* QueryTasks: the compiled SELECT.
Select(c) ==
  /\ phase[c] = "select"
  /\ paths' = [paths EXCEPT ![c] = Selected(query[c], who[c], content)]
  /\ phase' = [phase EXCEPT ![c] = "hydrate"]
  /\ UNCHANGED << storeVars, history, query, toAsk, who, answer, outcome, missed, from >>

\* Faulty variant: the task is taken from a cache filled by the first Index.
HydrateFromCache(c) ==
  /\ phase[c] = "hydrate"
  /\ \E p \in paths[c] :
       /\ answer' = [answer EXCEPT ![c] = @ \cup TaskByPath(
                       IF Len(history) = 1 THEN content ELSE history[2], p)]
       /\ paths' = [paths EXCEPT ![c] = @ \ {p}]
  /\ UNCHANGED << storeVars, history, query, phase, toAsk, who, outcome, missed, from >>

\* Faulty variant: a path that is gone ends the loop instead of being skipped.
HydrateStopsAtGap(c) ==
  /\ phase[c] = "hydrate"
  /\ \E p \in paths[c] :
       /\ answer' = [answer EXCEPT ![c] = @ \cup TaskByPath(content, p)]
       /\ paths' = [paths EXCEPT ![c] =
                      IF TaskByPath(content, p) = {} THEN {} ELSE @ \ {p}]
  /\ UNCHANGED << storeVars, history, query, phase, toAsk, who, outcome, missed, from >>

\* Faulty variant: a path that is gone yields a nil task.
HydrateKeepsNil(c) ==
  /\ phase[c] = "hydrate"
  /\ \E p \in paths[c] :
       /\ answer' = [answer EXCEPT ![c] = @ \cup
                       IF TaskByPath(content, p) = {} THEN {[path |-> "nil"]}
                       ELSE TaskByPath(content, p)]
       /\ paths' = [paths EXCEPT ![c] = @ \ {p}]
  /\ UNCHANGED << storeVars, history, query, phase, toAsk, who, outcome, missed, from >>

\* QueryTasks: read one selected task by its path; skip it if it is gone.
Hydrate(c) ==
  /\ phase[c] = "hydrate"
  /\ \E p \in paths[c] :
       /\ answer' = [answer EXCEPT ![c] = @ \cup TaskByPath(content, p)]
       /\ paths' = [paths EXCEPT ![c] = @ \ {p}]
  /\ UNCHANGED << storeVars, history, query, phase, toAsk, who, outcome, missed, from >>

\* The call returns with the given outcome and tasks.
Finish(c, how, tasks) ==
  /\ phase' = [phase EXCEPT ![c] = "idle"]
  /\ outcome' = [outcome EXCEPT ![c] = how]
  /\ answer' = [answer EXCEPT ![c] = tasks]
  /\ paths' = [paths EXCEPT ![c] = {}]
  /\ UNCHANGED << storeVars, history, query, toAsk, who, missed, from >>

ReturnTasks(c) ==
  /\ phase[c] = "hydrate" /\ paths[c] = {}
  /\ Finish(c, "ok", answer[c])

Search(c) ==
  /\ phase[c] = "scan"
  /\ Finish(c, "ok", Hits(AllTasks(content), query[c].term))

\* ErrTaskNotFound is reported as such, distinct from a failing store.
Lookup(c) ==
  /\ phase[c] = "read"
  /\ LET found == TaskByPath(content, query[c].path)
     IN  Finish(c, IF found = {} THEN "notfound" ELSE "ok", found)

\* Faulty variant: every failure of a lookup is reported as ErrTaskNotFound.
FailAsNotFound(c) ==
  /\ phase[c] \in {"select", "hydrate", "scan", "read"}
  /\ Finish(c, IF phase[c] = "read" THEN "notfound" ELSE "error", {})

\* Faulty variant: a failing statement makes the call start over.
FailStartsOver(c) ==
  /\ phase[c] \in {"select", "hydrate", "scan", "read"}
  /\ phase' = [phase EXCEPT ![c] = FirstPhase(query[c])]
  /\ toAsk' = [toAsk EXCEPT ![c] = IF query[c].kind = "team" THEN {query[c].team} ELSE {}]
  /\ paths' = [paths EXCEPT ![c] = {}]
  /\ answer' = [answer EXCEPT ![c] = {}]
  /\ UNCHANGED << storeVars, history, query, who, outcome, missed, from >>

\* A failure of the other statements is returned, without tasks.
Fail(c) ==
  /\ phase[c] \in {"select", "hydrate", "scan", "read"}
  /\ phase[c] = "hydrate" => paths[c] # {}
  /\ Finish(c, "error", {})

Step(c) ==
  \/ ReadNames(c)
  \/ ReadMembers(c)
  \/ Select(c)
  \/ Hydrate(c)
  \/ ReturnTasks(c)
  \/ Search(c)
  \/ Lookup(c)
  \/ Fail(c)

\* An indexer's step, with the contents recorded.
Index(w) ==
  /\ \/ \E r \in Repositories : Invoke(w, r) /\ UNCHANGED history
     \/ Apply(w) /\ Len(history) <= MaxCommits /\ history' = Append(history, content')
     \/ Acknowledge(w) /\ UNCHANGED history
     \/ Reject(w) /\ UNCHANGED history
     \/ Abandon(w) /\ UNCHANGED history
  /\ UNCHANGED clientVars

Next ==
  \/ \E w \in Indexers : Index(w)
  \/ \E c \in Clients : Step(c) \/ \E q \in Queries : Submit(c, q)

Spec == Init /\ [][Next]_vars

FairSpec == Spec /\ \A c \in Clients : WF_vars(Step(c))

-----------------------------------------------------------------------------
(***************************************************************************)
(* PROPERTIES                                                              *)
(***************************************************************************)

AllTasksEver == {ScanTask(r) : r \in UNION {TaskRows(Image(x)) : x \in Repositories}}

TypeOK ==
  /\ query \in [Clients -> Queries \cup {NoQuery}]
  /\ phase \in [Clients -> {"idle", "names", "members", "select", "hydrate", "scan", "read"}]
  /\ answer \in [Clients -> SUBSET AllTasksEver]
  /\ outcome \in [Clients -> {"none", "ok", "error", "invalid", "notfound"}]
  /\ missed \in [Clients -> BOOLEAN]
  /\ history[Len(history)] = content
  /\ from \in [Clients -> 1..Len(history)]
  /\ Len(history) <= MaxCommits + 1

\* The contents committed while c's call ran, the one it began on included.
Window(c) == {history[i] : i \in from[c]..Len(history)}

Answered(c) == phase[c] = "idle" /\ outcome[c] = "ok"

\* What the call should return on one content: the meaning of each query,
\* stated without the statements it is run by.
Mine(d) == {r \in d : r[1] = "team_members" /\ IsMe(r[3])}

MeantBy(q, d) ==
  CASE q.kind = "me"      -> {Person(CurrentUser)} \cup
                               IF CurrentUser = "" THEN {}
                               ELSE UNION {Addresses(r[3]) : r \in Mine(d)}
    [] q.kind = "my_team" -> {TeamTag(r[2]) : r \in Mine(d)}
    [] q.kind = "team"    -> {TeamTag(q.team)} \cup
                               UNION {Addresses(m) : m \in TeamMembers(d, q.team)}

Matches(q, r, d) ==
  CASE q.kind = "lookup" -> r[2] = q.path
    [] q.kind = "search" -> ~r[3].stub /\ q.term \in {r[2], r[3].status}
    [] q.kind = "status" -> ~r[3].stub /\ r[3].status = q.value
    [] OTHER             -> ~r[3].stub /\ r[3].assignee \in MeantBy(q, d)

Exact(q, d) == {ScanTask(r) : r \in {x \in TaskRows(d) : Matches(q, x, d)}}

(***************************************************************************)
(* When no commit falls into the call and none of its statements failed,   *)
(* the several statements add up to the exact answer: stubs left out,      *)
(* me() and my_team() resolved through every team (engine.go:222-275),     *)
(* nothing lost between the SELECT and the reading of each task.  What     *)
(* assignee != me() should mean is another question (NotMeExcludesMe).     *)
(***************************************************************************)
QuietAnswerExact ==
  \A c \in Clients :
    /\ Answered(c) /\ ~missed[c] /\ Cardinality(Window(c)) = 1
    /\ query[c].kind = "me" => query[c].op = "="
    => answer[c] = Exact(query[c], content)

(***************************************************************************)
(* Whatever commits fall into the call, every task it returns is a task of *)
(* one of the contents committed meanwhile: none is older than the call,   *)
(* and none is composed of two versions.                                   *)
(***************************************************************************)
NothingInvented ==
  \A c \in Clients : Answered(c) =>
    \A t \in answer[c] : \E d \in Window(c) : t \in TaskByPath(d, t.path)

(***************************************************************************)
(* A task that every content of the call's window holds unchanged and      *)
(* counts as a match is returned, although others vanish meanwhile.  Not   *)
(* for me() and my_team(): when a commit renames the user's team between   *)
(* the reading of the names and of the members, its aliases are lost.      *)
(***************************************************************************)
StableMatchReturned ==
  \A c \in Clients :
    Answered(c) /\ ~missed[c] /\ query[c].kind \in {"status", "team", "search", "lookup"} =>
      \A t \in Exact(query[c], content) :
        (\A d \in Window(c) : t \in Exact(query[c], d)) => t \in answer[c]

(***************************************************************************)
(* ErrTaskNotFound is only returned for a path that was absent at some     *)
(* point of the call, never for a store that failed (engine.go:189-195).   *)
(***************************************************************************)
NotFoundMeansAbsent ==
  \A c \in Clients :
    phase[c] = "idle" /\ outcome[c] = "notfound" =>
      \E d \in Window(c) : TaskByPath(d, query[c].path) = {}

(***************************************************************************)
(* Every call returns, when its statements are eventually executed, with   *)
(* success or an error, however often the content changes meanwhile.       *)
(***************************************************************************)
EveryCallReturns == \A c \in Clients : phase[c] # "idle" ~> phase[c] = "idle"

-----------------------------------------------------------------------------
(***************************************************************************)
(* CLAIMS OF THE SOURCE THAT THE CODE DOES NOT KEEP                        *)
(***************************************************************************)

\* validate.go:193: "All operators are valid for strings".  assignee != me()
\* compiles to IN as soon as me() has an alias, and returns the user's tasks.
NotMeExcludesMe ==
  \A c \in Clients :
    Answered(c) /\ query[c].kind = "me" /\ query[c].op = "!=" =>
      \A t \in answer[c] : t.assignee # Person(CurrentUser)

=============================================================================
