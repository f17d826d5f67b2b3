-------------------------------- MODULE Parse --------------------------------
(***************************************************************************)
(* DefaultParser.Parse (parse/parser.go, parse/resolve.go): from scanned   *)
(* entries to a resolved repository.                                       *)
(*                                                                         *)
(* The entries are read in the order of the scan; the first that cannot be *)
(* parsed fails the whole call.  The later phases are loops over Go maps,  *)
(* whose order is arbitrary: each loop keeps the keys it has yet to visit  *)
(* in "pending" and visits them in any order.  Following one redirect is a *)
(* step, so that a chain in progress is part of the state.                 *)
(*                                                                         *)
(* An entry has a "kind" and, unless "bad", what parsing its content       *)
(* yields: a "task" (and whether its file name has upper case letters),    *)
(* the "version", a "team", an "iteration" or the "rules" of a file.       *)
(***************************************************************************)
EXTENDS Naturals, Sequences, FiniteSets

CONSTANTS Inputs,            \* the sequences of entries a scan may produce
          Paths,             \* paths of tasks, redirect targets, dependencies
          Dotted,            \* those that contain a "."
          MaxRedirectDepth,  \* maxRedirectDepth of resolve.go
          NoChain            \* no redirect chain is being followed

\* A parsed task; "to" is the redirect_to of a stub.
Task == [path : Paths, readme : BOOLEAN, stub : BOOLEAN, to : Paths,
         deps : Seq(Paths), status : STRING, category : STRING]

Chain == [root : Paths, at : Paths, depth : 0..MaxRedirectDepth + 1]

\* The inputs are sequences, and what is parsed as a task is one.
ASSUME ParseAssumption ==
  /\ MaxRedirectDepth \in Nat
  /\ NoChain \notin Chain
  /\ \A s \in Inputs :
       /\ s \in Seq({s[i] : i \in DOMAIN s})
       /\ \A i \in DOMAIN s : s[i].kind = "task" /\ ~s[i].bad => s[i].task \in Task

VARIABLES input,        \* the entries
          read,         \* how many of them are parsed
          phase,        \* the phase of Parse in progress
          pending,      \* the keys the phase's loop has yet to visit
          chain,        \* the redirect chain being followed, or NoChain
          tasks,        \* Repository.Tasks, by path
          stubs,        \* Repository.Stubs: the target of each resolved stub
          diagnostics,  \* Repository.Diagnostics, as << code, what it is about >>
          others        \* version, teams, iterations and SLA rules

vars == << input, read, phase, pending, chain, tasks, stubs, diagnostics, others >>

BaseStatuses == {"icebox", "todo", "in_progress", "done"}

EmptyMap == [x \in {} |-> x]

\* The map m with k mapped to v.
Put(m, k, v) == [x \in DOMAIN m \cup {k} |-> IF x = k THEN v ELSE m[x]]

Init ==
  /\ input \in Inputs
  /\ read = 0
  /\ phase = "files"
  /\ pending = {}
  /\ chain = NoChain
  /\ tasks = EmptyMap
  /\ stubs = EmptyMap
  /\ diagnostics = {}
  /\ others = [root |-> FALSE, version |-> "", teams |-> EmptyMap,
               iterations |-> << >>, rules |-> << >>]

StubPaths == {p \in DOMAIN tasks : tasks[p].stub}

-----------------------------------------------------------------------------
(***************************************************************************)
(* PHASE 1: THE FILES                                                      *)
(***************************************************************************)

\* A file is read into the repository; tasks wait for the conflicts phase.
ParseEntry ==
  /\ phase = "files" /\ read < Len(input)
  /\ LET e == input[read + 1]
     IN  /\ ~e.bad
         /\ others' =
              CASE e.kind = "task"      -> others
                [] e.kind = "root"      -> [others EXCEPT !.root = TRUE, !.version = e.version]
                [] e.kind = "team"      -> [others EXCEPT !.teams = Put(@, e.team.name, e.team)]
                [] e.kind = "iteration" -> [others EXCEPT !.iterations = Append(@, e.iteration)]
                [] e.kind = "sla"       -> [others EXCEPT !.rules = @ \o e.rules]
  /\ read' = read + 1
  /\ UNCHANGED << input, phase, pending, chain, tasks, stubs, diagnostics >>

\* A file that cannot be parsed fails the whole call.
ParseFails ==
  /\ phase = "files" /\ read < Len(input) /\ input[read + 1].bad
  /\ phase' = "failed"
  /\ UNCHANGED << input, read, pending, chain, tasks, stubs, diagnostics, others >>

\* The entries that claim the canonical path p.
FilesAt(p) ==
  {i \in 1..Len(input) : input[i].kind = "task" /\ input[i].task.path = p}

\* The required root configuration is checked when all files are read.
CheckConfig ==
  /\ phase = "files" /\ read = Len(input)
  /\ diagnostics' = diagnostics \cup
       (IF ~others.root THEN {<< "CONFIG_MISSING", "" >>}
        ELSE IF others.version = "" THEN {<< "CONFIG_NO_VERSION", "" >>}
        ELSE {})
  /\ phase' = "conflicts"
  /\ pending' = {p \in Paths : FilesAt(p) # {}}
  /\ UNCHANGED << input, read, chain, tasks, stubs, others >>

\* Faulty variant: README files have no precedence.
ContendersAll(p) == FilesAt(p)

\* Of several files with one canonical path only the READMEs contend, if any.
Contenders(p) ==
  LET readmes == {i \in FilesAt(p) : input[i].task.readme}
  IN  IF readmes = {} THEN FilesAt(p) ELSE readmes

\* The first contender is kept.
KeepTask(p) ==
  /\ phase = "conflicts" /\ p \in pending
  /\ \E i \in Contenders(p) :
       /\ \A j \in Contenders(p) : i <= j
       /\ tasks' = Put(tasks, p, input[i].task)
       /\ diagnostics' =
            IF Cardinality(FilesAt(p)) > 1 /\ input[i].task.readme
            THEN diagnostics \cup {<< "PATH_CASE_CONFLICT", p >>}
            ELSE diagnostics
  /\ pending' = pending \ {p}
  /\ UNCHANGED << input, read, phase, chain, stubs, others >>

-----------------------------------------------------------------------------
(***************************************************************************)
(* PHASE 2: REDIRECTS AND DEPENDENCIES                                     *)
(***************************************************************************)

\* The loop of resolveStubs takes a stub.
StartChain(p) ==
  /\ phase = "stubs" /\ chain = NoChain /\ p \in pending
  /\ chain' = [root |-> p, at |-> p, depth |-> 0]
  /\ pending' = pending \ {p}
  /\ UNCHANGED << input, read, phase, tasks, stubs, diagnostics, others >>

\* Faulty variant: the guard allows one redirect too many.
TooDeepLate == chain.depth > MaxRedirectDepth + 1

TooDeep == chain.depth > MaxRedirectDepth

\* Faulty variant: a failing chain is skipped without a diagnostic.
RejectChainSilently(code) ==
  /\ chain' = NoChain
  /\ UNCHANGED << input, read, phase, pending, tasks, stubs, diagnostics, others >>

\* resolveStubChain fails: the stub gets a diagnostic and no target.  The pair
\* names the stub it is about; the text of the message names the place in the
\* chain where the limit (resolve.go:33) or the target (resolve.go:51) was met.
RejectChain(code) ==
  /\ diagnostics' = diagnostics \cup {<< code, chain.root >>}
  /\ chain' = NoChain
  /\ UNCHANGED << input, read, phase, pending, tasks, stubs, others >>

ChainTooDeep ==
  /\ chain # NoChain /\ TooDeep
  /\ RejectChain("REDIRECT_CHAIN_TOO_DEEP")

ChainInvalid ==
  /\ chain # NoChain /\ ~TooDeep
  /\ chain.at \in StubPaths /\ tasks[chain.at].to \in Dotted
  /\ RejectChain("REDIRECT_INVALID_TARGET")

\* The chain has left the stubs: its end is the target, be it there or not.
ChainEnds ==
  /\ chain # NoChain /\ ~TooDeep
  /\ chain.at \notin StubPaths
  /\ stubs' = Put(stubs, chain.root, chain.at)
  /\ chain' = NoChain
  /\ UNCHANGED << input, read, phase, pending, tasks, diagnostics, others >>

\* Faulty variants: only the first redirect is followed; redirects are not
\* counted.
FollowOnce ==
  /\ chain # NoChain /\ ~TooDeep
  /\ chain.at \in StubPaths /\ tasks[chain.at].to \notin Dotted
  /\ stubs' = Put(stubs, chain.root, tasks[chain.at].to)
  /\ chain' = NoChain
  /\ UNCHANGED << input, read, phase, pending, tasks, diagnostics, others >>

FollowUncounted ==
  /\ chain # NoChain /\ ~TooDeep
  /\ chain.at \in StubPaths /\ tasks[chain.at].to \notin Dotted
  /\ chain' = [chain EXCEPT !.at = tasks[chain.at].to]
  /\ UNCHANGED << input, read, phase, pending, tasks, stubs, diagnostics, others >>

Follow ==
  /\ chain # NoChain /\ ~TooDeep
  /\ chain.at \in StubPaths /\ tasks[chain.at].to \notin Dotted
  /\ chain' = [chain EXCEPT !.at = tasks[chain.at].to, !.depth = @ + 1]
  /\ UNCHANGED << input, read, phase, pending, tasks, stubs, diagnostics, others >>

\* Through the map of the resolved stubs, once.
Through(d) == IF d \in DOMAIN stubs THEN stubs[d] ELSE d

\* The task at p with its field f set to v, stubs being skipped.
SetField(p, f, v) ==
  IF tasks[p].stub THEN tasks ELSE [tasks EXCEPT ![p] = [@ EXCEPT ![f] = v]]

ResolveDependencies(p) ==
  /\ phase = "dependencies" /\ p \in pending
  /\ tasks' = SetField(p, "deps", [i \in DOMAIN tasks[p].deps |-> Through(tasks[p].deps[i])])
  /\ pending' = pending \ {p}
  /\ UNCHANGED << input, read, phase, chain, stubs, diagnostics, others >>

-----------------------------------------------------------------------------
(***************************************************************************)
(* PHASES 3 AND 4: STATUSES, HIERARCHY, WARNINGS                           *)
(***************************************************************************)

\* A status outside the base categories leaves the category as it is.
ResolveStatus(p) ==
  /\ phase = "statuses" /\ p \in pending
  /\ tasks' = IF tasks[p].status \in BaseStatuses
              THEN SetField(p, "category", tasks[p].status) ELSE tasks
  /\ pending' = pending \ {p}
  /\ UNCHANGED << input, read, phase, chain, stubs, diagnostics, others >>

\* resolveHierarchy groups the kept tasks by path once more and resolves the
\* groups of several in favour of a README.
GroupAt(p) == {q \in DOMAIN tasks : tasks[q].path = p}

ResolveHierarchy(p) ==
  /\ phase = "hierarchy" /\ p \in pending
  /\ LET readmes == {q \in GroupAt(p) : tasks[q].readme}
     IN  IF Cardinality(GroupAt(p)) <= 1 \/ readmes = {}
         THEN UNCHANGED << tasks, diagnostics >>
         ELSE /\ \E q \in readmes : tasks' = Put(tasks, p, tasks[q])
              /\ diagnostics' = diagnostics \cup {<< "PATH_CASE_CONFLICT", p >>}
  /\ pending' = pending \ {p}
  /\ UNCHANGED << input, read, phase, chain, stubs, others >>

UpperCase == {i \in 1..Len(input) : input[i].kind = "task" /\ input[i].upper}

CheckPathWarnings ==
  /\ phase = "warnings"
  /\ diagnostics' = diagnostics \cup
                      {<< "PATH_UPPERCASE", input[i].task.path >> : i \in UpperCase}
  /\ phase' = "done"
  /\ UNCHANGED << input, read, pending, chain, tasks, stubs, others >>

\* A loop has visited every key: the next one begins with its own keys.
After(this, next, keys) ==
  /\ phase = this /\ pending = {} /\ chain = NoChain
  /\ phase' = next
  /\ pending' = keys
  /\ UNCHANGED << input, read, chain, tasks, stubs, diagnostics, others >>

\* Faulty variant: dependencies are resolved before the stubs are.
NextPhaseSwapped ==
  \/ After("conflicts", "dependencies", DOMAIN tasks)
  \/ After("dependencies", "stubs", StubPaths)
  \/ After("stubs", "statuses", DOMAIN tasks)
  \/ After("statuses", "hierarchy", DOMAIN tasks)
  \/ After("hierarchy", "warnings", {})

NextPhase ==
  \/ After("conflicts", "stubs", StubPaths)
  \/ After("stubs", "dependencies", DOMAIN tasks)
  \/ After("dependencies", "statuses", DOMAIN tasks)
  \/ After("statuses", "hierarchy", DOMAIN tasks)
  \/ After("hierarchy", "warnings", {})

Next ==
  \/ ParseEntry
  \/ ParseFails
  \/ CheckConfig
  \/ ChainTooDeep
  \/ ChainInvalid
  \/ ChainEnds
  \/ Follow
  \/ CheckPathWarnings
  \/ NextPhase
  \/ \E p \in pending :
       \/ KeepTask(p)
       \/ StartChain(p)
       \/ ResolveDependencies(p)
       \/ ResolveStatus(p)
       \/ ResolveHierarchy(p)

Spec == Init /\ [][Next]_vars

FairSpec == Spec /\ WF_vars(Next)

-----------------------------------------------------------------------------
(***************************************************************************)
(* PROPERTIES                                                              *)
(***************************************************************************)

TypeOK ==
  /\ input \in Inputs
  /\ read \in 0..Len(input)
  /\ phase \in {"files", "conflicts", "stubs", "dependencies", "statuses",
                "hierarchy", "warnings", "done", "failed"}
  /\ pending \in SUBSET Paths
  /\ chain \in Chain \cup {NoChain}
  /\ tasks \in [DOMAIN tasks -> Task] /\ DOMAIN tasks \subseteq Paths
  /\ stubs \in [DOMAIN stubs -> Paths] /\ DOMAIN stubs \subseteq Paths

(***************************************************************************)
(* A resolved stub leads out of the stubs, however the loop over the map   *)
(* interleaved with the chains: one look-up in Repository.Stubs is enough  *)
(* for resolveDependencies (resolve.go:181).                               *)
(***************************************************************************)
StubsLeadOut ==
  \A p \in DOMAIN stubs : p \in StubPaths /\ stubs[p] \notin StubPaths

\* Once they are resolved, no dependency of a task names a resolvable stub.
DependenciesResolved ==
  phase \in {"statuses", "hierarchy", "warnings", "done"} =>
    \A p \in DOMAIN tasks \ StubPaths :
      \A i \in DOMAIN tasks[p].deps : tasks[p].deps[i] \notin DOMAIN stubs

(***************************************************************************)
(* When the loop over the stubs has ended, each of them has a target or a  *)
(* diagnostic, and not both (resolve.go:13): a cyclic, too deep or invalid *)
(* redirect is never dropped in silence.                                   *)
(***************************************************************************)
RedirectCodes == {"REDIRECT_CHAIN_TOO_DEEP", "REDIRECT_INVALID_TARGET"}

StubsSettled ==
  phase \in {"dependencies", "statuses", "hierarchy", "warnings", "done"} =>
    \A p \in StubPaths :
      p \in DOMAIN stubs <=> \A code \in RedirectCodes : << code, p >> \notin diagnostics

(***************************************************************************)
(* What Parse returns, without its loops: the first README of a path, or   *)
(* its first file; the first non-stub reached by at most MaxRedirectDepth  *)
(* redirects.                                                              *)
(***************************************************************************)
FirstOf(S) == CHOOSE i \in S : \A j \in S : i <= j

Kept(p) ==
  LET best == {i \in FilesAt(p) : input[i].task.readme \/
                                  \A j \in FilesAt(p) : ~input[j].task.readme}
  IN  input[FirstOf(best)].task

KeptPaths == {p \in Paths : FilesAt(p) # {}}

IsStub(p) == p \in KeptPaths /\ Kept(p).stub

\* Where n redirects lead from p.
Hops(p) ==
  LET at[n \in 0..MaxRedirectDepth] ==
        IF n = 0 THEN p ELSE IF IsStub(at[n - 1]) THEN Kept(at[n - 1]).to ELSE at[n - 1]
  IN  at

Target(p) ==
  LET at == Hops(p) IN {at[n] : n \in {m \in DOMAIN at : ~IsStub(at[m])}}

Valid(p) ==
  \A n \in 0..MaxRedirectDepth : IsStub(Hops(p)[n]) => Kept(Hops(p)[n]).to \notin Dotted

Resolvable(p) == IsStub(p) /\ Valid(p) /\ Target(p) # {}

Expected(p) ==
  IF Kept(p).stub THEN Kept(p)
  ELSE [Kept(p) EXCEPT
          !.deps = [i \in DOMAIN @ |->
                      IF Resolvable(@[i]) THEN CHOOSE t \in Target(@[i]) : TRUE ELSE @[i]],
          !.category = IF Kept(p).status \in BaseStatuses THEN Kept(p).status ELSE @]

(***************************************************************************)
(* The result does not depend on the order in which Go visits its maps:    *)
(* tasks and stubs are those of the definition above, and a redirect has   *)
(* the diagnostic that fits it.                                            *)
(***************************************************************************)
OrderIndependent ==
  phase = "done" =>
    /\ tasks = [p \in KeptPaths |-> Expected(p)]
    /\ stubs = [p \in {q \in KeptPaths : Resolvable(q)} |-> CHOOSE t \in Target(p) : TRUE]
    /\ \A p \in KeptPaths :
         /\ << "REDIRECT_INVALID_TARGET", p >> \in diagnostics <=> IsStub(p) /\ ~Valid(p)
         /\ << "REDIRECT_CHAIN_TOO_DEEP", p >> \in diagnostics
              <=> IsStub(p) /\ Valid(p) /\ Target(p) = {}

\* Parse returns, redirect cycles included.
ParseEnds == <>(phase \in {"done", "failed"})

=============================================================================
