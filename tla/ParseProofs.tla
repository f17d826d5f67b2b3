----------------------------- MODULE ParseProofs -----------------------------
(***************************************************************************)
(* Proofs about Parse.tla and FileFormats.tla, for all inputs, any number  *)
(* of files and every MaxRedirectDepth.                                    *)
(*                                                                         *)
(* StubsSettled and DependenciesResolved speak of what holds after a loop  *)
(* over a map; they are not inductive.  The invariant below adds what the  *)
(* loop has established for the keys already visited (Ledger, DepsSoFar),  *)
(* that those to come are untouched, and what ties the phases together.    *)
(*                                                                         *)
(* A second invariant, SoFar, compares with the definition that has no     *)
(* loops: for the keys visited the tasks, targets and verdicts are those   *)
(* of the definition, and the chain in hand is at the place Hops gives.    *)
(* OrderIndependent is what it says of the end.                            *)
(*                                                                         *)
(* What is read from a file is a matter of its text and its path alone:    *)
(* the second half is about those, and the invariants only say that every  *)
(* entry was made from a file and every kept task from a good one.         *)
(***************************************************************************)
EXTENDS FileFormats, FiniteSetTheorems, SequenceTheorems, WellFoundedInduction, TLAPS

\* What was parsed is good, and later phases run on everything.
FilesRead ==
  /\ \A i \in 1..read : ~input[i].bad
  /\ phase \notin {"files", "failed"} => read = Len(input)

\* Repository.Tasks is keyed by the paths of its tasks.
Keyed == \A p \in DOMAIN tasks : tasks[p].path = p

LoopKeys ==
  /\ phase = "conflicts" => \A p \in pending : FilesAt(p) # {}
  /\ phase = "stubs" => pending \subseteq StubPaths
  /\ phase \in {"dependencies", "statuses", "hierarchy"} => pending \subseteq DOMAIN tasks
  /\ phase \in {"files", "failed", "warnings", "done"} => pending = {}

Undiagnosed(p) == \A code \in RedirectCodes : << code, p >> \notin diagnostics

Untouched(p) == p \notin DOMAIN stubs /\ Undiagnosed(p)

Settled(p) == p \in DOMAIN stubs <=> Undiagnosed(p)

\* Before the loop over the stubs no stub is resolved or diagnosed.
NothingYet ==
  phase \in {"files", "failed", "conflicts"} =>
    DOMAIN stubs = {} /\ \A p \in Paths : Undiagnosed(p)

\* A chain is only followed in its phase, for a stub taken and not yet settled.
ChainOpen ==
  chain # NoChain =>
    phase = "stubs" /\ chain.root \in StubPaths \ pending /\ Untouched(chain.root)

\* The loop over the stubs, half-way.
Ledger ==
  phase = "stubs" =>
    \A p \in StubPaths :
      IF p \in pending THEN Untouched(p)
      ELSE (chain # NoChain /\ chain.root = p) \/ Settled(p)

Clear(p) == \A i \in DOMAIN tasks[p].deps : tasks[p].deps[i] \notin DOMAIN stubs

\* The loop over the tasks' dependencies, half-way.
DepsSoFar ==
  phase = "dependencies" => \A p \in (DOMAIN tasks \ StubPaths) \ pending : Clear(p)

IInv ==
  /\ TypeOK
  /\ FilesRead
  /\ Keyed
  /\ LoopKeys
  /\ NothingYet
  /\ ChainOpen
  /\ Ledger
  /\ StubsLeadOut
  /\ StubsSettled
  /\ DepsSoFar
  /\ DependenciesResolved

-----------------------------------------------------------------------------
(***************************************************************************)
(* FACTS ABOUT THE MAPS                                                    *)
(***************************************************************************)

\* What SetField does to the map of tasks: a field other than deps and
\* category is never touched, and a stub not at all.
LEMMA SetFieldFacts ==
  ASSUME TypeOK, NEW p \in DOMAIN tasks, NEW f \in {"deps", "category"}, NEW v,
         f = "deps" => v \in Seq(Paths), f = "category" => v \in STRING,
         tasks' = SetField(p, f, v)
  PROVE  /\ DOMAIN tasks' = DOMAIN tasks
         /\ tasks' \in [DOMAIN tasks' -> Task]
         /\ \A q \in DOMAIN tasks :
              /\ tasks'[q].path = tasks[q].path
              /\ tasks'[q].stub = tasks[q].stub
              /\ q # p \/ f = "category" \/ tasks[q].stub => tasks'[q].deps = tasks[q].deps
         /\ StubPaths' = StubPaths
         /\ f = "deps" /\ ~tasks[p].stub => tasks'[p].deps = v
<1>1. CASE tasks[p].stub
  BY <1>1 DEF SetField, TypeOK, StubPaths
<1>2. CASE ~tasks[p].stub
  <2>1. tasks' = [tasks EXCEPT ![p] = [@ EXCEPT ![f] = v]]
    BY <1>2 DEF SetField
  <2>2. tasks[p] \in Task /\ tasks \in [DOMAIN tasks -> Task]
    BY DEF TypeOK
  <2>3. CASE f = "deps"
    <3>1. tasks'[p] = [tasks[p] EXCEPT !.deps = v]
      BY <2>1, <2>3
    <3>2. /\ tasks'[p] \in Task
          /\ tasks'[p].path = tasks[p].path /\ tasks'[p].stub = tasks[p].stub
          /\ tasks'[p].deps = v
      BY <2>2, <2>3, <3>1 DEF Task
    <3>3. DOMAIN tasks' = DOMAIN tasks /\ \A q \in DOMAIN tasks : q # p => tasks'[q] = tasks[q]
      BY <2>1
    <3>4. tasks' \in [DOMAIN tasks' -> Task]
      BY <2>1, <2>2, <3>2, <3>3
    <3> QED
      BY <1>2, <2>3, <3>2, <3>3, <3>4 DEF StubPaths
  <2>4. CASE f = "category"
    <3>1. tasks'[p] = [tasks[p] EXCEPT !.category = v]
      BY <2>1, <2>4
    <3>2. /\ tasks'[p] \in Task
          /\ tasks'[p].path = tasks[p].path /\ tasks'[p].stub = tasks[p].stub
          /\ tasks'[p].deps = tasks[p].deps
      BY <2>2, <2>4, <3>1 DEF Task
    <3>3. DOMAIN tasks' = DOMAIN tasks /\ \A q \in DOMAIN tasks : q # p => tasks'[q] = tasks[q]
      BY <2>1
    <3>4. tasks' \in [DOMAIN tasks' -> Task]
      BY <2>1, <2>2, <3>2, <3>3
    <3> QED
      BY <1>2, <2>4, <3>2, <3>3, <3>4 DEF StubPaths
  <2> QED
    BY <2>3, <2>4
<1> QED
  BY <1>1, <1>2

\* The entries of an input, once all of them are read without an error.
LEMMA GoodEntries ==
  ASSUME TypeOK, FilesRead, phase \notin {"files", "failed"},
         NEW p, NEW i \in FilesAt(p)
  PROVE  i \in 1..Len(input) /\ input[i].task \in Task /\ input[i].task.path = p
<1>1. input \in Inputs /\ input \in Seq({input[j] : j \in DOMAIN input})
  BY ParseAssumption DEF TypeOK
<1>2. DOMAIN input = 1..Len(input)
  BY <1>1
<1> QED
  BY <1>1, <1>2, ParseAssumption DEF FilesAt, FilesRead

\* The domain of one key has one element, so resolveHierarchy finds no group.
LEMMA LoneGroup ==
  ASSUME Keyed, NEW p \in DOMAIN tasks
  PROVE  Cardinality(GroupAt(p)) = 1
<1>1. GroupAt(p) = {p}
  BY DEF GroupAt, Keyed
<1> QED
  BY <1>1, FS_Singleton

-----------------------------------------------------------------------------
(***************************************************************************)
(* THE ACTIONS PRESERVE THE INVARIANT                                      *)
(***************************************************************************)

\* In this group the tasks and the stubs stay, and so do the facts on them.
LEMMA ReadingPreserves ==
  ASSUME IInv, ParseEntry \/ ParseFails \/ CheckConfig
  PROVE  IInv'
<1>1. CASE ParseEntry
  <2>1. read \in Nat /\ read < Len(input) /\ read' = read + 1 /\ ~input[read + 1].bad
    BY <1>1 DEF ParseEntry, IInv, TypeOK
  <2>2. input \in Seq({input[j] : j \in DOMAIN input})
    BY ParseAssumption DEF IInv, TypeOK
  <2>3. Len(input) \in Nat
    BY <2>2
  <2>4. (TypeOK /\ FilesRead)'
    BY <1>1, <2>1, <2>3 DEF ParseEntry, IInv, TypeOK, FilesRead
  <2> QED
    BY <1>1, <2>4 DEF ParseEntry, IInv, Keyed, LoopKeys, NothingYet, ChainOpen, Ledger,
       StubsLeadOut, StubsSettled, DepsSoFar, DependenciesResolved, StubPaths, FilesAt,
       Undiagnosed, Untouched, Settled, Clear
<1>2. CASE ParseFails
  BY <1>2 DEF ParseFails, IInv, TypeOK, FilesRead, Keyed, LoopKeys, NothingYet, ChainOpen,
     Ledger, StubsLeadOut, StubsSettled, DepsSoFar, DependenciesResolved, StubPaths, FilesAt,
     Undiagnosed, Untouched, Settled, Clear
<1>3. CASE CheckConfig
  <2>1. \A code \in RedirectCodes, p \in Paths :
          << code, p >> \in diagnostics' => << code, p >> \in diagnostics
    BY <1>3 DEF CheckConfig, RedirectCodes
  <2>2. NothingYet'
    BY <1>3, <2>1 DEF CheckConfig, IInv, NothingYet, Undiagnosed
  <2>3. (TypeOK /\ FilesRead /\ Keyed)'
    BY <1>3 DEF CheckConfig, IInv, TypeOK, FilesRead, Keyed
  <2>4. (LoopKeys /\ ChainOpen)'
    BY <1>3 DEF CheckConfig, IInv, LoopKeys, ChainOpen, FilesAt
  <2>5. (Ledger /\ StubsLeadOut /\ StubsSettled /\ DepsSoFar /\ DependenciesResolved)'
    BY <1>3 DEF CheckConfig, IInv, Ledger, StubsLeadOut, StubsSettled, DepsSoFar,
       DependenciesResolved, StubPaths
  <2> QED
    BY <2>2, <2>3, <2>4, <2>5 DEF IInv
<1> QED
  BY <1>1, <1>2, <1>3

LEMMA KeepTaskPreserves ==
  ASSUME IInv, NEW p \in pending, KeepTask(p)
  PROVE  IInv'
<1>1. PICK i \in Contenders(p) : tasks' = Put(tasks, p, input[i].task)
  BY DEF KeepTask
<1>2. i \in FilesAt(p) /\ p \in Paths /\ phase = "conflicts"
  BY <1>1 DEF Contenders, KeepTask, IInv, TypeOK
<1>3. input[i].task \in Task /\ input[i].task.path = p
  BY <1>2, GoodEntries DEF IInv
<1>a. /\ DOMAIN tasks' = DOMAIN tasks \cup {p}
      /\ tasks'[p] = input[i].task
      /\ \A x \in DOMAIN tasks : x # p => tasks'[x] = tasks[x]
      /\ tasks' \in [DOMAIN tasks' -> Task]
  <2>1. tasks \in [DOMAIN tasks -> Task]
    BY DEF IInv, TypeOK
  <2>2. tasks' = [x \in DOMAIN tasks \cup {p} |-> IF x = p THEN input[i].task ELSE tasks[x]]
    BY <1>1 DEF Put
  <2> QED
    BY <1>3, <2>1, <2>2
<1>4. tasks' \in [DOMAIN tasks' -> Task] /\ DOMAIN tasks' \subseteq Paths
  BY <1>2, <1>a DEF IInv, TypeOK
<1>5. (TypeOK /\ FilesRead)'
  BY <1>2, <1>4 DEF KeepTask, IInv, TypeOK, FilesRead
<1>6. Keyed'
  BY <1>3, <1>a DEF IInv, Keyed
<1>7. LoopKeys'
  BY <1>2 DEF KeepTask, IInv, LoopKeys, FilesAt
<1>8. NothingYet'
  BY <1>2 DEF KeepTask, IInv, NothingYet, Undiagnosed, RedirectCodes
<1>9. (ChainOpen /\ Ledger /\ StubsLeadOut /\ StubsSettled /\ DepsSoFar /\ DependenciesResolved)'
  BY <1>2 DEF KeepTask, IInv, ChainOpen, NothingYet, Ledger, StubsLeadOut, StubsSettled,
     DepsSoFar, DependenciesResolved
<1> QED
  BY <1>5, <1>6, <1>7, <1>8, <1>9 DEF IInv

\* An open chain: it is in its phase, of its type, and its root is unsettled.
LEMMA OpenChain ==
  ASSUME IInv, chain # NoChain
  PROVE  /\ phase = "stubs" /\ chain \in Chain
         /\ chain.root \in Paths /\ chain.at \in Paths
         /\ chain.root \in StubPaths \ pending /\ Untouched(chain.root)
  BY DEF IInv, TypeOK, ChainOpen, Chain

LEMMA StartChainPreserves ==
  ASSUME IInv, NEW p \in pending, StartChain(p)
  PROVE  IInv'
<1>1. p \in StubPaths /\ p \in Paths /\ phase = "stubs" /\ Untouched(p)
  BY DEF StartChain, IInv, TypeOK, LoopKeys, Ledger
<1>2. chain' \in Chain /\ chain' # NoChain /\ chain'.root = p
  BY <1>1, ParseAssumption DEF StartChain, Chain
<1>3. (TypeOK /\ FilesRead /\ Keyed /\ LoopKeys)'
  BY <1>1, <1>2 DEF StartChain, IInv, TypeOK, FilesRead, Keyed, LoopKeys, StubPaths
<1>4. ChainOpen'
  BY <1>1, <1>2 DEF StartChain, ChainOpen, StubPaths, Untouched, Undiagnosed
<1>5. Ledger'
  BY <1>1, <1>2 DEF StartChain, IInv, Ledger, StubPaths, Untouched, Settled, Undiagnosed
<1>6. (NothingYet /\ StubsLeadOut /\ StubsSettled /\ DepsSoFar /\ DependenciesResolved)'
  BY <1>1 DEF StartChain, IInv, NothingYet, StubsLeadOut, StubsSettled, DepsSoFar,
     DependenciesResolved, StubPaths
<1> QED
  BY <1>3, <1>4, <1>5, <1>6 DEF IInv

\* A failing chain diagnoses its root and nothing else.
LEMMA RejectChainPreserves ==
  ASSUME IInv, chain # NoChain, NEW code \in RedirectCodes, RejectChain(code)
  PROVE  IInv'
<1>1. /\ phase = "stubs" /\ phase' = phase /\ chain' = NoChain
      /\ chain.root \in StubPaths \ pending /\ Untouched(chain.root)
      /\ UNCHANGED << input, read, pending, tasks, stubs >>
  BY OpenChain DEF RejectChain
<1>2. \A p : p = chain.root => ~(Undiagnosed(p)')
  BY DEF RejectChain, Undiagnosed
<1>3. \A p : p # chain.root => (Undiagnosed(p)' <=> Undiagnosed(p))
  BY DEF RejectChain, Undiagnosed
<1>4. (TypeOK /\ FilesRead /\ Keyed /\ LoopKeys /\ NothingYet /\ ChainOpen)'
  BY <1>1 DEF IInv, TypeOK, FilesRead, Keyed, LoopKeys, NothingYet, ChainOpen, StubPaths
<1>5. Ledger'
  BY <1>1, <1>2, <1>3 DEF IInv, Ledger, StubPaths, Untouched, Settled
<1>6. (StubsLeadOut /\ StubsSettled /\ DepsSoFar /\ DependenciesResolved)'
  BY <1>1 DEF IInv, StubsLeadOut, StubsSettled, DepsSoFar, DependenciesResolved, StubPaths
<1> QED
  BY <1>4, <1>5, <1>6 DEF IInv

LEMMA ChainEndsPreserves ==
  ASSUME IInv, ChainEnds
  PROVE  IInv'
<1>1. /\ phase = "stubs" /\ phase' = phase /\ chain' = NoChain
      /\ chain.root \in StubPaths \ pending /\ Untouched(chain.root)
      /\ chain.root \in Paths /\ chain.at \in Paths /\ chain.at \notin StubPaths
      /\ UNCHANGED << input, read, pending, tasks, diagnostics >>
  BY OpenChain DEF ChainEnds
<1>2. /\ DOMAIN stubs' = DOMAIN stubs \cup {chain.root}
      /\ stubs'[chain.root] = chain.at
      /\ \A x \in DOMAIN stubs : x # chain.root => stubs'[x] = stubs[x]
      /\ stubs' \in [DOMAIN stubs' -> Paths]
  <2>1. stubs' = [x \in DOMAIN stubs \cup {chain.root} |->
                    IF x = chain.root THEN chain.at ELSE stubs[x]]
    BY DEF ChainEnds, Put
  <2> QED
    BY <1>1, <2>1 DEF IInv, TypeOK
<1>3. (TypeOK /\ FilesRead /\ Keyed /\ LoopKeys /\ NothingYet /\ ChainOpen)'
  BY <1>1, <1>2 DEF IInv, TypeOK, FilesRead, Keyed, LoopKeys, NothingYet, ChainOpen, StubPaths
<1>4. Ledger'
  BY <1>1, <1>2 DEF IInv, Ledger, StubPaths, Untouched, Settled, Undiagnosed
<1>5. (StubsLeadOut /\ StubsSettled /\ DepsSoFar /\ DependenciesResolved)'
  BY <1>1, <1>2 DEF IInv, StubsLeadOut, StubsSettled, DepsSoFar, DependenciesResolved, StubPaths
<1> QED
  BY <1>3, <1>4, <1>5 DEF IInv

LEMMA FollowPreserves ==
  ASSUME IInv, Follow
  PROVE  IInv'
<1>1. /\ phase = "stubs" /\ chain \in Chain /\ chain.at \in StubPaths
      /\ chain.root \in StubPaths \ pending /\ Untouched(chain.root)
      /\ ~TooDeep
      /\ chain' = [chain EXCEPT !.at = tasks[chain.at].to, !.depth = @ + 1]
      /\ UNCHANGED << input, read, phase, pending, tasks, stubs, diagnostics >>
  BY OpenChain DEF Follow
<1>2. tasks[chain.at].to \in Paths
  BY <1>1 DEF IInv, TypeOK, StubPaths, Task
<1>3. chain' \in Chain /\ chain'.root = chain.root /\ chain' # NoChain
  <2>1. chain.depth + 1 \in 0..MaxRedirectDepth + 1
    BY <1>1, ParseAssumption DEF Chain, TooDeep
  <2>2. chain' \in Chain /\ chain'.root = chain.root
    BY <1>1, <1>2, <2>1 DEF Chain
  <2> QED
    BY <2>2, ParseAssumption
<1>4. (TypeOK /\ FilesRead /\ Keyed /\ LoopKeys /\ NothingYet)'
  BY <1>1, <1>3 DEF IInv, TypeOK, FilesRead, Keyed, LoopKeys, NothingYet, StubPaths
<1>5. (ChainOpen /\ Ledger)'
  BY <1>1, <1>3 DEF Follow, IInv, ChainOpen, Ledger, StubPaths, Untouched, Settled, Undiagnosed
<1>6. (StubsLeadOut /\ StubsSettled /\ DepsSoFar /\ DependenciesResolved)'
  BY <1>1 DEF IInv, StubsLeadOut, StubsSettled, DepsSoFar, DependenciesResolved, StubPaths
<1> QED
  BY <1>4, <1>5, <1>6 DEF IInv

\* The facts on stubs and diagnostics survive a step of a later loop.
LEMMA LaterLoopsKeepStubs ==
  ASSUME IInv, phase \in {"dependencies", "statuses", "hierarchy"},
         UNCHANGED << input, read, phase, chain, stubs, diagnostics >>,
         NEW p \in pending, pending' = pending \ {p}, StubPaths' = StubPaths,
         DOMAIN tasks' = DOMAIN tasks, tasks' \in [DOMAIN tasks -> Task],
         \A q \in DOMAIN tasks : tasks'[q].path = tasks[q].path
  PROVE  (TypeOK /\ FilesRead /\ Keyed /\ LoopKeys /\ NothingYet /\ ChainOpen
            /\ Ledger /\ StubsLeadOut /\ StubsSettled)'
<1>1. (TypeOK /\ FilesRead /\ Keyed /\ LoopKeys /\ NothingYet)'
  BY DEF IInv, TypeOK, FilesRead, Keyed, LoopKeys, NothingYet
<1>2. (ChainOpen /\ Ledger /\ StubsLeadOut)'
  BY DEF IInv, ChainOpen, Ledger, StubsLeadOut
<1>3. StubsSettled'
  BY DEF IInv, StubsSettled
<1> QED
  BY <1>1, <1>2, <1>3

LEMMA ResolveDependenciesPreserves ==
  ASSUME IInv, NEW p \in pending, ResolveDependencies(p)
  PROVE  IInv'
<1> DEFINE deps == tasks[p].deps
           resolved == [i \in DOMAIN deps |-> Through(deps[i])]
<1>1. phase = "dependencies" /\ p \in DOMAIN tasks
  BY DEF ResolveDependencies, IInv, LoopKeys
<1>2. \A d \in Paths : Through(d) \in Paths /\ Through(d) \notin DOMAIN stubs
  BY DEF Through, IInv, TypeOK, StubsLeadOut
<1>3. deps \in Seq(Paths)
  BY <1>1 DEF IInv, TypeOK, Task
<1>4. resolved \in Seq(Paths) /\ \A i \in DOMAIN resolved : resolved[i] \notin DOMAIN stubs
  BY <1>2, <1>3
<1>5. tasks' = SetField(p, "deps", resolved)
  BY DEF ResolveDependencies
<1> HIDE DEF resolved
<1>6. /\ DOMAIN tasks' = DOMAIN tasks
      /\ tasks' \in [DOMAIN tasks' -> Task]
      /\ \A q \in DOMAIN tasks :
           /\ tasks'[q].path = tasks[q].path
           /\ q # p => tasks'[q].deps = tasks[q].deps
      /\ StubPaths' = StubPaths
      /\ ~tasks[p].stub => tasks'[p].deps = resolved
  BY <1>1, <1>4, <1>5, SetFieldFacts DEF IInv
<1>7. (TypeOK /\ FilesRead /\ Keyed /\ LoopKeys /\ NothingYet /\ ChainOpen
         /\ Ledger /\ StubsLeadOut /\ StubsSettled)'
  BY <1>1, <1>6, LaterLoopsKeepStubs DEF ResolveDependencies
<1>8. DepsSoFar'
  BY <1>1, <1>4, <1>6 DEF ResolveDependencies, IInv, DepsSoFar, Clear, StubPaths
<1>9. DependenciesResolved'
  BY <1>1 DEF ResolveDependencies, DependenciesResolved
<1> QED
  BY <1>7, <1>8, <1>9 DEF IInv

LEMMA ResolveStatusPreserves ==
  ASSUME IInv, NEW p \in pending, ResolveStatus(p)
  PROVE  IInv'
<1>1. phase = "statuses" /\ p \in DOMAIN tasks
  BY DEF ResolveStatus, IInv, LoopKeys
<1>2. tasks \in [DOMAIN tasks -> Task] /\ tasks[p].status \in STRING
  BY <1>1 DEF IInv, TypeOK, Task
<1>3. /\ DOMAIN tasks' = DOMAIN tasks
      /\ tasks' \in [DOMAIN tasks' -> Task]
      /\ \A q \in DOMAIN tasks :
           tasks'[q].path = tasks[q].path /\ tasks'[q].deps = tasks[q].deps
      /\ StubPaths' = StubPaths
  <2>1. CASE tasks' = tasks
    BY <1>2, <2>1 DEF StubPaths
  <2>2. CASE tasks' = SetField(p, "category", tasks[p].status)
    BY <1>1, <1>2, <2>2, SetFieldFacts DEF IInv
  <2> QED
    BY <2>1, <2>2 DEF ResolveStatus
<1>4. (TypeOK /\ FilesRead /\ Keyed /\ LoopKeys /\ NothingYet /\ ChainOpen
         /\ Ledger /\ StubsLeadOut /\ StubsSettled)'
  BY <1>1, <1>3, LaterLoopsKeepStubs DEF ResolveStatus
<1>5. (DepsSoFar /\ DependenciesResolved)'
  BY <1>1, <1>3 DEF ResolveStatus, IInv, DepsSoFar, DependenciesResolved
<1> QED
  BY <1>4, <1>5 DEF IInv

\* The tasks are keyed by path, so the second resolution of conflicts is idle.
LEMMA ResolveHierarchyIdle ==
  ASSUME IInv, NEW p \in pending, ResolveHierarchy(p)
  PROVE  p \in DOMAIN tasks /\ UNCHANGED << tasks, diagnostics >>
<1>1. p \in DOMAIN tasks
  BY DEF ResolveHierarchy, IInv, LoopKeys
<1>2. Cardinality(GroupAt(p)) <= 1
  BY <1>1, LoneGroup DEF IInv
<1> QED
  BY <1>1, <1>2 DEF ResolveHierarchy

LEMMA ResolveHierarchyPreserves ==
  ASSUME IInv, NEW p \in pending, ResolveHierarchy(p)
  PROVE  IInv'
<1>1. phase = "hierarchy" /\ p \in DOMAIN tasks /\ UNCHANGED << tasks, diagnostics >>
  BY ResolveHierarchyIdle DEF ResolveHierarchy
<1>2. tasks \in [DOMAIN tasks -> Task] /\ StubPaths' = StubPaths
  BY <1>1 DEF IInv, TypeOK, StubPaths
<1>3. (TypeOK /\ FilesRead /\ Keyed /\ LoopKeys /\ NothingYet /\ ChainOpen
         /\ Ledger /\ StubsLeadOut /\ StubsSettled)'
  BY <1>1, <1>2, LaterLoopsKeepStubs DEF ResolveHierarchy
<1>4. (DepsSoFar /\ DependenciesResolved)'
  BY <1>1, <1>2 DEF ResolveHierarchy, IInv, DepsSoFar, DependenciesResolved
<1> QED
  BY <1>3, <1>4 DEF IInv

LEMMA CheckPathWarningsPreserves ==
  ASSUME IInv, CheckPathWarnings
  PROVE  IInv'
<1>1. phase = "warnings" /\ phase' = "done"
      /\ UNCHANGED << input, read, pending, chain, tasks, stubs >>
  BY DEF CheckPathWarnings
<1>2. \A p : Undiagnosed(p)' <=> Undiagnosed(p)
  BY DEF CheckPathWarnings, Undiagnosed, RedirectCodes
<1>3. (TypeOK /\ FilesRead /\ Keyed /\ LoopKeys /\ NothingYet /\ ChainOpen)'
  BY <1>1 DEF IInv, TypeOK, FilesRead, Keyed, LoopKeys, NothingYet, ChainOpen
<1>4. StubsSettled'
  <2>1. StubPaths' = StubPaths /\ DOMAIN stubs' = DOMAIN stubs
    BY <1>1 DEF StubPaths
  <2>2. \A p \in StubPaths : p \in DOMAIN stubs <=> Undiagnosed(p)
    BY <1>1 DEF IInv, StubsSettled, Undiagnosed
  <2>3. \A p \in StubPaths : p \in DOMAIN stubs <=> Undiagnosed(p)'
    BY <1>2, <2>2
  <2> QED
    BY <2>1, <2>3 DEF StubsSettled, Undiagnosed
<1>5. (Ledger /\ StubsLeadOut /\ DepsSoFar /\ DependenciesResolved)'
  BY <1>1 DEF IInv, Ledger, StubsLeadOut, DepsSoFar, DependenciesResolved, StubPaths
<1> QED
  BY <1>3, <1>4, <1>5 DEF IInv

\* Between two loops: the half-way fact of the one is the promise of the other.
LEMMA NextPhasePreserves ==
  ASSUME IInv, NextPhase
  PROVE  IInv'
<1>1. /\ pending = {} /\ chain = NoChain
      /\ UNCHANGED << input, read, chain, tasks, stubs, diagnostics >>
  BY DEF NextPhase, After
<1>2. \/ phase = "conflicts" /\ phase' = "stubs" /\ pending' = StubPaths
      \/ phase = "stubs" /\ phase' = "dependencies" /\ pending' = DOMAIN tasks
      \/ phase = "dependencies" /\ phase' = "statuses" /\ pending' = DOMAIN tasks
      \/ phase = "statuses" /\ phase' = "hierarchy" /\ pending' = DOMAIN tasks
      \/ phase = "hierarchy" /\ phase' = "warnings" /\ pending' = {}
  BY DEF NextPhase, After
<1>3. (TypeOK /\ FilesRead /\ Keyed /\ LoopKeys)'
  BY <1>1, <1>2 DEF IInv, TypeOK, FilesRead, Keyed, LoopKeys, StubPaths
<1>4. (NothingYet /\ ChainOpen /\ StubsLeadOut)'
  BY <1>1, <1>2 DEF IInv, NothingYet, ChainOpen, StubsLeadOut, StubPaths
<1>5. Ledger'
  <2>1. CASE phase = "conflicts"
    BY <1>1, <1>2, <2>1 DEF IInv, TypeOK, NothingYet, Ledger, StubPaths, Untouched, Undiagnosed
  <2> QED
    BY <1>2, <2>1 DEF Ledger
<1>6. StubsSettled'
  <2>1. CASE phase = "stubs"
    BY <1>1, <1>2, <2>1 DEF IInv, Ledger, StubsSettled, StubPaths, Settled, Undiagnosed
  <2>2. CASE phase # "stubs"
    BY <1>1, <1>2, <2>2 DEF IInv, StubsSettled, StubPaths
  <2> QED
    BY <2>1, <2>2
<1>7. (DepsSoFar /\ DependenciesResolved)'
  BY <1>1, <1>2 DEF IInv, DepsSoFar, DependenciesResolved, StubPaths, Clear
<1> QED
  BY <1>3, <1>4, <1>5, <1>6, <1>7 DEF IInv

-----------------------------------------------------------------------------
(***************************************************************************)
(* THE THEOREMS                                                            *)
(***************************************************************************)

\* Parse begins with nothing read.
LEMMA InitIInv == Init => IInv
<1> SUFFICES ASSUME Init PROVE IInv
  OBVIOUS
<1>1. /\ input \in Inputs /\ read = 0 /\ phase = "files" /\ pending = {} /\ chain = NoChain
      /\ DOMAIN tasks = {} /\ DOMAIN stubs = {} /\ diagnostics = {}
      /\ tasks \in [DOMAIN tasks -> Task] /\ stubs \in [DOMAIN stubs -> Paths]
  BY DEF Init, EmptyMap
<1>2. Len(input) \in Nat
  <2>1. input \in Seq({input[j] : j \in DOMAIN input})
    BY <1>1, ParseAssumption
  <2> QED
    BY <2>1
<1>3. TypeOK
  BY <1>1, <1>2 DEF TypeOK
<1> QED
  BY <1>1, <1>3 DEF IInv, FilesRead, Keyed, LoopKeys, NothingYet, ChainOpen, Ledger,
     StubsLeadOut, StubsSettled, DepsSoFar, DependenciesResolved, Undiagnosed

\* Each step of Parse, or a stutter, keeps the invariant.
LEMMA NextIInv == IInv /\ [Next]_vars => IInv'
<1> SUFFICES ASSUME IInv, [Next]_vars PROVE IInv'
  OBVIOUS
<1>1. CASE ParseEntry \/ ParseFails \/ CheckConfig
  BY <1>1, ReadingPreserves
<1>2. CASE ChainTooDeep
  BY <1>2, RejectChainPreserves DEF ChainTooDeep, RedirectCodes
<1>3. CASE ChainInvalid
  BY <1>3, RejectChainPreserves DEF ChainInvalid, RedirectCodes
<1>4. CASE ChainEnds
  BY <1>4, ChainEndsPreserves
<1>5. CASE Follow
  BY <1>5, FollowPreserves
<1>6. CASE CheckPathWarnings
  BY <1>6, CheckPathWarningsPreserves
<1>7. CASE NextPhase
  BY <1>7, NextPhasePreserves
<1>8. ASSUME NEW p \in pending,
             KeepTask(p) \/ StartChain(p) \/ ResolveDependencies(p)
               \/ ResolveStatus(p) \/ ResolveHierarchy(p)
      PROVE  IInv'
  BY <1>8, KeepTaskPreserves, StartChainPreserves, ResolveDependenciesPreserves,
     ResolveStatusPreserves, ResolveHierarchyPreserves
<1>9. CASE UNCHANGED vars
  BY <1>9 DEF vars, IInv, TypeOK, FilesRead, Keyed, LoopKeys, NothingYet, ChainOpen, Ledger,
     StubsLeadOut, StubsSettled, DepsSoFar, DependenciesResolved, StubPaths, FilesAt,
     Undiagnosed, Untouched, Settled, Clear
<1> QED
  BY <1>1, <1>2, <1>3, <1>4, <1>5, <1>6, <1>7, <1>8, <1>9 DEF Next

\* The invariant holds throughout every run of Parse (parser.go:29-53).
THEOREM InductiveInvariant == Spec => []IInv
  BY InitIInv, NextIInv, PTL DEF Spec

\* Every variable keeps its type; a chain never gets longer than the limit of
\* maxRedirectDepth allows, redirect cycles included (resolve.go:31-57).
THEOREM TypeCorrect == Spec => []TypeOK
<1>1. IInv => TypeOK
  BY DEF IInv
<1> QED
  BY <1>1, InductiveInvariant, PTL

\* A resolved stub leads to something that is not a stub: one look-up is enough
\* for resolveDependencies (resolve.go:175-186).
THEOREM ResolvedStubsLeadOut == Spec => []StubsLeadOut
<1>1. IInv => StubsLeadOut
  BY DEF IInv
<1> QED
  BY <1>1, InductiveInvariant, PTL

\* After its loop every stub has a target or a diagnostic, and not both
\* (resolve.go:14-28).
THEOREM EveryStubSettled == Spec => []StubsSettled
<1>1. IInv => StubsSettled
  BY DEF IInv
<1> QED
  BY <1>1, InductiveInvariant, PTL

\* Once resolveDependencies has run, no dependency of a task names a stub that
\* has a target (resolve.go:175-186).
THEOREM NoDependencyOnStub == Spec => []DependenciesResolved
<1>1. IInv => DependenciesResolved
  BY DEF IInv
<1> QED
  BY <1>1, InductiveInvariant, PTL

\* resolveHierarchy changes nothing: parseFiles has settled every conflict of
\* paths before, with the same precedence of READMEs (resolve.go:62-91,
\* parser.go:121-145).
THEOREM HierarchyNeverActs ==
  Spec => [][\A p \in pending : ResolveHierarchy(p) => UNCHANGED << tasks, diagnostics >>]_vars
<1>1. IInv /\ [Next]_vars =>
        [\A p \in pending : ResolveHierarchy(p) => UNCHANGED << tasks, diagnostics >>]_vars
  BY ResolveHierarchyIdle
<1> QED
  BY <1>1, InductiveInvariant, PTL DEF Spec


-----------------------------------------------------------------------------
(***************************************************************************)
(* NUMBERS                                                                 *)
(***************************************************************************)

\* Every set of natural numbers has a least member; the least counterexample of
\* a statement is refuted from the numbers before it.
LEMMA LeastExists ==
  ASSUME NEW S, S \subseteq Nat, S # {}
  PROVE  \E m \in S : \A n \in S : m <= n
<1>1. PICK m \in S : \A n \in S : << n, m >> \notin {pair \in Nat \X Nat : pair[1] < pair[2]}
  BY NatLessThanWellFounded, WFMin DEF OpToRel
<1>2. \A n \in S : n \in Nat /\ m \in Nat /\ ~(n < m)
  BY <1>1
<1>3. \A n \in S : m <= n
  BY <1>2
<1> QED
  BY <1>3

LEMMA MinFacts ==
  ASSUME NEW S, S \subseteq Nat, S # {}
  PROVE  Min(S) \in S /\ \A n \in S : Min(S) <= n
BY LeastExists DEF Min

LEMMA MaxFacts ==
  ASSUME NEW S, NEW k \in Nat, S \subseteq 1..k, S # {}
  PROVE  Max(S) \in S /\ \A n \in S : n <= Max(S)
<1> DEFINE T == {k - n : n \in S}
<1>1. T \subseteq Nat /\ T # {}
  <2>1. \A n \in S : n \in 1..k /\ k - n \in Nat
    OBVIOUS
  <2>2. ASSUME NEW i \in T PROVE i \in Nat
    <3>1. PICK n \in S : i = k - n
      OBVIOUS
    <3> QED
      BY <2>1, <3>1
  <2>3. T # {}
    OBVIOUS
  <2> QED
    BY <2>2, <2>3
<1>2. PICK i \in T : \A j \in T : i <= j
  <2> HIDE DEF T
  <2> QED
    BY <1>1, LeastExists
<1>3. PICK m \in S : i = k - m
  BY <1>2
<1>4. \A n \in S : m >= n
  <2> TAKE n \in S
  <2>1. m \in 1..k /\ n \in 1..k
    OBVIOUS
  <2>2. k - m <= k - n
    BY <1>2, <1>3
  <2> QED
    BY <2>1, <2>2
<1>5. \A n \in S : n \in Int
  OBVIOUS
<1>6. Max(S) \in S /\ \A n \in S : Max(S) >= n
  BY <1>4 DEF Max
<1> QED
  BY <1>5, <1>6

-----------------------------------------------------------------------------
(***************************************************************************)
(* WHAT THE MAPS HOLD                                                      *)
(*                                                                         *)
(* OrderIndependent speaks of the end of Parse.  The second invariant says *)
(* how far the loops have come: a key that has been visited has the value  *)
(* the definition gives it, and a chain in progress has followed the hops  *)
(* that the definition counts, all of them allowed.                        *)
(***************************************************************************)

\* What resolveDependencies makes of a dependency, and of a task.
Final(d) == IF Resolvable(d) THEN CHOOSE t \in Target(d) : TRUE ELSE d

WithDeps(p) ==
  IF Kept(p).stub THEN Kept(p)
  ELSE [Kept(p) EXCEPT !.deps = [i \in DOMAIN Kept(p).deps |-> Final(Kept(p).deps[i])]]

TasksSoFar ==
  /\ phase \in {"files", "failed"} => DOMAIN tasks = {} /\ pending = {}
  /\ phase \notin {"files", "failed"} => pending \subseteq KeptPaths
  /\ phase = "conflicts" => DOMAIN tasks = KeptPaths \ pending
  /\ phase \notin {"files", "failed", "conflicts"} => DOMAIN tasks = KeptPaths
  /\ \A p \in DOMAIN tasks :
       /\ Kept(p) \in Task
       /\ phase \in {"conflicts", "stubs"} => tasks[p] = Kept(p)
       /\ phase = "dependencies" => tasks[p] = (IF p \in pending THEN Kept(p) ELSE WithDeps(p))
       /\ phase = "statuses" => tasks[p] = (IF p \in pending THEN WithDeps(p) ELSE Expected(p))
       /\ phase \in {"hierarchy", "warnings", "done"} => tasks[p] = Expected(p)

\* Each redirect of the chain leads on, from stub to stub, to where it is now.
HopsSoFar ==
  chain # NoChain =>
    LET at == Hops(chain.root)
    IN /\ chain.depth <= MaxRedirectDepth => chain.at = at[chain.depth]
       /\ \A n \in 0 .. MaxRedirectDepth :
            n < chain.depth => IsStub(at[n]) /\ Kept(at[n]).to \notin Dotted

\* A stub that has been settled was settled as the definition says.
Verdicts ==
  /\ \A p \in DOMAIN stubs : Resolvable(p) /\ Target(p) = {stubs[p]}
  /\ \A p \in Paths :
       /\ << "REDIRECT_INVALID_TARGET", p >> \in diagnostics => IsStub(p) /\ ~Valid(p)
       /\ << "REDIRECT_CHAIN_TOO_DEEP", p >> \in diagnostics =>
            IsStub(p) /\ Valid(p) /\ Target(p) = {}

SoFar == TasksSoFar /\ HopsSoFar /\ Verdicts

\* All that the definition of the result speaks of is a matter of the input.
LEMMA SameInput ==
  ASSUME input' = input
  PROVE  /\ KeptPaths' = KeptPaths
         /\ \A p : /\ Kept(p)' = Kept(p) /\ IsStub(p)' = IsStub(p) /\ FilesAt(p)' = FilesAt(p)
                   /\ Hops(p)' = Hops(p) /\ Target(p)' = Target(p) /\ Valid(p)' = Valid(p)
                   /\ Resolvable(p)' = Resolvable(p) /\ Expected(p)' = Expected(p)
                   /\ Final(p)' = Final(p) /\ WithDeps(p)' = WithDeps(p)
<1>1. KeptPaths' = KeptPaths
  BY DEF KeptPaths, FilesAt
<1> SUFFICES ASSUME NEW p
             PROVE  /\ Kept(p)' = Kept(p) /\ IsStub(p)' = IsStub(p) /\ FilesAt(p)' = FilesAt(p)
                    /\ Hops(p)' = Hops(p) /\ Target(p)' = Target(p) /\ Valid(p)' = Valid(p)
                    /\ Resolvable(p)' = Resolvable(p) /\ Expected(p)' = Expected(p)
                    /\ Final(p)' = Final(p) /\ WithDeps(p)' = WithDeps(p)
  BY <1>1
<1>2. Kept(p)' = Kept(p) /\ IsStub(p)' = IsStub(p) /\ FilesAt(p)' = FilesAt(p)
  BY DEF IsStub, KeptPaths, Kept, FilesAt, FirstOf
<1>3. Hops(p)' = Hops(p) /\ Target(p)' = Target(p) /\ Valid(p)' = Valid(p)
  BY DEF Target, Valid, Hops, IsStub, KeptPaths, Kept, FilesAt, FirstOf
<1>4. Resolvable(p)' = Resolvable(p)
  BY DEF Resolvable, Target, Valid, Hops, IsStub, KeptPaths, Kept, FilesAt, FirstOf
<1>5. Expected(p)' = Expected(p)
  BY DEF Expected, Resolvable, Target, Valid, Hops, IsStub, KeptPaths, Kept, FilesAt, FirstOf
<1>6. Final(p)' = Final(p) /\ WithDeps(p)' = WithDeps(p)
  BY DEF WithDeps, Final, Resolvable, Target, Valid, Hops, IsStub, KeptPaths, Kept, FilesAt, FirstOf
<1> QED
  BY <1>2, <1>3, <1>4, <1>5, <1>6

\* Where one redirect leads, or none.
Hop(q) == IF IsStub(q) THEN Kept(q).to ELSE q

\* The recursion of Hops has a solution of every length.
LEMMA HopsExist ==
  ASSUME NEW p, NEW k \in Nat
  PROVE  \E g : g = [n \in 0..k |-> IF n = 0 THEN p ELSE Hop(g[n - 1])]
<1> DEFINE Stuck == {j \in Nat : ~\E g : g = [n \in 0..j |-> IF n = 0 THEN p ELSE Hop(g[n - 1])]}
<1> SUFFICES ASSUME Stuck # {} PROVE FALSE
  OBVIOUS
<1>1. PICK j \in Stuck : \A i \in Stuck : j <= i
  BY LeastExists
<1>2. CASE j = 0
  <2> DEFINE g == [n \in 0..0 |-> p]
  <2>1. g = [n \in 0..0 |-> IF n = 0 THEN p ELSE Hop(g[n - 1])]
    OBVIOUS
  <2> QED
    BY <1>1, <1>2, <2>1
<1>3. CASE j # 0
  <2>1. j - 1 \in Nat /\ ~(j <= j - 1)
    BY <1>1, <1>3
  <2>2. PICK g : g = [n \in 0..j - 1 |-> IF n = 0 THEN p ELSE Hop(g[n - 1])]
    BY <1>1, <2>1
  <2> DEFINE h == [n \in 0..j |-> IF n = j THEN Hop(g[j - 1]) ELSE g[n]]
  <2>3. ASSUME NEW n \in 0..j PROVE h[n] = IF n = 0 THEN p ELSE Hop(h[n - 1])
    <3>1. CASE n = j
      <4>1. j - 1 \in 0..j /\ j - 1 # j
        BY <2>1
      <4>2. h[j - 1] = g[j - 1]
        BY <4>1
      <4> QED
        BY <1>3, <3>1, <4>2
    <3>2. CASE n # j
      <4>1. n \in 0..j - 1 /\ (n # 0 => n - 1 \in 0..j /\ n - 1 # j)
        BY <1>1, <3>2
      <4>2. h[n] = g[n] /\ (n # 0 => h[n - 1] = g[n - 1])
        BY <3>2, <4>1
      <4> QED
        BY <2>2, <4>1, <4>2
    <3> QED
      BY <3>1, <3>2
  <2>4. h = [n \in 0..j |-> IF n = 0 THEN p ELSE Hop(h[n - 1])]
    <3>1. h = [n \in 0..j |-> h[n]]
      OBVIOUS
    <3> HIDE DEF h
    <3> QED
      BY <2>3, <3>1
  <2> QED
    BY <1>1, <2>4
<1> QED
  BY <1>2, <1>3

\* Hops counts the redirects.
LEMMA HopsFacts ==
  ASSUME NEW p
  PROVE  /\ DOMAIN Hops(p) = 0..MaxRedirectDepth
         /\ Hops(p)[0] = p
         /\ \A n \in 1..MaxRedirectDepth : Hops(p)[n] = Hop(Hops(p)[n - 1])
<1> DEFINE Solves(g) == g = [n \in 0..MaxRedirectDepth |-> IF n = 0 THEN p ELSE Hop(g[n - 1])]
<1>1. MaxRedirectDepth \in Nat
  BY ParseAssumption
<1>2. \E g : Solves(g)
  BY <1>1, HopsExist
<1>3. Hops(p) = CHOOSE g : Solves(g)
  BY DEF Hops, Hop
<1> HIDE DEF Solves
<1>4. Solves(Hops(p))
  BY <1>2, <1>3
<1>5. Hops(p) = [n \in 0..MaxRedirectDepth |-> IF n = 0 THEN p ELSE Hop(Hops(p)[n - 1])]
  BY <1>4 DEF Solves
<1> QED
  BY <1>1, <1>5

\* Behind a path that is no stub the hops stay where they are.
LEMMA HopsStay ==
  ASSUME NEW p, NEW d \in 0..MaxRedirectDepth, ~IsStub(Hops(p)[d])
  PROVE  \A n \in d..MaxRedirectDepth : Hops(p)[n] = Hops(p)[d]
<1> DEFINE Moved == {n \in d..MaxRedirectDepth : Hops(p)[n] # Hops(p)[d]}
<1> SUFFICES ASSUME Moved # {} PROVE FALSE
  OBVIOUS
<1>1. MaxRedirectDepth \in Nat
  BY ParseAssumption
<1>2. Moved \subseteq Nat
  BY <1>1
<1>3. PICK n \in Moved : \A m \in Moved : n <= m
  BY <1>2, LeastExists
<1>4. n # d /\ n - 1 \in d..MaxRedirectDepth /\ n \in 1..MaxRedirectDepth /\ ~(n <= n - 1)
  BY <1>1, <1>3
<1>5. Hops(p)[n - 1] = Hops(p)[d]
  BY <1>3, <1>4
<1>6. Hops(p)[n] = Hops(p)[n - 1]
  BY <1>4, <1>5, HopsFacts DEF Hop
<1> QED
  BY <1>3, <1>5, <1>6

\* A chain that has left the stubs has found the target.
LEMMA ChainFound ==
  ASSUME NEW p, NEW d \in 0..MaxRedirectDepth, IsStub(p), ~IsStub(Hops(p)[d]),
         \A n \in 0..MaxRedirectDepth : n < d => IsStub(Hops(p)[n]) /\ Kept(Hops(p)[n]).to \notin Dotted
  PROVE  Resolvable(p) /\ Target(p) = {Hops(p)[d]}
<1>1. MaxRedirectDepth \in Nat /\ DOMAIN Hops(p) = 0..MaxRedirectDepth
  BY ParseAssumption, HopsFacts
<1>2. \A n \in 0..MaxRedirectDepth : n < d \/ n \in d..MaxRedirectDepth
  BY <1>1
<1>3. \A n \in 0..MaxRedirectDepth : n < d \/ Hops(p)[n] = Hops(p)[d]
  BY <1>2, HopsStay
<1>4. Valid(p)
  BY <1>3 DEF Valid
<1>5. Target(p) = {Hops(p)[d]}
  BY <1>1, <1>3 DEF Target
<1> QED
  BY <1>4, <1>5 DEF Resolvable

\* A chain that has followed all the redirects there may be has no target.
LEMMA ChainLost ==
  ASSUME NEW p,
         \A n \in 0..MaxRedirectDepth : IsStub(Hops(p)[n]) /\ Kept(Hops(p)[n]).to \notin Dotted
  PROVE  IsStub(p) /\ Valid(p) /\ Target(p) = {}
<1>1. 0 \in 0..MaxRedirectDepth
  BY ParseAssumption
<1> QED
  BY <1>1, HopsFacts DEF Valid, Target

LEMMA ShapeKept ==
  ASSUME NEW p, Kept(p) \in Task
  PROVE  /\ WithDeps(p).stub = Kept(p).stub /\ WithDeps(p).to = Kept(p).to
         /\ WithDeps(p).status = Kept(p).status
         /\ Expected(p).stub = Kept(p).stub /\ Expected(p).to = Kept(p).to
         /\ Kept(p).stub => WithDeps(p) = Kept(p) /\ Expected(p) = Kept(p)
         /\ ~Kept(p).stub =>
              Expected(p) = IF Kept(p).status \in BaseStatuses
                            THEN [WithDeps(p) EXCEPT !.category = Kept(p).status]
                            ELSE WithDeps(p)
<1>1. CASE Kept(p).stub
  BY <1>1 DEF WithDeps, Expected
<1>2. CASE ~Kept(p).stub
  <2> DEFINE deps == [i \in DOMAIN Kept(p).deps |-> Final(Kept(p).deps[i])]
  <2>1. WithDeps(p) = [Kept(p) EXCEPT !.deps = deps]
    BY <1>2 DEF WithDeps
  <2>2. Expected(p) = [Kept(p) EXCEPT !.deps = deps,
                         !.category = IF Kept(p).status \in BaseStatuses THEN Kept(p).status ELSE @]
    BY <1>2 DEF Expected, Final
  <2> HIDE DEF deps
  <2> QED
    BY <1>2, <2>1, <2>2 DEF Task
<1> QED
  BY <1>1, <1>2

\* The kept tasks that are stubs are those of the definition.
LEMMA StubsAre ==
  ASSUME TypeOK, TasksSoFar, phase \notin {"files", "failed", "conflicts"}
  PROVE  /\ \A p : p \in StubPaths <=> IsStub(p)
         /\ \A p \in StubPaths : tasks[p].to = Kept(p).to
<1>1. DOMAIN tasks = KeptPaths
  BY DEF TasksSoFar
<1>2. ASSUME NEW p \in DOMAIN tasks
      PROVE  tasks[p].stub = Kept(p).stub /\ tasks[p].to = Kept(p).to
  <2>1. Kept(p) \in Task /\ tasks[p] \in {Kept(p), WithDeps(p), Expected(p)}
    BY DEF TasksSoFar, TypeOK
  <2> QED
    BY <2>1, ShapeKept
<1> QED
  BY <1>1, <1>2 DEF StubPaths, IsStub

\* After the loop over them the stubs with a target are the resolvable ones.
LEMMA StubsResolved ==
  ASSUME IInv, SoFar, phase \in {"dependencies", "statuses", "hierarchy", "warnings", "done"}
  PROVE  \A d : (d \in DOMAIN stubs <=> Resolvable(d)) /\ Through(d) = Final(d)
<1> SUFFICES ASSUME NEW d
             PROVE  (d \in DOMAIN stubs <=> Resolvable(d)) /\ Through(d) = Final(d)
  OBVIOUS
<1>1. ASSUME Resolvable(d) PROVE d \in DOMAIN stubs
  <2>1. d \in StubPaths /\ d \in Paths
    BY <1>1, StubsAre DEF Resolvable, IInv, SoFar, IsStub, KeptPaths
  <2>2. \A code \in RedirectCodes : << code, d >> \notin diagnostics
    BY <1>1, <2>1 DEF Resolvable, SoFar, Verdicts, RedirectCodes
  <2> QED
    BY <2>1, <2>2 DEF IInv, StubsSettled
<1>2. ASSUME d \in DOMAIN stubs PROVE Resolvable(d) /\ Target(d) = {stubs[d]}
  BY <1>2 DEF SoFar, Verdicts
<1>3. CASE d \in DOMAIN stubs
  BY <1>2, <1>3 DEF Through, Final
<1>4. CASE d \notin DOMAIN stubs
  BY <1>1, <1>4 DEF Through, Final
<1> QED
  BY <1>1, <1>2, <1>3, <1>4

\* A step that adds no verdict keeps those there are.
LEMMA VerdictsStay ==
  ASSUME Verdicts, UNCHANGED << input, stubs >>,
         \A code \in RedirectCodes, p \in Paths :
           << code, p >> \in diagnostics' => << code, p >> \in diagnostics
  PROVE  Verdicts'
<1>1. \A p \in DOMAIN stubs' : Resolvable(p)' /\ Target(p)' = {stubs'[p]}
  BY SameInput DEF Verdicts
<1>2. ASSUME NEW p \in Paths
      PROVE  /\ << "REDIRECT_INVALID_TARGET", p >> \in diagnostics' => (IsStub(p) /\ ~Valid(p))'
             /\ << "REDIRECT_CHAIN_TOO_DEEP", p >> \in diagnostics' =>
                  (IsStub(p) /\ Valid(p) /\ Target(p) = {})'
  BY <1>2, SameInput DEF Verdicts, RedirectCodes
<1> QED
  BY <1>1, <1>2 DEF Verdicts

LEMMA HopsSoFarStay ==
  ASSUME HopsSoFar, UNCHANGED << input, chain >>
  PROVE  HopsSoFar'
  BY SameInput DEF HopsSoFar

\* A step that touches no task, within a phase and a loop.
LEMMA TasksSoFarStay ==
  ASSUME TasksSoFar, UNCHANGED << input, phase, pending, tasks >>
  PROVE  TasksSoFar'
  BY SameInput DEF TasksSoFar

LEMMA InitSoFar == Init => SoFar
<1> SUFFICES ASSUME Init PROVE SoFar
  OBVIOUS
<1>1. /\ phase = "files" /\ pending = {} /\ chain = NoChain /\ diagnostics = {}
      /\ DOMAIN tasks = {} /\ DOMAIN stubs = {}
  BY DEF Init, EmptyMap
<1> QED
  BY <1>1 DEF SoFar, TasksSoFar, HopsSoFar, Verdicts

LEMMA ReadingSoFar ==
  ASSUME IInv, SoFar, ParseEntry \/ ParseFails \/ CheckConfig
  PROVE  SoFar'
<1>1. /\ UNCHANGED << input, chain, tasks, stubs >>
      /\ phase = "files"
      /\ \A code \in RedirectCodes, p \in Paths :
           << code, p >> \in diagnostics' => << code, p >> \in diagnostics
  BY DEF ParseEntry, ParseFails, CheckConfig, RedirectCodes
<1>2. TasksSoFar'
  <2>1. DOMAIN tasks' = {} /\ pending = {}
    BY <1>1 DEF SoFar, TasksSoFar
  <2>2. CASE ParseEntry \/ ParseFails
    BY <1>1, <2>1, <2>2 DEF ParseEntry, ParseFails, TasksSoFar
  <2>3. CASE CheckConfig
    <3>1. pending' = KeptPaths' /\ phase' = "conflicts"
      BY <1>1, <2>3, SameInput DEF CheckConfig, KeptPaths
    <3> QED
      BY <2>1, <3>1 DEF TasksSoFar
  <2> QED
    BY <2>2, <2>3
<1> QED
  BY <1>1, <1>2, VerdictsStay, HopsSoFarStay DEF SoFar

\* KeepTask keeps the task that the definition keeps.
LEMMA KeptIs ==
  ASSUME IInv, phase = "conflicts", NEW p, NEW i \in Contenders(p),
         \A j \in Contenders(p) : i <= j
  PROVE  input[i].task = Kept(p) /\ Kept(p) \in Task
<1> DEFINE best == {k \in FilesAt(p) : input[k].task.readme \/
                                       \A j \in FilesAt(p) : ~input[j].task.readme}
<1>1. Contenders(p) = best
  BY DEF Contenders
<1>2. \A j \in FilesAt(p) : j \in Nat
  BY DEF FilesAt
<1>3. FirstOf(best) = i
  BY <1>1, <1>2 DEF FirstOf
<1>4. Kept(p) = input[i].task
  BY <1>3 DEF Kept
<1>5. i \in FilesAt(p)
  BY <1>1
<1> QED
  BY <1>4, <1>5, GoodEntries DEF IInv

LEMMA KeepTaskSoFar ==
  ASSUME IInv, SoFar, NEW p \in pending, KeepTask(p)
  PROVE  SoFar'
<1>1. PICK i \in Contenders(p) :
        (\A j \in Contenders(p) : i <= j) /\ tasks' = Put(tasks, p, input[i].task)
  BY DEF KeepTask
<1>2. /\ UNCHANGED << input, chain, stubs, phase >> /\ phase = "conflicts"
      /\ pending' = pending \ {p}
      /\ \A code \in RedirectCodes, q \in Paths :
           << code, q >> \in diagnostics' => << code, q >> \in diagnostics
  BY DEF KeepTask, RedirectCodes
<1>3. input[i].task = Kept(p) /\ Kept(p) \in Task
  BY <1>1, <1>2, KeptIs
<1>4. /\ DOMAIN tasks' = DOMAIN tasks \cup {p}
      /\ tasks'[p] = Kept(p)
      /\ \A q \in DOMAIN tasks : q # p => tasks'[q] = tasks[q]
  BY <1>1, <1>3 DEF Put
<1>5. pending \subseteq KeptPaths /\ DOMAIN tasks = KeptPaths \ pending
  BY <1>2 DEF SoFar, TasksSoFar
<1>6. KeptPaths' = KeptPaths /\ \A q : Kept(q)' = Kept(q)
  BY <1>2, SameInput
<1>7. \A q \in DOMAIN tasks' : Kept(q)' \in Task /\ tasks'[q] = Kept(q)'
  BY <1>2, <1>3, <1>4, <1>6 DEF SoFar, TasksSoFar
<1>8. TasksSoFar'
  BY <1>2, <1>4, <1>5, <1>6, <1>7 DEF TasksSoFar
<1> QED
  BY <1>2, <1>8, VerdictsStay, HopsSoFarStay DEF SoFar

LEMMA StartChainSoFar ==
  ASSUME IInv, SoFar, NEW p \in pending, StartChain(p)
  PROVE  SoFar'
<1>1. /\ UNCHANGED << input, phase, tasks, stubs, diagnostics >> /\ phase = "stubs"
      /\ chain' = [root |-> p, at |-> p, depth |-> 0] /\ pending' = pending \ {p}
  BY DEF StartChain
<1>2. TasksSoFar'
  BY <1>1, SameInput DEF SoFar, TasksSoFar
<1>3. HopsSoFar'
  <2>1. chain'.root = p /\ chain'.at = p /\ chain'.depth = 0
    BY <1>1
  <2>2. \A n \in 0..MaxRedirectDepth : ~(n < 0)
    BY ParseAssumption
  <2>3. Hops(p)[0] = p /\ Hops(p)' = Hops(p)
    BY <1>1, HopsFacts, SameInput
  <2> QED
    BY <2>1, <2>2, <2>3 DEF HopsSoFar
<1> QED
  BY <1>1, <1>2, <1>3, VerdictsStay DEF SoFar

\* Where an open chain has come to.
LEMMA OpenChainHops ==
  ASSUME IInv, SoFar, chain # NoChain
  PROVE  /\ IsStub(chain.root) /\ chain.root \in Paths
         /\ chain.depth \in 0..MaxRedirectDepth + 1
         /\ chain.at \in StubPaths <=> IsStub(chain.at)
         /\ chain.at \in StubPaths => tasks[chain.at].to = Kept(chain.at).to
         /\ chain.depth <= MaxRedirectDepth => chain.at = Hops(chain.root)[chain.depth]
         /\ \A n \in 0..MaxRedirectDepth :
              n < chain.depth => IsStub(Hops(chain.root)[n])
                                 /\ Kept(Hops(chain.root)[n]).to \notin Dotted
<1>1. phase = "stubs" /\ chain \in Chain /\ chain.root \in StubPaths /\ chain.root \in Paths
  BY OpenChain
<1>2. chain.depth \in 0..MaxRedirectDepth + 1
  BY <1>1 DEF Chain
<1>3. /\ \A p : p \in StubPaths <=> IsStub(p)
      /\ \A p \in StubPaths : tasks[p].to = Kept(p).to
  BY <1>1, StubsAre DEF IInv, SoFar
<1> QED
  BY <1>1, <1>2, <1>3 DEF SoFar, HopsSoFar

\* A chain is given up with the code that fits it.
LEMMA RejectSoFar ==
  ASSUME IInv, SoFar, chain # NoChain, NEW code \in RedirectCodes, RejectChain(code),
         code = "REDIRECT_INVALID_TARGET" => ~Valid(chain.root),
         code = "REDIRECT_CHAIN_TOO_DEEP" => Valid(chain.root) /\ Target(chain.root) = {}
  PROVE  SoFar'
<1>1. /\ UNCHANGED << input, phase, pending, tasks, stubs >> /\ chain' = NoChain
      /\ diagnostics' = diagnostics \cup {<< code, chain.root >>}
  BY DEF RejectChain
<1>2. IsStub(chain.root)
  BY OpenChainHops
<1>3. TasksSoFar' /\ HopsSoFar'
  BY <1>1, TasksSoFarStay DEF SoFar, HopsSoFar
<1>4. \A p \in DOMAIN stubs' : Resolvable(p)' /\ Target(p)' = {stubs'[p]}
  BY <1>1, SameInput DEF SoFar, Verdicts
<1>5. ASSUME NEW p \in Paths
      PROVE  /\ << "REDIRECT_INVALID_TARGET", p >> \in diagnostics' => (IsStub(p) /\ ~Valid(p))'
             /\ << "REDIRECT_CHAIN_TOO_DEEP", p >> \in diagnostics' =>
                  (IsStub(p) /\ Valid(p) /\ Target(p) = {})'
  <2>1. IsStub(p)' = IsStub(p) /\ Valid(p)' = Valid(p) /\ Target(p)' = Target(p)
    BY <1>1, SameInput
  <2>2. CASE p = chain.root
    BY <1>1, <1>2, <2>1, <2>2 DEF SoFar, Verdicts
  <2>3. CASE p # chain.root
    BY <1>1, <2>1, <2>3 DEF SoFar, Verdicts
  <2> QED
    BY <2>2, <2>3
<1> QED
  BY <1>3, <1>4, <1>5 DEF SoFar, Verdicts

LEMMA ChainTooDeepSoFar ==
  ASSUME IInv, SoFar, ChainTooDeep
  PROVE  SoFar'
<1>1. chain # NoChain /\ chain.depth > MaxRedirectDepth
  BY DEF ChainTooDeep, TooDeep
<1>2. MaxRedirectDepth \in Nat
  BY ParseAssumption
<1>3. \A n \in 0..MaxRedirectDepth : n < chain.depth
  BY <1>1, <1>2, OpenChainHops
<1>4. Valid(chain.root) /\ Target(chain.root) = {}
  BY <1>1, <1>3, OpenChainHops, ChainLost
<1> QED
  BY <1>1, <1>4, RejectSoFar DEF ChainTooDeep, RedirectCodes

LEMMA ChainInvalidSoFar ==
  ASSUME IInv, SoFar, ChainInvalid
  PROVE  SoFar'
<1>1. /\ chain # NoChain /\ ~(chain.depth > MaxRedirectDepth)
      /\ chain.at \in StubPaths /\ tasks[chain.at].to \in Dotted
  BY DEF ChainInvalid, TooDeep
<1>2. chain.depth \in 0..MaxRedirectDepth /\ chain.depth <= MaxRedirectDepth
  BY <1>1, ParseAssumption, OpenChainHops
<1>3. /\ IsStub(Hops(chain.root)[chain.depth])
      /\ Kept(Hops(chain.root)[chain.depth]).to \in Dotted
  BY <1>1, <1>2, OpenChainHops
<1>4. ~Valid(chain.root)
  BY <1>2, <1>3 DEF Valid
<1> QED
  BY <1>1, <1>4, RejectSoFar DEF ChainInvalid, RedirectCodes

LEMMA ChainEndsSoFar ==
  ASSUME IInv, SoFar, ChainEnds
  PROVE  SoFar'
<1>1. /\ chain # NoChain /\ ~(chain.depth > MaxRedirectDepth) /\ chain.at \notin StubPaths
      /\ stubs' = Put(stubs, chain.root, chain.at) /\ chain' = NoChain
      /\ UNCHANGED << input, phase, pending, tasks, diagnostics >>
  BY DEF ChainEnds, TooDeep
<1>2. chain.depth \in 0..MaxRedirectDepth /\ chain.depth <= MaxRedirectDepth
  BY <1>1, ParseAssumption, OpenChainHops
<1>3. Resolvable(chain.root) /\ Target(chain.root) = {chain.at}
  BY <1>1, <1>2, OpenChainHops, ChainFound
<1>4. /\ DOMAIN stubs' = DOMAIN stubs \cup {chain.root}
      /\ stubs'[chain.root] = chain.at
      /\ \A x \in DOMAIN stubs : x # chain.root => stubs'[x] = stubs[x]
  BY <1>1 DEF Put
<1>5. TasksSoFar' /\ HopsSoFar'
  BY <1>1, TasksSoFarStay DEF SoFar, HopsSoFar
<1>6. ASSUME NEW p \in DOMAIN stubs' PROVE Resolvable(p)' /\ Target(p)' = {stubs'[p]}
  <2>1. Resolvable(p)' = Resolvable(p) /\ Target(p)' = Target(p)
    BY <1>1, SameInput
  <2>2. CASE p = chain.root
    BY <1>3, <1>4, <2>1, <2>2
  <2>3. CASE p # chain.root
    BY <1>4, <2>1, <2>3 DEF SoFar, Verdicts
  <2> QED
    BY <2>2, <2>3
<1>7. \A p \in Paths :
        /\ << "REDIRECT_INVALID_TARGET", p >> \in diagnostics' => (IsStub(p) /\ ~Valid(p))'
        /\ << "REDIRECT_CHAIN_TOO_DEEP", p >> \in diagnostics' =>
             (IsStub(p) /\ Valid(p) /\ Target(p) = {})'
  BY <1>1, SameInput DEF SoFar, Verdicts
<1> QED
  BY <1>5, <1>6, <1>7 DEF SoFar, Verdicts

LEMMA FollowSoFar ==
  ASSUME IInv, SoFar, Follow
  PROVE  SoFar'
<1>a. PICK r : r = chain.root
  OBVIOUS
<1> DEFINE at == Hops(r)
           d == chain.depth
<1>1. /\ chain # NoChain /\ ~(d > MaxRedirectDepth)
      /\ chain.at \in StubPaths /\ tasks[chain.at].to \notin Dotted
      /\ chain' = [chain EXCEPT !.at = tasks[chain.at].to, !.depth = @ + 1]
      /\ UNCHANGED << input, phase, pending, tasks, stubs, diagnostics >>
  BY DEF Follow, TooDeep
<1>2. d \in 0..MaxRedirectDepth /\ d <= MaxRedirectDepth /\ MaxRedirectDepth \in Nat
  BY <1>1, ParseAssumption, OpenChainHops
<1>3. /\ chain'.root = r /\ chain'.depth = d + 1
      /\ chain'.at = tasks[chain.at].to
  <2>1. chain \in Chain
    BY <1>1, OpenChain
  <2> QED
    BY <1>1, <1>a, <2>1 DEF Chain
<1>4. chain.at = at[d] /\ IsStub(at[d]) /\ Kept(at[d]).to = tasks[chain.at].to
  BY <1>1, <1>2, <1>a, OpenChainHops
<1>5. d + 1 <= MaxRedirectDepth => at[d + 1] = tasks[chain.at].to
  <2> SUFFICES ASSUME d + 1 <= MaxRedirectDepth PROVE at[d + 1] = tasks[chain.at].to
    OBVIOUS
  <2>1. d + 1 \in 1..MaxRedirectDepth /\ (d + 1) - 1 = d
    BY <1>2
  <2> QED
    BY <1>4, <2>1, HopsFacts DEF Hop
<1>6. \A n \in 0..MaxRedirectDepth :
        n < d + 1 => IsStub(at[n]) /\ Kept(at[n]).to \notin Dotted
  <2> SUFFICES ASSUME NEW n \in 0..MaxRedirectDepth, n < d + 1
               PROVE  IsStub(at[n]) /\ Kept(at[n]).to \notin Dotted
    OBVIOUS
  <2>1. n < d \/ n = d
    BY <1>2
  <2> QED
    BY <1>1, <1>4, <1>a, <2>1, OpenChainHops
<1>7. \A q : Hops(q)' = Hops(q) /\ Kept(q)' = Kept(q) /\ IsStub(q)' = IsStub(q)
  BY <1>1, SameInput
<1>8. HopsSoFar'
  BY <1>1, <1>3, <1>5, <1>6, <1>7 DEF HopsSoFar
<1> QED
  BY <1>1, <1>8, TasksSoFarStay, VerdictsStay DEF SoFar

\* The step of a later loop settles one task and leaves the verdicts alone.
LEMMA LaterLoopSoFar ==
  ASSUME SoFar, phase \in {"dependencies", "statuses", "hierarchy"},
         UNCHANGED << input, phase, chain, stubs, diagnostics >>,
         NEW p \in pending, pending' = pending \ {p}, DOMAIN tasks' = DOMAIN tasks,
         \A q \in DOMAIN tasks : q # p => tasks'[q] = tasks[q],
         phase = "dependencies" => tasks'[p] = WithDeps(p),
         phase \in {"statuses", "hierarchy"} => tasks'[p] = Expected(p)
  PROVE  SoFar'
<1>1. KeptPaths' = KeptPaths /\ \A q : /\ Kept(q)' = Kept(q) /\ WithDeps(q)' = WithDeps(q)
                                       /\ Expected(q)' = Expected(q)
  BY SameInput
<1>2. TasksSoFar'
  <2>1. DOMAIN tasks' = KeptPaths' /\ pending' \subseteq KeptPaths'
    BY <1>1 DEF SoFar, TasksSoFar
  <2>2. ASSUME NEW q \in DOMAIN tasks
        PROVE  /\ Kept(q) \in Task
               /\ phase = "dependencies" =>
                    tasks'[q] = (IF q \in pending' THEN Kept(q) ELSE WithDeps(q))
               /\ phase = "statuses" =>
                    tasks'[q] = (IF q \in pending' THEN WithDeps(q) ELSE Expected(q))
               /\ phase = "hierarchy" => tasks'[q] = Expected(q)
    <3>1. CASE q = p
      BY <3>1 DEF SoFar, TasksSoFar
    <3>2. CASE q # p
      BY <3>2 DEF SoFar, TasksSoFar
    <3> QED
      BY <3>1, <3>2
  <2> QED
    BY <1>1, <2>1, <2>2 DEF TasksSoFar
<1> QED
  BY <1>2, VerdictsStay, HopsSoFarStay DEF SoFar

LEMMA ResolveDependenciesSoFar ==
  ASSUME IInv, SoFar, NEW p \in pending, ResolveDependencies(p)
  PROVE  SoFar'
<1> DEFINE resolved == [i \in DOMAIN tasks[p].deps |-> Through(tasks[p].deps[i])]
<1>1. /\ phase = "dependencies" /\ p \in DOMAIN tasks /\ pending' = pending \ {p}
      /\ UNCHANGED << input, phase, chain, stubs, diagnostics >>
      /\ tasks' = SetField(p, "deps", resolved)
  BY DEF ResolveDependencies, IInv, LoopKeys
<1>2. tasks[p] = Kept(p)
  BY <1>1 DEF SoFar, TasksSoFar
<1>3. resolved = [i \in DOMAIN Kept(p).deps |-> Final(Kept(p).deps[i])]
  BY <1>1, <1>2, StubsResolved
<1> HIDE DEF resolved
<1>4. tasks \in [DOMAIN tasks -> Task]
  BY DEF IInv, TypeOK
<1>5. DOMAIN tasks' = DOMAIN tasks /\ \A q \in DOMAIN tasks : q # p => tasks'[q] = tasks[q]
  BY <1>1, <1>4 DEF SetField
<1>6. tasks'[p] = WithDeps(p)
  <2>1. CASE tasks[p].stub
    BY <1>1, <1>2, <2>1 DEF SetField, WithDeps
  <2>2. CASE ~tasks[p].stub
    <3>1. tasks'[p] = [Kept(p) EXCEPT !["deps"] = resolved]
      BY <1>1, <1>2, <1>4, <2>2 DEF SetField
    <3> QED
      BY <1>2, <1>3, <2>2, <3>1 DEF WithDeps
  <2> QED
    BY <2>1, <2>2
<1> QED
  BY <1>1, <1>5, <1>6, LaterLoopSoFar

LEMMA ResolveStatusSoFar ==
  ASSUME IInv, SoFar, NEW p \in pending, ResolveStatus(p)
  PROVE  SoFar'
<1>1. /\ phase = "statuses" /\ p \in DOMAIN tasks /\ pending' = pending \ {p}
      /\ UNCHANGED << input, phase, chain, stubs, diagnostics >>
      /\ tasks' = IF tasks[p].status \in BaseStatuses
                  THEN SetField(p, "category", tasks[p].status) ELSE tasks
  BY DEF ResolveStatus, IInv, LoopKeys
<1>2. tasks[p] = WithDeps(p) /\ Kept(p) \in Task
  BY <1>1 DEF SoFar, TasksSoFar
<1>3. tasks \in [DOMAIN tasks -> Task]
  BY DEF IInv, TypeOK
<1>4. DOMAIN tasks' = DOMAIN tasks /\ \A q \in DOMAIN tasks : q # p => tasks'[q] = tasks[q]
  BY <1>1, <1>3 DEF SetField
<1>5. tasks'[p] = Expected(p)
  <2>1. tasks[p].stub = Kept(p).stub /\ tasks[p].status = Kept(p).status
    BY <1>2, ShapeKept
  <2>2. CASE tasks[p].stub
    BY <1>1, <1>2, <2>1, <2>2, ShapeKept DEF SetField
  <2>3. CASE ~tasks[p].stub /\ tasks[p].status \notin BaseStatuses
    BY <1>1, <1>2, <2>1, <2>3, ShapeKept
  <2>4. CASE ~tasks[p].stub /\ tasks[p].status \in BaseStatuses
    <3>1. tasks'[p] = [tasks[p] EXCEPT !["category"] = tasks[p].status]
      BY <1>1, <1>3, <2>4 DEF SetField
    <3> QED
      BY <1>2, <2>1, <2>4, <3>1, ShapeKept
  <2> QED
    BY <2>2, <2>3, <2>4
<1> QED
  BY <1>1, <1>4, <1>5, LaterLoopSoFar

LEMMA ResolveHierarchySoFar ==
  ASSUME IInv, SoFar, NEW p \in pending, ResolveHierarchy(p)
  PROVE  SoFar'
<1>1. /\ phase = "hierarchy" /\ p \in DOMAIN tasks /\ pending' = pending \ {p}
      /\ UNCHANGED << input, phase, chain, tasks, stubs, diagnostics >>
  BY ResolveHierarchyIdle DEF ResolveHierarchy
<1>2. tasks[p] = Expected(p)
  BY <1>1 DEF SoFar, TasksSoFar
<1> QED
  BY <1>1, <1>2, LaterLoopSoFar

LEMMA CheckPathWarningsSoFar ==
  ASSUME IInv, SoFar, CheckPathWarnings
  PROVE  SoFar'
<1>1. /\ UNCHANGED << input, pending, chain, tasks, stubs >>
      /\ phase = "warnings" /\ phase' = "done"
      /\ \A code \in RedirectCodes, p \in Paths :
           << code, p >> \in diagnostics' => << code, p >> \in diagnostics
  BY DEF CheckPathWarnings, RedirectCodes
<1>2. TasksSoFar'
  BY <1>1, SameInput DEF SoFar, TasksSoFar
<1> QED
  BY <1>1, <1>2, VerdictsStay, HopsSoFarStay DEF SoFar

\* What a loop has done for all of its keys is what the next one begins with.
LEMMA NextPhaseSoFar ==
  ASSUME IInv, SoFar, NextPhase
  PROVE  SoFar'
<1>1. /\ pending = {} /\ chain = NoChain
      /\ UNCHANGED << input, chain, tasks, stubs, diagnostics >>
  BY DEF NextPhase, After
<1>2. \/ phase = "conflicts" /\ phase' = "stubs" /\ pending' = StubPaths
      \/ phase = "stubs" /\ phase' = "dependencies" /\ pending' = DOMAIN tasks
      \/ phase = "dependencies" /\ phase' = "statuses" /\ pending' = DOMAIN tasks
      \/ phase = "statuses" /\ phase' = "hierarchy" /\ pending' = DOMAIN tasks
      \/ phase = "hierarchy" /\ phase' = "warnings" /\ pending' = {}
  BY DEF NextPhase, After
<1>3. DOMAIN tasks = KeptPaths /\ StubPaths \subseteq DOMAIN tasks
  BY <1>1, <1>2 DEF SoFar, TasksSoFar, StubPaths
<1>4. \A q : /\ Kept(q)' = Kept(q) /\ WithDeps(q)' = WithDeps(q)
             /\ Expected(q)' = Expected(q)
  BY <1>1, SameInput
<1>5. KeptPaths' = KeptPaths
  BY <1>1, SameInput
<1>6. TasksSoFar'
  BY <1>1, <1>2, <1>3, <1>4, <1>5 DEF SoFar, TasksSoFar
<1> QED
  BY <1>1, <1>6, VerdictsStay, HopsSoFarStay DEF SoFar

LEMMA NextSoFar == IInv /\ SoFar /\ [Next]_vars => SoFar'
<1> SUFFICES ASSUME IInv, SoFar, [Next]_vars PROVE SoFar'
  OBVIOUS
<1>1. CASE ParseEntry \/ ParseFails \/ CheckConfig
  BY <1>1, ReadingSoFar
<1>2. CASE ChainTooDeep \/ ChainInvalid \/ ChainEnds \/ Follow
  BY <1>2, ChainTooDeepSoFar, ChainInvalidSoFar, ChainEndsSoFar, FollowSoFar
<1>3. CASE CheckPathWarnings \/ NextPhase
  BY <1>3, CheckPathWarningsSoFar, NextPhaseSoFar
<1>4. ASSUME NEW p \in pending,
             KeepTask(p) \/ StartChain(p) \/ ResolveDependencies(p)
               \/ ResolveStatus(p) \/ ResolveHierarchy(p)
      PROVE  SoFar'
  BY <1>4, KeepTaskSoFar, StartChainSoFar, ResolveDependenciesSoFar, ResolveStatusSoFar,
     ResolveHierarchySoFar
<1>5. CASE UNCHANGED vars
  BY <1>5, TasksSoFarStay, HopsSoFarStay, VerdictsStay DEF vars, SoFar
<1> QED
  BY <1>1, <1>2, <1>3, <1>4, <1>5 DEF Next

\* At every moment the loops have done, for the keys they have visited, what
\* the definition says (parser.go:29-53, resolve.go:13-186).
THEOREM LoopsFollowDefinition == Spec => []SoFar
  BY InitIInv, NextIInv, InitSoFar, NextSoFar, PTL DEF Spec

\* When they are through, the definition is the result.
LEMMA ResultIsDefined ==
  ASSUME IInv, SoFar
  PROVE  OrderIndependent
<1> SUFFICES ASSUME phase = "done"
             PROVE  /\ tasks = [p \in KeptPaths |-> Expected(p)]
                    /\ stubs = [p \in {q \in KeptPaths : Resolvable(q)} |->
                                  CHOOSE t \in Target(p) : TRUE]
                    /\ \A p \in KeptPaths :
                         /\ << "REDIRECT_INVALID_TARGET", p >> \in diagnostics
                              <=> IsStub(p) /\ ~Valid(p)
                         /\ << "REDIRECT_CHAIN_TOO_DEEP", p >> \in diagnostics
                              <=> IsStub(p) /\ Valid(p) /\ Target(p) = {}
  BY DEF OrderIndependent
<1>1. tasks = [p \in KeptPaths |-> Expected(p)]
  <2>1. tasks \in [DOMAIN tasks -> Task] /\ DOMAIN tasks = KeptPaths
    BY DEF IInv, TypeOK, SoFar, TasksSoFar
  <2>2. \A p \in DOMAIN tasks : tasks[p] = Expected(p)
    BY DEF SoFar, TasksSoFar
  <2> QED
    BY <2>1, <2>2
<1>2. \A p : p \in DOMAIN stubs <=> Resolvable(p)
  BY StubsResolved
<1>3. stubs = [p \in {q \in KeptPaths : Resolvable(q)} |-> CHOOSE t \in Target(p) : TRUE]
  <2>1. stubs \in [DOMAIN stubs -> Paths]
    BY DEF IInv, TypeOK
  <2>2. DOMAIN stubs = {q \in KeptPaths : Resolvable(q)}
    BY <1>2 DEF Resolvable, IsStub
  <2>3. \A p \in DOMAIN stubs : stubs[p] = CHOOSE t \in Target(p) : TRUE
    BY DEF SoFar, Verdicts
  <2> QED
    BY <2>1, <2>2, <2>3
<1>4. ASSUME NEW p \in KeptPaths
      PROVE  /\ << "REDIRECT_INVALID_TARGET", p >> \in diagnostics
                  <=> IsStub(p) /\ ~Valid(p)
             /\ << "REDIRECT_CHAIN_TOO_DEEP", p >> \in diagnostics
                  <=> IsStub(p) /\ Valid(p) /\ Target(p) = {}
  <2>1. /\ << "REDIRECT_INVALID_TARGET", p >> \in diagnostics => IsStub(p) /\ ~Valid(p)
        /\ << "REDIRECT_CHAIN_TOO_DEEP", p >> \in diagnostics =>
             IsStub(p) /\ Valid(p) /\ Target(p) = {}
    BY DEF SoFar, Verdicts, KeptPaths
  <2>2. IsStub(p) /\ ~Resolvable(p) =>
          \E code \in RedirectCodes : << code, p >> \in diagnostics
    BY <1>2, StubsAre DEF IInv, SoFar, StubsSettled
  <2>3. IsStub(p) /\ ~Resolvable(p) =>
          \/ << "REDIRECT_INVALID_TARGET", p >> \in diagnostics
          \/ << "REDIRECT_CHAIN_TOO_DEEP", p >> \in diagnostics
    BY <2>2 DEF RedirectCodes
  <2> QED
    BY <2>1, <2>3 DEF Resolvable
<1> QED
  BY <1>1, <1>3, <1>4

\* Whatever order Go visits its maps in, Parse returns the tasks, the targets
\* and the diagnostics of redirects that the definition gives the files of the
\* scan (parser.go:29-53, 121-145, resolve.go:13-186).
THEOREM ResultOrderIndependent == Spec => []OrderIndependent
<1>1. IInv /\ SoFar => OrderIndependent
  BY ResultIsDefined
<1> QED
  BY <1>1, InductiveInvariant, LoopsFollowDefinition, PTL

-----------------------------------------------------------------------------
(***************************************************************************)
(* SLICES OF A TEXT                                                        *)
(***************************************************************************)

LEMMA SliceFacts ==
  ASSUME NEW R, NEW t \in Seq(R), NEW a \in 1 .. Len(t) + 1, NEW b \in a - 1 .. Len(t)
  PROVE  /\ SubSeq(t, a, b) \in Seq(R) /\ Len(SubSeq(t, a, b)) = b - a + 1
         /\ \A i \in 1 .. b - a + 1 : SubSeq(t, a, b)[i] = t[a + i - 1]
<1>1. Len(t) \in Nat /\ a \in Int /\ b \in Int
  OBVIOUS
<1>2. \A i \in a..b : t[i] \in R
  <2> TAKE i \in a..b
  <2>1. i \in 1..Len(t)
    BY <1>1
  <2> QED
    BY <2>1, ElementOfSeq
<1>3. Len(SubSeq(t, a, b)) = IF a <= b THEN b - a + 1 ELSE 0
  BY <1>1, <1>2, SubSeqProperties
<1>4. Len(SubSeq(t, a, b)) = b - a + 1
  BY <1>1, <1>3
<1> QED
  BY <1>1, <1>2, <1>4, SubSeqProperties

LEMMA SliceOfSlice ==
  ASSUME NEW R, NEW t \in Seq(R), NEW a \in 1 .. Len(t) + 1, NEW b \in a - 1 .. Len(t),
         NEW c \in 1 .. b - a + 2, NEW d \in c - 1 .. b - a + 1
  PROVE  SubSeq(SubSeq(t, a, b), c, d) = SubSeq(t, a + c - 1, a + d - 1)
<1>1. Len(t) \in Nat /\ a \in Nat /\ b \in Int /\ c \in Nat /\ d \in Int
  OBVIOUS
<1> DEFINE s == SubSeq(t, a, b)
           u == SubSeq(s, c, d)
           v == SubSeq(t, a + c - 1, a + d - 1)
<1>2. s \in Seq(R) /\ Len(s) = b - a + 1 /\ \A i \in 1 .. b - a + 1 : s[i] = t[a + i - 1]
  BY SliceFacts
<1>3. u \in Seq(R) /\ Len(u) = d - c + 1 /\ \A i \in 1 .. d - c + 1 : u[i] = s[c + i - 1]
  <2>1. c \in 1 .. Len(s) + 1 /\ d \in c - 1 .. Len(s)
    BY <1>1, <1>2
  <2> HIDE DEF s
  <2> QED
    BY <1>2, <2>1, SliceFacts
<1>4. v \in Seq(R) /\ Len(v) = d - c + 1 /\ \A i \in 1 .. d - c + 1 : v[i] = t[(a + c - 1) + i - 1]
  <2>1. PICK x, y : x = a + c - 1 /\ y = a + d - 1
    OBVIOUS
  <2>2. x \in 1 .. Len(t) + 1 /\ y \in x - 1 .. Len(t) /\ y - x + 1 = d - c + 1
    BY <1>1, <2>1
  <2>3. /\ SubSeq(t, x, y) \in Seq(R) /\ Len(SubSeq(t, x, y)) = y - x + 1
        /\ \A i \in 1 .. y - x + 1 : SubSeq(t, x, y)[i] = t[x + i - 1]
    BY <2>2, SliceFacts
  <2> QED
    BY <2>1, <2>2, <2>3
<1> HIDE DEF s, u, v
<1>5. ASSUME NEW i \in 1 .. d - c + 1 PROVE u[i] = v[i]
  <2>1. c + i - 1 \in 1 .. b - a + 1
    BY <1>1
  <2>2. s[c + i - 1] = t[a + (c + i - 1) - 1]
    BY <1>2, <2>1
  <2>3. a + (c + i - 1) - 1 = (a + c - 1) + i - 1
    BY <1>1
  <2> QED
    BY <1>3, <1>4, <2>2, <2>3
<1>6. u = v
  BY <1>3, <1>4, <1>5, SeqEqual
<1> QED
  BY <1>6 DEF u, v, s

\* What is trimmed off at an end are characters of the class, and no more is left
\* of them.
LEMMA TrimRightFacts ==
  ASSUME NEW R, NEW t \in Seq(R), NEW chars
  PROVE  \E m \in 0..Len(t) :
           /\ TrimRight(t, chars) = SubSeq(t, 1, m)
           /\ m > 0 => t[m] \notin chars
           /\ \A j \in m + 1 .. Len(t) : t[j] \in chars
<1> DEFINE kept == {i \in DOMAIN t : t[i] \notin chars}
<1>1. Len(t) \in Nat /\ DOMAIN t = 1..Len(t)
  OBVIOUS
<1>2. TrimRight(t, chars) = IF kept = {} THEN << >> ELSE SubSeq(t, 1, Max(kept))
  BY DEF TrimRight
<1>3. CASE kept = {}
  <2>1. SubSeq(t, 1, 0) = << >>
    BY SubSeqEmpty
  <2>2. 0 \in 0..Len(t) /\ \A j \in 0 + 1 .. Len(t) : t[j] \in chars
    BY <1>1, <1>3
  <2> QED
    BY <1>2, <1>3, <2>1, <2>2
<1>4. CASE kept # {}
  <2>1. kept \subseteq 1..Len(t)
    BY <1>1
  <2>2. Max(kept) \in kept /\ \A n \in kept : n <= Max(kept)
    <3> HIDE DEF kept
    <3> QED
      BY <1>1, <1>4, <2>1, MaxFacts
  <2>3. PICK m : m = Max(kept)
    OBVIOUS
  <2>4. m \in 1..Len(t) /\ t[m] \notin chars
    BY <1>1, <2>2, <2>3
  <2>5. ASSUME NEW j \in m + 1 .. Len(t) PROVE t[j] \in chars
    <3>1. j \in 1..Len(t) /\ ~(j <= m)
      BY <1>1, <2>4
    <3> QED
      BY <1>1, <2>2, <2>3, <3>1
  <2>6. m \in 0..Len(t)
    BY <1>1, <2>4
  <2> QED
    BY <1>2, <1>4, <2>3, <2>4, <2>5, <2>6
<1> QED
  BY <1>3, <1>4

LEMMA TrimLeftFacts ==
  ASSUME NEW R, NEW t \in Seq(R), NEW chars
  PROVE  \E m \in 1 .. Len(t) + 1 :
           /\ TrimLeft(t, chars) = SubSeq(t, m, Len(t))
           /\ m <= Len(t) => t[m] \notin chars
           /\ \A j \in 1 .. m - 1 : t[j] \in chars
<1> DEFINE kept == {i \in DOMAIN t : t[i] \notin chars}
<1>1. Len(t) \in Nat /\ DOMAIN t = 1..Len(t)
  OBVIOUS
<1>2. TrimLeft(t, chars) = IF kept = {} THEN << >> ELSE SubSeq(t, Min(kept), Len(t))
  BY DEF TrimLeft
<1>3. CASE kept = {}
  <2>1. SubSeq(t, Len(t) + 1, Len(t)) = << >>
    BY <1>1, SubSeqEmpty
  <2>2. PICK m : m = Len(t) + 1
    OBVIOUS
  <2>3. m \in 1 .. Len(t) + 1 /\ ~(m <= Len(t)) /\ \A j \in 1 .. m - 1 : j \in DOMAIN t
    BY <1>1, <2>2
  <2>4. \A j \in 1 .. m - 1 : t[j] \in chars
    BY <1>3, <2>3
  <2> QED
    BY <1>2, <1>3, <2>1, <2>2, <2>3, <2>4
<1>4. CASE kept # {}
  <2>1. kept \subseteq Nat
    BY <1>1
  <2>2. Min(kept) \in kept /\ \A n \in kept : Min(kept) <= n
    <3> HIDE DEF kept
    <3> QED
      BY <1>4, <2>1, MinFacts
  <2>3. PICK m : m = Min(kept)
    OBVIOUS
  <2>4. m \in 1..Len(t) /\ t[m] \notin chars
    BY <1>1, <2>2, <2>3
  <2>5. ASSUME NEW j \in 1 .. m - 1 PROVE t[j] \in chars
    <3>1. j \in 1..Len(t) /\ ~(m <= j)
      BY <1>1, <2>4
    <3> QED
      BY <1>1, <2>2, <2>3, <3>1
  <2>6. m \in 1 .. Len(t) + 1
    BY <1>1, <2>4
  <2> QED
    BY <1>2, <1>4, <2>3, <2>4, <2>5, <2>6
<1> QED
  BY <1>3, <1>4

-----------------------------------------------------------------------------
(***************************************************************************)
(* LINES                                                                   *)
(***************************************************************************)

LEMMA SliceStep ==
  ASSUME NEW R, NEW t \in Seq(R), NEW i \in 1..Len(t), NEW e \in i..Len(t)
  PROVE  /\ SubSeq(t, i, e) \in Seq(R) /\ Len(SubSeq(t, i, e)) = e - i + 1
         /\ \A j \in i..e : j - i + 1 \in 1 .. e - i + 1 /\ SubSeq(t, i, e)[j - i + 1] = t[j]
<1>1. Len(t) \in Nat /\ i \in 1 .. Len(t) + 1 /\ e \in i - 1 .. Len(t)
  OBVIOUS
<1>2. /\ SubSeq(t, i, e) \in Seq(R) /\ Len(SubSeq(t, i, e)) = e - i + 1
      /\ \A k \in 1 .. e - i + 1 : SubSeq(t, i, e)[k] = t[i + k - 1]
  BY <1>1, SliceFacts
<1>3. ASSUME NEW j \in i..e PROVE j - i + 1 \in 1 .. e - i + 1 /\ SubSeq(t, i, e)[j - i + 1] = t[j]
  <2>1. j - i + 1 \in 1 .. e - i + 1 /\ i + (j - i + 1) - 1 = j
    BY <1>1
  <2> QED
    BY <1>2, <2>1
<1> QED
  BY <1>2, <1>3

LEMMA FenceFacts == Len(Fence) = 1 /\ Fence[1] = "---"
  BY DEF Fence

\* A line is a fence if nothing but characters of the class are behind its first.
LEMMA FenceSlice ==
  ASSUME NEW R, NEW t \in Seq(R), NEW i \in 1..Len(t), NEW e \in i..Len(t),
         NEW chars, "---" \notin chars
  PROVE  TrimRight(SubSeq(t, i, e), chars) = Fence
           <=> t[i] = "---" /\ \A j \in i + 1 .. e : t[j] \in chars
<1> DEFINE s == SubSeq(t, i, e)
<1>1. Len(t) \in Nat /\ i \in Nat /\ e \in Nat /\ i <= e
  OBVIOUS
<1>2. /\ s \in Seq(R) /\ Len(s) = e - i + 1 /\ Len(s) \in Nat
      /\ \A j \in i..e : j - i + 1 \in 1..Len(s) /\ s[j - i + 1] = t[j]
  BY <1>1, SliceStep
<1> HIDE DEF s
<1>3. s[1] = t[i]
  <2>1. i \in i..e /\ i - i + 1 = 1
    BY <1>1
  <2> QED
    BY <1>2, <2>1
<1>4. PICK m \in 0..Len(s) : /\ TrimRight(s, chars) = SubSeq(s, 1, m)
                             /\ m > 0 => s[m] \notin chars
                             /\ \A j \in m + 1 .. Len(s) : s[j] \in chars
  BY <1>2, TrimRightFacts
<1>5. SubSeq(s, 1, m) \in Seq(R) /\ Len(SubSeq(s, 1, m)) = m /\ \A j \in 1..m : SubSeq(s, 1, m)[j] = s[j]
  <2>1. 1 \in 1 .. Len(s) + 1 /\ m \in 1 - 1 .. Len(s)
    BY <1>2
  <2>2. m - 1 + 1 = m /\ \A j \in Int : 1 + j - 1 = j
    BY <1>2
  <2> QED
    BY <1>2, <2>1, <2>2, SliceFacts
<1>6. ASSUME SubSeq(s, 1, m) = Fence PROVE t[i] = "---" /\ \A j \in i + 1 .. e : t[j] \in chars
  <2>1. m = 1 /\ SubSeq(s, 1, m)[1] = "---"
    BY <1>5, <1>6, FenceFacts
  <2>2. s[1] = "---"
    BY <1>5, <2>1
  <2>3. ASSUME NEW j \in i + 1 .. e PROVE t[j] \in chars
    <3>1. j \in i..e /\ j - i + 1 >= 2
      BY <1>1
    <3>2. j - i + 1 \in m + 1 .. Len(s)
      BY <1>1, <1>2, <2>1, <3>1
    <3> QED
      BY <1>2, <1>4, <3>1, <3>2
  <2> QED
    BY <1>3, <2>2, <2>3
<1>7. ASSUME t[i] = "---", \A j \in i + 1 .. e : t[j] \in chars PROVE SubSeq(s, 1, m) = Fence
  <2>1. m # 0
    <3> SUFFICES ASSUME m = 0 PROVE FALSE
      OBVIOUS
    <3>1. 1 \in m + 1 .. Len(s)
      BY <1>1, <1>2
    <3> QED
      BY <1>3, <1>4, <1>7, <3>1
  <2>2. m = 1
    <3> SUFFICES ASSUME m > 1 PROVE FALSE
      BY <1>2, <2>1
    <3>1. i + m - 1 \in i + 1 .. e /\ i + m - 1 \in i..e /\ (i + m - 1) - i + 1 = m
      BY <1>1, <1>2
    <3>2. s[m] = t[i + m - 1]
      BY <1>2, <3>1
    <3> QED
      BY <1>4, <1>7, <3>1, <3>2
  <2>3. SubSeq(s, 1, 1) = << s[1] >>
    <3>1. << s[1] >> \in Seq(R) /\ Len(<< s[1] >>) = 1 /\ << s[1] >>[1] = s[1]
      <4>1. s[1] \in R
        BY <1>2, <2>2, ElementOfSeq
      <4> QED
        BY <4>1
    <3>2. \A j \in 1..1 : j = 1
      OBVIOUS
    <3>3. \A j \in 1..1 : SubSeq(s, 1, 1)[j] = << s[1] >>[j]
      BY <1>5, <2>2, <3>1, <3>2
    <3>4. SubSeq(s, 1, 1) \in Seq(R) /\ Len(SubSeq(s, 1, 1)) = 1
      BY <1>5, <2>2
    <3> QED
      BY <3>1, <3>3, <3>4, SeqEqual
  <2> QED
    BY <1>3, <1>7, <2>2, <2>3 DEF Fence
<1> QED
  BY <1>4, <1>6, <1>7 DEF s

LEMMA EndOfLineFacts ==
  ASSUME NEW R, NEW t \in Seq(R), NEW i \in 1..Len(t)
  PROVE  /\ EndOfLine(t, i) \in i..Len(t)
         /\ t[EndOfLine(t, i)] = "\n" \/ EndOfLine(t, i) = Len(t)
         /\ \A j \in i .. EndOfLine(t, i) - 1 : t[j] # "\n"
<1> DEFINE ends == {j \in i .. Len(t) : t[j] = "\n"} \cup {Len(t)}
<1>1. Len(t) \in Nat /\ i \in Nat /\ ends \subseteq Nat /\ ends # {} /\ \A j \in ends : j \in i..Len(t)
  OBVIOUS
<1>2. EndOfLine(t, i) = Min(ends)
  BY DEF EndOfLine
<1>3. Min(ends) \in ends /\ \A j \in ends : Min(ends) <= j
  <2> HIDE DEF ends
  <2> QED
    BY <1>1, MinFacts
<1>4. PICK e : e = EndOfLine(t, i)
  OBVIOUS
<1>5. e \in i..Len(t) /\ (t[e] = "\n" \/ e = Len(t))
  BY <1>1, <1>2, <1>3, <1>4
<1>6. ASSUME NEW j \in i .. e - 1 PROVE t[j] # "\n"
  <2>1. j \in i..Len(t) /\ ~(e <= j)
    BY <1>1, <1>5
  <2> QED
    BY <1>2, <1>3, <1>4, <2>1
<1> QED
  BY <1>4, <1>5, <1>6

LEMMA EndOfLineIs ==
  ASSUME NEW R, NEW t \in Seq(R), NEW i \in 1..Len(t), NEW e \in i..Len(t),
         t[e] = "\n" \/ e = Len(t), \A j \in i .. e - 1 : t[j] # "\n"
  PROVE  EndOfLine(t, i) = e
<1>1. PICK f : f = EndOfLine(t, i)
  OBVIOUS
<1>2. f \in i..Len(t) /\ (t[f] = "\n" \/ f = Len(t)) /\ \A j \in i .. f - 1 : t[j] # "\n"
  BY <1>1, EndOfLineFacts
<1>3. Len(t) \in Nat /\ i \in Nat /\ e \in Nat /\ f \in Nat
  BY <1>2
<1>4. ~(f < e)
  <2> SUFFICES ASSUME f < e PROVE FALSE
    OBVIOUS
  <2>1. f \in i .. e - 1 /\ f # Len(t)
    BY <1>2, <1>3
  <2> QED
    BY <1>2, <2>1
<1>5. ~(e < f)
  <2> SUFFICES ASSUME e < f PROVE FALSE
    OBVIOUS
  <2>1. e \in i .. f - 1 /\ e # Len(t)
    BY <1>2, <1>3
  <2> QED
    BY <1>2, <2>1
<1> QED
  BY <1>1, <1>3, <1>4, <1>5

\* The lines of the rest of a text are lines of the text.
LEMMA RestOfText ==
  ASSUME NEW R, NEW t \in Seq(R), NEW d \in 0..Len(t)
  PROVE  /\ SubSeq(t, d + 1, Len(t)) \in Seq(R) /\ Len(SubSeq(t, d + 1, Len(t))) = Len(t) - d
         /\ \A i \in 1 .. Len(t) - d : SubSeq(t, d + 1, Len(t))[i] = t[d + i]
<1>1. PICK a : a = d + 1
  OBVIOUS
<1>2. Len(t) \in Nat /\ a \in 1 .. Len(t) + 1 /\ Len(t) \in a - 1 .. Len(t) /\ Len(t) - a + 1 = Len(t) - d
  BY <1>1
<1>3. /\ SubSeq(t, a, Len(t)) \in Seq(R) /\ Len(SubSeq(t, a, Len(t))) = Len(t) - a + 1
      /\ \A i \in 1 .. Len(t) - a + 1 : SubSeq(t, a, Len(t))[i] = t[a + i - 1]
  BY <1>2, SliceFacts
<1>4. \A i \in 1 .. Len(t) - d : a + i - 1 = d + i
  BY <1>1
<1> QED
  BY <1>1, <1>2, <1>3, <1>4

LEMMA LineShift ==
  ASSUME NEW R, NEW t \in Seq(R), NEW d \in 0..Len(t), NEW i \in 1 .. Len(t) - d
  PROVE  /\ EndOfLine(t, d + i) = d + EndOfLine(SubSeq(t, d + 1, Len(t)), i)
         /\ LineAt(t, d + i) = LineAt(SubSeq(t, d + 1, Len(t)), i)
<1>0. PICK u : u = SubSeq(t, d + 1, Len(t))
  OBVIOUS
<1>1. u \in Seq(R) /\ Len(u) = Len(t) - d /\ \A j \in 1..Len(u) : u[j] = t[d + j]
  BY <1>0, RestOfText
<1>2. i \in 1..Len(u) /\ Len(t) \in Nat /\ d \in Nat /\ Len(u) \in Nat /\ i \in Nat
  BY <1>1
<1>3. PICK e : e = EndOfLine(u, i)
  OBVIOUS
<1>4. e \in i..Len(u) /\ (u[e] = "\n" \/ e = Len(u)) /\ \A j \in i .. e - 1 : u[j] # "\n"
  BY <1>1, <1>2, <1>3, EndOfLineFacts
<1>5. EndOfLine(t, d + i) = d + e
  <2>1. PICK a, b : a = d + i /\ b = d + e
    OBVIOUS
  <2>2. a \in 1..Len(t) /\ b \in a..Len(t) /\ e \in 1..Len(u)
    BY <1>1, <1>2, <1>4, <2>1
  <2>3. t[b] = "\n" \/ b = Len(t)
    <3>1. u[e] = t[b] /\ (e = Len(u) => b = Len(t))
      BY <1>1, <1>2, <2>1, <2>2
    <3> QED
      BY <1>4, <3>1
  <2>4. ASSUME NEW j \in a .. b - 1 PROVE t[j] # "\n"
    <3>1. j - d \in i .. e - 1 /\ j - d \in 1..Len(u) /\ d + (j - d) = j
      BY <1>1, <1>2, <1>4, <2>1
    <3> QED
      BY <1>1, <1>4, <3>1
  <2>5. EndOfLine(t, a) = b
    BY <2>2, <2>3, <2>4, EndOfLineIs
  <2> QED
    BY <2>1, <2>5
<1>6. SubSeq(u, i, e) = SubSeq(t, d + i, d + e)
  <2>1. PICK a : a = d + 1
    OBVIOUS
  <2>2. a \in 1 .. Len(t) + 1 /\ Len(t) \in a - 1 .. Len(t) /\ i \in 1 .. Len(t) - a + 2
        /\ e \in i - 1 .. Len(t) - a + 1 /\ a + i - 1 = d + i /\ a + e - 1 = d + e
    BY <1>1, <1>2, <1>4, <2>1
  <2>3. SubSeq(SubSeq(t, a, Len(t)), i, e) = SubSeq(t, a + i - 1, a + e - 1)
    BY <2>2, SliceOfSlice
  <2> QED
    BY <1>0, <2>1, <2>2, <2>3
<1> QED
  BY <1>0, <1>3, <1>5, <1>6 DEF LineAt

LEMMA TrimOfNothing ==
  ASSUME NEW chars
  PROVE  TrimRight(<< >>, chars) = << >>
  BY DEF TrimRight

\* The test of findClosingFence is that for a fence.
LEMMA ClosingIsFence ==
  ASSUME NEW R, NEW t \in Seq(R), NEW i \in 1..Len(t)
  PROVE  TrimRight(TrimRight(LineAt(t, i), {"\n"}), Blank \cup {"\r"}) = Fence <=> IsFence(LineAt(t, i))
<1>1. PICK e : e = EndOfLine(t, i)
  OBVIOUS
<1>2. e \in i..Len(t) /\ (t[e] = "\n" \/ e = Len(t)) /\ \A j \in i .. e - 1 : t[j] # "\n"
  BY <1>1, EndOfLineFacts
<1>3. Len(t) \in Nat /\ i \in Nat /\ e \in Nat /\ i <= e
  BY <1>2
<1>4. PICK s : s = LineAt(t, i) /\ s = SubSeq(t, i, e)
  BY <1>1 DEF LineAt
<1>5. /\ s \in Seq(R) /\ Len(s) = e - i + 1 /\ Len(s) \in Nat
      /\ \A j \in i..e : j - i + 1 \in 1..Len(s) /\ s[j - i + 1] = t[j]
  BY <1>2, <1>3, <1>4, SliceStep
<1>6. PICK m \in 0..Len(s) : /\ TrimRight(s, {"\n"}) = SubSeq(s, 1, m)
                             /\ m > 0 => s[m] # "\n"
                             /\ \A j \in m + 1 .. Len(s) : s[j] = "\n"
  <2>1. \E m \in 0..Len(s) : /\ TrimRight(s, {"\n"}) = SubSeq(s, 1, m)
                             /\ m > 0 => s[m] \notin {"\n"}
                             /\ \A j \in m + 1 .. Len(s) : s[j] \in {"\n"}
    BY <1>5, TrimRightFacts
  <2> QED
    BY <2>1
<1>7. "---" \notin White /\ "---" \notin Blank \cup {"\r"}
  BY DEF White, Blank
<1>8. IsFence(s) <=> t[i] = "---" /\ \A j \in i + 1 .. e : t[j] \in White
  BY <1>2, <1>4, <1>7, FenceSlice DEF IsFence
<1>9. CASE m = 0
  <2>1. TrimRight(s, {"\n"}) = << >>
    BY <1>6, <1>9, SubSeqEmpty
  <2>2. TrimRight(<< >>, Blank \cup {"\r"}) # Fence
    <3>1. << >> # Fence
      BY DEF Fence
    <3> QED
      BY <3>1, TrimOfNothing
  <2>3. t[i] = "\n"
    <3>1. i \in i..e /\ i - i + 1 = 1 /\ 1 \in m + 1 .. Len(s)
      BY <1>3, <1>5, <1>9
    <3> QED
      BY <1>5, <1>6, <3>1
  <2> QED
    BY <1>4, <1>8, <2>1, <2>2, <2>3
<1>10. CASE m # 0
  <2>1. PICK f : f = i + m - 1
    OBVIOUS
  <2>2. f \in i..e /\ f \in i..Len(t) /\ f - i + 1 = m
    BY <1>2, <1>3, <1>5, <1>10, <2>1
  <2>3. t[f] # "\n"
    BY <1>5, <1>6, <1>10, <2>2
  <2>4. TrimRight(s, {"\n"}) = SubSeq(t, i, f)
    <3>1. i \in 1 .. Len(t) + 1 /\ e \in i - 1 .. Len(t) /\ 1 \in 1 .. e - i + 2 /\ m \in 1 - 1 .. e - i + 1
      BY <1>2, <1>3, <1>5
    <3>2. SubSeq(SubSeq(t, i, e), 1, m) = SubSeq(t, i + 1 - 1, i + m - 1)
      BY <3>1, SliceOfSlice
    <3>3. i + 1 - 1 = i
      BY <1>3
    <3> QED
      BY <1>4, <1>6, <2>1, <3>2, <3>3
  <2>5. TrimRight(SubSeq(t, i, f), Blank \cup {"\r"}) = Fence
          <=> t[i] = "---" /\ \A j \in i + 1 .. f : t[j] \in Blank \cup {"\r"}
    BY <1>7, <2>2, FenceSlice
  <2>6. White = Blank \cup {"\r"} \cup {"\n"}
    BY DEF White
  <2>7. ASSUME \A j \in i + 1 .. f : t[j] \in Blank \cup {"\r"}
        PROVE  \A j \in i + 1 .. e : t[j] \in White
    <3> TAKE j \in i + 1 .. e
    <3>1. CASE j <= f
      <4>1. j \in i + 1 .. f
        BY <1>3, <2>2, <3>1
      <4> QED
        BY <2>6, <2>7, <4>1
    <3>2. CASE ~(j <= f)
      <4>1. j \in i..e /\ j - i + 1 \in m + 1 .. Len(s)
        BY <1>3, <1>5, <2>1, <2>2, <3>2
      <4>2. t[j] = "\n"
        BY <1>5, <1>6, <4>1
      <4> QED
        BY <2>6, <4>2
    <3> QED
      BY <3>1, <3>2
  <2>8. ASSUME \A j \in i + 1 .. e : t[j] \in White
        PROVE  \A j \in i + 1 .. f : t[j] \in Blank \cup {"\r"}
    <3> TAKE j \in i + 1 .. f
    <3>1. j \in i + 1 .. e /\ (j = f \/ j \in i .. e - 1)
      BY <1>3, <2>2
    <3>2. t[j] # "\n"
      BY <1>2, <2>3, <3>1
    <3> QED
      BY <2>6, <2>8, <3>1, <3>2
  <2> QED
    BY <1>4, <1>8, <2>4, <2>5, <2>7, <2>8
<1> QED
  BY <1>9, <1>10

-----------------------------------------------------------------------------
(***************************************************************************)
(* FRONT MATTER                                                            *)
(***************************************************************************)

LEMMA FirstSlice ==
  ASSUME NEW R, NEW t \in Seq(R), Len(t) >= 1
  PROVE  SubSeq(t, 1, 1) = << t[1] >>
<1>1. Len(t) \in Nat /\ 1 \in 1..Len(t) /\ 1 - 1 + 1 = 1
  OBVIOUS
<1>2. SubSeq(t, 1, 1) \in Seq(R) /\ Len(SubSeq(t, 1, 1)) = 1 /\ \A j \in 1..1 : SubSeq(t, 1, 1)[j - 1 + 1] = t[j]
  <2>1. 1 \in 1..Len(t)
    BY <1>1
  <2> QED
    BY <1>1, <2>1, SliceStep
<1>3. << t[1] >> \in Seq(R) /\ Len(<< t[1] >>) = 1 /\ << t[1] >>[1] = t[1]
  <2>1. t[1] \in R
    BY <1>1, ElementOfSeq
  <2> QED
    BY <2>1
<1>4. \A j \in 1..1 : SubSeq(t, 1, 1)[j] = << t[1] >>[j]
  BY <1>1, <1>2, <1>3
<1> QED
  BY <1>2, <1>3, <1>4, SeqEqual

LEMMA BeginsWithFence ==
  ASSUME NEW R, NEW t \in Seq(R), Len(t) >= 1, t[1] = "---"
  PROVE  IsPrefix(Fence, t)
<1>1. SubSeq(t, 1, 1) = Fence
  BY FirstSlice DEF Fence
<1>2. Fence \in Seq({"---"}) /\ Len(Fence) >= 1
  BY FenceFacts DEF Fence
<1>3. SubSeq(Fence, 1, 1) = << Fence[1] >>
  BY <1>2, FirstSlice
<1>4. SubSeq(Fence, 1, 1) = Fence
  BY <1>3, FenceFacts DEF Fence
<1> QED
  BY <1>1, <1>4, FenceFacts DEF IsPrefix

\* At most one line break is skipped, and nothing else.
LEMMA SkipNewlineFacts ==
  ASSUME NEW R, NEW t \in Seq(R)
  PROVE  \E k \in 0..2 :
           /\ k <= Len(t) /\ SkipNewline(t) = SubSeq(t, k + 1, Len(t))
           /\ k = 1 => t[1] = "\n"
           /\ k = 2 => t[1] = "\r" /\ t[2] = "\n"
<1>0. Len(t) \in Nat
  OBVIOUS
<1>1. CASE IsPrefix(<< "\n" >>, t)
  <2>1. PICK s : s = << "\n" >>
    OBVIOUS
  <2>2. Len(s) = 1 /\ s[1] = "\n" /\ s \in Seq({"\n"})
    BY <2>1
  <2>3. Len(t) >= 1 /\ SubSeq(s, 1, 1) = SubSeq(t, 1, 1)
    BY <1>0, <1>1, <2>1, <2>2 DEF IsPrefix
  <2>4. SubSeq(s, 1, 1) = << s[1] >>
    BY <2>2, FirstSlice
  <2>5. t[1] = "\n"
    <3>1. << t[1] >> = << s[1] >>
      BY <2>3, <2>4, FirstSlice
    <3> QED
      BY <2>2, <3>1
  <2>6. SkipNewline(t) = SubSeq(t, 2, Len(t))
    <3>1. t # << >>
      BY <2>3
    <3>2. Tail(t) = SubSeq(t, 2, Len(t))
      BY <3>1, TailIsSubSeq
    <3> QED
      BY <1>1, <3>2 DEF SkipNewline
  <2>7. 1 \in 0..2 /\ 1 <= Len(t) /\ 1 + 1 = 2 /\ 1 # 2
    BY <1>0, <2>3
  <2> QED
    BY <2>5, <2>6, <2>7
<1>2. CASE ~IsPrefix(<< "\n" >>, t) /\ IsPrefix(<< "\r", "\n" >>, t)
  <2>1. PICK s : s = << "\r", "\n" >>
    OBVIOUS
  <2>2. Len(s) = 2 /\ s[1] = "\r" /\ s[2] = "\n" /\ s \in Seq({"\r", "\n"})
    BY <2>1
  <2>3. Len(t) >= 2 /\ SubSeq(s, 1, 2) = SubSeq(t, 1, 2)
    BY <1>0, <1>2, <2>1, <2>2 DEF IsPrefix
  <2>4. \A j \in 1..2 : SubSeq(t, 1, 2)[j] = t[j]
    <3>1. 1 \in 1 .. Len(t) + 1 /\ 2 \in 1 - 1 .. Len(t) /\ 2 - 1 + 1 = 2 /\ \A j \in 1..2 : 1 + j - 1 = j
      BY <1>0, <2>3
    <3>2. \A j \in 1 .. 2 - 1 + 1 : SubSeq(t, 1, 2)[j] = t[1 + j - 1]
      BY <3>1, SliceFacts
    <3> QED
      BY <3>1, <3>2
  <2>5. \A j \in 1..2 : SubSeq(s, 1, 2)[j] = s[j]
    <3>1. 1 \in 1 .. Len(s) + 1 /\ 2 \in 1 - 1 .. Len(s) /\ 2 - 1 + 1 = 2 /\ \A j \in 1..2 : 1 + j - 1 = j
      BY <2>2
    <3>2. \A j \in 1 .. 2 - 1 + 1 : SubSeq(s, 1, 2)[j] = s[1 + j - 1]
      BY <2>2, <3>1, SliceFacts
    <3> QED
      BY <3>1, <3>2
  <2>6. 1 \in 1..2 /\ 2 \in 1..2
    OBVIOUS
  <2>7. t[1] = "\r" /\ t[2] = "\n"
    BY <2>2, <2>3, <2>4, <2>5, <2>6
  <2>8. SkipNewline(t) = SubSeq(t, 3, Len(t))
    BY <1>2 DEF SkipNewline
  <2>9. 2 \in 0..2 /\ 2 <= Len(t) /\ 2 + 1 = 3 /\ 1 # 2
    BY <1>0, <2>3
  <2> QED
    BY <2>7, <2>8, <2>9
<1>3. CASE ~IsPrefix(<< "\n" >>, t) /\ ~IsPrefix(<< "\r", "\n" >>, t)
  <2>1. SkipNewline(t) = t
    BY <1>3 DEF SkipNewline
  <2>2. SubSeq(t, 1, Len(t)) = t
    BY SubSeqFull
  <2>3. 0 \in 0..2 /\ 0 <= Len(t) /\ 0 + 1 = 1 /\ 0 # 1 /\ 0 # 2
    BY <1>0
  <2> QED
    BY <2>1, <2>2, <2>3
<1> QED
  BY <1>1, <1>2, <1>3

LEMMA TrimLeftIs ==
  ASSUME NEW R, NEW t \in Seq(R), NEW chars, NEW b \in 1..Len(t),
         t[b] \notin chars, \A j \in 1 .. b - 1 : t[j] \in chars
  PROVE  TrimLeft(t, chars) = SubSeq(t, b, Len(t))
<1>1. PICK m \in 1 .. Len(t) + 1 : /\ TrimLeft(t, chars) = SubSeq(t, m, Len(t))
                                   /\ m <= Len(t) => t[m] \notin chars
                                   /\ \A j \in 1 .. m - 1 : t[j] \in chars
  BY TrimLeftFacts
<1>2. Len(t) \in Nat /\ m \in Nat /\ b \in Nat /\ b <= Len(t)
  OBVIOUS
<1>3. ~(b < m)
  <2> SUFFICES ASSUME b < m PROVE FALSE
    OBVIOUS
  <2>1. b \in 1 .. m - 1
    BY <1>2
  <2> QED
    BY <1>1, <2>1
<1>4. ~(m < b)
  <2> SUFFICES ASSUME m < b PROVE FALSE
    OBVIOUS
  <2>1. m \in 1 .. b - 1 /\ m <= Len(t)
    BY <1>2
  <2> QED
    BY <1>1, <2>1
<1>5. m = b
  BY <1>2, <1>3, <1>4
<1> QED
  BY <1>1, <1>5

\* A text that begins with a fence and has another: its first line ends at e, the
\* other begins at second, and what is split begins behind d, with nothing but
\* white space up to the end of the first line.
LEMMA SplitAtFence ==
  ASSUME NEW R, NEW t \in Seq(R), NEW e, e = EndOfLine(t, 1),
         IsFence(TrimLeft(LineAt(t, 1), Blank)),
         NEW fences, fences = {i \in LineStarts(t) \ {1} : IsFence(LineAt(t, i))}, fences # {},
         NEW second, second = Min(fences)
  PROVE  \E d \in 1..e :
           /\ second \in e + 1 .. Len(t) /\ t[e] = "\n"
           /\ \A j \in d + 1 .. e : t[j] \in White
           /\ ExtractFrontMatter(t) =
                Split(SubSeq(t, d + 1, second - 1), SubSeq(t, EndOfLine(t, second) + 1, Len(t)))
<1> DEFINE n == Len(t)
<1>1. n \in Nat /\ DOMAIN t = 1..n
  OBVIOUS
<1>2. /\ fences \subseteq 2..n
      /\ \A i \in fences : t[i - 1] = "\n" /\ IsFence(LineAt(t, i))
  <2>1. \A i \in fences : i \in 1..n /\ i # 1 /\ t[i - 1] = "\n" /\ IsFence(LineAt(t, i))
    BY <1>1 DEF LineStarts
  <2>2. \A i \in 1..n : i # 1 => i \in 2..n
    BY <1>1
  <2> QED
    BY <2>1, <2>2
<1>3. second \in fences /\ \A i \in fences : second <= i
  <2>1. fences \subseteq Nat
    BY <1>1, <1>2
  <2> QED
    BY <2>1, MinFacts
<1>4. second \in 2..n /\ t[second - 1] = "\n" /\ IsFence(LineAt(t, second))
  BY <1>2, <1>3
<1>5. e \in 1..n /\ (t[e] = "\n" \/ e = n) /\ \A j \in 1 .. e - 1 : t[j] # "\n"
  <2>1. 1 \in 1..Len(t)
    BY <1>1, <1>4
  <2> QED
    BY <2>1, EndOfLineFacts
<1>6. e < second
  <2> SUFFICES ASSUME ~(e < second) PROVE FALSE
    OBVIOUS
  <2>1. second - 1 \in 1 .. e - 1
    BY <1>1, <1>4, <1>5
  <2> QED
    BY <1>4, <1>5, <2>1
<1>7. t[e] = "\n" /\ second \in e + 1 .. n
  <2>1. e # n /\ second \in e + 1 .. n
    BY <1>1, <1>4, <1>5, <1>6
  <2> QED
    BY <1>5, <2>1
<1>8. "---" \notin White /\ "---" \notin Blank /\ "\n" \notin Blank /\ "---" # "\n"
  BY DEF White, Blank
<1>9. t[second] = "---"
  <2>1. PICK f : f = EndOfLine(t, second)
    OBVIOUS
  <2>2. second \in 1..n
    BY <1>1, <1>4
  <2>3. f \in second..n
    BY <2>1, <2>2, EndOfLineFacts
  <2> QED
    BY <1>4, <1>8, <2>1, <2>2, <2>3, FenceSlice DEF IsFence, LineAt
<1>10. \E b \in 1..e : /\ t[b] = "---" /\ \A j \in 1 .. b - 1 : t[j] \in Blank
                       /\ \A j \in b + 1 .. e : t[j] \in White
  <2>1. PICK s : s = SubSeq(t, 1, e) /\ s = LineAt(t, 1)
    BY DEF LineAt
  <2>2. s \in Seq(R) /\ Len(s) = e /\ \A j \in 1..e : s[j] = t[j]
    <3>1. 1 \in 1 .. Len(t) + 1 /\ e \in 1 - 1 .. Len(t) /\ e - 1 + 1 = e /\ \A j \in 1..e : 1 + j - 1 = j
      BY <1>1, <1>5
    <3>2. s \in Seq(R) /\ Len(s) = e - 1 + 1 /\ \A j \in 1 .. e - 1 + 1 : s[j] = t[1 + j - 1]
      BY <2>1, <3>1, SliceFacts
    <3> QED
      BY <3>1, <3>2
  <2>3. PICK b \in 1 .. e + 1 : /\ TrimLeft(s, Blank) = SubSeq(s, b, e)
                                /\ \A j \in 1 .. b - 1 : s[j] \in Blank
    BY <2>2, TrimLeftFacts
  <2>4. b \in 1..e
    <3> SUFFICES ASSUME b = e + 1 PROVE FALSE
      BY <1>1, <1>5
    <3>1. e < b /\ b \in Int /\ e \in Int
      BY <1>1, <1>5
    <3>2. SubSeq(s, b, e) = << >>
      BY <3>1, SubSeqEmpty
    <3>3. TrimRight(<< >>, White) = Fence
      BY <2>1, <2>3, <3>2 DEF IsFence
    <3>4. << >> # Fence
      BY DEF Fence
    <3> QED
      BY <3>3, <3>4, TrimOfNothing
  <2>5. SubSeq(s, b, e) = SubSeq(t, b, e)
    <3>1. 1 \in 1 .. Len(t) + 1 /\ e \in 1 - 1 .. Len(t) /\ b \in 1 .. e - 1 + 2 /\ e \in b - 1 .. e - 1 + 1
          /\ 1 + b - 1 = b /\ 1 + e - 1 = e
      BY <1>1, <1>5, <2>4
    <3>2. SubSeq(SubSeq(t, 1, e), b, e) = SubSeq(t, 1 + b - 1, 1 + e - 1)
      BY <3>1, SliceOfSlice
    <3> QED
      BY <2>1, <3>1, <3>2
  <2>6. t[b] = "---" /\ \A j \in b + 1 .. e : t[j] \in White
    <3>1. b \in 1..Len(t) /\ e \in b..Len(t)
      BY <1>1, <1>5, <2>4
    <3>2. TrimRight(SubSeq(t, b, e), White) = Fence
      BY <2>1, <2>3, <2>5 DEF IsFence
    <3> QED
      BY <1>8, <3>1, <3>2, FenceSlice
  <2>7. \A j \in 1 .. b - 1 : j \in 1..e
    BY <1>1, <1>5, <2>4
  <2> QED
    BY <2>2, <2>3, <2>4, <2>6, <2>7
<1>11. PICK b \in 1..e : /\ t[b] = "---" /\ \A j \in 1 .. b - 1 : t[j] \in Blank
                         /\ \A j \in b + 1 .. e : t[j] \in White
  BY <1>10
<1>12. b \in 1..n /\ b \in Nat /\ e \in Nat /\ b < e
  <2>1. b # e
    BY <1>7, <1>8, <1>11
  <2> QED
    BY <1>1, <1>5, <2>1
<1> DEFINE trimmed == SubSeq(t, b, n)
<1>13. trimmed = TrimLeft(t, Blank)
  BY <1>8, <1>11, <1>12, TrimLeftIs
<1>14. /\ trimmed \in Seq(R) /\ Len(trimmed) = n - b + 1 /\ Len(trimmed) >= 2 /\ trimmed[1] = "---"
       /\ trimmed # << >>
  <2>1. b \in 1..Len(t) /\ Len(t) \in b..Len(t) /\ b \in b..Len(t) /\ b - b + 1 = 1
    BY <1>12
  <2>2. trimmed \in Seq(R) /\ Len(trimmed) = n - b + 1 /\ trimmed[b - b + 1] = t[b]
    BY <2>1, SliceStep
  <2>3. n - b + 1 >= 2
    BY <1>1, <1>5, <1>12
  <2>4. Len(trimmed) # 0
    BY <2>2, <2>3
  <2>5. trimmed # << >>
    <3> HIDE DEF trimmed
    <3> QED
      BY <2>4
  <2> QED
    BY <1>11, <2>1, <2>2, <2>3, <2>5
<1>15. IsPrefix(Fence, trimmed)
  <2> HIDE DEF trimmed, n
  <2>1. Len(trimmed) >= 1
    BY <1>14
  <2> QED
    BY <1>14, <2>1, BeginsWithFence
<1>16. TrimRight(trimmed, White) # Fence
  <2>1. b \in 1..Len(t) /\ Len(t) \in b..Len(t) /\ second \in b + 1 .. Len(t)
    BY <1>1, <1>7, <1>12
  <2> QED
    BY <1>8, <1>9, <2>1, FenceSlice
<1>17. Tail(trimmed) = SubSeq(t, b + 1, n)
  <2>1. PICK c : c = b + 1
    OBVIOUS
  <2>2. b \in 1..Len(t) /\ Len(t) \in b..Len(t) /\ c = b + 1
    BY <1>12, <2>1
  <2> QED
    BY <2>2, HeadTailOfSubSeq
<1>18. \E d \in b..e : SkipNewline(Tail(trimmed)) = SubSeq(t, d + 1, n)
  <2>1. PICK u : u = Tail(trimmed) /\ u = SubSeq(t, b + 1, n)
    BY <1>17
  <2>2. b \in 0..Len(t)
    BY <1>1, <1>12
  <2>3. u \in Seq(R) /\ Len(u) = n - b /\ \A i \in 1 .. n - b : u[i] = t[b + i]
    BY <2>1, <2>2, RestOfText
  <2>4. PICK k \in 0..2 : /\ k <= Len(u) /\ SkipNewline(u) = SubSeq(u, k + 1, Len(u))
                          /\ k = 1 => u[1] = "\n"
                          /\ k = 2 => u[1] = "\r" /\ u[2] = "\n"
    BY <2>3, SkipNewlineFacts
  <2>5. k \in Nat /\ k <= n - b
    BY <2>3, <2>4
  <2>6. b + k <= e
    <3>1. CASE k = 0 \/ k = 1
      BY <1>12, <3>1
    <3>2. CASE k = 2
      <4>1. 1 \in 1 .. n - b /\ b + 1 \in b + 1 .. e
        BY <1>1, <1>12, <2>5, <3>2
      <4>2. t[b + 1] = "\r"
        BY <2>3, <2>4, <3>2, <4>1
      <4>3. b + 1 # e
        BY <1>7, <4>2
      <4> QED
        BY <1>12, <3>2, <4>3
    <3> QED
      BY <3>1, <3>2
  <2>7. SubSeq(u, k + 1, Len(u)) = SubSeq(t, (b + k) + 1, n)
    <3>1. PICK a, c, x : a = b + 1 /\ c = k + 1 /\ x = Len(u)
      OBVIOUS
    <3>2. a \in 1 .. Len(t) + 1 /\ Len(t) \in a - 1 .. Len(t) /\ c \in 1 .. Len(t) - a + 2
          /\ x \in c - 1 .. Len(t) - a + 1 /\ a + c - 1 = (b + k) + 1 /\ a + x - 1 = n
      BY <1>1, <1>12, <2>3, <2>5, <3>1
    <3>3. SubSeq(SubSeq(t, a, Len(t)), c, x) = SubSeq(t, a + c - 1, a + x - 1)
      BY <3>2, SliceOfSlice
    <3> QED
      BY <2>1, <3>1, <3>2, <3>3
  <2>8. b + k \in b..e
    BY <1>12, <2>5, <2>6
  <2> QED
    BY <2>1, <2>4, <2>7, <2>8
<1>19. PICK d \in b..e : SkipNewline(Tail(trimmed)) = SubSeq(t, d + 1, n)
  BY <1>18
<1>20. d \in 1..e /\ d \in 0..n /\ d \in Nat /\ \A j \in d + 1 .. e : t[j] \in White
  <2>1. d \in 1..e /\ d \in 0..n /\ d \in Nat
    BY <1>1, <1>5, <1>12
  <2>2. \A j \in d + 1 .. e : j \in b + 1 .. e
    BY <1>12, <2>1
  <2> QED
    BY <1>11, <2>1, <2>2
<1> DEFINE rest == SubSeq(t, d + 1, n)
<1>21. rest \in Seq(R) /\ Len(rest) = n - d /\ DOMAIN rest = 1 .. n - d /\ \A i \in 1 .. n - d : rest[i] = t[d + i]
  <2>1. rest \in Seq(R) /\ Len(rest) = n - d /\ \A i \in 1 .. n - d : rest[i] = t[d + i]
    BY <1>20, RestOfText
  <2>2. DOMAIN rest = 1..Len(rest)
    BY <2>1, LenProperties
  <2> QED
    BY <2>1, <2>2
<1>22. ASSUME NEW i \in 1 .. n - d
       PROVE  /\ EndOfLine(t, d + i) = d + EndOfLine(rest, i)
              /\ TrimRight(TrimRight(LineAt(rest, i), {"\n"}), Blank \cup {"\r"}) = Fence
                   <=> IsFence(LineAt(t, d + i))
  <2>1. i \in 1..Len(rest)
    BY <1>21
  <2>2. EndOfLine(t, d + i) = d + EndOfLine(rest, i) /\ LineAt(t, d + i) = LineAt(rest, i)
    BY <1>20, LineShift
  <2>3. TrimRight(TrimRight(LineAt(rest, i), {"\n"}), Blank \cup {"\r"}) = Fence
          <=> IsFence(LineAt(rest, i))
    <3> HIDE DEF rest
    <3> QED
      BY <1>21, <2>1, ClosingIsFence
  <2> QED
    BY <2>2, <2>3
<1> DEFINE closing == {i \in LineStarts(rest) :
                         TrimRight(TrimRight(LineAt(rest, i), {"\n"}), Blank \cup {"\r"}) = Fence}
<1>23. second - d \in closing
  <2>1. PICK i : i = second - d
    OBVIOUS
  <2>2. i \in 1 .. n - d /\ d + i = second
    BY <1>1, <1>7, <1>12, <1>20, <2>1
  <2>3. i = 1 \/ rest[i - 1] = "\n"
    <3> SUFFICES ASSUME i # 1 PROVE rest[i - 1] = "\n"
      OBVIOUS
    <3>1. i - 1 \in 1 .. n - d /\ d + (i - 1) = second - 1
      BY <1>1, <1>20, <2>2
    <3>2. rest[i - 1] = t[d + (i - 1)]
      BY <1>21, <3>1
    <3> QED
      BY <1>4, <3>1, <3>2
  <2>4. i \in LineStarts(rest)
    <3> HIDE DEF rest
    <3> QED
      BY <1>21, <2>2, <2>3 DEF LineStarts
  <2>5. IsFence(LineAt(t, d + i))
    BY <1>4, <2>2
  <2> HIDE DEF rest
  <2> QED
    BY <1>22, <2>1, <2>2, <2>4, <2>5
<1>24. ASSUME NEW i \in closing PROVE i \in 1 .. n - d /\ second - d <= i
  <2>1. /\ i \in LineStarts(rest)
        /\ TrimRight(TrimRight(LineAt(rest, i), {"\n"}), Blank \cup {"\r"}) = Fence
    OBVIOUS
  <2>2. i \in 1 .. n - d /\ (i = 1 \/ rest[i - 1] = "\n")
    <3> HIDE DEF rest
    <3> QED
      BY <1>21, <2>1 DEF LineStarts
  <2>3. IsFence(LineAt(t, d + i))
    BY <1>22, <2>1, <2>2
  <2>4. PICK k : k = d + i
    OBVIOUS
  <2>5. k \in 2..n /\ k \in 1..n /\ k - 1 \in 1..n /\ k # 1
    BY <1>1, <1>20, <2>2, <2>4
  <2>6. t[k] = "---"
    <3>1. PICK f : f = EndOfLine(t, k)
      OBVIOUS
    <3>2. f \in k..n
      BY <2>5, <3>1, EndOfLineFacts
    <3>3. TrimRight(SubSeq(t, k, f), White) = Fence
      BY <2>3, <2>4, <3>1 DEF IsFence, LineAt
    <3> QED
      BY <1>8, <2>5, <3>2, <3>3, FenceSlice
  <2>7. t[k - 1] = "\n"
    <3>1. CASE i # 1
      <4>1. i - 1 \in 1 .. n - d /\ d + (i - 1) = k - 1
        BY <1>1, <1>20, <2>2, <2>4, <3>1
      <4>2. rest[i - 1] = t[d + (i - 1)]
        BY <1>21, <4>1
      <4> QED
        BY <2>2, <3>1, <4>1, <4>2
    <3>2. CASE i = 1
      <4>1. d = e
        <5> SUFFICES ASSUME d # e PROVE FALSE
          OBVIOUS
        <5>1. k \in d + 1 .. e
          BY <1>12, <1>20, <2>4, <3>2
        <5> QED
          BY <1>8, <1>20, <2>6, <5>1
      <4>2. k - 1 = e
        BY <1>12, <2>4, <3>2, <4>1
      <4> QED
        BY <1>7, <4>2
    <3> QED
      BY <3>1, <3>2
  <2>8. k \in fences
    BY <1>1, <2>3, <2>4, <2>5, <2>7 DEF LineStarts
  <2>9. second <= k
    BY <1>3, <2>8
  <2> QED
    BY <1>1, <1>4, <1>20, <2>2, <2>4, <2>9
<1>25. FindClosingFence(rest) = second - d /\ second - d > 0
  <2> HIDE DEF closing
  <2>1. closing \subseteq Nat /\ closing # {}
    <3>1. \A i \in closing : i \in Nat
      BY <1>1, <1>20, <1>24
    <3> QED
      BY <1>23, <3>1
  <2>2. Min(closing) \in closing /\ \A i \in closing : Min(closing) <= i
    BY <2>1, MinFacts
  <2>3. Min(closing) <= second - d /\ second - d <= Min(closing) /\ Min(closing) \in Nat
    BY <1>23, <1>24, <2>1, <2>2
  <2>4. Min(closing) = second - d
    BY <1>4, <1>20, <2>3
  <2>5. FindClosingFence(rest) = IF closing = {} THEN 0 ELSE Min(closing)
    BY DEF FindClosingFence, closing
  <2>6. second - d > 0
    BY <1>4, <1>5, <1>6, <1>20
  <2> QED
    BY <2>1, <2>4, <2>5, <2>6
<1>26. SubSeq(rest, 1, (second - d) - 1) = SubSeq(t, d + 1, second - 1)
  <2>1. PICK a, x : a = d + 1 /\ x = (second - d) - 1
    OBVIOUS
  <2>2. a \in 1 .. Len(t) + 1 /\ Len(t) \in a - 1 .. Len(t) /\ 1 \in 1 .. Len(t) - a + 2
        /\ x \in 1 - 1 .. Len(t) - a + 1 /\ a + 1 - 1 = d + 1 /\ a + x - 1 = second - 1
    <3>1. Len(t) \in Nat /\ second \in Nat /\ d \in Nat /\ d < second /\ second <= Len(t)
      BY <1>1, <1>4, <1>6, <1>12, <1>20
    <3> QED
      BY <2>1, <3>1
  <2>3. SubSeq(SubSeq(t, a, Len(t)), 1, x) = SubSeq(t, a + 1 - 1, a + x - 1)
    BY <2>2, SliceOfSlice
  <2> QED
    BY <2>1, <2>2, <2>3
<1>27. SubSeq(rest, EndOfLine(rest, second - d) + 1, Len(rest))
         = SubSeq(t, EndOfLine(t, second) + 1, n)
  <2>1. PICK f, g : f = EndOfLine(t, second) /\ g = EndOfLine(rest, second - d)
    OBVIOUS
  <2>2. second - d \in 1 .. n - d /\ d + (second - d) = second /\ second \in 1..n
    BY <1>1, <1>4, <1>7, <1>12, <1>20
  <2>3. f = d + g
    BY <1>22, <2>1, <2>2
  <2>4. f \in second..n
    BY <2>1, <2>2, EndOfLineFacts
  <2>5. g \in second - d .. n - d /\ g \in Int
    <3>1. g \in second - d .. Len(rest)
      <4> HIDE DEF rest
      <4> QED
        BY <1>21, <2>1, <2>2, EndOfLineFacts
    <3> QED
      BY <1>21, <2>2, <3>1
  <2>6. PICK a, c, x : a = d + 1 /\ c = g + 1 /\ x = Len(rest)
    OBVIOUS
  <2>7. a \in 1 .. Len(t) + 1 /\ Len(t) \in a - 1 .. Len(t) /\ c \in 1 .. Len(t) - a + 2
        /\ x \in c - 1 .. Len(t) - a + 1 /\ a + c - 1 = f + 1 /\ a + x - 1 = n
    <3>1. PICK m : m = Len(t)
      OBVIOUS
    <3>2. m \in Nat /\ d \in Nat /\ d <= m
      BY <1>1, <1>20, <3>1
    <3>3. g \in Int /\ g <= m - d /\ f = d + g /\ f \in Nat /\ d < f
      <4>1. f \in second..m /\ d < second /\ second \in Nat
        BY <1>4, <1>6, <1>12, <1>20, <2>4, <3>1
      <4>2. g \in Int /\ g <= m - d
        BY <2>5, <3>1, <3>2, <4>1
      <4> QED
        BY <2>3, <3>2, <4>1, <4>2
    <3>4. x = m - d
      BY <1>21, <2>6, <3>1
    <3>5. /\ a \in 1 .. m + 1 /\ m \in a - 1 .. m /\ c \in 1 .. m - a + 2
          /\ x \in c - 1 .. m - a + 1 /\ a + c - 1 = f + 1 /\ a + x - 1 = m
      <4>1. g \in Nat
        BY <3>2, <3>3
      <4>2. a \in Nat /\ c \in Nat /\ x \in Nat
        BY <2>6, <3>2, <3>4, <4>1
      <4>3. a \in 1 .. m + 1 /\ m \in a - 1 .. m /\ c \in 1 .. m - a + 2
        BY <2>6, <3>2, <3>3, <4>1
      <4>4. x \in c - 1 .. m - a + 1
        BY <2>6, <3>2, <3>3, <3>4, <4>1, <4>2
      <4>5. a + c - 1 = f + 1
        BY <2>6, <3>2, <3>3, <4>1
      <4>6. a + x - 1 = m
        <5>1. a = d + 1
          BY <2>6
        <5> QED
          BY <3>2, <3>4, <5>1
      <4> QED
        BY <4>3, <4>4, <4>5, <4>6
    <3> QED
      BY <3>1, <3>5
  <2>8. SubSeq(SubSeq(t, a, Len(t)), c, x) = SubSeq(t, a + c - 1, a + x - 1)
    BY <2>7, SliceOfSlice
  <2> QED
    BY <2>1, <2>6, <2>7, <2>8
<1>28. ExtractFrontMatter(t) =
         Split(SubSeq(t, d + 1, second - 1), SubSeq(t, EndOfLine(t, second) + 1, n))
  <2> HIDE DEF rest, trimmed
  <2>1. SkipNewline(Tail(TrimLeft(t, Blank))) = rest
    BY <1>13, <1>19 DEF rest
  <2>2. IsPrefix(Fence, TrimLeft(t, Blank)) /\ TrimRight(TrimLeft(t, Blank), White) # Fence
    BY <1>13, <1>15, <1>16
  <2>3. ExtractFrontMatter(t) =
          Split(SubSeq(rest, 1, (second - d) - 1),
                SubSeq(rest, EndOfLine(rest, second - d) + 1, Len(rest)))
    BY <1>25, <2>1, <2>2 DEF ExtractFrontMatter
  <2> QED
    BY <1>26, <1>27, <2>3
<1> QED
  BY <1>7, <1>20, <1>28

\* The lines with something on them, from i on, by those from the next line on.
ContentFrom(t, c, i) ==
  IF i > Len(t) THEN << >>
  ELSE LET line == TrimRight(LineAt(t, i), White)
       IN (IF line = << >> THEN << >> ELSE << line >>) \o c[EndOfLine(t, i) + 1]

Contents(t, c) == c = [i \in 1 .. Len(t) + 1 |-> ContentFrom(t, c, i)]

LEMMA ContentExists ==
  ASSUME NEW R, NEW t \in Seq(R)
  PROVE  \E c : Contents(t, c)
<1> DEFINE L == Len(t) + 1
           From(m) == L - m .. L
           Stuck == {m \in 0 .. L - 1 : ~\E r : r = [i \in From(m) |-> ContentFrom(t, r, i)]}
<1>1. L \in Nat /\ L >= 1 /\ Len(t) = L - 1 /\ Len(t) \in Nat
  OBVIOUS
<1>2. Stuck = {}
  <2> SUFFICES ASSUME Stuck # {} PROVE FALSE
    OBVIOUS
  <2>1. PICK m \in Stuck : \A n \in Stuck : m <= n
    <3>1. Stuck \subseteq Nat
      OBVIOUS
    <3> HIDE DEF Stuck
    <3> QED
      BY <3>1, LeastExists
  <2>2. \E r : r = [i \in From(m) \ {L - m} |-> ContentFrom(t, r, i)]
    <3>1. CASE m = 0
      <4>1. From(m) \ {L - m} = {}
        BY <1>1, <3>1
      <4> QED
        BY <4>1
    <3>2. CASE m # 0
      <4>1. m - 1 \in 0 .. L - 1 /\ ~(m <= m - 1)
        BY <1>1, <3>2
      <4>2. From(m - 1) = From(m) \ {L - m}
        BY <1>1, <3>2
      <4>3. \E r : r = [i \in From(m - 1) |-> ContentFrom(t, r, i)]
        BY <2>1, <4>1
      <4> HIDE DEF From
      <4> QED
        BY <4>2, <4>3
    <3> QED
      BY <3>1, <3>2
  <2>3. PICK r : r = [i \in From(m) \ {L - m} |-> ContentFrom(t, r, i)]
    BY <2>2
  <2> DEFINE s == [i \in From(m) |-> ContentFrom(t, r, i)]
  <2>4. ASSUME NEW i \in From(m), i <= Len(t)
        PROVE  s[EndOfLine(t, i) + 1] = r[EndOfLine(t, i) + 1]
    <3>1. PICK e : e = EndOfLine(t, i)
      OBVIOUS
    <3>2. i \in 1..Len(t)
      BY <1>1, <2>4
    <3>3. e \in i..Len(t)
      BY <3>1, <3>2, EndOfLineFacts
    <3>4. e + 1 \in From(m) \ {L - m} /\ e + 1 \in From(m)
      BY <1>1, <3>2, <3>3
    <3> QED
      BY <2>3, <3>1, <3>4
  <2>5. \A i \in From(m) : i > Len(t) \/ i <= Len(t)
    BY <1>1
  <2>6. \A i \in From(m) : ContentFrom(t, s, i) = ContentFrom(t, r, i)
    <3> HIDE DEF s, From
    <3> QED
      BY <2>4, <2>5 DEF ContentFrom
  <2>7. s = [i \in From(m) |-> ContentFrom(t, s, i)]
    BY <2>6
  <2> QED
    BY <2>1, <2>7
<1>3. L - 1 \in 0 .. L - 1 /\ From(L - 1) = 1..L
  BY <1>1
<1>4. \E r : r = [i \in From(L - 1) |-> ContentFrom(t, r, i)]
  BY <1>2, <1>3
<1> QED
  BY <1>3, <1>4 DEF Contents

LEMMA ContentIs ==
  ASSUME NEW R, NEW t \in Seq(R)
  PROVE  \E c : Contents(t, c) /\ Content(t) = c[1]
<1>1. Content(t) = (CHOOSE c : Contents(t, c))[1]
  BY DEF Content, Contents, ContentFrom
<1> QED
  BY <1>1, ContentExists

LEMMA ContentType ==
  ASSUME NEW R, NEW t \in Seq(R), NEW c, Contents(t, c), NEW k \in 1 .. Len(t) + 1
  PROVE  c[k] \in Seq(Seq(R))
<1> DEFINE L == Len(t) + 1
           Stuck == {m \in 0 .. L - 1 : c[L - m] \notin Seq(Seq(R))}
<1>1. L \in Nat /\ Len(t) \in Nat /\ L = Len(t) + 1
  OBVIOUS
<1>2. Stuck = {}
  <2> SUFFICES ASSUME Stuck # {} PROVE FALSE
    OBVIOUS
  <2>1. PICK m \in Stuck : \A n \in Stuck : m <= n
    <3>1. Stuck \subseteq Nat
      OBVIOUS
    <3> HIDE DEF Stuck
    <3> QED
      BY <3>1, LeastExists
  <2>2. PICK i : i = L - m
    OBVIOUS
  <2>3. i \in 1..L /\ m \in 0 .. L - 1
    BY <1>1, <2>2
  <2>4. c[i] = ContentFrom(t, c, i)
    BY <1>1, <2>3 DEF Contents
  <2>5. CASE i > Len(t)
    <3>1. c[i] = << >>
      BY <2>4, <2>5 DEF ContentFrom
    <3>2. << >> \in Seq(Seq(R))
      BY EmptySeq
    <3> QED
      BY <2>1, <2>2, <3>1, <3>2
  <2>6. CASE ~(i > Len(t))
    <3>1. i \in 1..Len(t)
      BY <1>1, <2>3, <2>6
    <3>2. PICK e : e = EndOfLine(t, i)
      OBVIOUS
    <3>3. e \in i..Len(t)
      BY <3>1, <3>2, EndOfLineFacts
    <3>4. PICK line : line = TrimRight(LineAt(t, i), White)
      OBVIOUS
    <3>5. line \in Seq(R)
      <4>1. PICK s : s = LineAt(t, i) /\ s = SubSeq(t, i, e)
        BY <3>2 DEF LineAt
      <4>2. s \in Seq(R) /\ Len(s) \in Nat
        BY <3>1, <3>3, <4>1, SliceStep
      <4>3. PICK n \in 0..Len(s) : TrimRight(s, White) = SubSeq(s, 1, n)
        BY <4>2, TrimRightFacts
      <4>4. 1 \in 1 .. Len(s) + 1 /\ n \in 1 - 1 .. Len(s)
        BY <4>2
      <4>5. SubSeq(s, 1, n) \in Seq(R)
        BY <4>2, <4>4, SliceFacts
      <4> QED
        BY <3>4, <4>1, <4>3, <4>5
    <3>6. c[e + 1] \in Seq(Seq(R))
      <4>1. L - (e + 1) \in 0 .. L - 1 /\ L - (L - (e + 1)) = e + 1 /\ ~(m <= L - (e + 1))
        BY <1>1, <2>2, <2>3, <3>1, <3>3
      <4> QED
        BY <2>1, <4>1
    <3>7. c[i] = (IF line = << >> THEN << >> ELSE << line >>) \o c[e + 1]
      BY <2>4, <2>6, <3>2, <3>4 DEF ContentFrom
    <3>8. (IF line = << >> THEN << >> ELSE << line >>) \in Seq(Seq(R))
      BY <3>5
    <3>9. c[i] \in Seq(Seq(R))
      BY <3>6, <3>7, <3>8, ConcatProperties
    <3> QED
      BY <2>1, <2>2, <3>9
  <2> QED
    BY <2>5, <2>6
<1>3. L - k \in 0 .. L - 1 /\ L - (L - k) = k
  BY <1>1
<1> QED
  BY <1>2, <1>3

\* A first line of white space has no content.
LEMMA ContentSkips ==
  ASSUME NEW R, NEW t \in Seq(R), NEW k \in 1..Len(t), EndOfLine(t, 1) = k,
         \A j \in 1..k : t[j] \in White
  PROVE  Content(t) = Content(SubSeq(t, k + 1, Len(t)))
<1>1. Len(t) \in Nat /\ k \in Nat /\ k \in 0..Len(t)
  OBVIOUS
<1>2. PICK u : u = SubSeq(t, k + 1, Len(t))
  OBVIOUS
<1>3. u \in Seq(R) /\ Len(u) = Len(t) - k /\ Len(u) \in Nat
  BY <1>1, <1>2, RestOfText
<1>4. PICK c : Contents(t, c) /\ Content(t) = c[1]
  BY ContentIs
<1>5. PICK f : Contents(u, f) /\ Content(u) = f[1]
  BY <1>3, ContentIs
<1> DEFINE L == Len(u) + 1
           Stuck == {m \in 0 .. L - 1 : c[k + (L - m)] # f[L - m]}
<1>6. L \in Nat /\ L = Len(u) + 1
  BY <1>3
<1>7. Stuck = {}
  <2> SUFFICES ASSUME Stuck # {} PROVE FALSE
    OBVIOUS
  <2>1. PICK m \in Stuck : \A n \in Stuck : m <= n
    <3>1. Stuck \subseteq Nat
      OBVIOUS
    <3> HIDE DEF Stuck
    <3> QED
      BY <3>1, LeastExists
  <2>2. PICK i : i = L - m
    OBVIOUS
  <2>3. i \in 1..L /\ m \in 0 .. L - 1 /\ k + i \in 1 .. Len(t) + 1 /\ c[k + i] # f[i]
    BY <1>1, <1>3, <1>6, <2>1, <2>2
  <2>4. c[k + i] = ContentFrom(t, c, k + i)
    BY <1>4, <2>3 DEF Contents
  <2>5. f[i] = ContentFrom(u, f, i)
    BY <1>5, <1>6, <2>3 DEF Contents
  <2>6. CASE i > Len(u)
    <3>1. k + i > Len(t)
      BY <1>1, <1>3, <2>3, <2>6
    <3> QED
      BY <2>3, <2>4, <2>5, <2>6, <3>1 DEF ContentFrom
  <2>7. CASE ~(i > Len(u))
    <3>1. i \in 1 .. Len(t) - k /\ i \in 1..Len(u) /\ ~(k + i > Len(t))
      BY <1>1, <1>3, <1>6, <2>3, <2>7
    <3>2. EndOfLine(t, k + i) = k + EndOfLine(u, i) /\ LineAt(t, k + i) = LineAt(u, i)
      BY <1>1, <1>2, <3>1, LineShift
    <3>3. PICK e : e = EndOfLine(u, i)
      OBVIOUS
    <3>4. e \in i..Len(u)
      BY <1>3, <3>1, <3>3, EndOfLineFacts
    <3>5. L - (e + 1) \in 0 .. L - 1 /\ L - (L - (e + 1)) = e + 1 /\ ~(m <= L - (e + 1))
          /\ k + (e + 1) = (k + e) + 1
      <4>1. /\ k \in Nat /\ m \in Nat /\ i \in Nat \ {0} /\ e \in Nat /\ L \in Nat
            /\ i <= e /\ e + 1 <= L
        BY <1>1, <1>3, <1>6, <2>3, <3>1, <3>4
      <4>2. m = L - i
        BY <2>2, <2>3, <4>1
      <4> HIDE DEF L, Stuck
      <4> QED
        BY <4>1, <4>2
    <3>6. c[k + (L - (L - (e + 1)))] = f[L - (L - (e + 1))]
      BY <2>1, <3>5
    <3>7. c[(k + e) + 1] = f[e + 1]
      BY <3>5, <3>6
    <3>8. c[k + i] = f[i]
      BY <2>4, <2>5, <2>7, <3>1, <3>2, <3>3, <3>7 DEF ContentFrom
    <3> QED
      BY <2>3, <3>8
  <2> QED
    BY <2>6, <2>7
<1>8. c[k + 1] = f[1]
  <2>1. L - 1 \in 0 .. L - 1 /\ L - (L - 1) = 1
    BY <1>6
  <2> QED
    BY <1>7, <2>1
<1>9. TrimRight(LineAt(t, 1), White) = << >>
  <2>1. PICK s : s = LineAt(t, 1) /\ s = SubSeq(t, 1, k)
    BY DEF LineAt
  <2>2. s \in Seq(R) /\ Len(s) = k /\ \A j \in 1..k : s[j] = t[j]
    <3>1. 1 \in 1..Len(t) /\ k \in 1..Len(t) /\ k - 1 + 1 = k /\ \A j \in 1..k : j - 1 + 1 = j
      BY <1>1
    <3>2. /\ SubSeq(t, 1, k) \in Seq(R) /\ Len(SubSeq(t, 1, k)) = k - 1 + 1
          /\ \A j \in 1..k : SubSeq(t, 1, k)[j - 1 + 1] = t[j]
      BY <3>1, SliceStep
    <3> QED
      BY <2>1, <3>1, <3>2
  <2>3. PICK n \in 0..Len(s) : TrimRight(s, White) = SubSeq(s, 1, n) /\ (n > 0 => s[n] \notin White)
    BY <2>2, TrimRightFacts
  <2>4. n = 0
    <3> SUFFICES ASSUME n # 0 PROVE FALSE
      OBVIOUS
    <3>1. n > 0 /\ n \in 1..k
      BY <1>1, <2>2
    <3> QED
      BY <2>2, <2>3, <3>1
  <2>5. SubSeq(s, 1, 0) = << >>
    BY SubSeqEmpty
  <2> QED
    BY <2>1, <2>3, <2>4, <2>5
<1>10. c[1] = << >> \o c[k + 1]
  <2>1. 1 \in 1 .. Len(t) + 1 /\ ~(1 > Len(t))
    BY <1>1
  <2>2. c[1] = ContentFrom(t, c, 1)
    BY <1>4, <2>1 DEF Contents
  <2> QED
    BY <1>9, <2>1, <2>2 DEF ContentFrom
<1>11. c[k + 1] \in Seq(Seq(R))
  <2>1. PICK a : a = k + 1
    OBVIOUS
  <2>2. a \in 1 .. Len(t) + 1
    BY <1>1, <2>1
  <2>3. c[a] \in Seq(Seq(R))
    BY <1>4, <2>2, ContentType
  <2> QED
    BY <2>1, <2>3
<1>12. c[1] = c[k + 1]
  BY <1>10, <1>11, ConcatEmptySeq
<1> QED
  BY <1>2, <1>4, <1>5, <1>8, <1>12

\* What FilesReadAsWritten says of a text.
TextReadAsWritten(text) ==
  LET split == ExtractFrontMatter(text)
      fences == {i \in LineStarts(text) \ {1} : IsFence(LineAt(text, i))}
      second == Min(fences)
  IN /\ IsFence(TrimLeft(LineAt(text, 1), Blank)) /\ fences # {} =>
          /\ split.closed
          /\ Content(split.yaml) = Content(SubSeq(text, EndOfLine(text, 1) + 1, second - 1))
          /\ split.body = SubSeq(text, EndOfLine(text, second) + 1, Len(text))
     /\ ~IsPrefix(Fence, TrimLeft(text, Blank)) => split = Split(<< >>, text)

LEMMA TextIsRead ==
  ASSUME NEW R, NEW t \in Seq(R)
  PROVE  TextReadAsWritten(t)
<1> DEFINE split == ExtractFrontMatter(t)
           fences == {i \in LineStarts(t) \ {1} : IsFence(LineAt(t, i))}
           second == Min(fences)
           e == EndOfLine(t, 1)
<1>1. ASSUME IsFence(TrimLeft(LineAt(t, 1), Blank)), fences # {}
      PROVE  /\ split.closed
             /\ Content(split.yaml) = Content(SubSeq(t, e + 1, second - 1))
             /\ split.body = SubSeq(t, EndOfLine(t, second) + 1, Len(t))
  <2>1. PICK d \in 1..e :
           /\ second \in e + 1 .. Len(t) /\ t[e] = "\n"
           /\ \A j \in d + 1 .. e : t[j] \in White
           /\ split = Split(SubSeq(t, d + 1, second - 1), SubSeq(t, EndOfLine(t, second) + 1, Len(t)))
    BY <1>1, SplitAtFence
  <2>2. /\ split.closed /\ split.yaml = SubSeq(t, d + 1, second - 1)
        /\ split.body = SubSeq(t, EndOfLine(t, second) + 1, Len(t))
    <3> HIDE DEF split, second
    <3> QED
      BY <2>1 DEF Split
  <2>3. Content(SubSeq(t, d + 1, second - 1)) = Content(SubSeq(t, e + 1, second - 1))
    <3>1. PICK l, z : l = e /\ z = second - 1
      OBVIOUS
    <3>2. Len(t) \in Nat /\ l \in 1..Len(t) /\ \A j \in 1 .. l - 1 : t[j] # "\n"
      <4>1. Len(t) \in Nat /\ 1 \in 1..Len(t)
        <5>1. fences \subseteq DOMAIN t
          BY DEF LineStarts
        <5>2. PICK i : i \in DOMAIN t
          BY <1>1, <5>1
        <5> QED
          BY <5>2
      <4> QED
        BY <3>1, <4>1, EndOfLineFacts
    <3>3. l \in Nat /\ z \in l..Len(t) /\ z \in Nat /\ d \in 1..l /\ d \in Nat
      <4>1. second \in l + 1 .. Len(t) /\ d \in 1..l
        BY <2>1, <3>1
      <4> HIDE DEF second
      <4> QED
        BY <3>1, <3>2, <4>1
    <3>4. \A j \in d + 1 .. l : t[j] \in White
      BY <2>1, <3>1
    <3>5. t[l] = "\n"
      BY <2>1, <3>1
    <3> HIDE DEF e, second, split, fences
    <3>6. CASE d = l
      BY <3>1, <3>6
    <3>7. CASE d # l
      <4>1. PICK a, k : a = d + 1 /\ k = l - d
        OBVIOUS
      <4>2. PICK v : v = SubSeq(t, a, z)
        OBVIOUS
      <4>3. a \in 1 .. Len(t) + 1 /\ z \in a - 1 .. Len(t)
        BY <3>2, <3>3, <3>7, <4>1
      <4>4. v \in Seq(R) /\ Len(v) = z - a + 1 /\ \A i \in 1 .. z - a + 1 : v[i] = t[a + i - 1]
        BY <4>2, <4>3, SliceFacts
      <4>5. k \in 1..Len(v) /\ Len(v) = z - d /\ Len(v) \in Nat /\ \A i \in 1..Len(v) : a + i - 1 = d + i
        BY <3>2, <3>3, <3>7, <4>1, <4>4
      <4>6. \A i \in 1..Len(v) : v[i] = t[d + i]
        BY <4>4, <4>5
      <4>7. \A i \in 1..k : i \in 1..Len(v) /\ d + i \in d + 1 .. l
        BY <3>3, <4>1, <4>5
      <4>8. \A i \in 1 .. k - 1 : i \in 1..Len(v) /\ d + i \in 1 .. l - 1
        BY <3>3, <4>1, <4>5
      <4>9. v[k] = "\n"
        <5>1. k \in 1..Len(v) /\ d + k = l
          BY <3>3, <4>1, <4>5
        <5> QED
          BY <3>5, <4>6, <5>1
      <4>10. EndOfLine(v, 1) = k
        <5>1. 1 \in 1..Len(v)
          BY <4>5
        <5>2. \A i \in 1 .. k - 1 : v[i] # "\n"
          BY <3>2, <4>6, <4>8
        <5> QED
          BY <4>4, <4>5, <4>9, <5>1, <5>2, EndOfLineIs
      <4>11. \A i \in 1..k : v[i] \in White
        BY <3>4, <4>6, <4>7
      <4>12. Content(v) = Content(SubSeq(v, k + 1, Len(v)))
        BY <4>4, <4>5, <4>10, <4>11, ContentSkips
      <4>13. SubSeq(v, k + 1, Len(v)) = SubSeq(t, l + 1, z)
        <5>1. PICK b, x : b = k + 1 /\ x = Len(v)
          OBVIOUS
        <5>2. x = z - d /\ x \in Nat
          BY <4>5, <5>1
        <5>3. b \in 1 .. z - a + 2 /\ x \in b - 1 .. z - a + 1
          BY <3>3, <3>7, <4>1, <5>1, <5>2
        <5>4. a + b - 1 = l + 1 /\ a + x - 1 = z
          <6>1. b = k + 1
            BY <5>1
          <6> QED
            BY <3>3, <4>1, <5>2, <6>1
        <5>5. SubSeq(SubSeq(t, a, z), b, x) = SubSeq(t, a + b - 1, a + x - 1)
          BY <4>3, <5>3, SliceOfSlice
        <5> QED
          BY <4>2, <5>1, <5>4, <5>5
      <4> QED
        BY <3>1, <4>1, <4>2, <4>12, <4>13
    <3> QED
      BY <3>6, <3>7
  <2> QED
    BY <2>2, <2>3
<1>2. ASSUME ~IsPrefix(Fence, TrimLeft(t, Blank)) PROVE split = Split(<< >>, t)
  BY <1>2 DEF ExtractFrontMatter
<1> QED
  BY <1>1, <1>2 DEF TextReadAsWritten

-----------------------------------------------------------------------------
(***************************************************************************)
(* SEGMENTS OF A PATH                                                      *)
(***************************************************************************)

IsHyphen(ch) == ch = "-"

\* What CollapseHyphens has kept after the i-th character of s.
Collapsed(f, s, i) ==
  IF i = 0 THEN << >>
  ELSE IF IsHyphen(s[i]) /\ (f[i - 1] = << >> \/ IsHyphen(Last(f[i - 1])))
       THEN f[i - 1] ELSE Append(f[i - 1], s[i])

Collapses(f, s) == f = [i \in 0..Len(s) |-> Collapsed(f, s, i)]

LEMMA CollapseExists ==
  ASSUME NEW s, NEW k \in Nat
  PROVE  \E f : f = [i \in 0..k |-> Collapsed(f, s, i)]
<1> DEFINE Stuck == {m \in Nat : ~\E f : f = [i \in 0..m |-> Collapsed(f, s, i)]}
<1> SUFFICES ASSUME Stuck # {} PROVE FALSE
  OBVIOUS
<1>1. PICK m \in Stuck : \A n \in Stuck : m <= n
  BY LeastExists
<1>2. \E f : f = [i \in 0 .. m - 1 |-> Collapsed(f, s, i)]
  <2>1. CASE m = 0
    <3>1. 0 .. m - 1 = {}
      BY <2>1
    <3> QED
      BY <3>1
  <2>2. CASE m # 0
    <3>1. m - 1 \in Nat /\ ~(m <= m - 1)
      BY <1>1, <2>2
    <3> QED
      BY <1>1, <3>1
  <2> QED
    BY <2>1, <2>2
<1>3. PICK f : f = [i \in 0 .. m - 1 |-> Collapsed(f, s, i)]
  BY <1>2
<1> DEFINE g == [i \in 0..m |-> Collapsed(f, s, i)]
<1>4. ASSUME NEW i \in 0..m, i # 0 PROVE g[i - 1] = f[i - 1]
  <2>1. i - 1 \in 0 .. m - 1 /\ i - 1 \in 0..m
    BY <1>4
  <2> QED
    BY <1>3, <2>1
<1>5. \A i \in 0..m : Collapsed(g, s, i) = Collapsed(f, s, i)
  <2> HIDE DEF g
  <2> QED
    BY <1>4 DEF Collapsed
<1>6. g = [i \in 0..m |-> Collapsed(g, s, i)]
  BY <1>5
<1> QED
  BY <1>1, <1>6

LEMMA CollapseIs ==
  ASSUME NEW s, Len(s) \in Nat
  PROVE  \E f : Collapses(f, s) /\ CollapseHyphens(s) = TrimRight(f[Len(s)], {"-"})
<1>1. CollapseHyphens(s) = TrimRight((CHOOSE f : Collapses(f, s))[Len(s)], {"-"})
  BY DEF CollapseHyphens, Collapses, Collapsed, IsHyphen
<1>2. \E f : Collapses(f, s)
  BY CollapseExists DEF Collapses
<1> QED
  BY <1>1, <1>2

\* No hyphen at the beginning or behind another.
Clean(s) ==
  /\ Len(s) >= 1 => ~IsHyphen(s[1])
  /\ \A i \in 2..Len(s) : IsHyphen(s[i]) => ~IsHyphen(s[i - 1])

LEMMA CleanAppend ==
  ASSUME NEW R, NEW s \in Seq(R), NEW ch \in R, Clean(s),
         ~(IsHyphen(ch) /\ (s = << >> \/ IsHyphen(Last(s))))
  PROVE  Append(s, ch) \in Seq(R) /\ Clean(Append(s, ch))
<1>1. PICK u : u = Append(s, ch)
  OBVIOUS
<1>2. /\ u \in Seq(R) /\ Len(u) = Len(s) + 1 /\ Len(s) \in Nat /\ u[Len(s) + 1] = ch
      /\ \A i \in 1..Len(s) : u[i] = s[i]
  BY <1>1, AppendProperties
<1>3. PICK n : n = Len(s)
  OBVIOUS
<1>4. ASSUME Len(u) >= 1 PROVE ~IsHyphen(u[1])
  <2>1. CASE n = 0
    <3>1. Len(s) = 0 /\ Len(s) + 1 = 1
      BY <1>3, <2>1
    <3>2. s = << >>
      BY <3>1, EmptySeq
    <3>3. u[1] = ch
      BY <1>2, <3>1
    <3> QED
      BY <3>2, <3>3
  <2>2. CASE n # 0
    <3>1. Len(s) >= 1 /\ 1 \in 1..Len(s)
      BY <1>2, <1>3, <2>2
    <3> QED
      BY <1>2, <3>1 DEF Clean
  <2> QED
    BY <2>1, <2>2
<1>5. ASSUME NEW i \in 2..Len(u), IsHyphen(u[i]) PROVE ~IsHyphen(u[i - 1])
  <2>1. CASE i = n + 1
    <3>1. i - 1 = n /\ n \in 1..Len(s)
      BY <1>2, <1>3, <2>1
    <3>2. u[i] = ch /\ u[i - 1] = s[n] /\ s # << >>
      BY <1>2, <1>3, <2>1, <3>1
    <3> QED
      BY <1>3, <1>5, <3>2 DEF Last
  <2>2. CASE i # n + 1
    <3>1. i \in 2..Len(s) /\ i \in 1..Len(s) /\ i - 1 \in 1..Len(s)
      BY <1>2, <1>3, <2>2
    <3>2. u[i] = s[i] /\ u[i - 1] = s[i - 1]
      BY <1>2, <3>1
    <3> QED
      BY <1>5, <3>1, <3>2 DEF Clean
  <2> QED
    BY <2>1, <2>2
<1> QED
  BY <1>1, <1>2, <1>4, <1>5 DEF Clean

LEMMA CollapseClean ==
  ASSUME NEW R, NEW s \in Seq(R), NEW f, Collapses(f, s)
  PROVE  f[Len(s)] \in Seq(R) /\ Clean(f[Len(s)])
<1> DEFINE Stuck == {m \in 0..Len(s) : ~(f[m] \in Seq(R) /\ Clean(f[m]))}
<1>1. Len(s) \in Nat /\ Len(s) \in 0..Len(s)
  OBVIOUS
<1>2. Stuck = {}
  <2> SUFFICES ASSUME Stuck # {} PROVE FALSE
    OBVIOUS
  <2>1. PICK m \in Stuck : \A n \in Stuck : m <= n
    <3>1. Stuck \subseteq Nat
      OBVIOUS
    <3> HIDE DEF Stuck
    <3> QED
      BY <3>1, LeastExists
  <2>2. m \in 0..Len(s) /\ ~(f[m] \in Seq(R) /\ Clean(f[m]))
    BY <2>1
  <2>3. f[m] = Collapsed(f, s, m)
    BY <2>2 DEF Collapses
  <2>4. CASE m = 0
    <3>1. f[m] = << >>
      BY <2>3, <2>4 DEF Collapsed
    <3>2. << >> \in Seq(R) /\ Len(<< >>) = 0
      BY EmptySeq
    <3>3. Clean(<< >>)
      BY <3>2 DEF Clean
    <3> QED
      BY <2>2, <3>1, <3>2, <3>3
  <2>5. CASE m # 0
    <3>1. m - 1 \in 0..Len(s) /\ ~(m <= m - 1) /\ m \in 1..Len(s)
      BY <1>1, <2>2, <2>5
    <3>2. PICK g : g = f[m - 1]
      OBVIOUS
    <3>3. g \in Seq(R) /\ Clean(g)
      BY <2>1, <3>1, <3>2
    <3>4. s[m] \in R
      BY <3>1, ElementOfSeq
    <3>5. CASE IsHyphen(s[m]) /\ (g = << >> \/ IsHyphen(Last(g)))
      <4>1. f[m] = g
        BY <2>3, <2>5, <3>2, <3>5 DEF Collapsed
      <4> QED
        BY <2>2, <3>3, <4>1
    <3>6. CASE ~(IsHyphen(s[m]) /\ (g = << >> \/ IsHyphen(Last(g))))
      <4>1. f[m] = Append(g, s[m])
        BY <2>3, <2>5, <3>2, <3>6 DEF Collapsed
      <4>2. Append(g, s[m]) \in Seq(R) /\ Clean(Append(g, s[m]))
        BY <3>3, <3>4, <3>6, CleanAppend
      <4> QED
        BY <2>2, <4>1, <4>2
    <3> QED
      BY <3>5, <3>6
  <2> QED
    BY <2>4, <2>5
<1> QED
  BY <1>1, <1>2

CanonicalSegments == {s \in Seq(Chars) : IsCanonical(s)}

\* What IsCanonical asks of a sequence of the characters.
LEMMA CanonicalFacts ==
  ASSUME NEW s \in Seq(Chars)
  PROVE  IsCanonical(s) <=> s # << >> /\ Clean(s) /\ ~IsHyphen(s[Len(s)])
<1>1. DOMAIN s = 1..Len(s) /\ Len(s) \in Nat
  BY LenProperties
<1>2. ToSet(s) \subseteq Chars
  <2>1. \A i \in 1..Len(s) : s[i] \in Chars
    BY ElementOfSeq
  <2> QED
    BY <1>1, <2>1 DEF ToSet
<1>3. IsCanonical(s) <=> /\ s # << >> /\ ~IsHyphen(s[1]) /\ ~IsHyphen(s[Len(s)])
                         /\ \A i \in DOMAIN s : i > 1 /\ IsHyphen(s[i]) => ~IsHyphen(s[i - 1])
  BY <1>2 DEF IsCanonical, Last, IsHyphen
<1>4. s # << >> => Len(s) >= 1
  BY <1>1, EmptySeq
<1>5. \A i : i \in 2..Len(s) <=> i \in DOMAIN s /\ i > 1
  BY <1>1
<1> QED
  BY <1>3, <1>4, <1>5 DEF Clean

LEMMA NormalIsCanonical ==
  ASSUME NEW segment \in Seq(DOMAIN Lower)
  PROVE  NormalSegment(segment) = << >> \/ NormalSegment(segment) \in CanonicalSegments
<1>1. PICK l : l = ToLower(segment)
  OBVIOUS
<1>2. l \in Seq(DOMAIN Lower)
  <2>1. DOMAIN segment = 1..Len(segment) /\ Len(segment) \in Nat
    BY LenProperties
  <2>2. \A i \in 1..Len(segment) : Lower[segment[i]] \in DOMAIN Lower
    BY ElementOfSeq, FileFormatsAssumption DEF FileFormatsAssumption
  <2>3. l = [i \in 1..Len(segment) |-> Lower[segment[i]]]
    BY <1>1, <2>1 DEF ToLower
  <2> QED
    BY <2>1, <2>2, <2>3
<1>3. PICK stem : stem = Stem(l)
  OBVIOUS
<1>4. stem \in Seq(DOMAIN Lower)
  <2> DEFINE dots == {i \in DOMAIN l : l[i] = "."}
  <2>1. CASE dots = {}
    BY <1>2, <1>3, <2>1 DEF Stem
  <2>2. CASE dots # {}
    <3>1. DOMAIN l = 1..Len(l) /\ Len(l) \in Nat
      BY <1>2, LenProperties
    <3>2. dots \subseteq 1..Len(l)
      BY <3>1
    <3>3. Max(dots) \in 1..Len(l)
      <4> HIDE DEF dots
      <4> QED
        BY <2>2, <3>1, <3>2, MaxFacts
    <3>4. PICK m : m = Max(dots) - 1
      OBVIOUS
    <3>5. 1 \in 1 .. Len(l) + 1 /\ m \in 1 - 1 .. Len(l)
      <4> HIDE DEF dots
      <4> QED
        BY <3>1, <3>3, <3>4
    <3>6. SubSeq(l, 1, m) \in Seq(DOMAIN Lower)
      BY <1>2, <3>5, SliceFacts
    <3>7. stem = SubSeq(l, 1, Max(dots) - 1)
      BY <1>3, <2>2 DEF Stem
    <3> QED
      BY <3>4, <3>6, <3>7
  <2> QED
    BY <2>1, <2>2
<1>5. PICK h : h = Hyphenated(stem)
  OBVIOUS
<1>6. h \in Seq(Chars)
  <2>1. DOMAIN stem = 1..Len(stem) /\ Len(stem) \in Nat
    BY <1>4, LenProperties
  <2>2. h = [i \in 1..Len(stem) |-> IF stem[i] \in Chars THEN stem[i] ELSE "-"]
    BY <1>5, <2>1 DEF Hyphenated, Chars
  <2>3. "-" \in Chars
    BY DEF Chars
  <2>4. \A i \in 1..Len(stem) : (IF stem[i] \in Chars THEN stem[i] ELSE "-") \in Chars
    BY <2>3
  <2> QED
    BY <2>1, <2>2, <2>4
<1>7. PICK f : Collapses(f, h) /\ CollapseHyphens(h) = TrimRight(f[Len(h)], {"-"})
  BY <1>6, CollapseIs
<1>8. PICK k : k = f[Len(h)]
  OBVIOUS
<1>9. k \in Seq(Chars) /\ Clean(k) /\ Len(k) \in Nat
  BY <1>6, <1>7, <1>8, CollapseClean
<1>10. PICK m \in 0..Len(k) : TrimRight(k, {"-"}) = SubSeq(k, 1, m) /\ (m > 0 => k[m] \notin {"-"})
  BY <1>9, TrimRightFacts
<1>11. NormalSegment(segment) = SubSeq(k, 1, m)
  BY <1>1, <1>3, <1>5, <1>7, <1>8, <1>10 DEF NormalSegment
<1>12. CASE m = 0
  BY <1>11, <1>12, SubSeqEmpty
<1>13. CASE m # 0
  <2>1. PICK s : s = SubSeq(k, 1, m)
    OBVIOUS
  <2>2. s \in Seq(Chars) /\ Len(s) = m /\ \A i \in 1..m : s[i] = k[i]
    <3>1. 1 \in 1 .. Len(k) + 1 /\ m \in 1 - 1 .. Len(k) /\ m - 1 + 1 = m /\ \A i \in 1..m : 1 + i - 1 = i
      BY <1>9
    <3>2. s \in Seq(Chars) /\ Len(s) = m - 1 + 1 /\ \A i \in 1 .. m - 1 + 1 : s[i] = k[1 + i - 1]
      BY <1>9, <2>1, <3>1, SliceFacts
    <3> QED
      BY <3>1, <3>2
  <2>3. m \in 1..m /\ 1 \in 1..m /\ Len(k) >= 1
    BY <1>9, <1>13
  <2>4. ~IsHyphen(s[m])
    BY <1>10, <1>13, <2>2, <2>3 DEF IsHyphen
  <2>5. \A i \in 2..m : i \in 2..Len(k) /\ i \in 1..m /\ i - 1 \in 1..m
    BY <1>9
  <2>6. Clean(s)
    BY <1>9, <2>2, <2>3, <2>5 DEF Clean
  <2>7. s # << >>
    BY <1>13, <2>2, EmptySeq
  <2>8. IsCanonical(s)
    BY <2>2, <2>4, <2>6, <2>7, CanonicalFacts
  <2> QED
    BY <1>11, <2>1, <2>2, <2>8 DEF CanonicalSegments
<1> QED
  BY <1>12, <1>13

LEMMA OneMore ==
  ASSUME NEW R, NEW t \in Seq(R), NEW m \in 1..Len(t)
  PROVE  Append(SubSeq(t, 1, m - 1), t[m]) = SubSeq(t, 1, m)
<1>1. Len(t) \in Nat /\ m - 1 \in Nat /\ 1 \in 1..Len(t) /\ m \in 1..Len(t)
  OBVIOUS
<1>2. SubSeq(t, 1, m) = SubSeq(t, 1, m - 1) \o << t[m] >>
  BY <1>1, SubSeqRecursiveSecond
<1>3. SubSeq(t, 1, m - 1) \in Seq(R)
  <2>1. PICK k : k = m - 1
    OBVIOUS
  <2>2. 1 \in 1 .. Len(t) + 1 /\ k \in 1 - 1 .. Len(t)
    BY <1>1, <2>1
  <2> QED
    BY <2>1, <2>2, SliceFacts
<1>4. t[m] \in R
  BY ElementOfSeq
<1> QED
  BY <1>2, <1>3, <1>4, AppendIsConcat

\* A canonical segment stays as it is.
LEMMA CanonicalStays ==
  ASSUME NEW s \in CanonicalSegments
  PROVE  ToLower(s) = s /\ NormalSegment(s) = s
<1>1. /\ s \in Seq(Chars) /\ s # << >> /\ Clean(s) /\ ~IsHyphen(s[Len(s)])
      /\ DOMAIN s = 1..Len(s) /\ Len(s) \in Nat
  BY CanonicalFacts, LenProperties DEF CanonicalSegments
<1>2. Len(s) \in 1..Len(s) /\ Len(s) >= 1
  <2>1. Len(s) # 0
    BY <1>1, EmptySeq
  <2> QED
    BY <1>1, <2>1
<1>3. \A i \in 1..Len(s) : s[i] \in Chars
  BY <1>1, ElementOfSeq
<1>4. \A ch \in Chars : Lower[ch] = ch /\ ch # "."
  BY FileFormatsAssumption DEF FileFormatsAssumption, Chars
<1>5. s = [i \in 1..Len(s) |-> s[i]]
  BY <1>1
<1>6. ToLower(s) = s
  BY <1>1, <1>3, <1>4, <1>5 DEF ToLower
<1>7. Stem(s) = s
  <2>1. {i \in DOMAIN s : s[i] = "."} = {}
    BY <1>1, <1>3, <1>4
  <2> QED
    BY <2>1 DEF Stem
<1>8. Hyphenated(s) = s
  BY <1>1, <1>3, <1>5 DEF Hyphenated, Chars
<1>9. PICK f : Collapses(f, s) /\ CollapseHyphens(s) = TrimRight(f[Len(s)], {"-"})
  BY <1>1, CollapseIs
<1> DEFINE Stuck == {m \in 0..Len(s) : f[m] # SubSeq(s, 1, m)}
<1>10. Stuck = {}
  <2> SUFFICES ASSUME Stuck # {} PROVE FALSE
    OBVIOUS
  <2>1. PICK m \in Stuck : \A n \in Stuck : m <= n
    <3>1. Stuck \subseteq Nat
      OBVIOUS
    <3> HIDE DEF Stuck
    <3> QED
      BY <3>1, LeastExists
  <2>2. m \in 0..Len(s) /\ f[m] # SubSeq(s, 1, m)
    BY <2>1
  <2>3. f[m] = Collapsed(f, s, m)
    BY <1>9, <2>2 DEF Collapses
  <2>4. CASE m = 0
    BY <2>2, <2>3, <2>4, SubSeqEmpty DEF Collapsed
  <2>5. CASE m # 0
    <3>1. m - 1 \in 0..Len(s) /\ ~(m <= m - 1) /\ m \in 1..Len(s)
      BY <1>1, <2>2, <2>5
    <3>2. PICK k : k = m - 1
      OBVIOUS
    <3>3. k \in 0..Len(s) /\ k \in Nat
      BY <3>1, <3>2
    <3>4. PICK g : g = f[k]
      OBVIOUS
    <3>5. g = SubSeq(s, 1, k)
      BY <2>1, <3>1, <3>2, <3>4
    <3>6. g \in Seq(Chars) /\ Len(g) = k /\ \A i \in 1..k : g[i] = s[i]
      <4>1. 1 \in 1 .. Len(s) + 1 /\ k \in 1 - 1 .. Len(s) /\ k - 1 + 1 = k /\ \A i \in 1..k : 1 + i - 1 = i
        BY <1>1, <3>3
      <4>2. g \in Seq(Chars) /\ Len(g) = k - 1 + 1 /\ \A i \in 1 .. k - 1 + 1 : g[i] = s[1 + i - 1]
        BY <1>1, <3>5, <4>1, SliceFacts
      <4> QED
        BY <4>1, <4>2
    <3>7. ~(IsHyphen(s[m]) /\ (g = << >> \/ IsHyphen(Last(g))))
      <4> SUFFICES ASSUME IsHyphen(s[m]), g = << >> \/ IsHyphen(Last(g)) PROVE FALSE
        OBVIOUS
      <4>1. CASE k = 0
        <5>1. m = 1
          BY <3>1, <3>2, <4>1
        <5> QED
          BY <1>1, <1>2, <5>1 DEF Clean
      <4>2. CASE k # 0
        <5>1. k \in 1..k /\ m \in 2..Len(s) /\ m - 1 = k
          BY <3>1, <3>2, <3>3, <4>2
        <5>2. g # << >>
          BY <3>6, <4>2, EmptySeq
        <5>3. IsHyphen(s[k])
          BY <3>6, <5>1, <5>2 DEF Last
        <5> QED
          BY <1>1, <5>1, <5>3 DEF Clean
      <4> QED
        BY <4>1, <4>2
    <3>8. f[m] = Append(g, s[m])
      BY <2>3, <2>5, <3>2, <3>4, <3>7 DEF Collapsed
    <3>9. Append(SubSeq(s, 1, m - 1), s[m]) = SubSeq(s, 1, m)
      BY <1>1, <3>1, OneMore
    <3> QED
      BY <2>2, <3>2, <3>5, <3>8, <3>9
  <2> QED
    BY <2>4, <2>5
<1>11. f[Len(s)] = s
  <2>1. Len(s) \in 0..Len(s)
    BY <1>1
  <2>2. f[Len(s)] = SubSeq(s, 1, Len(s))
    BY <1>10, <2>1
  <2> QED
    BY <1>1, <2>2, SubSeqFull
<1>12. TrimRight(s, {"-"}) = s
  <2>1. PICK m \in 0..Len(s) : /\ TrimRight(s, {"-"}) = SubSeq(s, 1, m)
                               /\ \A j \in m + 1 .. Len(s) : s[j] \in {"-"}
    BY <1>1, TrimRightFacts
  <2>2. \A j \in m + 1 .. Len(s) : IsHyphen(s[j])
    BY <2>1 DEF IsHyphen
  <2>3. m = Len(s)
    <3> SUFFICES ASSUME m # Len(s) PROVE FALSE
      OBVIOUS
    <3>1. PICK n : n = Len(s)
      OBVIOUS
    <3>2. n \in Nat /\ m \in 0..n /\ m # n
      BY <1>1, <3>1
    <3>3. n \in m + 1 .. n
      BY <3>2
    <3>4. Len(s) \in m + 1 .. Len(s)
      BY <3>1, <3>3
    <3> QED
      BY <1>1, <2>2, <3>4
  <2> QED
    BY <1>1, <2>1, <2>3, SubSeqFull
<1> QED
  BY <1>6, <1>7, <1>8, <1>9, <1>11, <1>12 DEF NormalSegment

-----------------------------------------------------------------------------
(***************************************************************************)
(* PATHS                                                                   *)
(***************************************************************************)

\* The path of the first i segments.
PathOf(f, raw, i) ==
  IF i = 0 THEN << >>
  ELSE IF IsReadme(raw[i]) \/ NormalSegment(raw[i]) = << >> THEN f[i - 1]
  ELSE Append(f[i - 1], NormalSegment(raw[i]))

PathsOf(f, raw) == f = [i \in 0..Len(raw) |-> PathOf(f, raw, i)]

Below(raw) == IF Len(raw) > 1 /\ raw[1] = << "tasks" >> THEN Tail(raw) ELSE raw

LEMMA PathsOfExist ==
  ASSUME NEW raw, NEW k \in Nat
  PROVE  \E f : f = [i \in 0..k |-> PathOf(f, raw, i)]
<1> DEFINE Stuck == {m \in Nat : ~\E f : f = [i \in 0..m |-> PathOf(f, raw, i)]}
<1> SUFFICES ASSUME Stuck # {} PROVE FALSE
  OBVIOUS
<1>1. PICK m \in Stuck : \A n \in Stuck : m <= n
  BY LeastExists
<1>2. \E f : f = [i \in 0 .. m - 1 |-> PathOf(f, raw, i)]
  <2>1. CASE m = 0
    <3>1. 0 .. m - 1 = {}
      BY <2>1
    <3> QED
      BY <3>1
  <2>2. CASE m # 0
    <3>1. m - 1 \in Nat /\ ~(m <= m - 1)
      BY <1>1, <2>2
    <3> QED
      BY <1>1, <3>1
  <2> QED
    BY <2>1, <2>2
<1>3. PICK f : f = [i \in 0 .. m - 1 |-> PathOf(f, raw, i)]
  BY <1>2
<1> DEFINE g == [i \in 0..m |-> PathOf(f, raw, i)]
<1>4. ASSUME NEW i \in 0..m, i # 0 PROVE g[i - 1] = f[i - 1]
  <2>1. i - 1 \in 0 .. m - 1 /\ i - 1 \in 0..m
    BY <1>4
  <2> QED
    BY <1>3, <2>1
<1>5. \A i \in 0..m : PathOf(g, raw, i) = PathOf(f, raw, i)
  <2> HIDE DEF g
  <2> QED
    BY <1>4 DEF PathOf
<1>6. g = [i \in 0..m |-> PathOf(g, raw, i)]
  BY <1>5
<1> QED
  BY <1>1, <1>6

LEMMA PathIs ==
  ASSUME NEW raw, Len(Below(raw)) \in Nat
  PROVE  \E f : PathsOf(f, Below(raw)) /\ NormalizePath(raw) = f[Len(Below(raw))]
<1>1. NormalizePath(raw) = (CHOOSE f : PathsOf(f, Below(raw)))[Len(Below(raw))]
  BY DEF NormalizePath, PathsOf, PathOf, Below
<1>2. \E f : PathsOf(f, Below(raw))
  BY PathsOfExist DEF PathsOf
<1> QED
  BY <1>1, <1>2

\* A path is made of canonical segments.
LEMMA PathIsCanonical ==
  ASSUME NEW raw \in Seq(Seq(DOMAIN Lower))
  PROVE  NormalizePath(raw) \in Seq(CanonicalSegments)
<1>1. PICK below : below = Below(raw)
  OBVIOUS
<1>2. below \in Seq(Seq(DOMAIN Lower))
  <2>1. CASE Len(raw) > 1 /\ raw[1] = << "tasks" >>
    <3>1. raw # << >>
      BY <2>1, EmptySeq
    <3> QED
      BY <1>1, <2>1, <3>1, HeadTailProperties DEF Below
  <2>2. CASE ~(Len(raw) > 1 /\ raw[1] = << "tasks" >>)
    BY <1>1, <2>2 DEF Below
  <2> QED
    BY <2>1, <2>2
<1>3. Len(below) \in Nat /\ Len(below) \in 0..Len(below)
  BY <1>2, LenProperties
<1>4. PICK f : PathsOf(f, below) /\ NormalizePath(raw) = f[Len(below)]
  BY <1>1, <1>3, PathIs
<1> DEFINE Stuck == {m \in 0..Len(below) : f[m] \notin Seq(CanonicalSegments)}
<1>5. Stuck = {}
  <2> SUFFICES ASSUME Stuck # {} PROVE FALSE
    OBVIOUS
  <2>1. PICK m \in Stuck : \A n \in Stuck : m <= n
    <3>1. Stuck \subseteq Nat
      OBVIOUS
    <3> HIDE DEF Stuck
    <3> QED
      BY <3>1, LeastExists
  <2>2. m \in 0..Len(below) /\ f[m] \notin Seq(CanonicalSegments)
    BY <2>1
  <2>3. f[m] = PathOf(f, below, m)
    BY <1>4, <2>2 DEF PathsOf
  <2>4. CASE m = 0
    <3>1. f[m] = << >>
      BY <2>3, <2>4 DEF PathOf
    <3> QED
      BY <2>2, <3>1, EmptySeq
  <2>5. CASE m # 0
    <3>1. m - 1 \in 0..Len(below) /\ ~(m <= m - 1) /\ m \in 1..Len(below)
      BY <1>3, <2>2, <2>5
    <3>2. f[m - 1] \in Seq(CanonicalSegments)
      BY <2>1, <3>1
    <3>3. f[m] # f[m - 1]
      BY <2>2, <3>2
    <3>4. ~(IsReadme(below[m]) \/ NormalSegment(below[m]) = << >>)
      BY <2>3, <2>5, <3>3 DEF PathOf
    <3>5. f[m] = Append(f[m - 1], NormalSegment(below[m]))
      BY <2>3, <2>5, <3>4 DEF PathOf
    <3>6. below[m] \in Seq(DOMAIN Lower)
      BY <1>2, <3>1, ElementOfSeq
    <3>7. NormalSegment(below[m]) \in CanonicalSegments
      BY <3>4, <3>6, NormalIsCanonical
    <3>8. f[m] \in Seq(CanonicalSegments)
      BY <3>2, <3>5, <3>7, AppendProperties
    <3> QED
      BY <2>2, <3>8
  <2> QED
    BY <2>4, <2>5
<1> QED
  BY <1>3, <1>4, <1>5

\* A canonical path stays as it is, unless a README or the directory of the
\* tasks is read into it.
LEMMA PathStays ==
  ASSUME NEW p \in Seq(CanonicalSegments), << "readme" >> \notin ToSet(p),
         ~IsPrefix(<< << "tasks" >> >>, p)
  PROVE  NormalizePath(p) = p
<1>1. Len(p) \in Nat /\ DOMAIN p = 1..Len(p) /\ Len(p) \in 0..Len(p)
  BY LenProperties
<1>2. Below(p) = p
  <2> SUFFICES ASSUME Len(p) > 1, p[1] = << "tasks" >> PROVE FALSE
    BY DEF Below
  <2>1. PICK s : s = << << "tasks" >> >>
    OBVIOUS
  <2>2. s \in Seq({<< "tasks" >>}) /\ Len(s) = 1 /\ s[1] = << "tasks" >>
    BY <2>1
  <2>3. Len(p) >= 1 /\ Len(s) >= 1 /\ 1 <= Len(p)
    BY <1>1, <2>2
  <2>4. SubSeq(p, 1, 1) = << p[1] >>
    BY <2>3, FirstSlice
  <2>5. SubSeq(s, 1, 1) = << s[1] >>
    BY <2>2, <2>3, FirstSlice
  <2>6. IsPrefix(s, p)
    BY <2>2, <2>3, <2>4, <2>5 DEF IsPrefix
  <2> QED
    BY <2>1, <2>6
<1>3. PICK f : PathsOf(f, p) /\ NormalizePath(p) = f[Len(p)]
  BY <1>1, <1>2, PathIs
<1>4. \A i \in 1..Len(p) : p[i] \in CanonicalSegments /\ p[i] # << "readme" >>
  <2>1. \A i \in 1..Len(p) : p[i] \in CanonicalSegments
    BY ElementOfSeq
  <2>2. \A i \in 1..Len(p) : p[i] \in ToSet(p)
    BY <1>1 DEF ToSet
  <2> QED
    BY <2>1, <2>2
<1>5. ASSUME NEW s \in CanonicalSegments, s # << "readme" >>
      PROVE  ~IsReadme(s) /\ NormalSegment(s) = s /\ s # << >>
  <2>1. ToLower(s) = s /\ NormalSegment(s) = s
    BY CanonicalStays
  <2>2. s \in Seq(Chars) /\ s # << >>
    BY CanonicalFacts DEF CanonicalSegments
  <2>3. s # ReadmeFile
    <3> SUFFICES ASSUME s = ReadmeFile PROVE FALSE
      OBVIOUS
    <3>1. Len(s) = 3 /\ s[2] = "."
      BY DEF ReadmeFile
    <3>2. 2 \in 1..Len(s)
      BY <3>1
    <3>3. "." \in Chars
      BY <2>2, <3>1, <3>2, ElementOfSeq
    <3> QED
      BY <3>3, FileFormatsAssumption DEF FileFormatsAssumption, Chars
  <2> QED
    BY <1>5, <2>1, <2>2, <2>3 DEF IsReadme
<1> DEFINE Stuck == {m \in 0..Len(p) : f[m] # SubSeq(p, 1, m)}
<1>6. Stuck = {}
  <2> SUFFICES ASSUME Stuck # {} PROVE FALSE
    OBVIOUS
  <2>1. PICK m \in Stuck : \A n \in Stuck : m <= n
    <3>1. Stuck \subseteq Nat
      OBVIOUS
    <3> HIDE DEF Stuck
    <3> QED
      BY <3>1, LeastExists
  <2>2. m \in 0..Len(p) /\ f[m] # SubSeq(p, 1, m)
    BY <2>1
  <2>3. f[m] = PathOf(f, p, m)
    BY <1>3, <2>2 DEF PathsOf
  <2>4. CASE m = 0
    BY <2>2, <2>3, <2>4, SubSeqEmpty DEF PathOf
  <2>5. CASE m # 0
    <3>1. m - 1 \in 0..Len(p) /\ ~(m <= m - 1) /\ m \in 1..Len(p)
      BY <1>1, <2>2, <2>5
    <3>2. f[m - 1] = SubSeq(p, 1, m - 1)
      BY <2>1, <3>1
    <3>3. ~IsReadme(p[m]) /\ NormalSegment(p[m]) = p[m] /\ p[m] # << >>
      BY <1>4, <1>5, <3>1
    <3>4. f[m] = Append(f[m - 1], p[m])
      BY <2>3, <2>5, <3>3 DEF PathOf
    <3>5. Append(SubSeq(p, 1, m - 1), p[m]) = SubSeq(p, 1, m)
      BY <3>1, OneMore
    <3> QED
      BY <2>2, <3>2, <3>4, <3>5
  <2> QED
    BY <2>4, <2>5
<1>7. f[Len(p)] = SubSeq(p, 1, Len(p))
  BY <1>1, <1>6
<1> QED
  BY <1>3, <1>7, SubSeqFull

\* What PathsCanonical says of a path.
PathCanonical(p) ==
  /\ \A i \in DOMAIN p : IsCanonical(p[i])
  /\ << "readme" >> \in ToSet(p) \/ IsPrefix(<< << "tasks" >> >>, p) \/ NormalizePath(p) = p

LEMMA NormalPathCanonical ==
  ASSUME NEW raw \in Seq(Seq(DOMAIN Lower))
  PROVE  PathCanonical(NormalizePath(raw))
<1>1. PICK p : p = NormalizePath(raw)
  OBVIOUS
<1>2. p \in Seq(CanonicalSegments)
  BY <1>1, PathIsCanonical
<1>3. DOMAIN p = 1..Len(p) /\ \A i \in 1..Len(p) : p[i] \in CanonicalSegments
  BY <1>2, LenProperties, ElementOfSeq
<1>4. \A i \in DOMAIN p : IsCanonical(p[i])
  BY <1>3 DEF CanonicalSegments
<1>5. << "readme" >> \in ToSet(p) \/ IsPrefix(<< << "tasks" >> >>, p) \/ NormalizePath(p) = p
  BY <1>2, PathStays
<1> QED
  BY <1>1, <1>4, <1>5 DEF PathCanonical

-----------------------------------------------------------------------------
(***************************************************************************)
(* WHAT BECOMES OF THE FILES                                               *)
(***************************************************************************)

LEMMA ScannedEntry ==
  ASSUME TypeOK, NEW i \in 1..Len(input)
  PROVE  \E files \in Scans : i \in DOMAIN files /\ input[i] = EntryOf(files[i])
<1>1. PICK files \in Scans : input = Entries(files)
  BY ScansAssumption DEF TypeOK
<1>2. DOMAIN input = 1..Len(input)
  BY ParseAssumption, LenProperties DEF TypeOK
<1>3. DOMAIN input = DOMAIN files /\ \A j \in DOMAIN files : input[j] = EntryOf(files[j])
  BY <1>1 DEF Entries
<1> QED
  BY <1>2, <1>3

\* An entry has the kind of its file, and that of a Markdown file its text.
LEMMA EntryFacts ==
  ASSUME NEW file, file.kind \in {"task", "iteration", "root", "team", "sla"}
  PROVE  /\ EntryOf(file).kind = file.kind
         /\ file.kind \in {"task", "iteration"} => EntryOf(file).text = file.text
         /\ file.kind = "task" /\ ~EntryOf(file).bad =>
              EntryOf(file).task.path = NormalizePath(file.path)
<1>1. CASE file.kind = "task"
  <2>1. EntryOf(file) = TaskEntry(file)
    BY <1>1 DEF EntryOf
  <2>2. CASE TaskFails(FrontMatter(file.text))
    BY <1>1, <2>1, <2>2 DEF TaskEntry, BadText
  <2>3. CASE ~TaskFails(FrontMatter(file.text))
    <3>1. EntryOf(file) = [kind |-> "task", bad |-> FALSE, text |-> file.text,
                           upper |-> ContainsUppercase(file.path), task |-> ParseTask(file)]
      BY <2>1, <2>3 DEF TaskEntry
    <3>2. ParseTask(file).path = NormalizePath(file.path)
      BY DEF ParseTask
    <3> QED
      BY <1>1, <3>1, <3>2
  <2> QED
    BY <2>2, <2>3
<1>2. CASE file.kind = "iteration"
  <2>1. EntryOf(file) = IterationEntry(file)
    BY <1>2 DEF EntryOf
  <2>2. EntryOf(file).kind = "iteration" /\ EntryOf(file).text = file.text
    BY <1>2, <2>1 DEF IterationEntry, BadText
  <2> QED
    BY <1>2, <2>2
<1>3. CASE file.kind = "root"
  <2>1. EntryOf(file) = RootEntry(file)
    BY <1>3 DEF EntryOf
  <2> QED
    BY <1>3, <2>1 DEF RootEntry, Bad
<1>4. CASE file.kind = "team"
  <2>1. EntryOf(file) = TeamEntry(file)
    BY <1>4 DEF EntryOf
  <2> QED
    BY <1>4, <2>1 DEF TeamEntry, Bad
<1>5. CASE file.kind = "sla"
  <2>1. EntryOf(file) = SLAEntry(file)
    BY <1>5 DEF EntryOf
  <2> QED
    BY <1>5, <2>1 DEF SLAEntry, Bad
<1> QED
  BY <1>1, <1>2, <1>3, <1>4, <1>5

\* Whatever is in a Markdown file: if it begins with a fence and has another, it
\* is split into the lines between the first two and everything behind, and if
\* it does not begin with dashes all of it is the body (frontmatter.go:43-107).
THEOREM FrontMatterSplit == Spec => []FilesReadAsWritten
<1>1. ASSUME TypeOK, phase = "files" /\ read < Len(input),
             input[read + 1].kind \in {"task", "iteration"}
      PROVE  TextReadAsWritten(input[read + 1].text)
  <2>1. PICK i : i = read + 1
    OBVIOUS
  <2>2. i \in 1..Len(input)
    <3>1. Len(input) \in Nat /\ read \in 0..Len(input)
      BY <1>1, ParseAssumption, LenProperties DEF TypeOK
    <3> QED
      BY <1>1, <2>1, <3>1
  <2>3. PICK files \in Scans : i \in DOMAIN files /\ input[i] = EntryOf(files[i])
    BY <1>1, <2>2, ScannedEntry
  <2>4. files[i].kind \in {"task", "iteration", "root", "team", "sla"}
    BY <2>3, ScansAssumption
  <2>5. input[i].text = files[i].text /\ files[i].text \in Seq(STRING)
    BY <1>1, <2>1, <2>3, <2>4, EntryFacts, ScansAssumption
  <2>6. TextReadAsWritten(input[i].text)
    BY <2>5, TextIsRead
  <2> QED
    BY <2>1, <2>6
<1>2. TypeOK => FilesReadAsWritten
  BY <1>1 DEF FilesReadAsWritten, TextReadAsWritten
<1> QED
  BY <1>2, TypeCorrect, PTL

\* Whatever the files and their directories are called: the paths of the tasks
\* are made of canonical segments and are normal forms (path.go:28-109).
THEOREM EveryPathCanonical == Spec => []PathsCanonical
<1>1. ASSUME IInv, SoFar, phase = "done", NEW p \in DOMAIN tasks
      PROVE  PathCanonical(p)
  <2>1. DOMAIN tasks = KeptPaths /\ phase \notin {"files", "failed"}
    BY <1>1 DEF SoFar, TasksSoFar
  <2>2. PICK i : i \in FilesAt(p)
    BY <2>1 DEF KeptPaths
  <2>3. i \in 1..Len(input) /\ input[i].kind = "task" /\ input[i].task.path = p /\ ~input[i].bad
    BY <1>1, <2>1, <2>2 DEF FilesAt, IInv, FilesRead
  <2>4. PICK files \in Scans : i \in DOMAIN files /\ input[i] = EntryOf(files[i])
    BY <1>1, <2>3, ScannedEntry DEF IInv
  <2>5. /\ files[i].kind \in {"task", "iteration", "root", "team", "sla"}
        /\ files[i].path \in Seq(Seq(DOMAIN Lower))
    BY <2>4, ScansAssumption
  <2>6. p = NormalizePath(files[i].path)
    BY <2>3, <2>4, <2>5, EntryFacts
  <2> QED
    BY <2>5, <2>6, NormalPathCanonical
<1>2. IInv /\ SoFar => PathsCanonical
  BY <1>1 DEF PathsCanonical, PathCanonical
<1> QED
  BY <1>2, InductiveInvariant, LoopsFollowDefinition, PTL

=============================================================================
