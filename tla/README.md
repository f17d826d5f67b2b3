# TLA+ models of tsk-lib

tsk-lib indexes a directory of Markdown tasks, teams, iterations and SLA rules
into a SQLite database and answers queries in a small language about them.
This directory holds TLA+ models of its core, the TLC runs that check them on
small instances, and TLAPS proofs about them for every value of the constants.

## Inventory

| Component | State | Operations | What makes it correct |
|---|---|---|---|
| `scan` | none | walk a root directory, classify files | every file of a quiet tree once; not a snapshot of a busy one |
| `parse` | a `Repository` under construction | `Parse`: files, path conflicts, redirects, dependencies, statuses, hierarchy, warnings | the result does not depend on the order of Go's map loops; redirects end; each stub has a target or a diagnostic |
| `model` | none | paths, durations, sorting, diagnostics | canonical paths; durations survive their text form |
| `query` | none | lexer, parser, validator, in-memory evaluator | a query means what its grammar says; the evaluator and the SQL agree |
| `sql` | none | compile a query to a SELECT | as above |
| `store` | eleven tables in SQLite, WAL mode | `WriteRepository`, `QueryTasks`, `TaskByPath`, `AllTasks`, team and iteration readers | a rewrite is all or nothing, for readers, failures and crashes |
| `engine` | options only | `Index`, `Query`, `Search`, `TaskByPath` | an answer is made of committed content; failures are reported |
| `engine/sla.go` | none | results per rule and task | the most recent start and stop count; a stored result errs on one side only |
| `search` | none | two scorers, highlights | they agree: every matching task, best first, and the marked bytes are the words |
| `conformance` | none | fixture runner for tests | test support |

`Engine.Index` calls the scanner, the parser, `evaluateSLA` and
`Store.WriteRepository` in this order. `Engine.Query` calls the query parser,
the validator, the compiler (which calls back into the engine, and through it
into the store, for `me()`, `my_team()` and `team()`) and `Store.QueryTasks`.
Any number of goroutines and processes may do so on one database file; nothing
but SQLite's own locking keeps them apart. What is hard here is what happens
between two statements: another process commits, a statement fails, the process
dies; and, within one `Parse`, the random order of Go's map iteration.

### What is hard to test

`PROJECT.json` lists every hazard at its line with the properties that would
catch it. They fall into seven groups.

- *Between two statements.* `Query` runs several statements without a
  transaction: team names, members of each team, the SELECT, and one more SELECT
  for each path it returned. An `Index` may commit between any two of them.
- *In the middle of a rewrite.* `WriteRepository` runs eleven `DELETE`s and an
  `INSERT` per row; any of them may fail, the process may die at any of them,
  and another process may be at any other of them.
- *Random order.* The loops of `Parse` range over Go maps. One of them follows
  chains of redirects that run through one another's stubs.
- *Two engines.* SLA rules are matched by the evaluator in memory, for no user
  and without SLA results, queries by SQL, for the user the engine is given. A
  query is validated first, a rule's is only parsed (sla.go:26). SQL has NULL,
  inner joins and the order of texts where the evaluator has absent values,
  existence and the order of instants.
- *Time and staleness.* SLA results are computed by `Index` and compared by
  later queries; two overlapping `Index` calls may commit in the wrong order.
- *A directory that moves.* The walk lists a directory once and reads its files
  later, one after the other, while people edit, rename and delete.
- *Boundaries of hand-written loops.* The lexer looks one character ahead, the
  fence of a front matter has four ways to end, durations are rounded on their
  way to a text, positions of matches count bytes of another text.

## Plan

The order puts first what other parts rely on. All of it is modelled.

1. **`Tables`, `StoreAbs`, `Store`**: a rewrite of the database, as an atomic
   store and statement by statement. `Store` is proved to implement `StoreAbs`.
2. **`Engine`** extends `StoreAbs`: the reading calls against concurrent
   rewrites. Because of 1, a rewrite is one step here.
3. **`Parse`**, and **`FileFormats`** below it: from scanned files to a resolved
   repository.
4. **`Comparison`, `Query`**: one predicate, then expressions of them, through
   the validator, the evaluator and the compiler.
5. **`Durations`, `SLA`**: what `Index` measures, and what it is worth later.
6. **`Index`** extends `Tables`: the walk as steps against an editor, and several
   overlapping calls up to the commit, which by 1 is one step.
7. **`Lexer`, `Parser`**: the text of a query to an expression.
8. **`Search`**: scores, order and highlights.

Every safety property the runs check is proved, too; what stays with TLC is
liveness.

## Modules and the code

`PROJECT.json` maps each definition to its lines. In every module the
definitions called *faulty variants* are plausible bugs of the one that follows
them; they are not part of a specification, and serve to show that a property
notices.

**`Tables`** holds the conversions between a repository and rows. A row is
`<<table, key, val>>`; a repository is a record with one set of entities per
loop of `WriteRepository`; `RowsOf` are the rows of an entity, `Image` those of
a repository, `TaskByPath`, `AllTasks`, `AllTeamNames` and `TeamMembers` the
reading methods. `ScanTask` loses a task's labels, dependencies and log exactly
where the reading method of the code does. Columns of dates and durations are
left to `Comparison`.

**`Store`** is `SQLiteStore.WriteRepository`. `call[w]` is the argument of
indexer `w`'s call, `cleared[w]` counts its `DELETE`s, `todo[w]` has what its
loops have yet to insert, `view[w]` is the database as its transaction sees it,
`lock` is SQLite's write lock.

| Action | Code |
|---|---|
| `BeginTx` | `BeginTx`, deferred: no lock yet |
| `ClearTable` | one `DELETE FROM`, in the order of the list; the first takes the lock |
| `InsertEntity` | one iteration of a loop: the entity's row and what it owns |
| `Commit`, `Return` | `tx.Commit`, and the return to the caller |
| `Fail` | an error of any statement, a conflict of keys included, and the deferred `Rollback`; or a failing `COMMIT`, which SQLite undoes itself, so that the `Rollback` finds nothing to do |
| `Crash` | the process dies at any statement; SQLite rolls back |

**`StoreAbs`** is what the store promises: a call is invoked, takes effect at
one instant between its invocation and its end (`Apply`), and is then
acknowledged, or rejected without effect. `Abandon` is a crash, before or after
the effect.

**`Engine`** is `Query`, `Search` and `TaskByPath`. `phase[c]` is the statement
that runs next.

| Action | Code |
|---|---|
| `Submit` | the call begins: parse, validate; a malformed query returns at once |
| `ReadNames`, `ReadMembers` | `CurrentUserAliases`, `CurrentUserTeams`, `TeamMembers` as the compiler calls them; a failing statement is ignored, as `engine.go:232` does (`missed` records it) |
| `Select`, `Hydrate`, `ReturnTasks` | `QueryTasks`: the SELECT of paths, then each task again by its path, one that is gone skipped |
| `Search`, `Lookup` | the one statement of `Search` and `TaskByPath` |
| `Fail` | every other failing statement ends the call with its error |
| `Index` | a step of `StoreAbs` |

`history`, `from` and `missed` are not in the code: they record the contents
committed during a call, for the properties.

**`Parse`** is `DefaultParser.Parse`, in the order of its calls: `ParseEntry`,
`ParseFails` and `CheckConfig` (the files), `KeepTask` (path conflicts),
`StartChain`, `Follow`, `ChainEnds`, `ChainTooDeep`, `ChainInvalid` (stubs, one
redirect a step; the diagnostic of a rejected chain is filed under the stub it
began at, while the code also names the path it stopped at),
`ResolveDependencies`, `ResolveStatus`, `ResolveHierarchy`, `CheckPathWarnings`. `pending` has the keys of the map a loop has yet to visit;
any of them may be next.

**`FileFormats`** makes the entries that `Parse` works on from files.
`NormalizePath` is the path of a task, segment by segment;
`ExtractFrontMatter`, with `SkipNewline` and `FindClosingFence`, splits the text
of a Markdown file; `ParseTask`, `IterationEntry`, `TeamEntry` (with `Email`),
`RootEntry` and `SLAEntry` are `parseTask`, `parseIteration` and `config.go`, with
the conditions under which they fail. Texts are sequences of characters, except
that a word no character of which matters is one element. What YAML makes of one
line, and TOML of a file, is given. `Scans` are the sequences of files a scan may
find; `Parse`'s inputs are what `Entries` makes of them (`ScansAssumption`).

**`Comparison`** is one predicate: `MemCompare` and what it uses for
`eval.go`, `SQLCompare` for `compiler.go`, `OperatorError` and `ValueError` for
`validate.go`. The evaluator is given its user, as an `EvalContext` has one: "" in
an SLA rule (sla.go:37). The three truth values of SQL and the meaning of `LIKE` and of
comparison of texts are SQLite's, modelled from how the compiler uses them.
Dates, durations and numbers are tables given as constants: what `time.Parse`,
`ParseDuration` and `ResolveDate` return for each text. A value has what the
column holds and what the field holds in memory, and these need not agree.

**`Query`** builds expressions as the parser does, on a stack: `Primary`,
`Negate`, `Combine`. Each pass of the program is a recursion over the
expression that uses only what it returned for the parts, so an expression is
the record of what every pass returns for it. `exact`, `sound` and `safe` mark
the fragments of the language the properties are about; they say of each
primary why the engines should agree on it, and no part of the program computes
them. Outside these fragments the engines differ in ways the code makes no
promise about (or does: see the findings). The evaluator runs twice: `mem` is its
answer in `EngineContext`, with the user and the SLA results that the SQL uses,
and `rule` in `RuleContext`, as `evaluateSLA` calls it, with neither. `impersonal`
marks the queries that ask for neither `me()`, `my_team()` nor `sla`.

**`Durations`** is `model/duration.go`: `MinutesOf` for `ParseDuration`, `TextOf`
for `String`. Two constants hold the numbers at which the `float64` in between
falls below a whole minute or rounds up.

**`SLA`** is `engine/sla.go` with what surrounds it. `task` is the file of the
task with its change log, which people edit in any order (`SetStatus`,
`EnterPast`, `SetField`, `Redirect`) while the clock goes on (`Tick`).

| Action | Code |
|---|---|
| `Read` | `Index` begins: the files are scanned and parsed |
| `Evaluate` | `evaluateSLA` with the time of that moment: the rules that parse and select the task, the last start and stop events of its log, elapsed minutes, status |
| `Write` | `WriteRepository`: the rows, with durations as texts |
| `Fail` | the scan, the parser or the store fails; the old rows stay |

`stored` is the table `sla_results`, with the file and the time it was
measured from, for the properties.

**`Index`** is `FSScanner.Scan` and the rest of `Engine.Index`. `history` has
every version of the files, `scan[w]` the walk of indexer `w`.

| Action | Code |
|---|---|
| `Begin`, `EnterDir` | `filepath.WalkDir`: a directory is listed once, in one step; hidden ones are skipped, one that has gone fails the scan, an empty one is passed |
| `ReadFile` | `classify` and `os.ReadFile`, in one step; a file that is gone fails the scan |
| `Cancel` | the context ends |
| `Submit`, `ParseFails` | the parser |
| `Commit`, `WriteFails` | `WriteRepository`, a step by `StoreAbs` |
| `WriteFile`, `Delete`, `Rename`, `RenameDir` | people |

A directory below which there is no file may have been left on the disk or not:
`Empty` are those that a listing may show, and entering one may find nothing or
fail.

**`Lexer`** is `query/lexer.go`, a step per branch of `lex`. **`Parser`** extends
it with `query/parser.go`: a step is a token consumed or a method's return, the
stack has the methods in progress. `ParseList` and `NextArg` are the two loops
that treat commas differently.

**`Search`** is `search/search.go`: `ScoreTask` counts (`Search`),
`ScoreTaskWithHighlights` collects positions (`SearchWithHighlights`,
which `Engine.Search` calls); `Score` and `Rank` are the loop and the sort.

## Runs

Passing runs:

| Run | Question | States |
|---|---|---|
| `store` | is a rewrite all or nothing, whatever interleaves, fails or dies; does it implement `StoreAbs`; does it end | 2,393 |
| `engine` | what may a caller rely on while the content changes | 18,211 |
| `parse` | are files read as written, is the result independent of map order, and complete | 162,844 |
| `query` | where must evaluator and SQL agree, do AND and OR narrow and widen | 44,739 |
| `sla` | what is a measured SLA worth, now and later, whatever is in the log | 1,850,002 |
| `index` | what may be relied on when directories change under the walk and calls overlap | 1,064,781 |
| `syntax` | does a query mean what the grammar says, and is every text answered | 232,926 |
| `search` | do the two scorers agree, and do the marked bytes read as the words | 43,666 |

What they show:

- `store`: the committed content is the image of one whole repository
  (`CommittedWhole`); the write lock is held exactly while a transaction writes;
  rewriting never meets a key of the previous content (`NoSpuriousConflict`);
  the program implements `StoreAbs`; every call ends. That none leaves its
  transaction open is part of `LockHeldWhileWriting`: a lock that outlives its
  call breaks it, while other calls would still end, with SQLITE_BUSY.
- `engine`: an undisturbed call answers exactly, aliases and teams of `me()`,
  `my_team()` and `team()` included (`QuietAnswerExact`, which by its premise says
  nothing of a call with a commit or a failing statement in it); a disturbed one
  returns only tasks of contents committed meanwhile (`NothingInvented`) and
  all those that match throughout (`StableMatchReturned`, not for `me()`);
  `ErrTaskNotFound` means absence (`NotFoundMeansAbsent`); calls return.
- `parse`: front matter and body are what is between the first two fences and
  behind the second, with either end of lines, dashes elsewhere, no last newline
  (`FilesReadAsWritten`); whatever files and directories are called, paths are
  canonical (`PathsCanonical`); stubs lead out of stubs (`StubsLeadOut`),
  dependencies name no resolvable stub (`DependenciesResolved`), each stub has a
  target or a diagnostic (`StubsSettled`), and the result is that of a definition
  without loops (`OrderIndependent`), cycles and the limit of depth included.
- `query`: a query that passes the validator, in the safe fragment, gets from SQL
  what the evaluator selects for the same user and SLA results, and, if it asks
  for neither, what an SLA rule of the same text selects (`SafeQueriesAgree`);
  under AND of two iteration
  predicates SQL, which wants one iteration for both, may return less but never
  more (`SQLAddsNothing`); AND narrows always and OR widens whenever the
  validator accepts it, despite the inner joins.
- `sla`: a stale status is never worse than the true one and a completed SLA does
  not change (`StaleIsNoWorse`); with a log in the order of time the most recent
  events count (`OrderedLogMostRecent`); elapsed times of past events are not
  negative, whatever was reopened or entered late (`NeverNegative`); the status
  fits the remaining time stored as a rounded text beside it
  (`StatusFitsRemaining`) and is exact to two minutes (`BreachesOnTime`).
- `index`: an entry was a file at some time of the scan, and no path is read twice
  (`EntriesReal`; a file renamed meanwhile may be read under both its names); a
  file that exists all the time is found (`PresentScanned`), and a
  document renamed within its directory is found once or the scan fails
  (`RenamedInDirectoryOnce`, which rests on a listing being one step: `os.ReadDir`
  reads a long directory in batches, and between two of them a rename may show
  both names or none); the database is current when the call that
  committed last began after the last edit (`LastBegunIsCurrent`). Its premise
  leaves out the call that began earlier and commits last: such a call puts old
  files back, and no property excludes it. A document moved between directories
  may be missed or found twice.
- `syntax`: tokens cover the text without gaps and overlaps (`TokensTile`), every
  text has a string that means it (`EveryTextQuotable`), the parser returns the
  tree of the grammar for its sentences and an error for all others
  (`ParsedAsGrammar`), and always returns (`EveryQueryAnswered`).
- `search`: both scorers give every task the same score (`ScorersAgree`); the
  tasks returned are those in which a word occurs, the best first
  (`ExactlyTheFound`); marked ranges read as words of the query
  (`HighlightsReadAsWords`), except as said below.

Runs that find a claim of the source violated:

| Run | Claim | What the code does |
|---|---|---|
| `not_me` | validate.go:193, all operators are valid for strings | `assignee != me()` becomes IN and returns the user's own tasks |
| `query_not` | compiler.go:92, NOT negates existence | it negates each joined row |
| `query_durations` | validate.go:17, durations support ordering | `"3d"` is taken for a relative date and rejected; padded by a space, `" 3d"` passes |
| `hidden_root` | scanner.go:24, Scan walks the root directory | a root named `.` is skipped as hidden: no entries, no error |

### Divergences without a run of their own

They are in the models, or were met on the way, and the properties above are
stated so as not to promise what they break.

- Reading while content changes: a commit after the SELECT makes `QueryTasks`
  return a task that no longer matches, or a stub (store.go:355); renaming the
  user's team between two statements loses the user's aliases (engine.go:236);
  errors while resolving `me()` are dropped (engine.go:232); without a current
  user, `my_team()` is each team with a member that has no address
  (engine.go:268).
- Users: the context in which rules are evaluated has no user (sla.go:37), so a
  rule's `me()` and `my_team()` are those of the members without an address,
  whoever runs `Index`, while the same text as a query means the engine's user.
  SLA results it has none of either, and no check keeps `sla` out of a rule.
- What is stored and what is read: tasks returned by queries lack labels,
  dependencies and log (store.go:354 and 420, `ScanTask`); `Search` reads
  `AllTasks`, which loads no labels either, so labels are never found; an absent text is
  stored as `''`, which SQL compares and the evaluator does not (store.go:134,
  eval.go:318); the evaluator compares weights as texts (eval.go:340); a number
  in a list gets a placeholder and no parameter (compiler.go:142).
- SLA: with a log that is not in the order of time an older event may win
  (sla.go:112); `due` events (model/sla.go:32) never occur; the stop of an
  earlier cycle is stored beside the start of a reopened one; the queries of
  rules are not validated when they are parsed (sla.go:26); 100 minutes are
  counted as 99, through a float; elapsed time is wall time, not work time.
- Files: without a second fence, a file whose last line ends in dashes is
  accepted, and the check that the comment at frontmatter.go:74 announces is not
  made; a body that begins with `----` is taken for front matter;
  normalisation cuts "extensions" off directories (path.go:55), and is not
  idempotent for paths that begin with `tasks` or have a `readme` that was
  something else before; redirects and dependencies are used as written, not
  normalised.
- Queries: `-` and `1.` are numbers (token.go:12); commas of a list may be
  missing or trail (parser.go:298); the position of a string's token is behind it
  (lexer.go:76).
- Search: positions count bytes of the text in lower case and are applied to the
  text itself (search.go:22 and 211); they are off behind a letter whose lower
  case has another length.

### Bounds

- `store`: two indexers, so that one can be at any statement of the other. Three
  repositories: two that use the same primary keys with different values, one
  that declares a rule twice so that an insert fails by itself. An indexer's part
  in the state is bounded by its call; nothing is counted.
- `engine`: one client suffices, since clients share nothing; `MaxCommits = 2`
  gives a call three contents, of which one commit may fall before and one after
  each of its statements. The three contents change a status, turn a task into a
  stub, remove a task, rename and remove the user's team, and keep one task as it
  is.
- `parse`: `MaxRedirectDepth = 3` is the constant of the code. Four files are the
  fewest with a chain one longer than it. All graphs of task, redirect to
  one of four, to a missing and to a dotted path are covered but for renaming the
  four, with every order of the loops. Front matter comes in every combination of
  seven first lines, eight texts of YAML, four second fences, four bodies, two
  ends of lines and a last newline or none; pairs of files under every
  combination of seven directories and seven names. Other kinds of files,
  malformed ones too, are in eight cases.
- `query`: `MaxNodes = 5` gives three predicates with two connectives, or two
  with NOTs, the fewest for an OR under an AND across two namespaces. The 26
  primaries have every form, every kind of value and every namespace; the two
  repositories a task with several iterations and results, tasks with none, a
  stub, absent fields, and no teams at all.
- `sla`: `MaxEdits = 3`, so that a task can be completed, reopened and changed
  once more, in any order, with entries at either end of the log. The instants
  0, 30, 6000 and 6060 seconds lie on both sides of the warning, of the target,
  of a number of minutes that the float loses, and on no whole minute.
- `index`: two indexers, so that one can be anywhere in the other's walk; four
  paths in a directory, one below it and a hidden one; `MaxEdits = 2`, so that a
  file or directory may be moved and moved back, or be edited before and after it
  is read.
- `syntax`: 15,240 texts: every sequence of up to three of ten characters and up
  to four of five; every string of up to three characters with quotes and
  backslashes; every sequence of up to five words of expressions; all chains of
  four predicates with NOTs and parentheses; up to four words of values, lists and
  calls, correct or not.
- `search`: 5,934 pairs of a query and a summary of up to four characters, with
  overlapping occurrences, upper case, letters of two bytes, several labels, a
  stub and tasks of equal score.

### Fairness and deadlock

`store` assumes weak fairness of each indexer's next step, `engine` of each
client's, `parse` and `syntax` of the only thread. The code runs its statements one after
the other, and each ends with success or an error (`Open` sets no busy timeout: a
statement that finds the lock taken returns SQLITE_BUSY): a call in progress takes its next step. No
fairness is assumed of beginning a call or of any one outcome. `sla`, `index`
and `search` state safety only and assume none.
Deadlock is checked in all runs but those of `MCParse` and `MCQuery`: `Parse`
returns, and a query has an end, so their configurations say
`CHECK_DEADLOCK FALSE`; where `Parser` and `Search` return, they say so with a step
that changes nothing (`Answered`, `Returned`).

## Proofs

Each theorem holds for every value of the constants that satisfies the named
assumption of its module. Each rests on an inductive invariant that every
action is shown to preserve.

Many definitions are recursive functions, folds or minima. A recursive
definition of a function is a `CHOOSE`, so a proof about one first shows that the
recursion has a solution, and then what is true of every solution; both by the
least (or greatest) counterexample. That every set of natural numbers has a least
member (`LeastExists`) is proved in each module that argues in this way.

**`StoreProofs`** (`StoreAssumption`: the markers for "none" are not
repositories or indexers). `CommittedWhole` is not inductive: nothing in it says
what `Commit` will publish. The invariant adds, for each transaction (`TxInv`),
what its view is at each statement: while tables are being cleared, no row of a
cleared table; afterwards exactly the image of what it has inserted, with
distinct keys; and, by `LockHeldWhileWriting`, that no other transaction writes.
Theorems: `TypeCorrect`, `CommittedIsWhole`, `LockIsExact`,
`RewriteNeverConflicts`, and `Refinement`: each step of `Store` is a step of
`StoreAbs` or leaves its variables alone.

**`EngineProofs`** (`EngineAssumption`, `NoRepoAssumption`). The answer grows
while contents change, so the invariant says of every task found so far, in a
call in progress too, that a content of its window has it, and that the history
ends with the current content. Theorems: `TypeCorrect`, `AnswersAreReal`,
`NotFoundIsTrue`.
What is *missing* from an answer needs a second invariant, `Progress`, which says
how far each call has come. `Kept`: a task that all contents of the window hold
alike and count as a match is selected, and later waits to be read again or is in
the answer. `Exactly`: while no commit has fallen into the call, `who` has what
the teams read so far contribute, `paths` are what the query selects, and paths
and answer together are the exact answer. It holds for calls in the middle of
any statement, so every commit, of any number, is one step that leaves `Kept`
true and makes `Exactly` void. Theorems: `SteadyMatchesReturned`,
`QuietCallsExact`.

**`ParseProofs`** (`ParseAssumption`: the inputs are sequences of well-formed
entries; the limit is any number). `StubsSettled` speaks of the end of a loop;
the invariant has an account of it half-way (`Ledger`): a pending stub is
untouched, a visited one settled, and at most one has its chain being followed.
`DepsSoFar` is the same for dependencies. `SoFar` compares with the definition
of the result that has no loops: each key already visited has the task, target or
verdict of the definition, and the chain that is being followed is where `Hops`, a
recursive function, says it is after as many redirects. That a chain which ends
did so at the first place that is not a stub, and that one which is too deep has
no such place, is `OrderIndependent`: whatever order Go's maps are visited in.
Theorems: `LoopsFollowDefinition`, `ResultOrderIndependent`, `TypeCorrect`,
`ResolvedStubsLeadOut`, `EveryStubSettled`, `NoDependencyOnStub`, and
`HierarchyNeverActs`: `resolveHierarchy` never changes anything, because the
tasks it groups by path are already keyed by it.
Below the pipeline are facts about texts and paths of any length
(`FileFormatsAssumption`: lower case is idempotent, letters and digits are in it and
none of them is a hyphen, an underscore, a dot or a space, and lower case leaves
hyphen and underscore alone; `ScansAssumption`: a file has a name and one of five
kinds, and a Markdown file a text). `SplitAtFence` follows the code through
`trimmed` and `rest` and gives each of them its place in the text: the lines of
`rest` are lines of the text from some `d` on (`LineShift`), so the first closing
fence is the second fence of the text, and what is between `d` and the end of the
first line is white space, which has no content (`ContentSkips`). For paths,
`Clean` says what holds of a segment half-way through `collapseHyphens`; canonical
segments are left alone by every step (`CanonicalStays`). Theorems:
`FrontMatterSplit`, `EveryPathCanonical`.

**`QueryProofs`** (`ComparisonAssumption`, `QueryAssumption`: columns hold values
of their type, an absent text is stored as `''`, texts are ordered totally, the
parts of a primary are texts of the model). The invariant says of every
expression on the stack (`Good`) that its condition depends only on the joins it
asks for, that on the exact fragment it is never NULL and agrees row by row with
the evaluator, that an impersonal one is the same to an SLA rule, that on the
sound fragment a row that satisfies it belongs to a task the evaluator selects,
and that on the safe fragment each selected task has such a row. Locality is what
makes OR and AND across namespaces work; without it the row of one side says
nothing of the row of the other. Theorems:
`TypeCorrect`, `EnginesAgree`, `SQLSound`, `AndNarrowsAlways`,
`OrWidensAlways`. They hold for expressions of any size and for any
repository; that the columns a particular repository holds are ordered as texts
like the instants and durations they stand for is the condition `Faithful`, part
of the fragment and not proved.

**`IndexProofs`** (`IndexAssumption`: a path names a file or a directory, not
both; names are ordered totally). A scan is not a snapshot, so the invariant
(`WalkOK`) relates four things: the versions of the files since the scan began,
what it has listed and not visited, what it has found, and how far in the order
of `WalkDir` it has come. An item that is listed lies outside hidden directories
and under no other; a file that was there in all versions is found or lies under
an item (`Covered`); of a document that has been renamed exactly one name has been
listed once its directory was (`Followed`). The lemmas speak of sets of versions:
an edit adds one, a step of the walk preserves the relation for the current one.
`SourceInv` carries what was found through the parser into the database.
Theorems: `WalksFollowFiles`, `EntriesWereReal`, and, for a root that is not
hidden (`~RootHidden`; the run `hidden_root` shows why), `PresentFilesFound`,
`QuietScansExact`, `RenamedOnce`, `LastBegunCurrent`.

**`SLAProofs`** (`SLAAssumption`: instants are natural numbers, the `float64`
loses minutes only of whole positive minutes, no two rules of a repository have
one id, which is the primary key of `sla_rules`). The invariant, `RowsAreMeasured`,
says where stored rows come from: they are the results of a task whose events had
happened by the instant it was measured at, which is not after the present.
Everything else is arithmetic on results: elapsed minutes never fall while the
clock goes on, the float included; status and texts follow them. Theorems:
`RowsAreMeasured`, `StaleNoWorse`, `OrderedLogRecent`, `NeverNegativeTime`,
`StatusAndRemaining`, `BreachesInTime`.

**`SearchProofs`** (`SearchAssumption`: lower case is idempotent, every character
has at least one byte, the words of a query are not empty). The invariant says
that both lists hold, once each, the tasks read so far that have a score. That the
scores agree is a fact about texts: `strings.Count` and the loop of
`findAllPositions` are two recursions, and the count is the length of the
positions from any place on; sums of scores are recursions over finite sets.
Theorems: `ScoredAreListed`, `BothScorersAgree`, `ReturnsTheFound`,
`HighlightsAreWords`.

**`LexerProofs`**, on the lexer and the parser (`LexerAssumption`: letters are no
digits, the quote is none of the other characters with a meaning, an escaped quote
or escape stands for itself, and the end of the text is no character of a class).
The lexer's invariant says of
the text before `pos` that it is tiled (`Tiled`): every character is white space
or in a token, the tokens follow each other, and behind a word comes no character
of words. `Meant` says that the first token of a quoted text is the string that
means it, and that until there is one nothing of the text has been read. For this
two recursions meet: `Quoted` writes a text from its beginning, `RestOfString`
reads it from its end. `Reads` and `Writes` name their solutions, and
`QuotedIsRead` shows for each position that what is read from there on is the part
of the value that was written from there on. The parser leaves all of it
alone. Theorems: `TokensFollowText`, `EveryTextTiled`, `EveryTextCanBeQuoted`.

The parser is compared with a grammar that is written the other way round.
`Expression(i, j)` cuts the tokens `i..j` at their last `OR`, else their last
`AND`, that stands outside all brackets; the parser reads from the left and knows
nothing of what is coming. Three groups of lemmas lead from one to the other.
First, the two recursive functions of the grammar have solutions, so that values,
lists and expressions are given by equations (`Grammar`, `ExpressionFacts`), by
the least span on which they would not be. Second, brackets: a value has no
operator outside its brackets (`ValueQuiet`), an expression closes what it opens
(`SentenceNested`), so an operator behind an expression is outside, and joining
with it is what the grammar does (`JoinOr`, `JoinAnd`, `NotOf`, `GroupOf`,
`LeafOf`). Third, `SentenceChain`: each sentence begins with a unary expression,
behind which is nothing or an operator and a sentence. The inductive invariant
`PInv` is about the stack, of any depth. It cuts the tokens where one method
called another. Backwards, each method has read what the grammar says it has
(`Framed`, `Here`): this is why an answer is right. Forwards, and only if the
query is a sentence (`Whole`), what each method waits for ends at a token behind
which its caller can go on (`Ended`, `Closed`), and what is left of it can be read
(`Ahead`): this is why an error is right, for at no token of a sentence can a
method return one. Theorems: `MethodsFollowGrammar`, `QueriesParsedAsGrammar`, for
every query, however long or deeply nested. That the parser answers at all is
`EveryQueryAnswered`, which TLC checks.

### Only model-checked

- The liveness properties `EveryCallEnds`, `EveryCallReturns`, `ParseEnds` and
  `EveryQueryAnswered`: they need fairness and ENABLED, which the proof system does
  not handle.
- The claims found violated, where a counterexample is all there is to say.

Recursive operators are out of the prover's reach, so there are none in a module
with theorems. `Query` avoids them: what is a recursion over expressions in the
code is an invariant of the steps that build them.

## Not modelled

- YAML and TOML decoding, regular expressions and `time.Parse`: libraries. What
  they return for the texts of the models is given by constants; the text form of
  dates and relative dates are such constants of `Comparison` too.
- `ResolveAssignee`, `OrderedTasks`, `SortTasks` and `IterationsByTeam`: no code
  but tests calls them.
- Rendering of diagnostics, and the order of highlights by weight: display.
- `MemScanner`: reads a map in tests.
- The connection pool: with a store in `:memory:` every connection has a database
  of its own, and finds no tables. The models are of a database file; only tests
  open `:memory:`, and what the pool does is up to `database/sql`.
- What happens inside `os.ReadDir` and `os.ReadFile`: a text torn by a concurrent
  write, or a long directory that changes between two batches of its listing.
- Repeated labels and dependencies: one given twice is one row in the model's sets
  and two in the code's tables, which have no key.
- `conformance`: test support.
