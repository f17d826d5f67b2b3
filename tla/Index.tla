------------------------------- MODULE Index --------------------------------
(***************************************************************************)
(* Engine.Index from the files to the database: scan/scanner.go walks the  *)
(* directories while people go on editing them, engine.go passes what was  *)
(* found to the parser and on to WriteRepository, several calls at a time. *)
(*                                                                         *)
(* A directory is listed once, when the walk enters it, and each of its    *)
(* files is read when the walk comes to it: what Scan returns need never   *)
(* have existed.  This module says what can be relied on all the same.     *)
(*                                                                         *)
(* Two calls of the system are one step each: os.ReadDir, which reads a    *)
(* long directory in batches, and os.ReadFile, so that no text is torn.    *)
(*                                                                         *)
(* A path is a sequence of names below the root.  A directory exists when  *)
(* a file below it does; one without files may have been left behind by a  *)
(* delete, or not, and each use of it decides that anew.  Parsing is a     *)
(* function of the entries (Parse.tla), given here by what each file       *)
(* contributes; the database takes a whole repository in one step or not   *)
(* at all, as StoreAbs.tla promises.                                       *)
(***************************************************************************)
EXTENDS Tables, SequencesExt

CONSTANTS Indexers,    \* the concurrent calls of Index
          Paths,       \* the paths at which there may be files
          Texts,       \* what files may hold
          Absent,      \* no file
          FirstFiles,  \* the files at first, a function on Paths
          Markdown,    \* the names that end in ".md"
          Hidden,      \* the names that begin with "."
          RootHidden,  \* the root is given by such a name, "." for one
          NameOrder,   \* the place of a name in the order of bytes
          Meaning,     \* Meaning[p][x]: what x at p adds to the repository
          Malformed,   \* the meaning of a file that cannot be parsed
          MaxEdits     \* bound on the changes of the files

ASSUME IndexAssumption ==
  /\ Absent \notin Texts
  /\ FirstFiles \in [Paths -> Texts \cup {Absent}]
  /\ Paths \subseteq Seq(DOMAIN NameOrder) /\ << >> \notin Paths /\ IsFiniteSet(Paths)
  /\ \A p, q \in Paths : IsPrefix(p, q) => p = q
  /\ NameOrder \in [DOMAIN NameOrder -> Nat]
  /\ \A m, n \in DOMAIN NameOrder : NameOrder[m] = NameOrder[n] => m = n
  /\ RootHidden \in BOOLEAN /\ MaxEdits \in Nat

VARIABLES history,  \* the files after each change, the present ones last
          scan,     \* scan[w]: the call of Index in progress
          content,  \* what a reader of the database sees
          source    \* the version at which the call it comes from began

vars == << history, scan, content, source >>

-----------------------------------------------------------------------------
(***************************************************************************)
(* THE FILES                                                               *)
(***************************************************************************)

Files == Last(history)

Version == Len(history)

Root == << >>

Parent(p) == Front(p)

\* The directories above p, without the root.
Ancestors(p) == {SubSeq(p, 1, n) : n \in 1 .. Len(p) - 1}

Directories == UNION {Ancestors(p) : p \in Paths}

Below(dir) == {p \in Paths : IsStrictPrefix(dir, p)}

\* The directories that certainly exist; others may, and are empty then.
Exists(files, dir) == dir = Root \/ \E p \in Below(dir) : files[p] # Absent

\* Listed by os.ReadDir: the names in a directory, with the kind of each.
Children(files, dir) ==
  {[path |-> SubSeq(p, 1, Len(dir) + 1), dir |-> Len(p) > Len(dir) + 1] :
     p \in {q \in Below(dir) : files[q] # Absent}}

\* The empty directories that may be listed beside them.
Empty(files, dir) ==
  {[path |-> d, dir |-> TRUE] : d \in {e \in Directories : Parent(e) = dir /\ ~Exists(files, e)}}

\* The order of a walk: by the first of the names that differ.  It visits the
\* names of a directory in the order of bytes, and all that is below a name
\* before the next.
Before(p, q) ==
  \E n \in 1 .. Len(p) : /\ n <= Len(q) /\ SubSeq(p, 1, n - 1) = SubSeq(q, 1, n - 1)
                         /\ NameOrder[p[n]] < NameOrder[q[n]]

\* classify: the kind of a file, "" for one that is not recognized.
Kind(p) ==
  CASE p = << "tsk.toml" >> -> "root_config"
    [] p = << "sla.toml" >> -> "sla"
    [] Len(p) >= 2 /\ p[1] = "tasks" /\ Last(p) \in Markdown -> "task"
    [] Len(p) = 3 /\ p[1] = "teams" /\ Last(p) = "team.toml" -> "team_config"
    [] Len(p) = 4 /\ p[1] = "teams" /\ p[3] = "iterations" /\ Last(p) \in Markdown -> "iteration"
    [] OTHER -> ""

\* One change of the files by their editors.
Change(files) ==
  /\ Version <= MaxEdits
  /\ files # Files
  /\ history' = Append(history, files)
  /\ UNCHANGED << scan, content, source >>

WriteFile(p, x) == Change([Files EXCEPT ![p] = x])

Delete(p) == Change([Files EXCEPT ![p] = Absent])

Rename(p, q) ==
  /\ Files[p] # Absent
  /\ Change([Files EXCEPT ![p] = Absent, ![q] = Files[p]])

\* A directory is renamed with all that is in it, to a name not in use.
Moved(p, from, to) == to \o SubSeq(p, Len(from) + 1, Len(p))

RenameDir(from, to) ==
  /\ Exists(Files, from) /\ ~Exists(Files, to) /\ ~IsPrefix(from, to)
  /\ \A p \in Below(from) : Files[p] # Absent => Moved(p, from, to) \in Paths
  /\ Change([p \in Paths |->
       IF p \in Below(from) THEN Absent
       ELSE IF \E q \in Below(from) : Files[q] # Absent /\ Moved(q, from, to) = p
       THEN Files[Moved(p, to, from)] ELSE Files[p]])

-----------------------------------------------------------------------------
(***************************************************************************)
(* INDEX                                                                   *)
(***************************************************************************)

NoScan == [phase |-> "idle"]

Init ==
  /\ content = {}
  /\ history = << FirstFiles >>
  /\ scan = [w \in Indexers |-> NoScan]
  /\ source = 0

\* Scan: the walk begins at the root; a hidden root is skipped like any other
\* hidden directory.
Begin(w) ==
  /\ scan[w] = NoScan
  /\ scan' = [scan EXCEPT ![w] =
       [phase |-> "walking", began |-> Version, entries |-> {},
        todo |-> IF RootHidden THEN {} ELSE {[path |-> Root, dir |-> TRUE]}]]
  /\ UNCHANGED << history, content, source >>

\* What the walk has listed and not visited, and the first of it.
Listed(w) == IF scan[w].phase = "walking" THEN scan[w].todo ELSE {}

IsNext(w, x) == \A y \in Listed(w) \ {x} : Before(x.path, y.path)

\* The callback of WalkDir returned nil or SkipDir: the walk goes on with todo.
GoOn(w, todo, entries) ==
  /\ scan' = [scan EXCEPT ![w].todo = todo, ![w].entries = entries]
  /\ UNCHANGED << history, content, source >>

\* The callback returned an error, which ends the walk and the call.
GiveUp(w) ==
  /\ scan' = [scan EXCEPT ![w] = NoScan]
  /\ UNCHANGED << history, content, source >>

Skipped(dir) == dir # Root /\ Last(dir) \in Hidden

EnterDir(w) ==
  \E x \in Listed(w) :
    /\ IsNext(w, x) /\ x.dir
    /\ LET rest == Listed(w) \ {x}
       IN IF Skipped(x.path) THEN GoOn(w, rest, scan[w].entries)
          ELSE \/ ~Exists(Files, x.path) /\ GiveUp(w)
               \/ \E empty \in SUBSET Empty(Files, x.path) :
                    GoOn(w, rest \cup Children(Files, x.path) \cup empty, scan[w].entries)

\* Faulty variants: a file that has gone is skipped; it ends the walk; its text
\* is taken from a cache of the first files.
ReadFileOr(w, stops, cached) ==
  \E x \in Listed(w) :
    /\ IsNext(w, x) /\ ~x.dir
    /\ LET rest == Listed(w) \ {x}
           text == IF cached /\ Files[x.path] = Absent THEN FirstFiles[x.path] ELSE Files[x.path]
       IN IF Kind(x.path) = "" THEN GoOn(w, rest, scan[w].entries)
          ELSE IF text # Absent
          THEN GoOn(w, rest, scan[w].entries \cup {[path |-> x.path, text |-> text]})
          ELSE GoOn(w, IF stops THEN {} ELSE rest, scan[w].entries)

ReadFileOrSkip(w) == ReadFileOr(w, FALSE, FALSE)

ReadFileOrStop(w) == ReadFileOr(w, TRUE, FALSE)

ReadFileCached(w) == ReadFileOr(w, FALSE, TRUE)

ReadFile(w) ==
  \E x \in Listed(w) :
    /\ IsNext(w, x) /\ ~x.dir
    /\ LET rest == Listed(w) \ {x}
       IN IF Kind(x.path) = "" THEN GoOn(w, rest, scan[w].entries)
          ELSE IF Files[x.path] = Absent THEN GiveUp(w)
          ELSE GoOn(w, rest, scan[w].entries \cup {[path |-> x.path, text |-> Files[x.path]]})

\* The context is cancelled, or the file system fails.
Cancel(w) == scan[w].phase = "walking" /\ GiveUp(w)

\* What parser.Parse and evaluateSLA make of the entries.
Adds(e) == Meaning[e.path][e.text]

Parses(entries) == \A e \in entries : Adds(e) # Malformed

RepositoryOf(entries) == [s \in Stages |-> UNION {Adds(e)[s] : e \in entries}]

\* Scan returned without an error; so does Parse, and WriteRepository is called.
Submit(w) ==
  /\ scan[w].phase = "walking" /\ scan[w].todo = {}
  /\ Parses(scan[w].entries)
  /\ scan' = [scan EXCEPT ![w] = [phase |-> "writing", began |-> @.began, ended |-> Version,
                                  entries |-> @.entries]]
  /\ UNCHANGED << history, content, source >>

ParseFails(w) ==
  /\ scan[w].phase = "walking" /\ scan[w].todo = {}
  /\ ~Parses(scan[w].entries)
  /\ GiveUp(w)

\* Faulty variant: the rows of earlier calls are not deleted.
CommitMore(w) ==
  /\ scan[w].phase = "writing" /\ KeysUnique(RepositoryOf(scan[w].entries))
  /\ content' = content \cup Image(RepositoryOf(scan[w].entries))
  /\ source' = scan[w].began
  /\ scan' = [scan EXCEPT ![w] = NoScan]
  /\ UNCHANGED history

\* WriteRepository commits and returns; a duplicate key keeps it from that.
Commit(w) ==
  /\ scan[w].phase = "writing" /\ KeysUnique(RepositoryOf(scan[w].entries))
  /\ content' = Image(RepositoryOf(scan[w].entries))
  /\ source' = scan[w].began
  /\ scan' = [scan EXCEPT ![w] = NoScan]
  /\ UNCHANGED history

\* WriteRepository returns an error, or the process dies before the commit.
WriteFails(w) == scan[w].phase = "writing" /\ GiveUp(w)

Edit ==
  \/ \E p \in Paths : \/ \E x \in Texts : WriteFile(p, x)
                      \/ Delete(p)
                      \/ \E q \in Paths : Rename(p, q)
  \/ \E from, to \in Directories : RenameDir(from, to)

Next ==
  \/ Edit
  \/ \E w \in Indexers :
       \/ Begin(w) \/ EnterDir(w) \/ ReadFile(w) \/ Cancel(w)
       \/ Submit(w) \/ ParseFails(w) \/ Commit(w) \/ WriteFails(w)

Spec == Init /\ [][Next]_vars

-----------------------------------------------------------------------------
(***************************************************************************)
(* PROPERTIES                                                              *)
(***************************************************************************)

\* The scans that succeeded and are being written.
Scans == {s \in {scan[w] : w \in Indexers} : s.phase = "writing"}

\* The versions of the files that were current at some time of the scan.
Window(s) == {history[v] : v \in s.began..s.ended}

\* What a scan is to find: the recognized files outside hidden directories.
Indexable == {p \in Paths : Kind(p) # "" /\ \A d \in Ancestors(p) : Last(d) \notin Hidden}

Snapshot(files) ==
  {[path |-> p, text |-> files[p]] : p \in {q \in Indexable : files[q] # Absent}}

\* "Scan walks the root directory and returns classified entries" (scanner.go:
\* 24): while nobody edits, every recognized file and nothing else.
QuietScanExact == \A s \in Scans : \A files \in Window(s) :
  Window(s) = {files} => s.entries = Snapshot(files)

\* Whatever is edited, no file is read twice, and each entry holds a text that
\* was in that very file at some time of the scan (scanner.go:61-70).  A file
\* that is renamed meanwhile may be in it twice, under two names.
EntriesReal == \A s \in Scans : \A e \in s.entries :
  /\ \E files \in Window(s) : e \in Snapshot(files)
  /\ \A f \in s.entries : f.path = e.path => f = e

\* A file that was there all the time of the scan is in it, whatever happened
\* to its text and to the files and directories around it (scanner.go:32-73).
PresentScanned == \A s \in Scans : \A p \in Indexable :
  (\A files \in Window(s) : files[p] # Absent) => \E e \in s.entries : e.path = p

\* The paths in dir that held x in some version of the files.
PathsOf(versions, dir, x) ==
  {p \in Paths : Parent(p) = dir /\ \E files \in versions : files[p] = x}

\* In each version one of the files of dir holds x; it is recognized under each
\* of its names, and none of them ever belonged to another document.
OnlyRenamed(versions, dir, x) ==
  /\ PathsOf(versions, dir, x) \subseteq Indexable
  /\ \A files \in versions : Cardinality(PathsOf({files}, dir, x)) = 1
  /\ \A p \in PathsOf(versions, dir, x), files \in versions : files[p] \in {x, Absent}

\* A document that was renamed within its directory during the scan is found
\* once, although the walk is not a snapshot: a rename between the listing and
\* the reading fails the scan (scanner.go:61-64).  This rests on the listing
\* being one step: between two batches of os.ReadDir a rename may show both
\* names or none.  A move between directories enjoys no such promise at all: it
\* may be missed or be found under both names.
RenamedInDirectoryOnce ==
  \A s \in Scans : \A dir \in Directories : \A x \in Texts :
    OnlyRenamed(Window(s), dir, x) =>
      Cardinality({e \in s.entries : Parent(e.path) = dir /\ e.text = x}) = 1

\* The database is up to date when the call it comes from began after the last
\* edit, whatever other calls were doing (engine.go:109-128).  The call that
\* commits last need not be such a call: one that began before the edit may put
\* the old files back.
LastBegunIsCurrent ==
  source = Version => content = Image(RepositoryOf(Snapshot(Files)))

=============================================================================
