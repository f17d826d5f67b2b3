------------------------------- MODULE MCParse -------------------------------
(***************************************************************************)
(* Four families of inputs, all of them files.  "Graphs" are all the ways  *)
(* in which each of four files is a task that depends on the three others  *)
(* and itself, or redirects to one of the four, to a missing path or to a  *)
(* dotted one, but for renaming the four: chains of every length, cycles,  *)
(* and the boundary of the depth limit.  "Cases" exercise the other kinds  *)
(* of files and conflicts of paths, "Layouts" the ways to write front      *)
(* matter, "Namings" two files and their directories under names of every  *)
(* sort.                                                                   *)
(***************************************************************************)
EXTENDS FileFormats

MCLower ==
  [ch \in {"a", "b", "c", "d", "A", "readme", "README", "md", "tasks", "gone", "x", "y", "?",
           "tsk", "toml", "teams", "team", "iterations", "sla", ".", "-", "_", " "} |->
     CASE ch = "A" -> "a" [] ch = "README" -> "readme" [] OTHER -> ch]
MCAlphanumeric == {"a", "b", "c", "d", "readme", "md", "tasks", "gone", "x", "y"}

\* Paths, and the lines of YAML that redirect to them.
One(name) == << << name >> >>
Targets ==
  [line \in {"to a", "to b", "to c", "to d", "to gone", "to x.y"} |->
     CASE line = "to a" -> One("a") [] line = "to b" -> One("b") [] line = "to c" -> One("c")
       [] line = "to d" -> One("d") [] line = "to gone" -> One("gone")
       [] line = "to x.y" -> << << "x", ".", "y" >> >>]

MCYaml ==
  [line \in {<< word >> : word \in DOMAIN Targets \cup
               {"needs a b c d", "status done", "status odd", "due soon", "start", "end"}} |->
     LET word == line[1]
     IN CASE word \in DOMAIN Targets -> [field |-> "redirect_to", value |-> Targets[word]]
          [] word = "needs a b c d" ->
               [field |-> "dependencies", value |-> << One("a"), One("b"), One("c"), One("d") >>]
          [] word = "status done" -> [field |-> "status", value |-> "done"]
          [] word = "status odd" -> [field |-> "status", value |-> "odd"]
          [] word = "due soon" -> [field |-> "dates", value |-> FALSE]
          [] word = "start" -> [field |-> "start", value |-> TRUE]
          [] word = "end" -> [field |-> "end", value |-> TRUE]]

MCDurationTexts == {"1d", "2h"}

F == "---"
N == "\n"
Md == << ".", "md" >>
TaskFile(path, text) == [kind |-> "task", path |-> << << "tasks" >> >> \o path, text |-> text]
Written(words) == << F, N >> \o words \o << F, N >>
Root(v) == [kind |-> "root", path |-> << << "tsk", ".", "toml" >> >>, version |-> v]

Leaf == Written(<< "needs a b c d", N, "status done", N >>)
StubTo(line) == Written(<< line, N >>)
Names == {"a", "b", "c", "d"}
Flat(name) == << << name >> \o Md >>
Readme(name) == << << name >>, << "README" >> \o Md >>

\* The file of a name, by what it redirects to.
Node(name, to) == TaskFile(Flat(name), IF to = "leaf" THEN Leaf ELSE StubTo(to))

\* Redirects to one another first, the tasks last: all graphs but for renaming.
Rank == [to \in DOMAIN Targets \cup {"leaf"} |->
  CASE to = "leaf" -> 4 [] to = "to x.y" -> 3 [] to = "to gone" -> 2 [] OTHER -> 1]

Graphs ==
  {<< Node("a", t[1]), Node("b", t[2]), Node("c", t[3]), Node("d", t[4]) >> :
     t \in {u \in [1..4 -> DOMAIN Rank] : \A i \in 1..3 : Rank[u[i]] <= Rank[u[i + 1]]}}

Team(members) == [kind |-> "team", path |-> << << "teams" >>, << "a" >>, << "team", ".", "toml" >> >>,
                  members |-> members]
Iteration(words) == [kind |-> "iteration", text |-> Written(words),
                     path |-> << << "teams" >>, << "a" >>, << "iterations" >>, << "A" >> \o Md >>]
Rule(id, target, warn) == [id |-> id, target |-> target, warn |-> warn]
SLA(rules) == [kind |-> "sla", path |-> << << "sla", ".", "toml" >> >>, rules |-> rules]

Members == [id \in {"m", "n"} |-> IF id = "m" THEN << "x", " ", "<", "a", "@", "d", ">" >>
                                  ELSE << " ", "a", "@", "d" >>]

Cases ==
  { << Root("1"), TaskFile(Flat("a"), Leaf), TaskFile(Readme("a"), StubTo("to b")), TaskFile(Flat("b"), Leaf) >>,
    << Root(""), TaskFile(Flat("a"), StubTo("to b")), TaskFile(Flat("a"), Written(<< "status odd", N >>)),
       TaskFile(Readme("b"), Leaf), TaskFile(Readme("b"), StubTo("to a")) >>,
    << Root("1"), TaskFile(Flat("a"), Leaf), Team(Members), Iteration(<< "start", N, "end", N >>),
       SLA(<< Rule("r", "1d", NoWarning), Rule("r", "2h", "1d") >>) >>,
    << TaskFile(Flat("a"), Written(<< "due soon", N, "to b", N >>)), Iteration(<< "start", N >>) >>,
    << Root(Malformed) >>, << Team(Malformed) >>, << SLA(Malformed) >>,
    << SLA(<< Rule("r", "1d", "soon") >>) >> }

\* The first line, the lines of YAML, the second fence and the body, with two
\* ends of lines, and with no newline at the end.
Openings == {<< >>, << F >>, << " ", F >>, << F, " " >>, << F, F >>, << F, "x" >>, << "x", F >>}
Yamls == {<< >>, << << "status done" >> >>, << << "status done" >>, << >>, << "to b", " " >> >>,
          << << "due soon" >> >>, << << "x", " ", F >> >>, << << F, "x" >> >>,
          << << "status done" >>, << "status done" >> >>}
Closings == {<< >>, << F >>, << F, " " >>, << "x", F >>}
Bodies == {<< >>, << << >>, << "x" >> >>, << << F >>, << "x" >> >>, << << "x", F >> >>}

Layout(lines, eol) == FlattenSeq([i \in DOMAIN lines |-> lines[i] \o eol])

Layouts ==
  LET texts == {Layout(<< o >> \o y \o << c >> \o b, eol) :
                  o \in Openings, y \in Yamls, c \in Closings, b \in Bodies,
                  eol \in {<< N >>, << "\r", N >>}}
      open == {SubSeq(t, 1, Len(t) - 1) : t \in {s \in texts : s # << >>}}
  IN {<< TaskFile(Flat("a"), t) >> : t \in texts \cup open}

Directories ==
  {<< >>, << << "a" >> >>, << << "A", " ", "a" >> >>, << << "a", ".", "x" >> >>,
   << << "readme", ".", "x" >> >>, << << "-", "?" >>, << "tasks" >> >>, << << "tasks" >> >>}
Filenames ==
  {<< "a" >>, << "README" >>, << "a", ".", "A" >>, << "-", " ", "_", "?", "b" >>, << >>,
   << "readme", " " >>, << "A" >>}

Located == {d \o << f \o Md >> : d \in Directories, f \in Filenames}

Namings == {<< Root("1"), TaskFile(p, << >>), TaskFile(q, << >>) >> : p, q \in Located}

AllScans == Graphs \cup Cases \cup Layouts \cup Namings
AllEntries == {Entries(files) : files \in AllScans}
Redirected == {Targets[line] : line \in DOMAIN Targets}
Canonical == {NormalizePath(p) : p \in Located}
WithDot == {p \in Redirected \cup Canonical : \E i \in DOMAIN p : "." \in ToSet(p[i])}

\* Definitions of their own, which TLC evaluates once.
MCScans == AllScans
MCInputs == AllEntries
MCPaths == Redirected \cup Canonical
MCDotted == WithDot

=============================================================================
