----------------------------- MODULE FileFormats -----------------------------
(***************************************************************************)
(* From the files of a scan to the entries that Parse works on: the path   *)
(* that identifies a task (model/path.go), front matter and body of a      *)
(* Markdown file (parse/frontmatter.go), and what is made of them          *)
(* (parse/markdown.go, parse/config.go).                                   *)
(*                                                                         *)
(* A text is a sequence of characters, and of words where no character of  *)
(* theirs matters: "---", "readme", "tasks" and "md" are such words (there *)
(* are no hyphens beside a "---").  A path is the sequence of its          *)
(* segments.  A file is [kind, path] and                                   *)
(*   "task", "iteration"   text                                            *)
(*   "root"                version                                         *)
(*   "team"                members: a text for each identifier             *)
(*   "sla"                 rules: [id, target, warn]                       *)
(* where the TOML ones have been decoded, unless they are malformed.       *)
(***************************************************************************)
EXTENDS Parse, SequencesExt

CONSTANTS Lower,         \* Lower[ch]: strings.ToLower
          Alphanumeric,  \* a-z, 0-9 and words of them
          Yaml,          \* Yaml[line]: the [field, value] it is decoded to
          DurationTexts, \* the texts ParseDuration accepts
          NoWarning,     \* a rule without warn_at
          Scans,         \* the sequences of files a scan may find
          Malformed      \* a text that cannot be decoded

ASSUME FileFormatsAssumption ==
  /\ \A ch \in DOMAIN Lower : Lower[ch] \in DOMAIN Lower /\ Lower[Lower[ch]] = Lower[ch]
  /\ Alphanumeric \subseteq {Lower[ch] : ch \in DOMAIN Lower}
  /\ {"-", "_", ".", " "} \cap Alphanumeric = {}
  /\ \A ch \in {"-", "_"} : ch \in DOMAIN Lower /\ Lower[ch] = ch

-----------------------------------------------------------------------------
(***************************************************************************)
(* PATHS                                                                   *)
(***************************************************************************)

TrimLeft(text, chars) ==
  LET kept == {i \in DOMAIN text : text[i] \notin chars}
  IN IF kept = {} THEN << >> ELSE SubSeq(text, Min(kept), Len(text))

TrimRight(text, chars) ==
  LET kept == {i \in DOMAIN text : text[i] \notin chars}
  IN IF kept = {} THEN << >> ELSE SubSeq(text, 1, Max(kept))

ToLower(segment) == [i \in DOMAIN segment |-> Lower[segment[i]]]

ReadmeFile == << "readme", ".", "md" >>

\* Without the extension, which begins at the last dot.
Stem(segment) ==
  LET dots == {i \in DOMAIN segment : segment[i] = "."}
  IN IF dots = {} THEN segment ELSE SubSeq(segment, 1, Max(dots) - 1)

\* Faulty variant: a dot may stay in a segment.
HyphenatedButDots(segment) ==
  [i \in DOMAIN segment |->
     IF segment[i] \in Alphanumeric \cup {"-", "_", "."} THEN segment[i] ELSE "-"]

Hyphenated(segment) ==
  [i \in DOMAIN segment |->
     IF segment[i] \in Alphanumeric \cup {"-", "_"} THEN segment[i] ELSE "-"]

\* collapseHyphens: of each run of hyphens one is left, and none at the ends.
CollapseHyphens(segment) ==
  LET kept[i \in 0..Len(segment)] ==
        IF i = 0 THEN << >>
        ELSE IF segment[i] = "-" /\ (kept[i - 1] = << >> \/ Last(kept[i - 1]) = "-")
             THEN kept[i - 1] ELSE Append(kept[i - 1], segment[i])
  IN TrimRight(kept[Len(segment)], {"-"})

NormalSegment(segment) == CollapseHyphens(Hyphenated(Stem(ToLower(segment))))

\* A README stands for its directory.
IsReadme(segment) == ToLower(segment) \in {ReadmeFile, << "readme" >>}

\* NormalizePath
NormalizePath(raw) ==
  LET below == IF Len(raw) > 1 /\ raw[1] = << "tasks" >> THEN Tail(raw) ELSE raw
      path[i \in 0..Len(below)] ==
        IF i = 0 THEN << >>
        ELSE IF IsReadme(below[i]) \/ NormalSegment(below[i]) = << >> THEN path[i - 1]
        ELSE Append(path[i - 1], NormalSegment(below[i]))
  IN path[Len(below)]

ContainsUppercase(raw) ==
  \E i \in DOMAIN raw : raw[i] # ToLower(raw[i]) /\ ToLower(raw[i]) # ReadmeFile

-----------------------------------------------------------------------------
(***************************************************************************)
(* FRONT MATTER                                                            *)
(***************************************************************************)

Blank == {" ", "\t"}
White == Blank \cup {"\r", "\n"}
Fence == << "---" >>

SkipNewline(text) ==
  IF IsPrefix(<< "\n" >>, text) THEN Tail(text)
  ELSE IF IsPrefix(<< "\r", "\n" >>, text) THEN SubSeq(text, 3, Len(text))
  ELSE text

\* Where the line that begins at i ends, its newline included.
EndOfLine(text, i) == Min({j \in i .. Len(text) : text[j] = "\n"} \cup {Len(text)})

LineAt(text, i) == SubSeq(text, i, EndOfLine(text, i))

LineStarts(text) == {i \in DOMAIN text : i = 1 \/ text[i - 1] = "\n"}

\* Faulty variant: the carriage return of a fence is not trimmed.
FindClosingFenceLF(rest) ==
  LET fences == {i \in LineStarts(rest) :
                   TrimRight(TrimRight(LineAt(rest, i), {"\n"}), Blank) = Fence}
  IN IF fences = {} THEN 0 ELSE Min(fences)

\* findClosingFence: where the first line begins that is a fence; 0 for none.
FindClosingFence(rest) ==
  LET fences == {i \in LineStarts(rest) :
                   TrimRight(TrimRight(LineAt(rest, i), {"\n"}), Blank \cup {"\r"}) = Fence}
  IN IF fences = {} THEN 0 ELSE Min(fences)

Unclosed == [closed |-> FALSE]

Split(yaml, body) == [closed |-> TRUE, yaml |-> yaml, body |-> body]

\* extractFrontMatter, without the decoding.
ExtractFrontMatter(text) ==
  LET trimmed == TrimLeft(text, Blank)
      rest == SkipNewline(Tail(trimmed))
      close == FindClosingFence(rest)
      end == TrimRight(rest, White)
  IN IF ~IsPrefix(Fence, trimmed) THEN Split(<< >>, text)
     ELSE IF TrimRight(trimmed, White) = Fence THEN Split(<< >>, << >>)
     ELSE IF close > 0
          THEN Split(SubSeq(rest, 1, close - 1),
                     SubSeq(rest, EndOfLine(rest, close) + 1, Len(rest)))
     ELSE IF IsSuffix(Fence, end) THEN Split(TrimRight(Front(end), White), << >>)
     ELSE Unclosed

\* The lines with something on them, without the white space behind it.
Content(text) ==
  LET content[i \in 1 .. Len(text) + 1] ==
        IF i > Len(text) THEN << >>
        ELSE LET line == TrimRight(LineAt(text, i), White)
             IN (IF line = << >> THEN << >> ELSE << line >>) \o content[EndOfLine(text, i) + 1]
  IN content[1]

NoFields == [redirect_to |-> << >>, dependencies |-> << >>, status |-> "",
             dates |-> TRUE, start |-> FALSE, end |-> FALSE]

\* yaml.Unmarshal: a line per field, and none twice.
Unmarshal(yaml) ==
  LET lines == Content(yaml)
  IN IF \/ \E i \in DOMAIN lines : lines[i] \notin DOMAIN Yaml
        \/ \E i, j \in DOMAIN lines : i < j /\ Yaml[lines[i]].field = Yaml[lines[j]].field
     THEN Malformed
     ELSE [f \in DOMAIN NoFields |->
             IF \E i \in DOMAIN lines : Yaml[lines[i]].field = f
             THEN (CHOOSE y \in {Yaml[lines[i]] : i \in DOMAIN lines} : y.field = f).value
             ELSE NoFields[f]]

\* The decoded front matter, Malformed for an error.
FrontMatter(text) ==
  LET split == ExtractFrontMatter(text)
  IN IF split.closed THEN Unmarshal(split.yaml) ELSE Malformed

-----------------------------------------------------------------------------
(***************************************************************************)
(* FILES                                                                   *)
(***************************************************************************)

Filename(path) == path[Len(path)]

\* Of a Markdown file the entry keeps the text, for the properties.
Bad(file) == [kind |-> file.kind, bad |-> TRUE]
BadText(file) == [kind |-> file.kind, bad |-> TRUE, text |-> file.text]

\* A redirect's other fields are not looked at: its dates may be anything.
TaskFails(fm) == fm = Malformed \/ (fm.redirect_to = << >> /\ ~fm.dates)

\* parseTask
ParseTask(file) ==
  LET fm == FrontMatter(file.text)
      stub == fm.redirect_to # << >>
      path == NormalizePath(file.path)
  IN [path |-> path, readme |-> ToLower(Filename(file.path)) = ReadmeFile, stub |-> stub,
      to |-> IF stub THEN fm.redirect_to ELSE path,
      deps |-> IF stub THEN << >> ELSE fm.dependencies,
      status |-> IF stub THEN "" ELSE fm.status, category |-> ""]

TaskEntry(file) ==
  IF TaskFails(FrontMatter(file.text)) THEN BadText(file)
  ELSE [kind |-> "task", bad |-> FALSE, text |-> file.text, upper |-> ContainsUppercase(file.path),
        task |-> ParseTask(file)]

\* parseIteration: both instants are required.
IterationEntry(file) ==
  LET fm == FrontMatter(file.text)
      name == SubSeq(Filename(file.path), 1, Len(Filename(file.path)) - 2)
  IN IF fm = Malformed \/ ~(fm.start /\ fm.end) THEN BadText(file)
     ELSE [kind |-> "iteration", bad |-> FALSE, text |-> file.text,
           iteration |-> [id |-> << file.path[2], ToLower(name) >>, team |-> file.path[2]]]

\* parseConfig
RootEntry(file) ==
  IF file.version = Malformed THEN Bad(file)
  ELSE [kind |-> "root", bad |-> FALSE, version |-> file.version]

PlaceOf(ch, value) == Min({i \in DOMAIN value : value[i] = ch} \cup {Len(value) + 1})

\* parseMemberValue: the address.
Email(value) ==
  LET open == PlaceOf("<", value)
      close == PlaceOf(">", value)
  IN IF open <= Len(value)
     THEN IF open < close /\ close <= Len(value) THEN SubSeq(value, open + 1, close - 1) ELSE << >>
     ELSE IF PlaceOf("@", value) <= Len(value) THEN TrimLeft(TrimRight(value, White), White)
     ELSE << >>

\* parseTeamConfig
TeamEntry(file) ==
  IF file.members = Malformed THEN Bad(file)
  ELSE [kind |-> "team", bad |-> FALSE,
        team |-> [name |-> file.path[2],
                  members |-> {[id |-> id, email |-> Email(file.members[id])] :
                                 id \in DOMAIN file.members}]]

\* parseSLAFile: one duration that cannot be read fails the whole file.
RuleFails(rule) ==
  rule.target \notin DurationTexts \/ rule.warn \notin DurationTexts \cup {NoWarning}

SLAEntry(file) ==
  IF file.rules = Malformed THEN Bad(file)
  ELSE IF \E i \in DOMAIN file.rules : RuleFails(file.rules[i]) THEN Bad(file)
  ELSE [kind |-> "sla", bad |-> FALSE, rules |-> file.rules]

\* What parseFiles makes of a file.
EntryOf(file) ==
  CASE file.kind = "task" -> TaskEntry(file)
    [] file.kind = "iteration" -> IterationEntry(file)
    [] file.kind = "root" -> RootEntry(file)
    [] file.kind = "team" -> TeamEntry(file)
    [] file.kind = "sla" -> SLAEntry(file)

\* parseFiles, up to the first error of an entry (ParseFails of Parse.tla).
Entries(files) == [i \in DOMAIN files |-> EntryOf(files[i])]

\* What is parsed has been scanned.  A file has a name, and a kind that
\* determines what is in it.
ASSUME ScansAssumption ==
  /\ Inputs = {Entries(files) : files \in Scans}
  /\ \A files \in Scans : \A i \in DOMAIN files :
       /\ files[i].kind \in {"task", "iteration", "root", "team", "sla"}
       /\ files[i].path \in Seq(Seq(DOMAIN Lower)) \ {<< >>}
       /\ files[i].kind \in {"task", "iteration"} => files[i].text \in Seq(STRING)

-----------------------------------------------------------------------------
(***************************************************************************)
(* PROPERTIES                                                              *)
(***************************************************************************)

Chars == Alphanumeric \cup {"-", "_"}

\* What the comment of NormalizePath asks of a segment.
IsCanonical(segment) ==
  /\ segment # << >> /\ ToSet(segment) \subseteq Chars
  /\ segment[1] # "-" /\ Last(segment) # "-"
  /\ \A i \in DOMAIN segment : i > 1 /\ segment[i] = "-" => segment[i - 1] # "-"

\* Whatever a file and its directories are called, the path of its task is made
\* of canonical segments, so that a redirect to it is never refused for its dot
\* (resolve.go:50).  It is canonical as a whole, too: normalizing it again gives
\* the same, unless it names "readme" or begins with "tasks" (path.go:28-74).
PathsCanonical ==
  phase = "done" =>
    \A p \in DOMAIN tasks :
      /\ \A i \in DOMAIN p : IsCanonical(p[i])
      /\ << "readme" >> \in ToSet(p) \/ IsPrefix(<< << "tasks" >> >>, p) \/ NormalizePath(p) = p

IsFence(line) == TrimRight(line, White) = Fence

\* A file whose first line is a fence, blanks before it allowed, and that has
\* another fence is split into the lines between the first two and, untouched,
\* everything behind: whether its lines end in "\n" or in "\r\n", whatever dashes
\* are elsewhere in the lines and in the body, and whether a newline ends it.  A
\* file that does not begin with dashes is a body (frontmatter.go:43-107).
FilesReadAsWritten ==
  phase = "files" /\ read < Len(input) /\ input[read + 1].kind \in {"task", "iteration"} =>
    LET text == input[read + 1].text
        split == ExtractFrontMatter(text)
        fences == {i \in LineStarts(text) \ {1} : IsFence(LineAt(text, i))}
        second == Min(fences)
    IN /\ IsFence(TrimLeft(LineAt(text, 1), Blank)) /\ fences # {} =>
            /\ split.closed
            /\ Content(split.yaml) = Content(SubSeq(text, EndOfLine(text, 1) + 1, second - 1))
            /\ split.body = SubSeq(text, EndOfLine(text, second) + 1, Len(text))
       /\ ~IsPrefix(Fence, TrimLeft(text, Blank)) => split = Split(<< >>, text)

=============================================================================
