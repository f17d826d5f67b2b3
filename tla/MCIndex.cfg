SPECIFICATION Spec
CONSTANTS
  w1 = w1
  w2 = w2
  Indexers <- MCIndexers
  Paths <- MCPaths
  Texts <- MCTexts
  Absent = Absent
  FirstFiles <- MCFirstFiles
  Markdown <- MCMarkdown
  Hidden <- MCHidden
  RootHidden = FALSE
  NameOrder <- MCNameOrder
  Meaning <- MCMeaning
  Malformed = Malformed
  MaxEdits = 2
INVARIANTS
  EntriesReal
  PresentScanned
  RenamedInDirectoryOnce
  LastBegunIsCurrent
