SPECIFICATION Spec
CONSTANTS
  w1 = w1
  w2 = w2
  Indexers <- MCIndexers
  Paths <- MCPaths
  Texts <- MCTexts
  Absent = Absent
  FirstFiles <- MCFirstFiles
  Markdown <- MCMarkdown
  Hidden <- MCHidden
  RootHidden = TRUE
  NameOrder <- MCNameOrder
  Meaning <- MCMeaning
  Malformed = Malformed
  MaxEdits = 0
INVARIANT
  QuietScanExact
