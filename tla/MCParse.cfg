CONSTANTS
  NoChain = NoChain
  NoWarning = NoWarning
  Malformed = Malformed
  Lower <- MCLower
  Alphanumeric <- MCAlphanumeric
  Yaml <- MCYaml
  DurationTexts <- MCDurationTexts
  Scans <- MCScans
  Inputs <- MCInputs
  Paths <- MCPaths
  Dotted <- MCDotted
  MaxRedirectDepth = 3
SPECIFICATION FairSpec
INVARIANTS
  TypeOK
  StubsLeadOut
  DependenciesResolved
  StubsSettled
  OrderIndependent
  FilesReadAsWritten
  PathsCanonical
PROPERTY ParseEnds
CHECK_DEADLOCK FALSE
