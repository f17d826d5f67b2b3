SPECIFICATION Spec
CONSTANTS
  Inputs <- MCInputs
  Lower <- MCLower
  Width <- MCWidth
INVARIANTS
  ScorersAgree
  ExactlyTheFound
  HighlightsReadAsWords
