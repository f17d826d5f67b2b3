SPECIFICATION Spec
CONSTANTS
  None = None
  Texts <- MCTexts
  Rank <- MCRank
  Contained <- MCContained
  Like <- MCLike
  LikeWhole <- MCLikeWhole
  SameFold <- MCSameFold
  Instant <- MCInstant
  Minutes <- MCMinutes
  Number <- MCNumber
  RelativeDates <- MCRelativeDates
  DateInstant <- MCDateInstant
  DateText <- MCDateText
  TeamText <- MCTeamText
  CurrentUser = "u"
  Repositories <- MCRepositories
  Primaries <- AllPrimaries
  MaxNodes = 5
INVARIANTS
  SafeQueriesAgree
  SQLAddsNothing
PROPERTIES
  AndNarrows
  OrWidens
CHECK_DEADLOCK FALSE
