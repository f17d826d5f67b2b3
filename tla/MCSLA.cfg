SPECIFICATION Spec
CONSTANTS
  None = None
  Statuses <- MCStatuses
  Rules <- MCRules
  StatusOf <- MCStatusOf
  Instants <- MCInstants
  ShortElapsed <- MCShortElapsed
  Short <- MCShort
  TiesUp <- MCTiesUp
  MaxEdits = 3
INVARIANTS
  StaleIsNoWorse
  OrderedLogMostRecent
  NeverNegative
  StatusFitsRemaining
  BreachesOnTime
