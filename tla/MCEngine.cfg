CONSTANTS
  c1 = c1
  w1 = w1
  NoRepo = NoRepo
  Clients <- MCClients
  Indexers <- MCIndexers
  Repositories <- MCRepositories
  Queries <- MCQueries
  CurrentUser = "u"
  MaxCommits = 2
SPECIFICATION FairSpec
INVARIANTS
  TypeOK
  QuietAnswerExact
  NothingInvented
  StableMatchReturned
  NotFoundMeansAbsent
PROPERTY EveryCallReturns
