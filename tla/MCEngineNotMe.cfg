CONSTANTS
  c1 = c1
  w1 = w1
  NoRepo = NoRepo
  Clients <- MCClients
  Indexers <- MCIndexers
  Repositories <- MCRepositories
  Queries <- NotMeOnly
  CurrentUser = "u"
  MaxCommits = 2
SPECIFICATION Spec
INVARIANT NotMeExcludesMe
