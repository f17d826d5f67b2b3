CONSTANTS
  w1 = w1
  w2 = w2
  NoRepo = NoRepo
  NoIndexer = NoIndexer
  Indexers <- MCIndexers
  Repositories <- MCRepositories
SPECIFICATION FairSpec
INVARIANTS
  TypeOK
  CommittedWhole
  LockHeldWhileWriting
  NoSpuriousConflict
PROPERTIES
  ImplementsStoreAbs
  EveryCallEnds
