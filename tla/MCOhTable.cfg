SPECIFICATION FairSpec
CONSTANTS
  NumElements = 3
  NumDummies = 3
  StashSize = 1
  Miss = Miss
  MaxBatch = 2
  BuilderOrders <- SomeOrders
  ReceiverShuffles <- OneShuffle
INVARIANTS
  TypeOK
  SlotsFresh
  PartiesAgree
  MessagesMeant
  NothingLeftOver
PROPERTIES
  IsTable
  CallsFinish
