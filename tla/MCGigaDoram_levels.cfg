SPECIFICATION Spec
CONSTANTS
  Configs <- WideOrDeep
  Bits = {b}
  SingleCalls <- SingleWritesZero
  BatchCalls <- BatchReadsZero
  InitialYs <- SomeContents
  StashesOf <- UserStash
  NoWrite = NoWrite
  NoTable = NoTable
  NoKeys = NoKeys
  MaxBatch = 2
  Users = {0, 1}
INVARIANTS
  CachedKeysCurrent
  OneLiveCopy
  TablesConsistent
  AlibisHold
  IInv
PROPERTIES
  NoTagRevealedTwice
  IsMemory
