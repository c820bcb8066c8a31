SPECIFICATION FairSpec
CONSTANTS
  Configs <- Deep
  Bits = {b}
  SingleCalls = {}
  BatchCalls <- EveryUser
  InitialYs <- SomeContents
  StashesOf <- UserStash
  NoWrite = NoWrite
  NoTable = NoTable
  NoKeys = NoKeys
  MaxBatch = 3
  Users = {0, 1, 2}
INVARIANTS
  AssertionsHold
PROPERTIES
  CallsReturn
  KeepsSchedule
