SPECIFICATION Spec
CONSTANTS
  Configs <- Wide
  Bits = {b}
  SingleCalls <- Single
  BatchCalls <- Repeated
  InitialYs <- SomeContents
  StashesOf <- UserStash
  NoWrite = NoWrite
  NoTable = NoTable
  NoKeys = NoKeys
  MaxBatch = 2
  Users = {0, 1}
INVARIANTS
  NoDuplicateCacheAddress
CHECK_DEADLOCK FALSE
