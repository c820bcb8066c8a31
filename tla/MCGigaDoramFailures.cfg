SPECIFICATION FailingSpec
CONSTANTS
  Configs <- Small
  Bits = {b}
  SingleCalls <- Single
  BatchCalls <- EveryUser
  InitialYs <- SomeContents
  StashesOf <- UserStash
  NoWrite = NoWrite
  NoTable = NoTable
  NoKeys = NoKeys
  MaxBatch = 1
  Users = {0, 1}
  MaxFailures = 2
CHECK_DEADLOCK FALSE
INVARIANTS
  Sound
PROPERTIES
  IsLossyMemory
  BottomBuiltWhole
