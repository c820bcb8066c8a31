SPECIFICATION Spec
CONSTANTS
  Configs <- Growing
  Bits = {b}
  SingleCalls <- SingleReadsAll
  BatchCalls <- Distinct
  InitialYs <- SomeContents
  StashesOf <- UserStash
  NoWrite = NoWrite
  NoTable = NoTable
  NoKeys = NoKeys
  MaxBatch = 1
  Users = {0, 4}
INVARIANTS
  TypeOK
PROPERTIES
  IsMemory
