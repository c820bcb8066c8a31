SPECIFICATION Spec
CONSTANTS
  Length = 3
  Streams <- SomeRejected
  ElementMax = 7
  Secrets <- OneArray
  Components <- ZeroBased
  None = None
INVARIANTS
  KnownToTwo
