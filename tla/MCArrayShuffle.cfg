SPECIFICATION Spec
CONSTANTS
  Length = 3
  Streams <- AllChoices
  ElementMax = 7
  Secrets <- OneArray
  Components <- ZeroBased
  None = None
INVARIANTS
  StreamsAligned
  ShuffledBySteps
  InverseTellsPlaces
  KnownToTwo
