SPECIFICATION Spec
CONSTANTS
  Rounds = 5
  Sboxes = 2
  BlockSize = 16
  WindowSize = 2
  Masks <- SomeMasks
  RoundConstants <- SomeRoundConstants
  RoundKeys <- SomeKeys
  LevelCounts = {0, 1, 2, 3}
  Byte = 4
  LimbBits = 2
  Limbs = 3
  ModulusBits = 5
  Sentinel = 12
  Caches <- SomeCaches
  Queries <- UpToThree
  Element <- SomeElement
  None = None
INVARIANTS
  TagsUndisturbed
  QueriesAnswered
  MatchedBlinded
