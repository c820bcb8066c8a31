SPECIFICATION Spec
CONSTANTS
  Length = 3
  Columns <- Two
  Ring = 4
  Flags <- AllFlags
  Rows <- TwoColumns
  Masks <- OneMask
  None = None
INVARIANTS
  StreamsAligned
  SortedStably
  OpenedShuffled
