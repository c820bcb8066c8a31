SPECIFICATION Spec
CONSTANTS
  ColumnLen = 2
  StashSize = 2
  MaxEntries = 6
  Inputs <- AllInputs
  KeyTagBits = 3
  IndexBits = 3
  Rands <- SomeRands
  Unvisited = Unvisited
  Stashed = Stashed
  None = None
  Root = Root
INVARIANTS
  CellsClaimedOnce
  LookupsAnswer
  StashMinimal
