SPECIFICATION Spec
CONSTANTS
  Configs <- Shapes
  NoLevel = NoLevel
INVARIANTS
  TypeOK
  BudgetCovers
  ExtractedSpent
  TablesFit
  IInv
