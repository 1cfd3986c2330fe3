SPECIFICATION Spec
CONSTANTS
  Requests <- MCRequests
  BlockSizes <- MCBlockSizes
  ColumnBudget = 25
  ColumnCeiling = 80
  PackCeiling = 50
  TotalBudget = 55
  TotalCeiling = 80
  MaxBuilds = 2
  PickerUsed = FALSE
  FractionsSeen = {55, 900}
  DefaultFraction = 55
  Modulus = 64
  DirectoryLevels = 24
INVARIANTS
  PageIsReleased
