SPECIFICATION Spec
CONSTANTS
  Requests <- MCRequests
  Libraries <- MCLibraries
  MaxCommands = 3
  FinePerMicro = 4
  HalfTurn = 16
  Pole = 8
  LatLimit = 7
  RowEdges <- MCRowEdges
  MinDim = 4
  MaxDim = 16
  ZoomOffsetsCount = 3
  FixtureDim = 2
  FixtureZoom = 1
  Dates = {0, 5}
  U32Max = 1120
  MaxRun = 4
CHECK_DEADLOCK FALSE
INVARIANTS
  DebugPredictsMake
  NameTellsGridPacksApart
  OnlySizeRefusedLate
  InspectAgrees
  NamesAreCanonical
