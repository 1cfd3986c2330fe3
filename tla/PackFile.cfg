SPECIFICATION Spec
CONSTANTS
  Packs <- MCPacks
  Top = 4
  Values = {0, 1, 2, 4, 24, 255}
  Crowded <- MCCrowded
  MaxAltered = 2
  Body <- MCBody
  Flips <- MCFlips
INVARIANTS
  BurstsAreNoticed
  WrittenPacksAgree
  ValidatorVouches
  NewerMinorsOpen
CHECK_DEADLOCK FALSE
