SPECIFICATION Spec
CONSTANTS
  b0 = b0
  b5 = b5
  bBig = bBig
  Keys <- MCKeys
  Bytes <- MCBytes
  ByteLen <- MCByteLen
  Tags <- MCTags
  Payloads <- MCPayloads
  PayloadLen <- MCPayloadLen
  SourceIds = {0}
  Metas <- MCMetas
  U32Max = 365
  MaxTiles = 3
  MaxExts = 2
  MaxSources = 1
INVARIANTS
  TypeOK
  IndexPointsAtTiles
  ExtentsDisjoint
  DirectorySelectsLevels
  LateFailuresAreIo
  LayoutIsCanonical
PROPERTIES
  FinalizeReturns
  ImplementsPackStore
