SPECIFICATION BuilderSpec
CONSTANTS
  Keys <- MCKeys
  Bytes <- MCBytes
  ByteLen <- MCByteLen
  Tags = {1}
  Payloads = {1, 2}
  PayloadLen <- MCPayloadLen
  SourceIds = {0}
  Metas <- MCMetas
  U32Max = 350
  MaxTiles = 3
  MaxExts = 1
  MaxSources = 0
  Colours = {1, 2}
  PixelsPerTile = 2
  Configs <- MCConfigs
  Descriptors <- MCDescriptors
  Quantiser = 7
  AttrTag = 1
INVARIANTS
  HashFollowsIndex
PROPERTIES
  RejectionIsHarmless
  FinishEnds
