SPECIFICATION Spec
CONSTANTS
  url = url
  synth = synth
  Previous = Previous
  Builds = {url, synth}
  Source <- MCSource
  TileCount = 2
  Chunks = 2
  MaxRunning = 2
INVARIANTS
  OutIsWholeAlone
  PartialCleanedUp
PROPERTIES
  OkMeansPublished
  OutChangesOnSuccess
  CancelHonoured
  CancelEnds
