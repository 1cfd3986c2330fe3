SPECIFICATION Spec
CONSTANTS
  url = url
  synth = synth
  Previous = Previous
  Builds = {synth, url}
  Source <- MCSource
  TileCount = 1
  Chunks = 2
  MaxRunning = 2
INVARIANTS
  OutIsWhole
