SPECIFICATION Spec
CONSTANTS
  NoOverride = NoOverride
  Settings <- MCSettings
  OsmInterval = 2
  OtherInterval = 1
  Coords <- MCCoords
  Stamps <- MCStamps
  RetryHeaders <- MCRetryHeaders
  Now <- MCNow
  Fallback = 5
  TicksPerSecond = 1
  LocalHosts <- MCLocalHosts
  OsmHosts <- MCOsmHosts
  Long = 4
INVARIANTS
  TimestampIsNewest
  CancelWithinOneTile
PROPERTIES
  SpacedUnlessThrottled
  PrefetchEnds
