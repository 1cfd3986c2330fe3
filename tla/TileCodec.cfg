SPECIFICATION CodecSpec
CONSTANTS
  MaxRun = 4
  Inputs <- MCInputs
  Streams <- MCStreams
  Lengths = {1, 3, 4}
  Sources <- MCSources
  Quantisers <- MCQuantisers
  ExpectedDim = 2
INVARIANTS
  RoundTrip
  EncodedFitsReservation
  DecodersAgree
  CodesAreNearest
  TileFitsHeader
