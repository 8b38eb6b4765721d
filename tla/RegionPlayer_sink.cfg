SPECIFICATION PlayerSpec
CONSTANTS
  Clients = {k1, k2}
  ClientQueueSize = 1
  SeqMod = 65536
  MayFailEncode = FALSE
  MaxEpoch = 1
  MaxSeq = 3
  None = None
  Backgrounds = {b1, b2}
  MaxDecoding = 2
  MayMisdecode = TRUE
SYMMETRY Symmetry
INVARIANT EpochsAscend
INVARIANT BoundaryIsMarked
INVARIANT ClientsServed
INVARIANT PictureMatches
