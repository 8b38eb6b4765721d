SPECIFICATION StreamFairSpec
CONSTANTS
  Clients = {k1}
  ClientQueueSize = 2
  SeqMod = 1
  MayFailEncode = FALSE
  MaxEpoch = 2
  MaxSeq = 0
  None = None
  Pushers = {p1}
  QueueCapacity = 1
  MaxBatches = 1
  BatchSize = 1
  TransitionFrames = 1
  DegradeAfter = 2
  HasFallback = TRUE
  MayRaise = FALSE
INVARIANT ClosesMouthFirst
PROPERTY SentinelConsumed
PROPERTY EveryClientEnds
