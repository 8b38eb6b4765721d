SPECIFICATION StreamSpec
CONSTANTS
  Clients = {}
  ClientQueueSize = 1
  SeqMod = 1
  MayFailEncode = TRUE
  MaxEpoch = 2
  MaxSeq = 0
  None = None
  Pushers = {p1, p2}
  QueueCapacity = 2
  MaxBatches = 2
  BatchSize = 1
  TransitionFrames = 2
  DegradeAfter = 2
  HasFallback = TRUE
  MayRaise = TRUE
CHECK_DEADLOCK FALSE
INVARIANT NobodyStuck
PROPERTY NoWorkForStale
PROPERTY TransitionLeads
