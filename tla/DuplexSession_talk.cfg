SPECIFICATION DuplexSpec
CONSTANTS
  Turns = {1, 2}
  Pieces <- TwoThenOne
  Chunks <- OneEach
  OutputCapacity = 2
  HistoryLimit = 2
  HasLlm = TRUE
  HasAvatar = TRUE
  MaySwallow = TRUE
  Failing = {"model"}
  MaxEpoch = 1
  None = None
  InputCapacity = 1
  Chatty = FALSE
  Intents = {"cancel_and_flush"}
  Sockets = {k1}
  DownlinkCapacity = 1
  MaySend = TRUE
INVARIANT LockMatchesSynthesis
INVARIANT HistoryInPairs
PROPERTY SentencesInOrder
CHECK_DEADLOCK FALSE
