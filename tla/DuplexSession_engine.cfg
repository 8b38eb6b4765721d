SPECIFICATION DuplexSpec
CONSTANTS
  Turns = {1,2}
  Pieces <- OneEach
  Chunks <- TwoThenOne
  OutputCapacity = 1
  HistoryLimit = 2
  HasLlm = FALSE
  HasAvatar = TRUE
  MaySwallow = TRUE
  Failing = {"engine"}
  MaxEpoch = 1
  None = None
  InputCapacity = 1
  Chatty = TRUE
  Intents = {"cancel_and_flush", "duck", "close"}
  Sockets = {k1}
  DownlinkCapacity = 1
  MaySend = FALSE
INVARIANT ExclusiveInference
CHECK_DEADLOCK FALSE
