SPECIFICATION EarsFaceSpec
CONSTANTS
  Hangover = 2
  SilenceNeeded = 4
  SilenceFrames = 2
  MaxConnections = 3
  MaxOut = 2
  MaxReplies = 2
  MayStall = FALSE
  MaxEpoch = 3
  MaxGap = 2
  Sessions = {1, 2}
  Length = 4
  Batch = 2
INVARIANT ActsOnCurrent
PROPERTY HearsAgain
PROPERTY SmoothMotion
PROPERTY EngineComesFree
CHECK_DEADLOCK FALSE
