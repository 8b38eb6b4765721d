SPECIFICATION PartsSpec
CONSTANTS
  Duplex = {d1, d2}
  Push = {p1}
  Ids = {i1, i2, i3}
  d1 = d1
  d2 = d2
  p1 = p1
  i1 = i1
  i2 = i2
  i3 = i3
  IdOf <- OwnIds
  MaxSessions = 1
  Failing = {"avatar", "asr"}
  None = None
  Clients = 2
  Tiers = 5
  MinHold = 4
  RecoverStreak = 3
  MinPiece = 2
  MaxText = 5
INVARIANT RenewedLeaseHeld
INVARIANT NoOrphans
INVARIANT ClosedHoldsNothing
INVARIANT LongSentencesSpoken
PROPERTY FailedLeaseEnds
PROPERTY ShutdownEnds
PROPERTY RecoveryVerified
PROPERTY QualityReturns
CHECK_DEADLOCK FALSE
