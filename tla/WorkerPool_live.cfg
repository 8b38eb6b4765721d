SPECIFICATION FairSpec
CONSTANTS
  Sessions = {s1, s2}
  Resources = {r1, r2}
  Calls = {c1, c2}
  Workers = {w1, w2}
  Preloaded = {r1}
  MaxWorkers = 2
  MaxLoaded = 0
  MayExpire = TRUE
  MayCancel = FALSE
  MayOverlap = FALSE
  None = None
PROPERTY AcquireEnds
PROPERTY ExpiredIsReclaimed
