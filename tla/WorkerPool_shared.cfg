SPECIFICATION Spec
CONSTANTS
  Sessions = {s1, s2, s3}
  Resources = {r1, r2}
  Calls = {c1, c2, c3}
  Workers = {w1, w2, w3}
  Preloaded = {r1}
  MaxWorkers = 2
  MaxLoaded = 1
  MayExpire = TRUE
  MayCancel = FALSE
  MayOverlap = FALSE
  None = None
SYMMETRY Symmetry
INVARIANT ExclusiveWorker
