SPECIFICATION Spec
CONSTANTS
  Sessions = {s1, s2}
  Resources = {r1, r2, r3}
  Calls = {c1, c2}
  Workers = {w1, w2, w3}
  Preloaded = {r1}
  MaxWorkers = 2
  MaxLoaded = 1
  MayExpire = TRUE
  MayCancel = TRUE
  MayOverlap = TRUE
  None = None
SYMMETRY Symmetry
INVARIANT QueueDiscipline
INVARIANT WaitersHaveWorker
INVARIANT WorkerTablesAgree
PROPERTY GrantInOrder
