SPECIFICATION Spec
CONSTANTS
  w1 = w1
  w2 = w2
  w3 = w3
  Work = {w1, w2, w3}
  Delayed = {w3}
  Caller = {p, q}
  NULL = NULL
  SemMax = 3
  MsgNum = 1
  Careful = TRUE
INVARIANTS
  WorkInv
PROPERTIES
  CancelHolds
  QueuedWorkRuns
