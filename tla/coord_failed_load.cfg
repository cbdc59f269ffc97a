\* The file a failed load was told to be fixed is gone.
\* The process may stop: at a bound, or at a prompt nobody answers.
SPECIFICATION Spec
CONSTANTS
  b1 = b1
  b2 = b2
  p1 = p1
  p2 = p2
  Batches = {b1, b2}
  PoolSize <- OneByOne
  Payloads = {p1, p2}
  None = None
  N = 3
  MaxRound = 2
  MaxRestarts = 0
  MaxOutputs = 2
  StrayFiles = FALSE
PROPERTIES
  FailedLoadKeepsOutputs
CHECK_DEADLOCK FALSE
