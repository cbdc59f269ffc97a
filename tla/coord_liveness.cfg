\* Under fairness of the tasks, with foreign files and an empty batch: no signing
\* pass is thrown away half done, and the retries of the initialization end.
\* The process may stop: at a bound, or at a prompt nobody answers.
SPECIFICATION FairSpec
CONSTANTS
  b1 = b1
  b2 = b2
  p1 = p1
  p2 = p2
  Batches = {b1, b2}
  PoolSize <- OneAndNone
  Payloads = {p1, p2}
  None = None
  N = 3
  MaxRound = 2
  MaxRestarts = 0
  MaxOutputs = 1
  StrayFiles = TRUE
INVARIANTS
  TypeOK
  PoolsInLockstep
  SignPassAllOrNothing
PROPERTIES
  RetryRecovers
CHECK_DEADLOCK FALSE
