\* Two or three parties and none or one presignature at each start, and crashes
\* in the middle of writes.
\* The process may stop: at a bound, or at a prompt nobody answers.
SPECIFICATION Spec
CONSTANTS
  Ns <- TwoOrThree
  Ks = {0, 1}
  None = None
  Torn = Torn
  MaxKeys = 3
  MaxRuns = 3
  MaxCrashes = 2
INVARIANTS
  TypeOK
  SharesOfOneKey
  OutputAgreesAtPrompt
PROPERTIES
  PublishedKeySpendable
  KeyDiscardedOnlyOnResize
  PoolsNeverReissued
CHECK_DEADLOCK FALSE
