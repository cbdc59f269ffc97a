\* Two batches of two sets: pools of different batches can pass
\* the size test. One crash of the coordinator.
\* The process may stop: at a bound, or at a prompt nobody answers.
SPECIFICATION Spec
CONSTANTS
  b1 = b1
  b2 = b2
  p1 = p1
  p2 = p2
  Batches = {b1, b2}
  PoolSize <- TwoByTwo
  Payloads = {p1, p2}
  None = None
  N = 3
  MaxRound = 2
  MaxRestarts = 1
  MaxOutputs = 1
  StrayFiles = FALSE
SYMMETRY Interchangeable
INVARIANTS
  SameBatchSameSet
  NeverSignedAgain
PROPERTIES
  NoStalePoolSurvivesInit
  ImplementsOneTimeSigning
CHECK_DEADLOCK FALSE
