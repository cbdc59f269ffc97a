\* A crash between any two file operations, foreign files, two sessions.
\* The process may stop: at a bound, or at a prompt nobody answers.
SPECIFICATION Spec
CONSTANTS
  b1 = b1
  b2 = b2
  p1 = p1
  p2 = p2
  f1 = f1
  Batches = {b1, b2}
  PoolSize <- TwoAndOne
  Payloads = {p1, p2}
  None = None
  Names = {f1}
  SingleDir = FALSE
  StrayFiles = TRUE
  MaxOutputs = 3
  MaxSessions = 2
INVARIANTS
  TypeOK
  PoolsAligned
  NeverSignedAgain
  OutputsComeInPairs
PROPERTIES
  PayloadKeptUntilExported
  OutputsNeverOverwritten
CHECK_DEADLOCK FALSE
