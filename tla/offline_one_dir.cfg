\* Input and output in one directory.
\* The process may stop: at a bound, or at a prompt nobody answers.
SPECIFICATION NoCrashSpec
CONSTANTS
  b1 = b1
  b2 = b2
  p1 = p1
  p2 = p2
  f1 = f1
  Batches = {b1, b2}
  PoolSize <- TwoByTwo
  Payloads = {p1, p2}
  None = None
  Names = {f1}
  SingleDir = TRUE
  StrayFiles = FALSE
  MaxOutputs = 4
  MaxSessions = 1
PROPERTIES
  LoadedPoolsAreServed
CHECK_DEADLOCK FALSE
