\* Three parties, protocols of two rounds, two presignatures, two failures.
\* The programs stop when main returns, or waits for a task that never ends.
SPECIFICATION Spec
CONSTANTS
  N = 3
  Plan <- P2PThenBroadcast
  Messages = 2
  MaxFailures = 2
INVARIANTS
  TypeOK
  NoSendToDroppedInbox
PROPERTIES
  DemoEnds
  PoolKeepsPromise
CHECK_DEADLOCK FALSE
