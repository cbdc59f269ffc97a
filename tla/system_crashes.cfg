\* Two payments over two batches, a crash of either machine, and any signature
\* file may be named at any time.
\* The system stops when all payments are made or the batches are used up.
SPECIFICATION Spec
CONSTANTS
  b1 = b1
  b2 = b2
  p1 = p1
  p2 = p2
  p3 = p3
  p4 = p4
  Batches = {b1, b2}
  PoolSize <- OneAndTwo
  Payloads = {p1, p2}
  None = None
  N = 3
  Deliveries <- FirstThenSecond
  BtcPayload = "btc_sighash_payload.bin"
  Unreliable = {"coordinator", "offline"}
  MaxRound = 2
  MaxOutputs = 3
  MaxRestarts = 1
  MaxSessions = 2
INVARIANTS
  SignatureFilesKept
PROPERTIES
  CoordinatorEnvironmentHolds
  SystemKeepsPromise
CHECK_DEADLOCK FALSE
