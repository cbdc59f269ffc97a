\* Four payments over two batches; nothing fails and the operator is careful.
\* The system stops when all payments are made or the batches are used up.
SPECIFICATION Spec
CONSTANTS
  b1 = b1
  b2 = b2
  p1 = p1
  p2 = p2
  p3 = p3
  p4 = p4
  Batches = {b1, b2}
  PoolSize <- TwoByTwo
  Payloads = {p1, p2, p3, p4}
  None = None
  N = 3
  Deliveries <- FirstThenSecond
  BtcPayload = "btc_sighash_payload.bin"
  Unreliable = {"none"}
  MaxRound = 4
  MaxOutputs = 4
  MaxRestarts = 0
  MaxSessions = 1
INVARIANTS
  NoRoundDiscarded
PROPERTIES
  PaymentsConfirm
CHECK_DEADLOCK FALSE
