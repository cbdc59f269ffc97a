\* One directory for all programs, four payments over two batches.
\* The system stops when all payments are made.
SPECIFICATION Spec
CONSTANTS
  b1 = b1
  b2 = b2
  p1 = p1
  p2 = p2
  p3 = p3
  p4 = p4
  Batches = {b1, b2}
  PoolSize <- TwoByTwo
  Payloads = {p1, p2, p3, p4}
  None = None
  N = 3
  Deliveries <- FirstThenSecond
  BtcPayload = "btc_sighash_payload.bin"
  MaxRound = 4
PROPERTIES
  DeletedPayloadWasTaken
  PaymentsConfirm
CHECK_DEADLOCK FALSE
