SPECIFICATION Spec
CONSTANTS
  p = p
  q = q
  first = first
  second = second
  noPayload = noPayload
  Callers = {first, second}
  Dtos <- OneBatch
  Registered <- MCRegistered
  MinAmount = 10
  MinBridgingFee = 5
  MinOperationFee = 3
  MaxCalls = 2
  MaxReceivers = 3
  NoPayload = noPayload
INVARIANT
  SameBatchSameTx
CHECK_DEADLOCK FALSE
