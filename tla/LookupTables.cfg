SPECIFICATION Spec
CONSTANTS
  first = first
  second = second
  noPayload = noPayload
  noEntry = noEntry
  Users = {first, second}
  Batch <- MCBatch
  AltRequests <- MCAltRequests
  Registered <- MCRegistered
  MaxPerIx = 5
  MaxReceivers = 3
  MinAmount = 1
  MinBridgingFee = 1
  MinOperationFee = 1
  NoPayload = noPayload
  NoEntry = noEntry
SYMMETRY Symmetry
INVARIANTS
  TablesTypeOK
  StaleIsPrefix
  ExtendAddsMissing
  LandedAsMeant
  TrackerReadsBatch
CHECK_DEADLOCK FALSE
