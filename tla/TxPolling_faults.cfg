SPECIFICATION Spec
CONSTANTS
  p1 = p1
  TrackedPrograms = {p1}
  NumTxs = 3
  MaxSlot = 3
  Ledgers <- MCLedgers
  Height <- MCHeight
  StartFromSlot = 2
  MaxLimit = 2
  Commitment = "confirmed"
  Faults = {"rpc", "cursor", "write", "crash"}
  MaxFaults = 2
  Kinds <- TwoEvents
INVARIANTS
  TypeOK
  NoEventLost
  QueuedOnce
PROPERTIES
  CursorSlotAdvances
  DeliversInOrder
