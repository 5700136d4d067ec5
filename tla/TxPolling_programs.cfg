SPECIFICATION FairSpec
CONSTANTS
  p1 = p1
  p2 = p2
  TrackedPrograms = {p1, p2}
  NumTxs = 2
  MaxSlot = 2
  Ledgers <- MCMixedLedgers
  Height <- MCHeight
  StartFromSlot = 1
  MaxLimit = 3
  Commitment = "finalized"
  Faults = {}
  MaxFaults = 0
  Kinds <- OneEvent
PROPERTIES
  EventuallyDelivered
