SPECIFICATION FairSpec
CONSTANTS
  p1 = p1
  TrackedPrograms = {p1}
  NumTxs = 4
  MaxSlot = 3
  Ledgers <- MCLedgers
  Height <- MCHeight
  StartFromSlot = 1
  MaxLimit = 1
  Commitment = "finalized"
  Faults = {"rpc", "cursor"}
  MaxFaults = 2
  Kinds <- OneEvent
INVARIANTS
  NoRepeat
  FinalizedWorkDone
  MarkersTellBacklog
PROPERTIES
  FinalizedNumberAdvances
  EventuallyDelivered
  FinalizedNumberCatchesUp
  KeepsListing
