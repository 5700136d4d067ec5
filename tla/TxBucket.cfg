SPECIFICATION Spec
CONSTANTS
  a = a
  b = b
  Sigs = {a, b}
  Slots = {1, 2}
  Batches <- MCBatches
  LegacyQueues <- MCLegacyQueues
  MaxQueued = 4
INVARIANTS
  TypeOK
PROPERTIES
  ImplementsQueue
