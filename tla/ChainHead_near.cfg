SPECIFICATION Spec
CONSTANTS
  MaxSlot = 8
  Chains <- AllChains
  StartFromSlot = 1
  Threshold = 3
  Offset = 12
  Target = 12
  Faults = {"point", "crash"}
  MaxFaults = 2
INVARIANTS
  TypeOK
  BoundaryBlocksStored
  SelectionExact
