SPECIFICATION FairSpec
CONSTANTS
  MaxSlot = 9
  Chains <- AllChains
  StartFromSlot = 2
  Threshold = 2
  Offset = 5
  Target = 5
  Faults = {"fetch", "slot", "point", "crash"}
  MaxFaults = 1
INVARIANTS
  HeadWithinChain
PROPERTIES
  PointAdvances
  AnswersStable
  ReachesTip
