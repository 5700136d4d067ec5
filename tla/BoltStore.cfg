SPECIFICATION Spec
CONSTANTS
  Slots = {1, 2, 3, 4}
  LegacyEvents = 1
  Heights <- MCHeights
  MaxEvents = 3
INVARIANTS
  TypeOK
  IndexMatchesScan
  LookupConsistent
