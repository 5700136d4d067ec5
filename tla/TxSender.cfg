SPECIFICATION Spec
CONSTANTS
  p = p
  q = q
  first = first
  second = second
  noPayload = noPayload
  Callers = {first, second}
  Dtos <- MCDtos
  Registered <- MCRegistered
  MinAmount = 10
  MinBridgingFee = 5
  MinOperationFee = 3
  MaxCalls = 2
  MaxReceivers = 3
  NoPayload = noPayload
SYMMETRY Symmetry
INVARIANTS
  OwnAccounts
  BatchLayout
  PayloadFound
  BudgetKept
  ALTAddressesUsed
CHECK_DEADLOCK FALSE
