SPECIFICATION FairSpec
CONSTANTS
  waiter = waiter
  other = other
  none = none
  Callers = {waiter, other}
  Cancellable = {waiter}
  Waiter = waiter
  Methods = {"getSignatureStatuses", "getBlocks"}
  Statuses = "getSignatureStatuses"
  Audited = {"getSignatureStatuses"}
  LimitCount <- MCLimitCount
  BurstShare = 3
  Window = 2
  Headers = {2}
  DefaultRetryAfter = 1
  Storm = {"getBlocks"}
  MaxRefusals = 1
  NoCaller = none
  NoMethod = none
  Commitments = {"confirmed"}
  MaxWaits = {1}
  PollPause = 1
INVARIANTS
  WaitTypeOK
  WindowQuota
  WaitSound
PROPERTIES
  CooldownHonoured
  OthersProceed
  WaitEnds
