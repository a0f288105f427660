SPECIFICATION RecoverySpec
CONSTANTS
  Worker = {w1, w2}
  Event = {1, 2, 3}
  Email = {1}
  RetriedEmail = {1}
  Limit = 2
  MaxAttempts = 2
  JobAttempts = 2
  MaxFaults = 2
  Lone = w1
  NoEvent = NoEvent
  NoWorker = NoWorker
INVARIANT DuplicatesBounded
INVARIANT ExclusiveClaims
PROPERTY ImplementsDelivery
PROPERTY EventuallySettled
CHECK_DEADLOCK FALSE
