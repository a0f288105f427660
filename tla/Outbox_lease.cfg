SPECIFICATION Spec
CONSTANTS
  Worker = {w1, w2}
  Event = {1}
  Email = {1}
  RetriedEmail = {1}
  Limit = 1
  MaxAttempts = 2
  JobAttempts = 2
  MaxFaults = 1
  NoEvent = NoEvent
  NoWorker = NoWorker
INVARIANT LeaseHeldByOne
CHECK_DEADLOCK FALSE
