SPECIFICATION Spec
CONSTANTS
  Worker = {w1}
  Event = {1}
  Email = {1}
  RetriedEmail = {}
  Limit = 1
  MaxAttempts = 2
  JobAttempts = 2
  MaxFaults = 1
  NoEvent = NoEvent
  NoWorker = NoWorker
INVARIANT IdentityMailRetried
CHECK_DEADLOCK FALSE
