SPECIFICATION FairSpec
CONSTANTS
  Request = {r1, r2, r3}
  Asked = {"refresh", "guarded"}
  MaxVersion = 2
  MaxCrashes = 0
  NoRequest = NoRequest
PROPERTY ReuseEndsFamily
CHECK_DEADLOCK FALSE
