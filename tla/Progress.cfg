SPECIFICATION ProgressSpec
CONSTANTS
  Request = {1, 2, 3}
  Asked = {"refresh", "guarded", "logout", "accept"}
  MaxVersion = 2
  MaxCrashes = 0
  NoRequest = NoRequest
  Change = {1, 2}
  Wanted = {"accept", "promote", "demote", "suspend", "revoke"}
  Member <- Pair
  MaxChanges = 0
  Prober = {1, 2}
  Dependency = {d1, d2}
  Timeout = 1
  Cached = 2
  Builder = {1, 2}
  MaxSchema = 2
INVARIANT ClientFitsMarker
PROPERTY ReadyIsRecent
PROPERTY EveryRequestEnds
PROPERTY ReuseEndsUnlessRolledBack
CHECK_DEADLOCK FALSE
