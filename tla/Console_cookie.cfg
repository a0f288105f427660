SPECIFICATION Spec
CONSTANTS
  Call = {c1, c2, c3}
  Asked = {"me", "sessions", "list", "change", "accept", "refresh", "logout", "revoke", "others", "login"}
  Start = start
  MaxVersion = 2
SYMMETRY Symmetry
INVARIANT PermissionChangeKeepsSession
CHECK_DEADLOCK FALSE
