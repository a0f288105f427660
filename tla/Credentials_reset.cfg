SPECIFICATION Spec
CONSTANTS
  Request = {r1, r2, r3, r4}
  Asked = {"forgot", "reset", "login"}
  Scope = {platform}
  Tenant = {}
  Original = original
SYMMETRY Symmetry
INVARIANT ResetRevokesEverySession
CHECK_DEADLOCK FALSE
