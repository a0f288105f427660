SPECIFICATION Spec
CONSTANTS
  Request = {r1, r2, r3, r4}
  Asked = {"forgot", "invite", "activate", "reset", "login"}
  Scope = {platform, acme}
  Tenant = {acme}
  Original = original
SYMMETRY Symmetry
INVARIANT OneOutstanding
INVARIANT LinkUsedOnce
INVARIANT ResetEndsOpenSessions
CHECK_DEADLOCK FALSE
