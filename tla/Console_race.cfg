SPECIFICATION ConsoleSpec
CONSTANTS
  Call = {c1, c2, c3}
  Asked = {"me", "list", "change", "accept", "refresh", "logout", "revoke", "others", "login"}
  Start = start
  MaxVersion = 3
  Attempt = {t1, t2, t3}
  Account = {ann, bob}
  Network = {n1, n2}
  Host = {h}
  Base = 1
  Limit = 3
  Window = 2
  MaxTime = 3
SYMMETRY Symmetry
INVARIANT ReuseHasCause
INVARIANT JarIsNewest
INVARIANT RefusalHasCause
INVARIANT FailuresKeepTheirDelay
CHECK_DEADLOCK FALSE
