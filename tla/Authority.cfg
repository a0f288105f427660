SPECIFICATION AuthoritySpec
CONSTANTS
  Member <- Members
  Request = {r1, r2}
  Asked = {"accept", "promote", "demote", "suspend", "revoke"}
  MaxChanges = 1
  Editor <- Pair
  Edit = {e1, e2}
  EditAsked = {"create", "update", "replace", "archive", "grant", "revoke"}
  Role = {x}
  Permission = {p}
  Command = {c}
  Process = {x1, x2}
  Console = {h}
  CommandAsked = {"login", "session", "activation"}
  Window = 2
  Lifetime = 3
  MaxSkew = 1
  MaxTime = 5
  Person = {v, m}
  Viewer = v
  Device = {d1, d2}
  OwnDevice = d1
  MaxLoads = 3
  MaxLate = 1
  MaxElsewhere = 2
  Operator = {o1, o2}
  NewSlug = {s1, s2}
  NewOwner = {w}
  MaxSubmits = 2
SYMMETRY Symmetry
INVARIANT TriggerNeverRejects
INVARIANT VersionsTellAuthority
INVARIANT ArchivedRolesAreHeldByNobody
INVARIANT ProofsLiveTheirTime
INVARIANT PagesShowTheirOwnWork
INVARIANT OffersWhatIsPermitted
INVARIANT AVisitMakesOneTenant
PROPERTY AuthorityHolds
PROPERTY KeepsPromise
PROPERTY ActsOnCurrentAuthority
PROPERTY NoChangeIsOverwrittenUnseen
CHECK_DEADLOCK FALSE
