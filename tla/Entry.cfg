SPECIFICATION EntrySpec
CONSTANTS
  Request = {a, b, c}
  Asked = {"read", "refresh", "guarded", "logout", "accept", "sweep", "reset"}
  MaxVersion = 3
  MaxCrashes = 1
  NoRequest = NoRequest
  Visit = {a, b}
  Idle = 5
  Absolute = 10
  Coalesce = 2
  MaxFlight = 1
  MaxTime = 11
  Tab = {a, b}
  Password = {p}
  MaxLinks = 2
  MaxCalls = 2
  Operator = {a, b}
  Seeder = {a, b}
  Email = {a, b}
  Host = {h}
  Tenant = {a, b}
  Query = {a, b}
  Connection = {c1}
  Required <- Manifest
  MaxMigrations = 2
SYMMETRY Symmetry
INVARIANT OneUsableToken
INVARIANT RevocationSticks
PROPERTY SnapshotNeverRegresses
PROPERTY OneAdministratorOneLink
INVARIANT PagesKnowWhatTheyDid
INVARIANT AcceptedCatalogIsolates
PROPERTY ExpiresWhenUnused
CHECK_DEADLOCK FALSE
