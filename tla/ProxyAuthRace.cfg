\* Two connections present one credential at the same time; every step may fail.
CONSTANTS
  None = None
  u1 = u1
  b1 = b1
  Usernames = {c1}
  Users = {u1}
  Sessions = {b1}
  Owner <- MCOwner
  Sources = {a1}
  RequireTLS = TRUE
  Connections = {k1, k2}
  TTL = 1
  CredentialFailureLimit = 2
  SourceFailureLimit = 1
  SourceFailureWindow = 1
  UserLimit = 1
  SessionLimit = 1
  IssuanceWindow = 1
  MaxClock = 2
  MaxFailures = 3
SPECIFICATION FairProxySpec
VIEW ViewWithoutReply
INVARIANTS
  TypeOK MaterialOnlyWhileUsable ProxyTypeOK SingleSession AcceptedProperly NoUpstreamLeak
  GuessBudget
PROPERTIES ThrottleExact ImplementsOneTimeCredential PasswordAnswered
