\* Two concurrent requests, two logins of one user, every session lifetime passes.
CONSTANTS
  None = None
  u1 = u1
  Usernames = {c1, c2}
  Users = {u1}
  Sessions = {b1, b2}
  Owner <- MCOwner
  Sources = {a1}
  TTL = 1
  CredentialFailureLimit = 1
  SourceFailureLimit = 1
  SourceFailureWindow = 1
  UserLimit = 2
  SessionLimit = 1
  IssuanceWindow = 1
  MaxClock = 3
  MaxFailures = 0
  Requests = {r1, r2}
  IdleLifetime = 2
  AbsoluteLifetime = 3
SPECIFICATION BrowserSpec
SYMMETRY Symmetry
VIEW ViewWithoutReply
INVARIANTS BrowserTypeOK ServedProperly IssuanceRateBounded BucketsComplete
PROPERTIES OnlyUseProlongs ImplementsEagerSession
