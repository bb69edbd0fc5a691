\* Nobody comes back for a credential: is its password still cleared?
CONSTANTS
  None = None
  u1 = u1
  b1 = b1
  Usernames = {c1}
  Users = {u1}
  Sessions = {b1}
  Owner <- MCOwnerOne
  Sources = {a1}
  TTL = 1
  CredentialFailureLimit = 2
  SourceFailureLimit = 2
  SourceFailureWindow = 1
  UserLimit = 1
  SessionLimit = 1
  IssuanceWindow = 1
  MaxClock = 2
  MaxFailures = 1
SPECIFICATION TimedSpec
PROPERTIES ExpiredMaterialCleared
