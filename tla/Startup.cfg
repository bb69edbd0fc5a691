\* From the command line to the exit code: every file, every failure, three clients,
\* two slots, and a signal at any time.
CONSTANTS
  None = None
  Connections = {k1, k2, k3}
  MaxMySQLSessions = 2
  Files <- MCFiles
  Environments = {"", "from_env"}
  PasswordFiles = {"", "from_file"}
SPECIFICATION FairStartupSpec
VIEW ServingView
INVARIANTS
  TypeOK SlotsExact CancelReachesAll AuditOutlivesSessions BuiltOnPositiveLimits
  UpstreamSecretByReference EveryUserCanLogIn ExitsInOrder
PROPERTIES SignalEndsProcess
\* The process ends.
CHECK_DEADLOCK FALSE
