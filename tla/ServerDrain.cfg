\* A shutdown while a statement is executing.
CONSTANTS
  None = None
  Connections = {k1, k2}
  MaxMySQLSessions = 2
SPECIFICATION Spec
PROPERTIES DrainedUntilDeadline
\* The process ends.
CHECK_DEADLOCK FALSE
