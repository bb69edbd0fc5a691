\* The accept loop fails while a client is connected.
CONSTANTS
  None = None
  Connections = {k1, k2}
  MaxMySQLSessions = 2
SPECIFICATION FairSpec
PROPERTIES ListenerExitCancels
\* The process ends.
CHECK_DEADLOCK FALSE
