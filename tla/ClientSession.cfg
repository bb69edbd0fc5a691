\* Any sequence of commands, answered and audited in any way.
CONSTANTS
  None = None
  Statements <- MCStatements
  Responses <- MCResponses
  MaxResultRows = 2
  MaxResultBytes = 3
SPECIFICATION FairSpec
INVARIANTS LayersAgree MaskedAsDecided WithinLimits MaskedCountExact
PROPERTIES ImplementsAuditedSession ClosedSessionEnds
\* The session ends.
CHECK_DEADLOCK FALSE
