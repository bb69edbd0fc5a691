\* A statement without a result after one that was masked.
CONSTANTS
  None = None
  Statements <- MCStatements
  Responses <- MCResponses
  MaxResultRows = 2
  MaxResultBytes = 3
SPECIFICATION Spec
INVARIANTS NoStaleMaskCount
CHECK_DEADLOCK FALSE
