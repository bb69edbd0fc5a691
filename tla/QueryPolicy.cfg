\* Every statement of MCQueryPolicy, from the client to the audit log.
CONSTANTS
  Letters <- MCLetters
  Digits <- MCDigits
  LowerCase <- MCLowerCase
  Inputs <- MCInputs
SPECIFICATION Spec
INVARIANTS
  ReadIsHarmless ProbeAndSetupAreHarmless ScannersAgree ShownIfPermitted NothingSecretLogged
CHECK_DEADLOCK FALSE
