\* Are comments and literals redacted, however a comment begins and wherever a quote is?
CONSTANTS
  Letters <- MCLetters
  Digits <- MCDigits
  LowerCase <- MCLowerCase
  Inputs <- MCInputs
SPECIFICATION Spec
INVARIANTS LiteralsRedacted
CHECK_DEADLOCK FALSE
