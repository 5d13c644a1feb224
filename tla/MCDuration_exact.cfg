CONSTANTS
  Numbers <- MCNumbers
  Length <- MCLength
  MaxDigits = 2
  Word = 32768
CHECK_DEADLOCK FALSE
SPECIFICATION Spec
INVARIANTS
  AcceptsExactly
  RoundTrip
