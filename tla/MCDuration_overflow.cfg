CONSTANTS
  Numbers <- MCNumbers
  Length <- MCLength
  MaxDigits = 2
  Word = 1024
CHECK_DEADLOCK FALSE
SPECIFICATION Spec
INVARIANTS
  OverflowRejected
