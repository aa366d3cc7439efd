SPECIFICATION Spec
CONSTANTS
  Texts <- MCTexts
  Values = {0, 7, 10, 100, 409, 999}
  Words = {0, 10, 255, 409, 65535}
  DecimalBytes = 4
  HexDigits = 4
  LineFeed = "LF"
  CarriageReturn = "CR"
  MaxLog = 7
INVARIANTS
  WireExact
  NumbersReadBack
PROPERTIES
  WritesEnd
CHECK_DEADLOCK FALSE
