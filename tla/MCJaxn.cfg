\* JAXN literals, with a buffer of four digits and integers of eight bits.
CONSTANTS
  Bits = 8
  max_mantissa_digits = 4
  MaxIntegerDigits = 3
  MaxDigits = 6
  MaxExponentDigits = 2
  Literals <- MCLiterals
SPECIFICATION ReaderSpec
INVARIANTS
  ReaderTypeOK
  DigitsFit
  ReadsLiteral
  RefusesUnreadable
CHECK_DEADLOCK FALSE
