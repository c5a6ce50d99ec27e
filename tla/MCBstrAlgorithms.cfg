SPECIFICATION Spec
CONSTANTS
  Letters = {65, 97, 0}
  Octets = {0, 61, 131, 214, 255}
  MaxA = 5
  MaxB = 3
  MaxOctets = 5
  B64Line = 3
  UuLine = 3
INVARIANTS StringsAgree CodecsInvert
CHECK_DEADLOCK FALSE
