SPECIFICATION StreamSpec
CONSTANTS
  Letters = {97, 32}
  MaxArg = 2
  Smallest = 2
  VsnStart = 1
  MaxSource = 4
  BuffSizes = {1, 3}
  BuffSz = 2
  ReadStart = 1
  SplitLen = 2
  SecureStart = 1
INVARIANTS ReadsMeet WritesConserve
