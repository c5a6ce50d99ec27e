SPECIFICATION MCSpec
CONSTANTS
  Letters = {97, 32}
  MaxLen = 3
  MaxCB = 2
  MaxArg = 2
  Smallest = 2
  VsnStart = 1
INVARIANTS StringsWellFormed CallsMeet MessagesWhole MethodsMeet
PROPERTIES OverrunsByOne ProtectedOnlyShrinks
