SPECIFICATION Spec
CONSTANTS
  Exception = Exception
  IO = IO
  e1 = e1
  e2 = e2
  e3 = e3
  Types <- MCTypes
  Super <- MCSuper
  TypeOf <- MCTypeOf
  Exc = {e1, e2, e3}
  NoExc = NoExc
  Free = Free
  JmpBufs = {j1, j2, j3}
  NoJmp = NoJmp
  MaxDepth = 3
  Usage = {"throwInFinally", "nestInFinally", "nestInCatch", "throwInCatch", "goOnUncaught"}
SYMMETRY MCSymmetry
INVARIANTS FramesMatchBlocks OneOwner NoUndefinedBehaviour
PROPERTIES FinallyNeverSkipped OldestKept
CHECK_DEADLOCK FALSE
