SPECIFICATION Spec
CONSTANTS
  Main = main
  Threads = {main, t2}
  Stores = {"local", "global", "posix", "openmp"}
  Exc = {e1, e2}
  Ids = {i1, i2, i3}
  Program = Program
  MaxDepth = 3
  Usage = {"uncaught"}
SYMMETRY MCSymmetry
INVARIANTS ListsExist FramesKept 
CHECK_DEADLOCK FALSE
