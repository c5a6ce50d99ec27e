SPECIFICATION FairSpec
CONSTANTS
  Exception = Exception
  Types <- MCTypes
  Super <- MCSuper
  TypeOf <- MCTypeOf
  Exc = {e1}
  NoExc = NoExc
  Ctxs = {c1, c2, c3}
  JmpBufs = {j1, j2, j3, j4}
  NoJmp = NoJmp
  NoScope = NoScope
  MaxDepth = 4
  Usage = {}
PROPERTIES ImplementsStructured Arrives
CHECK_DEADLOCK FALSE
