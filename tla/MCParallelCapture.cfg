SPECIFICATION FairSpec
CONSTANTS
  Exception = Exception
  Types <- MCTypes
  Super <- MCSuper
  Exc = {e1, e2, e3}
  TypeOf <- MCTypeOf
  JmpBufs <- MCJmpBufs
  NoJmp = NoJmp
  NoExc = NoExc
  Threads = {master, worker1, worker2}
  Master = master
  NoThread = NoThread
  TryJmp = TryJmp
  Iterations = 3
  CaptureInFinally = FALSE
INVARIANTS AppendNotStale ExactlyOnce FramesMatchTeam
PROPERTIES RegionEnds ImplementsCollect
