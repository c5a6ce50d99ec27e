CONSTANTS
  Entries = {1, 2, 3, 4, 5}
  HeadSentinel = HeadSentinel
  TailSentinel = TailSentinel
  Null = Null
  Data = {"a", "b", "c"}
  Key <- MCKey
  Words <- MCWords
  Sources <- MCSources
  MaxSpare = 1
  MinQuick = 2
  MaxLen = 4
SPECIFICATION Spec
INVARIANTS RepOk QueriesAgree NothingLeaks DumpRestores
PROPERTIES ImplementsList
CHECK_DEADLOCK FALSE
