SPECIFICATION FairSpec
CONSTANTS
  a = a
  b = b
  g = g
  x = x
  Clients = {a, b}
  Attached = {a}
  Global = g
  Channels = {x}
  Lines <- MCLines
  Then <- MCThen
  Hooks <- MCHooks
  MaxQueue = 4
  MaxLine = 7
INVARIANTS NoWaitLost LockExclusive InOrder
PROPERTIES LoopLeavesNothing LoopEnds
CHECK_DEADLOCK FALSE
