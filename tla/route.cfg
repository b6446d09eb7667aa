SPECIFICATION FairSpec
CONSTANTS
  p1 = p1
  p2 = p2
  p3 = p3
  t1 = t1
  t2 = t2
  c1 = c1
  c2 = c2
  f1 = f1
  f2 = f2
  f3 = f3
  None = None
  Pids = {p1, p2}
  Fds = {f1, f2}
  Tokens = {t1}
  Conns = {c1}
  MaxChildren = 1
  MaxPending = 1
  RegistryMax = 1
  PendingTimeout = 1
  QueueMax = 1
INVARIANTS Admission TablesSound NoStrangers
PROPERTIES GoneForgotten ParkedResolved TokensServed
