SPECIFICATION Spec
CONSTANTS
  d1 = d1
  d2 = d2
  d3 = d3
  h1 = h1
  h2 = h2
  n = n
  n1 = n1
  p1 = p1
  None = None
  Gc = Gc
  Daemons = {d1, d2}
  Hosts = {h1}
  Names = {n}
  Pins = {}
  NameAt <- OneName
  MaxNames = 1
  HasWebsocket = FALSE
  MaxRestarts = 0
SYMMETRY Symmetry
INVARIANTS GcSparesLive
