SPECIFICATION FairSpec
CONSTANTS
  d1 = d1
  d2 = d2
  d3 = d3
  h1 = h1
  h2 = h2
  n = n
  n1 = n1
  p1 = p1
  None = None
  Gc = Gc
  Daemons = {d1, d2}
  Hosts = {h1}
  Names = {n}
  Pins = {}
  NameAt <- OneName
  MaxNames = 0
  HasWebsocket = TRUE
  MaxRestarts = 1
PROPERTIES LeftoversCollected
