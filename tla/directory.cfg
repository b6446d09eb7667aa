SPECIFICATION Spec
CONSTANTS
  d1 = d1
  d2 = d2
  d3 = d3
  h1 = h1
  h2 = h2
  n = n
  n1 = n1
  p1 = p1
  None = None
  Gc = Gc
  Daemons = {d1, d2}
  Hosts = {h1, h2}
  Names = {n, n1}
  Pins = {p1}
  NameAt <- NumberedNames
  MaxNames = 1
  HasWebsocket = FALSE
  MaxRestarts = 0
SYMMETRY Symmetry
INVARIANTS AdvertisedLinksWork NoNeedlessNumber ExitLeavesNothing
PROPERTIES LiveNameKept ImplementsService
