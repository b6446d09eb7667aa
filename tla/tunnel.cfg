SPECIFICATION FairSpec
CONSTANTS
  a1 = a1
  a2 = a2
  a3 = a3
  NoIp = NoIp
  Ips = {a1, a2, a3}
  Genuine = {a1, a2}
  Lasting = {a2}
  KeyLocked = FALSE
  LossAtStart = TRUE
INVARIANTS TunnelSafe
PROPERTIES NeverGivesUp Reconnects
