SPECIFICATION FairSpec
CONSTANTS
  c1 = c1
  c2 = c2
  x1 = x1
  x2 = x2
  Conns = {c1, c2}
  Pids = {1}
  MaxViewerId = 1
  MaxClients = 1
  Apps = {x1, x2}
  Polite = TRUE
  MaxConns = 2
  MaxQueue = 1
INVARIANTS NobodyMissing WebViewersRight ModeFollowsSubscribers
PROPERTIES LeaveAnnounced ViewersReachApps
CHECK_DEADLOCK FALSE
