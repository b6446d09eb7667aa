SPECIFICATION Spec
CONSTANTS
  Panes = {1, 2}
  FirstPane = 1
  Session <- LaterSession
  Names = {"n1"}
  AskedName = "n1"
  NoName = NoName
  Garbled = Garbled
  BufMax = 2
  Overflow = TRUE
  Encodable = {TRUE, FALSE}
  Matching = {TRUE}
  MaxOutput = 1
  MaxCmds = 3
  MaxConns = 2
  MaxStatus = 1
INVARIANTS SnapshotsTaken
PROPERTIES SharingResolves LayoutCatchesUp
CHECK_DEADLOCK FALSE
