SPECIFICATION Spec
CONSTANTS
  Panes = {1, 2}
  FirstPane = 1
  Session <- OneSession
  Names = {"n1", "n2"}
  AskedName = "n1"
  NoName = NoName
  Garbled = Garbled
  BufMax = 3
  Overflow = FALSE
  Encodable = {TRUE}
  Matching = {TRUE, FALSE}
  MaxOutput = 2
  MaxCmds = 4
  MaxConns = 2
  MaxStatus = 0
INVARIANTS Mirror ConfigIntact ViewersWait HandshakeValid
CHECK_DEADLOCK FALSE
