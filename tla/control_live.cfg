SPECIFICATION FairSpec
CONSTANTS
  p1 = p1
  p2 = p2
  Panes = {p1, p2}
  Low = 1
  High = 2
  Minimum = 1
  MaxReplies = 6
  Others = FALSE
  Suspends = TRUE
  MaxBytes <- MCMaxBytes
  Steady = {p1, p2}
  MaxLines = 3
INVARIANTS OutputInBuffer
PROPERTIES OutputFlows ExitEnds
CHECK_DEADLOCK FALSE
