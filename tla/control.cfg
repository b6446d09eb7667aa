SPECIFICATION Spec
CONSTANTS
  p1 = p1
  p2 = p2
  Panes = {p1, p2}
  Low = 1
  High = 2
  Minimum = 1
  MaxReplies = 4
  Others = TRUE
  Suspends = FALSE
  MaxBytes <- MCMaxBytes
  Steady = {p1}
  MaxLines = 4
INVARIANTS TypeOK OutputInBuffer LinesInOrder RepliesBounded OutputWatched
CHECK_DEADLOCK FALSE
