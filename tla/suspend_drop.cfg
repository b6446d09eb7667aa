SPECIFICATION Spec
CONSTANTS
  p1 = p1
  p2 = p2
  Panes = {p1, p2}
  Low = 1
  High = 2
  Minimum = 1
  MaxReplies = 4
  Others = TRUE
  Suspends = TRUE
  MaxBytes <- MCMaxBytes
  Steady = {p1, p2}
  MaxLines = 2
INVARIANTS DataThere
CHECK_DEADLOCK FALSE
