SPECIFICATION Spec
CONSTANTS
  None = None
  Pids = {1, 2}
  Shared = {0}
  Interval = 4
  Period = 4
  Round = 4
  Checked = TRUE
  Fresh = 40
  Takes = {2}
  REST = 3
  MaxProcesses = 2
  MaxMoves = 0
CHECK_DEADLOCK FALSE
PROPERTIES
  DueIsProbed
