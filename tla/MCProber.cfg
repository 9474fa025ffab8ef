SPECIFICATION Spec
CONSTANTS
  None = None
  Pids = {1, 2}
  Shared = {0, 1}
  Interval = 8
  Period = 0
  Round = 10
  Checked = FALSE
  Fresh = 0
  Takes = {1}
  REST = 3
  MaxProcesses = 2
  MaxMoves = 1
CHECK_DEADLOCK FALSE
INVARIANTS
  TypeOK
  ShownIsOwn
PROPERTIES
  EndsWhenDropped
  DueIsProbed
