SPECIFICATION Spec
CONSTANTS
  None = None
  Pids = {p}
  Watches = {w1, w2}
  Callers = {c1}
  MaxHeld = 1
  JoinAttempts = 1
  NewForms = TRUE
  MaxPublished = 4
  MaxTold = 3
  MaxCalls = 2
SYMMETRY Interchangeable
CHECK_DEADLOCK FALSE
INVARIANTS
  ListsAsPublished
  SnapshotIsFresh
  RefusedOnlyWhenFull
