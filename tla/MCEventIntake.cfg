SPECIFICATION Spec
CONSTANTS
  None = None
  PairedWithin = 1
  WaitsAtMost = 2
  Pids = {p}
  Queued = 1
  Tick = 1
  Delay = 1
  Skew = 0
  MinLife = 1
  Undated = TRUE
  MaxTime = 5
  LastBirth = 3
  MaxBorn = 2
  MaxLosses = 1
CHECK_DEADLOCK FALSE
INVARIANTS
  StartsAreWhole
  Accounted
  OutInTime
PROPERTY StartsFirst
