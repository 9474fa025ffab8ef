SPECIFICATION Spec
CONSTANTS
  Pids = {p1}
  Order <- MCOrder
  None = None
  Periods = {1, None}
  Transfers <- MCTransfers
  Window = 1
  FastFlush = 1
  SlowFlush = 2
  TickEvery = 1
  CheckEvery = 2
  Capacity = 1
  MaxProcs = 2
  MaxTime = 5
  MaxEvents = 2
  MaxFaults = 2
  MaxDemands = 1
INVARIANTS Conserved InTime TimersAsSet BackInTime
PROPERTIES CountersGrow
CHECK_DEADLOCK FALSE
