SPECIFICATION Spec
CONSTANTS
  Clients = {c1, c2}
  Cpu = Cpu
  Handles_ = Handles_
  Metrics <- MCMetrics
  Specs <- MCSpecs
  Idles = {2, 3}
  MinInterval = 2
  MaxInterval = 3
  None = None
  MaxTime = 6
  MaxFailures = 1
  MaxIdles = 1
  MaxRequests = 3
SYMMETRY Interchangeable
CHECK_DEADLOCK FALSE
INVARIANTS
  RowsWhereAsked
  ServedOnTime
  ListKeptUp
