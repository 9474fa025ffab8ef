SPECIFICATION Spec
CONSTANTS
  Commands = {c1}
  Apps = {}
  Processes = {p1}
  Self = p1
  Spellings = {"service"}
  Workers = 1
  MaxFailures = 0
  None = None
PROPERTY RestartStarts
CHECK_DEADLOCK FALSE
