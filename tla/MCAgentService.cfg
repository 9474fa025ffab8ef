SPECIFICATION Spec
CONSTANTS
  Commands = {c1, c2}
  Apps = {a1}
  Processes = {p1}
  Self = p1
  Spellings = {"service", "Service"}
  Workers = 1
  MaxFailures = 2
  None = None
INVARIANT StatusIsTrue
PROPERTY AsAsked
PROPERTY CommandsOneAtATime
CHECK_DEADLOCK FALSE
