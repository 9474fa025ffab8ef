SPECIFICATION FairSpec
CONSTANTS
  Watchers = {w1}
  Sizes = {1, 2}
  MaxAge = 0
  MaxBytes = 3
  BatchBytes = 2
  MaxTime = 1
  MaxEvents = 3
  MaxLost = 1
CHECK_DEADLOCK FALSE
INVARIANTS
  HeldAreLatest
  NothingMissingSince
  WatchersAccounted
PROPERTY EndsInTheEnd
