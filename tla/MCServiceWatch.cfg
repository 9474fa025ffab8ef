SPECIFICATION WatchFairSpec
CONSTANTS
  Absent = Absent
  MaxChanges = 3
  MaxFollows = 1
  MaxLags = 1
  MaxInbox = 2
CHECK_DEADLOCK FALSE
INVARIANTS
  StayingStateTold
PROPERTY SettlesOnState
