SPECIFICATION AlarmSpec
CONSTANTS
  Traps = 2
  Failures = 2
  Ids = {1, 2}
  Spans = {1, 2}
  Resets = 1
  Accidents = 1
INVARIANTS
  AlarmTypeOK
  StoreFollowsTopic
  OnlyThreadsReorder
  OneTaskPerFault
PROPERTIES
  TrapIsHandled
  ScreenCatchesUp
  FaultIsTakenBack
\* The device sends a bounded number of traps, and then all comes to rest.
CHECK_DEADLOCK FALSE
