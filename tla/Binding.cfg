SPECIFICATION Spec
CONSTANTS
  Millisecond = 2
  waitSlice = 4
  MaxInt64 = 7
  Timeouts = {0, 1, 5, 7}
  Deadlines = {3}
  MaxTime = 9
  readAttempts = 4
  MaxLength = 4
INVARIANTS HandleSafe WaitOnTime
PROPERTIES AttachedOnce RetryMeansReplaced WaitEnds CloseEnds
CHECK_DEADLOCK FALSE
