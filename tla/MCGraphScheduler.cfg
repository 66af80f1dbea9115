SPECIFICATION SchedSpec
CONSTANTS
  Flushers <- MCFlushers
  MaxArms = 5
INVARIANTS NoArmLost FlushIsImmediate
PROPERTIES FlushReturns
\* The worker exits when the scheduler is dropped.
CHECK_DEADLOCK FALSE
