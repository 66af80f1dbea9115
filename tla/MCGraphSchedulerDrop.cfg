SPECIFICATION SchedSpec
CONSTANTS
  Flushers <- MCFlushers
  MaxArms = 1
INVARIANTS DropKeepsBatch
CHECK_DEADLOCK FALSE
