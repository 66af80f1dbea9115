SPECIFICATION Spec
CONSTANTS
  Mutators <- MCMutators
  Flushers <- MCFlushers
  MaxChanges = 1
  MaxArms = 3
  MaxTimeouts = 0
  Unbuildable <- MCUnbuildable
INVARIANTS FlushMeansCurrent
\* Once every thread has done its share nothing is left to do.
CHECK_DEADLOCK FALSE
