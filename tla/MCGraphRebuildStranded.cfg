SPECIFICATION Spec
CONSTANTS
  Mutators <- MCMutators
  Flushers <- MCFlushers
  MaxChanges = 2
  MaxArms = 5
  MaxTimeouts = 1
  Unbuildable <- MCUnbuildable
PROPERTIES ChangesLand
\* Once every thread has done its share nothing is left to do.
CHECK_DEADLOCK FALSE
