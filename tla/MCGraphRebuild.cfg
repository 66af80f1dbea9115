SPECIFICATION Spec
CONSTANTS
  Mutators <- MCMutators
  Flushers <- MCFlushers
  MaxChanges = 3
  MaxArms = 5
  MaxTimeouts = 1
  Unbuildable <- MCUnbuildable
INVARIANTS AppliedIdIsHonest ChangeIsWatched
PROPERTIES SchedulerSpec ChangesLandInTime NextChangeRecovers
\* Once every thread has done its share nothing is left to do.
CHECK_DEADLOCK FALSE
