SPECIFICATION Spec
CONSTANTS
  Capacity = 1
  MaxSends = 2
INVARIANTS ReturnNeverFails
