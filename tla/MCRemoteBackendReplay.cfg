CONSTANTS
  Values = {v0, v1}
  Default = v0
  Settings = {"control"}
  Capacity = 3
  MaxCalls = 3
  MaxAttaches = 2
SPECIFICATION Spec
INVARIANTS OnlyStateIsReplayed
CHECK_DEADLOCK FALSE
