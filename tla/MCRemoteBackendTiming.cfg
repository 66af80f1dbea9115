CONSTANTS
  Values = {v0, v1}
  Default = v0
  Settings = {"timing", "length"}
  Capacity = 6
  MaxCalls = 4
  MaxAttaches = 2
SPECIFICATION Spec
INVARIANTS EngineFollows
CHECK_DEADLOCK FALSE
