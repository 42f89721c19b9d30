SPECIFICATION Spec
CONSTANTS
  a = a
  b = b
  c = c
  d = d
  x = x
  Running = Running
  Healthy = Healthy
  None = None
  Conditions = {Running, Healthy}
  Services = {a, b, c}
  Names = {a, b, c, x}
  RecursionLimit = 6
  Files <- OverrideFiles
INVARIANTS MergeUpdatesTargetOnly
CHECK_DEADLOCK FALSE
