SPECIFICATION FairSpec
CONSTANTS
  a = a
  b = b
  c = c
  d = d
  x = x
  Running = Running
  Healthy = Healthy
  None = None
  Conditions = {Running, Healthy}
  Services = {a, b, c, d}
  Names = {a, b, c, d, x}
  RecursionLimit = 4
  Files <- AllFiles
INVARIANTS
  TypeOK
  DepsExact
  OrderTopological
  BaseDependenciesInherited
PROPERTIES
  ExpandedIsFinal
  ParsingEnds
CHECK_DEADLOCK FALSE
