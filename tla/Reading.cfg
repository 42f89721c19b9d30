SPECIFICATION Spec
CONSTANTS
  Paths <- PathSet
  Directory <- DirectoryOf
  Disks <- DiskSet
  Lines <- LineSet
  MaxFiles = 12
INVARIANTS
  ReadByLevels
  MergedInOrder
  HashCoversServices
  ServiceOverBase
  FailsForCause
PROPERTIES
  ReadingEnds
