SPECIFICATION Spec
CONSTANTS
  db = db
  app = app
  p1 = p1
  Containers = {db, app}
  Configs <- Hashes
  None = None
  Checked = {}
  Flaky = {}
  Exiting = {}
  Volumes <- VolumeSet
  Networks <- NetworkSet
  Dirs <- DirSet
  Outside <- OutsideSet
  Unwritable = {}
  Procs = {p1, p2}
  p2 = p2
  Commands <- AllCommands
SYMMETRY Pair
INVARIANTS
  FailsForCause
  UpCompletes
  RaceHasWinner
  LabelledUnlessRaced
  DownLeavesNothing
  TransferDone
PROPERTIES
  OutsideKept
  VolumesKept
