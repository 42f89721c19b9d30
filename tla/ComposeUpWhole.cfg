SPECIFICATION Spec
CONSTANTS
  db = db
  tool = tool
  job = job
  app = app
  Containers = {db, tool, job, app}
  Configs <- Hashes
  None = None
  Checked = {db}
  Flaky = {db}
  Exiting = {db, job}
  Invocations <- WholeCommands
INVARIANTS
  TypeOK
  UpIsCurrent
  DownRemoves
PROPERTIES
  LaunchesInOrder
