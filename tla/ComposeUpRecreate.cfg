SPECIFICATION CalmSpec
CONSTANTS
  db = db
  tool = tool
  job = job
  app = app
  Containers = {db, tool, job, app}
  Configs <- Hashes
  None = None
  Checked = {db}
  Flaky = {db}
  Exiting = {db, job}
  Invocations <- RecreateCommands
INVARIANTS
  RecreatesAlways
\* A command may wait forever for a dependency that has exited.
CHECK_DEADLOCK FALSE
