SPECIFICATION FairSpec
CONSTANTS
  db = db
  tool = tool
  job = job
  app = app
  Containers = {db, tool, job, app}
  Configs <- Hashes
  None = None
  Checked = {db}
  Flaky = {}
  Exiting = {job}
  Invocations <- AnyCommands
PROPERTIES
  OthersKept
  CommandEnds
