SPECIFICATION FairSpec
CONSTANTS
  web1 = web1
  web2 = web2
  job = job
  db = db
  app = app
  base = base
  Containers = {web1, web2, job, db}
  ImageNames = {app, base}
  Versions = {1, 2}
  None = None
  Commands <- AllCommands
INVARIANTS
  StatusTells
  TempLeftForCause
PROPERTIES
  ImageCommandEnds
