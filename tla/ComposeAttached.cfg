SPECIFICATION FairSpec
CONSTANTS
  db = db
  job = job
  app = app
  Containers = {db, job, app}
  Configs <- Hashes
  None = None
  Checked = {db}
  Flaky = {db}
  Exiting = {db, job, app}
  Stubborn = {app}
  Sessions <- AllSessions
INVARIANTS
  NothingLeftRunning
PROPERTIES
  LaunchesInOrder
  ShutdownEnds
\* up waits as long as its containers run, and stops.
CHECK_DEADLOCK FALSE
