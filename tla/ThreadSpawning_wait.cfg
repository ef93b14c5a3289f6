\* One thread is created and waited for; nothing fails.
SPECIFICATION SpawnSpec
CONSTANTS
  Creations = {"create1"}
  Sendings = {}
  Waits = {"wait1"}
  PathOf <- OnePath
  PathsOf <- ForOnePath
  WaitPolls = 2
  SpawnEvents = {}
PROPERTIES WaitSeesFinishedPaths
CHECK_DEADLOCK FALSE
