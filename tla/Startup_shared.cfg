SPECIFICATION Spec
CONSTANTS
  Jobs <- MCJobs
  Engines <- MCEngines
  Remotes <- MCRemotes
  Progress <- MCProgress
  Deployments <- SharedName
  LastSegment <- SharedLastSegment
  Bodies <- MCBodies
  Keys <- MCKeys
  ModelConcurrency = 2
  MaxRequests = 2
  WindowSeconds = 2
  TicksPerSecond = 2
  MaxQueuedJobs = 1
  MaxRunningJobs = 1
  ClaimCap = 1
  None = None
INVARIANTS
  DeclaredModelsOnDisk
CHECK_DEADLOCK FALSE
