SPECIFICATION FairSpec
CONSTANTS
  Jobs <- MCJobs
  Engines <- MCEngines
  Remotes <- MCRemotes
  Progress <- MCProgress
  Deployments <- MCDeployments
  LastSegment <- MCLastSegment
  Bodies <- MCBodies
  Keys <- MCKeys
  ModelConcurrency = 2
  MaxRequests = 2
  WindowSeconds = 2
  TicksPerSecond = 2
  MaxQueuedJobs = 1
  MaxRunningJobs = 1
  ClaimCap = 1
  None = None
INVARIANTS
  HttpTypeOK
  DeclaredModelsOnDisk
  AnswersTellTheTruth
  BudgetBound
PROPERTIES
  RefusalsChangeNothing
  RetryAfterSuffices
  StartConverges
CHECK_DEADLOCK FALSE
