SPECIFICATION FairSpec
CONSTANTS
  Jobs <- TwoJobs
  Engines <- OneEngine
  Models <- OneModel
  Serves <- ServesAll
  MaxConcurrent <- OneSlotEach
  FailureThreshold <- ThresholdTwo
  ModelOf <- SameModel
  Remotes <- FirstTwo
  Progress <- NoProgress
  Workers <- OneWorker
  Stalls = {}
  MaxQueuedJobs = 2
  MaxRunningJobs = 2
  MaxAttempts = 2
  ClaimCap = 2
  FaultKinds = {"crash", "engine", "lost", "store", "storage", "bind", "reply", "busy"}
  MaxFaults = 2
  None = None
PROPERTIES
  EveryJobEnds
CHECK_DEADLOCK FALSE
