SPECIFICATION Spec
CONSTANTS
  Jobs <- TwoJobs
  Engines <- TwoEngines
  Models <- OneModel
  Serves <- ServesAll
  MaxConcurrent <- OneSlotEach
  FailureThreshold <- ThresholdTwo
  ModelOf <- SameModel
  Remotes <- FirstTwo
  Progress <- NoProgress
  Workers <- TwoWorkers
  Stalls = {}
  MaxQueuedJobs = 2
  MaxRunningJobs = 2
  MaxAttempts = 2
  ClaimCap = 2
  FaultKinds = {"crash", "engine", "lost", "store", "storage", "bind", "reply", "busy", "claim"}
  MaxFaults = 1
  None = None
INVARIANTS
  OneOwner
  SuccessIsBacked
PROPERTIES
  BoundWorkIsNotRedone
CHECK_DEADLOCK FALSE
