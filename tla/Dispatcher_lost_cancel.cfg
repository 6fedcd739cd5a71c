SPECIFICATION Spec
CONSTANTS
  Jobs <- OneJob
  Engines <- OneEngine
  Models <- OneModel
  Serves <- ServesAll
  MaxConcurrent <- TwoSlotsEach
  FailureThreshold <- ThresholdTwo
  ModelOf <- SameModel
  Remotes <- FirstTwo
  Progress <- NoProgress
  Workers <- TwoWorkers
  Stalls = {}
  MaxQueuedJobs = 2
  MaxRunningJobs = 2
  MaxAttempts = 2
  ClaimCap = 2
  FaultKinds = {"lost"}
  MaxFaults = 1
  None = None
PROPERTIES
  CancelledIsNotRequeued
CHECK_DEADLOCK FALSE
