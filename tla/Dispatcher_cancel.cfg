SPECIFICATION SlowSpec
CONSTANTS
  Jobs <- OneJob
  Engines <- OneEngine
  Models <- OneModel
  Serves <- ServesAll
  MaxConcurrent <- TwoSlotsEach
  FailureThreshold <- ThresholdTwo
  ModelOf <- SameModel
  Remotes <- FirstTwo
  Progress <- SomeProgress
  Workers <- TwoWorkers
  Stalls = {"call", "save"}
  MaxQueuedJobs = 2
  MaxRunningJobs = 2
  MaxAttempts = 2
  ClaimCap = 2
  FaultKinds = {"busy", "store", "storage"}
  MaxFaults = 2
  None = None
PROPERTIES
  CancelledIsNotRequeued
  CancelStopsWork
CHECK_DEADLOCK FALSE
