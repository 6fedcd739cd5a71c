SPECIFICATION Spec
CONSTANTS
  Jobs <- OneJob
  Engines <- OneEngine
  Models <- OneModel
  Serves <- ServesAll
  MaxConcurrent <- TwoSlotsEach
  FailureThreshold <- ThresholdTwo
  ModelOf <- SameModel
  Remotes <- FirstThree
  Progress <- SomeProgress
  Workers <- TwoWorkers
  Stalls = {}
  MaxQueuedJobs = 2
  MaxRunningJobs = 2
  MaxAttempts = 2
  ClaimCap = 3
  FaultKinds = {"crash", "engine", "lost", "store", "storage", "bind", "reply", "busy"}
  MaxFaults = 3
  None = None
INVARIANTS
  TypeOK
  SlotsAccounted
  NoDuplicateWork
PROPERTIES
  KnownCancellationIsKept
  KeepsJobLife
  UsesStoreOnly
  UsesPoolOnly
CHECK_DEADLOCK FALSE
