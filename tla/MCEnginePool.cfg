SPECIFICATION PoolSpec
CONSTANTS
  Engines <- MCEngines
  Models <- MCModels
  Serves <- MCServes
  MaxConcurrent <- MCMaxConcurrent
  FailureThreshold <- MCFailureThreshold
  None = None
INVARIANTS
  PoolTypeOK
  CapacityRespected
  HealthMatchesBreaker
  SelectionIsTotal
PROPERTIES
  OpenEngineRests
  HalfOpenReopens
