SPECIFICATION Spec
CONSTANTS
  Callers = {c1, c2}
  Instances <- TwoInstances
  Registered <- OneRegistered
  Identifiers <- TwoIdentifiers
  MaxSubmissions = 2
SYMMETRY CallersAlike
INVARIANTS
  UnknownWorkIsExplained
  AnswersAreEvidence
CHECK_DEADLOCK FALSE
