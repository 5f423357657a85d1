SPECIFICATION Spec
CONSTANTS
  None = None
  Id <- IdsThree
  PathSets <- PathsPlain
  Files <- FilesAll
  Limit = 2
  MaxRuns = 1
  MaxFaults = 0
  MaxEdits = 0
INVARIANTS
  TypeOK
  FailureEndsRound
  SessionsFollowPlan
  FinalWaveVerifies
PROPERTIES
  RoundImplemented
CHECK_DEADLOCK FALSE
