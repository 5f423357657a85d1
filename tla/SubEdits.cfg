SPECIFICATION LiveSpec
CONSTANTS
  None = None
  Id <- IdsTwo
  PathSets <- PathsFew
  Files <- FilesAll
  Limit = 1
  MaxRuns = 2
  MaxFaults = 1
  MaxEdits = 1
INVARIANTS
  RowsSettled
PROPERTIES
  HistoryKept
  RunEnds
CHECK_DEADLOCK FALSE
