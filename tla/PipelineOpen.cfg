SPECIFICATION ISpec
CONSTANTS
  f1 = f1
  j1 = j1
  j2 = j2
  Job <- MCJob
  NoJob = NoJob
  Fixture <- MCFixture
  RowId <- MCRowId5
  NoRow = NoRow
  Answer <- MCAnswer
  Statuses = {"scheduled", "finished", "postponed"}
  MaxVersion = 1
  MinGraded = 2
  History = 1
  Kinds = {"button", "grade_one", "recompute", "batch_backfill", "batch_predict"}
  Faults = TRUE
SYMMETRY Symmetric
INVARIANTS GradesHaveResults LightIsTrue
PROPERTIES GradesAppendOnly OkSurvivesRetries
CHECK_DEADLOCK FALSE
