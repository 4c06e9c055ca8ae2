SPECIFICATION Spec
CONSTANTS
  f1 = f1
  j1 = j1
  j2 = j2
  Job <- MCJob
  NoJob = NoJob
  Fixture <- MCFixture
  RowId <- MCRowId3
  NoRow = NoRow
  Answer <- MCAnswer
  Statuses = {"finished"}
  MaxVersion = 0
  MinGraded = 2
  History = 2
  Kinds = {"predict", "backfill", "grade"}
  Faults = FALSE
SYMMETRY Symmetric
INVARIANT GradesAreFresh
CHECK_DEADLOCK FALSE
