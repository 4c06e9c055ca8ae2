SPECIFICATION DSpec
CONSTANTS
  f1 = f1
  j1 = j1
  j2 = j2
  Job <- MCJob
  NoJob = NoJob
  Fixture <- MCFixture
  RowId <- MCRowId5
  NoRow = NoRow
  Answer <- MCAnswer
  Statuses = {"scheduled", "finished", "postponed"}
  MaxVersion = 2
  MinGraded = 2
  History = 2
  Kinds = {"predict", "backfill", "grade", "grade_one", "recompute", "baselines"}
  Faults = TRUE
SYMMETRY Symmetric
INVARIANTS IInv DInv RInv OneOkPerFixture EvidenceIsTheModels VersionsResolve PagesAgree HeadlineIsHonest HeadlineIsShown
CHECK_DEADLOCK FALSE
