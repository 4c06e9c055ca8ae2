\* Predict and backfill runs from the UI, predict runs from the CLI and batch
\* predictions beside them, one crash,
\* one escaping database error.
SPECIFICATION Spec
CONSTANTS
  t1 = t1
  t2 = t2
  Task <- MCTask
  NoTask = NoTask
  Fixture <- MCFixture
  Cap = 2
  Kinds = {"predict", "backfill", "batch_predict"}
  Origins = {"manual", "cli"}
  FaultSites = {"process", "bookkeeping"}
  MaxCrashes = 1
  MaxFaults = 1
SYMMETRY Symmetric
INVARIANTS IInv NoOverlap GoodNewsIsTrue SweepSparesOwnRuns
\* every task runs once: the model stops when both are over
CHECK_DEADLOCK FALSE
