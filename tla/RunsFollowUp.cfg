\* The scheduled sync with its grade run and baselines runs with
\* their own; one crash, one escaping error, every cancel request.
SPECIFICATION Spec
CONSTANTS
  t1 = t1
  t2 = t2
  Task <- MCTask
  NoTask = NoTask
  Fixture <- MCFixture1
  Cap = 1
  Kinds = {"sync", "baselines"}
  Origins = {"schedule", "manual"}
  FaultSites = {"bookkeeping"}
  MaxCrashes = 1
  MaxFaults = 1
SYMMETRY Symmetric
INVARIANTS TypeOK CancellingMeansLive BInv
PROPERTIES HistoryIsStable KeepsRunBook
CHECK_DEADLOCK FALSE
