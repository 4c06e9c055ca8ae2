\* Cancel requests against rows of runs that are alive.
SPECIFICATION Spec
CONSTANTS
  t1 = t1
  t2 = t2
  Task <- MCTask
  NoTask = NoTask
  Fixture <- MCFixture
  Cap = 2
  Kinds = {"sync", "predict"}
  Origins = {"manual"}
  FaultSites = {}
  MaxCrashes = 0
  MaxFaults = 0
PROPERTY OnlyStaleRowsCancelled
CHECK_DEADLOCK FALSE
