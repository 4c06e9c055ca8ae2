\* Progress of two sync runs whose grade runs meet on one lock, through
\* a crash, an escaped error and every cancel request.
SPECIFICATION FairSpec
CONSTANTS
  t1 = t1
  t2 = t2
  Task <- MCTask
  NoTask = NoTask
  Fixture <- MCFixture1
  Cap = 1
  Kinds = {"sync"}
  Origins = {"manual"}
  FaultSites = {"bookkeeping"}
  MaxCrashes = 1
  MaxFaults = 1
PROPERTIES RowsSettle LocksFreed
CHECK_DEADLOCK FALSE
