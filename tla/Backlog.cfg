\* Predictions, backfills, a batch and grade runs over more matches than
\* one run takes, one of which can never be graded.
SPECIFICATION FairSpec
CONSTANTS
  Fixture <- MCFixture
  Knockout <- MCKnockout
  Hopeless <- MCHopeless
  Cap = 2
  Window = 1
  NoBatch = NoBatch
INVARIANTS IInv  AdvancingMatchesStage
PROPERTIES EveryResultIsScored BatchConcludes
CHECK_DEADLOCK FALSE
