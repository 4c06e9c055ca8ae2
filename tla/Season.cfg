SPECIFICATION SSpec
CONSTANTS
  esp = esp
  ned = ned
  uru = uru
  gha = gha
  f1 = f1
  f2 = f2
  f3 = f3
  f4 = f4
  Team <- MCTeam
  Expected <- MCExpected
  Seed <- MCSeed
  Factors <- MCFactors
  Fixture <- MCFixture
  Home <- MCHome
  Away <- MCAway
  Kickoff <- MCKickoff
  Stage <- MCStage
  LastSlot = 2
  Nobody = Nobody
  Truths <- MCTruths
  Answers <- MCAnswers
  Feeds <- MCFeeds
  Caps = {3}
  Counts = {3}
  Asked = {f3}
  Movable = {f2}
  Demo <- MCDemo
  Sure <- MCSure
  Nothing = Nothing
INVARIANTS  ForecastsAreAsOf EloIsWellDefined  BooksBalance MarketBacksFavourites
CHECK_DEADLOCK FALSE
