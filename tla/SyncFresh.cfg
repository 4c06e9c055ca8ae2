\* Two syncs at once over two providers that agree on codes.
SPECIFICATION FairSpec
CONSTANTS
  m1 = m1
  m2 = m2
  s1 = s1
  s2 = s2
  Match <- MCOneMatch
  NoMatch = NoMatch
  Code <- MCCode
  Id <- MCId
  Teams <- MCOneTeams
  Ext <- MCOneExt
  RowId <- MCRowId
  NoRow = NoRow
  Session <- MCSession
  NoSession = NoSession
  Phases = {"scheduled", "finished"}
  MaxFaults = 1
  Graded = {}
PROPERTY FinishIsLearnt
