\* Two syncs at once over two providers that agree on codes.
SPECIFICATION Spec
CONSTANTS
  m1 = m1
  m2 = m2
  s1 = s1
  s2 = s2
  Match <- MCMatch
  NoMatch = NoMatch
  Code <- MCCode
  Id <- MCId
  Teams <- MCTeams
  Ext <- MCExt
  RowId <- MCRowId
  NoRow = NoRow
  Session <- MCSession
  NoSession = NoSession
  Phases = {"finished"}
  MaxFaults = 1
  Graded = {1}
SYMMETRY Symmetric
INVARIANTS IInv ResultIsOfTheMatch
PROPERTY RowKeepsItsMatch
