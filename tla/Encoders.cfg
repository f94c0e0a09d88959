CONSTANTS
  Edge <- MCEdge
  Rise2 = 3
  Rise1 = 5
  Fall2 = 7
  Period = 9
SPECIFICATION FairSpec
INVARIANTS
  LinesRight
PROPERTIES
  TapeGoesOn
