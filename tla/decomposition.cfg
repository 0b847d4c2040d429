SPECIFICATION Spec
CONSTANTS
  r1 = r1
  r2 = r2
  None = None
  MaxIds = 3
  MaxTreeSize = 2
  Requests <- TwoRequests
  MaxTreeDepth = 2
  MaxFormationChecks = 1
  MaxInferTreeCalls = 1
  MaxMatchChecks = 1
  RevealThreshold = 1
  MaxRequests = 4
CHECK_DEADLOCK FALSE
SYMMETRY Symmetry
INVARIANTS TypeOK TreeClosed HelpEarned TextJudged CodeKept
