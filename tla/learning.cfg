SPECIFICATION Spec
CONSTANTS
  r1 = r1
  r2 = r2
  None = None
  Requests <- TwoRequests
  StepCount = 2
  MaxAttemptsAllowed = 2
  MaxRequests = 4
  MaxReviews = 5
  Cap = 2
  MaxCost = 1
  MaxDay = 1
  Faults = {"db", "redis", "crash"}
SYMMETRY Symmetry
CHECK_DEADLOCK FALSE
INVARIANTS TypeOK StepsInOrder PassEarned AnswersKept ResultsOfAnswers LaterEachTime CapHeld AlertedAtCap
