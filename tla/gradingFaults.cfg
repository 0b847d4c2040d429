SPECIFICATION Spec
CONSTANTS
  a1 = a1
  r1 = r1
  r2 = r2
  r3 = r3
  w1 = w1
  w2 = w2
  t1 = t1
  t2 = t2
  None = None
  Attempts <- OneAttempt
  Requests <- TwoRequests
  Workers <- TwoWorkers
  Ticks <- TwoTicks
  MaxScore = 1
  MaxChosen = 2
  Serial = FALSE
  Faults = {"db", "crash"}
SYMMETRY Symmetry
CHECK_DEADLOCK FALSE
INVARIANTS TypeOK GradedBacked ScoreBacked CompletionBacked ToldOnce ProcessedMeansDone
PROPERTY UsesEventQueue
