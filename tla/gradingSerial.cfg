SPECIFICATION FairSpec
CONSTANTS
  a1 = a1
  r1 = r1
  r2 = r2
  r3 = r3
  w1 = w1
  w2 = w2
  t1 = t1
  t2 = t2
  None = None
  Attempts <- OneAttempt
  Requests <- TwoRequests
  Workers <- OneWorker
  Ticks <- OneTick
  MaxScore = 1
  MaxChosen = 2
  Serial = TRUE
  Faults = {"db", "crash"}
CHECK_DEADLOCK FALSE
INVARIANTS SubmittedOnce GradedOnStoredAnswer GradeOfAnswer
PROPERTIES AnswerKept EventsClaimed
