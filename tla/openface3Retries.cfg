SPECIFICATION Spec
CONSTANTS
  j1 = j1
  j2 = j2
  j3 = j3
  r1 = r1
  r2 = r2
  w1 = w1
  w2 = w2
  None = None
  Jobs <- TwoJobs
  Requests <- TwoRequests
  Workers <- TwoWorkers
  OneRetry = FALSE
  Faults = {}
PROPERTY LifecycleKept
