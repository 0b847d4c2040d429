SPECIFICATION Spec
CONSTANTS
  t1 = t1
  t2 = t2
  q1 = q1
  q2 = q2
  None = None
  Keys <- TwoKeys
  Blank <- SecondBlank
  Configs <- AllConfigs
  Ticks <- TwoTicks
  Queuers <- TwoQueuers
  Patient = TRUE
  Faults = {"db", "crash"}
SYMMETRY Symmetry
INVARIANTS TypeOK GeneratedAlone Honoured
PROPERTY UsesJobLifecycle
