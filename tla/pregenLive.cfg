SPECIFICATION FairSpec
CONSTANTS
  t1 = t1
  t2 = t2
  q1 = q1
  q2 = q2
  None = None
  Keys <- TwoKeys
  Blank <- SecondBlank
  Configs <- AllConfigs
  Ticks <- TwoTicks
  Queuers <- OneQueuer
  Patient = TRUE
  Faults = {}
PROPERTIES Settles Filled
