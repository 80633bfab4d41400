CONSTANTS
  w1 = w1
  w2 = w2
  o1 = o1
  Jobs <- TwoJobs
  Workers <- TwoWorkers
  Operators <- NoOperator
  MaxAttempts = 3
  Faults <- NoFaults
SPECIFICATION FairSpec
PROPERTIES
  EveryJobSettles
CHECK_DEADLOCK FALSE
