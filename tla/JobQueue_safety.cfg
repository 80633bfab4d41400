CONSTANTS
  w1 = w1
  w2 = w2
  o1 = o1
  Jobs <- TwoJobs
  Workers <- TwoWorkers
  Operators <- OneOperator
  MaxAttempts = 2
  Faults <- AllFaults
SPECIFICATION Spec
SYMMETRY WorkerSymmetry
PROPERTY
  RefinesLedger
INVARIANTS
  SingleRunner
  RetryDecided
  AnnouncedIsSettled
CHECK_DEADLOCK FALSE
