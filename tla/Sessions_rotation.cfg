SPECIFICATION Spec
CHECK_DEADLOCK FALSE
SYMMETRY Symmetry
CONSTANTS
  s1 = s1
  s2 = s2
  s3 = s3
  q1 = q1
  q2 = q2
  q3 = q3
  Ids <- ThreeIds
  Requests <- ThreeRequests
  Loads <- BothLoads
INVARIANTS
  PredecessorRevoked
  OneInUse
  EndedStaysEnded
