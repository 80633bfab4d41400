SPECIFICATION IdempotencySpec
CONSTANTS
  r1 = r1  r2 = r2  r3 = r3  r4 = r4  r5 = r5  k = k  h1 = h1  h2 = h2
  Keys <- OneKey
  Requests <- FiveRequests
  Key <- FiveKeys
  Hash <- FiveHashes
  Deployments <- EveryDeployment
SYMMETRY RetrySymmetry
CHECK_DEADLOCK FALSE
INVARIANTS
  ReplaysAgree
  
  OneAtWorkPerKey
