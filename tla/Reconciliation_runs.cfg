SPECIFICATION ReconciliationSpec
SYMMETRY Symmetry
CHECK_DEADLOCK FALSE
CONSTANTS
  p1 = p1
  p2 = p2
  p3 = p3
  b1 = b1
  b2 = b2
  b3 = b3
  b4 = b4
  r1 = r1
  r2 = r2
  q1 = q1
  q2 = q2
  Payouts <- ThreePayouts
  Banks <- FourBanks
  Credits <- ThreeDeposits
  Amount <- Amounts
  Day <- Days
  Named <- Naming
  Late <- LateRows
  Runs <- TwoRuns
  Patches <- TwoPatches
  Deployments <- EveryDeployment
INVARIANTS
  RowsAreAccounted
  NothingMissed
  NoEnvy
  CountIsOpen
