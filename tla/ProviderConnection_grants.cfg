SPECIFICATION Spec
CHECK_DEADLOCK FALSE
CONSTANTS
  s1 = s1
  s2 = s2
  c1 = c1
  c2 = c2
  c3 = c3
  x1 = x1
  x2 = x2
  oA = oA
  acct1 = acct1
  States <- TwoStates
  Orgs <- OneOrg
  OrgOfState <- TwoStateOrgs
  Callbacks <- ThreeCallbacks
  StateOf <- ThreeStateTable
  Account <- ThreeAccountTable
  Disconnects <- TwoDisconnects
  OrgOf <- TwoOfA
  Deployments <- EveryDeployment
INVARIANTS
  BurntBeforeExchange
  LockedExchange
  ConnectionIsHonest
