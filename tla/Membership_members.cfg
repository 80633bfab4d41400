SPECIFICATION Spec
CHECK_DEADLOCK FALSE
SYMMETRY Symmetry
CONSTANTS
  u1 = u1
  u2 = u2
  u3 = u3
  q1 = q1
  q2 = q2
  q3 = q3
  Users <- ThreeUsers
  Founder = u1
  Requests <- ThreeRequests
  Deployments <- EveryDeployment
INVARIANTS
  LastOwnerStays
PROPERTIES
  OwnersMakeOwners
  AdminsSpareOwners
