SPECIFICATION Spec
CHECK_DEADLOCK FALSE
CONSTANTS
  d1 = d1
  d2 = d2
  d3 = d3
  d4 = d4
  d5 = d5
  plaidTx = plaidTx
  payout = payout
  charge = charge
  oA = oA
  item = item
  Deliveries <- AllDeliveries
  Events <- AllEvents
  Event <- EventTable
  PlaidEvents <- OnePlaidEvent
  SyncEvents <- AllEvents
  Orgs <- OneOrg
  OrgParam <- OrgTable
  Item <- ItemTable
  Items <- OneItem
  Deployments <- WithoutFaults
INVARIANT AcceptedIsQueued
