----------------------------- MODULE MCWebhooks -----------------------------
(***************************************************************************)
(* Small instances of Webhooks for TLC: one delivery of a Plaid event, two *)
(* of a payout's and two of a charge's, one of those without an            *)
(* organization.                                                           *)
(***************************************************************************)
EXTENDS Webhooks, TLC

CONSTANTS d1, d2, d3, d4, d5, plaidTx, payout, charge, oA, item

AllDeliveries == {d1, d2, d3, d4, d5}
AllEvents == {plaidTx, payout, charge}
OnePlaidEvent == {plaidTx}
OneOrg == {oA}
OneItem == {item}
EventTable == [d \in AllDeliveries |->
  IF d = d1 THEN plaidTx ELSE IF d \in {d2, d3} THEN payout ELSE charge]
OrgTable == [d \in AllDeliveries |-> IF d \in {d1, d5} THEN NoOrg ELSE oA]
ItemTable == [e \in OnePlaidEvent |-> item]

AllFaults == {"database", "crash"}
On(storage, production, faults) ==
  [storage |-> storage, production |-> production, faults |-> faults]
EveryDeployment ==
  {On("postgres", FALSE, AllFaults), On("postgres", TRUE, AllFaults),
   On("memory", FALSE, {}), On("memory", FALSE, {"crash"})}
WithoutFaults == {On("postgres", TRUE, {})}
=============================================================================
