------------------------ MODULE MCProviderConnection ------------------------
(***************************************************************************)
(* Small instances of ProviderConnection for TLC.                          *)
(***************************************************************************)
EXTENDS ProviderConnection, TLC

CONSTANTS s1, s2, c1, c2, c3, x1, x2, oA, acct1

TwoStates == {s1, s2}
OneOrg == {oA}
TwoStateOrgs == [s \in TwoStates |-> oA]

(* Two callbacks with the first state, one with the second.                *)
ThreeCallbacks == {c1, c2, c3}
ThreeStateTable == [c \in ThreeCallbacks |-> IF c = c3 THEN s2 ELSE s1]
ThreeAccountTable == [c \in ThreeCallbacks |-> acct1]

TwoDisconnects == {x1, x2}
TwoOfA == [x \in TwoDisconnects |-> oA]

AllFaults == {"database", "stripe", "key", "crash"}
EveryDeployment ==
  {[storage |-> "memory", serial |-> FALSE, faults |-> AllFaults],
   [storage |-> "postgres", serial |-> FALSE, faults |-> AllFaults],
   [storage |-> "postgres", serial |-> TRUE, faults |-> {"stripe", "key"}],
   [storage |-> "memory", serial |-> TRUE, faults |-> {"stripe", "key"}]}
=============================================================================
