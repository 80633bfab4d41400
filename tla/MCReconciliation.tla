-------------------------- MODULE MCReconciliation --------------------------
(***************************************************************************)
(* Small instances of Reconciliation for TLC.  The amounts are round, so   *)
(* that a thousandth is exact.                                             *)
(***************************************************************************)
EXTENDS Reconciliation, TLC

CONSTANTS p1, p2, p3, b1, b2, b3, b4, r1, r2, q1, q2

ThreePayouts == {p1, p2, p3}
FourBanks == {b1, b2, b3, b4}
ThreeDeposits == {b1, b2, b3}   \* b4 is a debit
AllRows == ThreePayouts \cup FourBanks

(* b1 is good for p1 and p2, b2 only for p1, b3 for none; b4 would be good *)
(* for p3 if it were a deposit.                                            *)
Amounts ==
  (p1 :> 100) @@ (p2 :> 100) @@ (p3 :> 50) @@
  (b1 :> 100) @@ (b2 :> 80) @@ (b3 :> 20) @@ (b4 :> 50)
Days ==
  (p1 :> 3) @@ (p2 :> 2) @@ (p3 :> 5) @@
  (b1 :> 2) @@ (b2 :> 4) @@ (b3 :> 1) @@ (b4 :> 5)
Naming == {<<p1, b1>>, <<p1, b2>>, <<p3, b3>>}

LateRows == {p2, b1}
TwoRuns == {r1, r2}
TwoPatches == {q1, q2}
EveryDeployment ==
  {[storage |-> "postgres", serial |-> TRUE, faults |-> {"database"}],
   [storage |-> "memory", serial |-> FALSE, faults |-> {}]}
Symmetry == Permutations(TwoRuns)
=============================================================================
