---------------------------- MODULE MCMembership ----------------------------
(***************************************************************************)
(* Small instances of Membership for TLC.                                  *)
(***************************************************************************)
EXTENDS Membership, TLC

CONSTANTS u1, u2, u3, q1, q2, q3

ThreeUsers == {u1, u2, u3}
ThreeRequests == {q1, q2, q3}
EveryDeployment ==
  {[storage |-> "memory", serial |-> FALSE],
   [storage |-> "memory", serial |-> TRUE],
   [storage |-> "postgres", serial |-> FALSE],
   [storage |-> "postgres", serial |-> TRUE]}
Symmetry == Permutations(ThreeRequests) \cup Permutations({u2, u3})
=============================================================================
