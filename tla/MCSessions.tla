----------------------------- MODULE MCSessions -----------------------------
(***************************************************************************)
(* A small instance of Sessions for TLC.                                   *)
(***************************************************************************)
EXTENDS Sessions, TLC

CONSTANTS s1, s2, s3, q1, q2, q3

ThreeIds == {s1, s2, s3}
ThreeRequests == {q1, q2, q3}
BothLoads == BOOLEAN

Symmetry == Permutations(ThreeIds) \cup Permutations(ThreeRequests)
=============================================================================
