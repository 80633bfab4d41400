----------------------------- MODULE MCJobQueue -----------------------------
(***************************************************************************)
(* Small instances of JobQueue for TLC.                                    *)
(***************************************************************************)
EXTENDS JobQueue, TLC

CONSTANTS w1, w2, o1

TwoJobs == {1, 2}
OneJob == {1}
TwoWorkers == {w1, w2}
OneOperator == {o1}
NoOperator == {}
AllFaults == {"crash", "lostWrite"}
NoFaults == {}

WorkerSymmetry == Permutations({w1, w2})
=============================================================================
