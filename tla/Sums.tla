-------------------------------- MODULE Sums --------------------------------
(***************************************************************************)
(* The sum that the engine and the advisor compute over a set of rows: of  *)
(* the values of a function, over its domain.                              *)
(***************************************************************************)
EXTENDS Integers, FiniteSetsExt

SumOver(f) == MapThenSumSet(LAMBDA k : f[k], DOMAIN f)
=============================================================================
