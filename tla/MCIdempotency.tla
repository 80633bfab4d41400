--------------------------- MODULE MCIdempotency ---------------------------
(***************************************************************************)
(* Small instances of Idempotency for TLC: three tries of one request, a   *)
(* different request under the same key, and one without a key.            *)
(***************************************************************************)
EXTENDS Idempotency, TLC

CONSTANTS r1, r2, r3, r4, r5, k, h1, h2

FiveRequests == {r1, r2, r3, r4, r5}
TwoRequests == {r1, r2}
OneKey == {k}
KeyTable(rs) == [r \in rs |-> IF r = r5 THEN NoKey ELSE k]
HashTable(rs) == [r \in rs |-> IF r = r4 THEN h2 ELSE h1]
FiveKeys == KeyTable(FiveRequests)
FiveHashes == HashTable(FiveRequests)
TwoKeys == KeyTable(TwoRequests)
TwoHashes == HashTable(TwoRequests)
On(storage, faults) == [locking |-> TRUE, storage |-> storage, faults |-> faults]
EveryDeployment ==
  {On("postgres", {"crash", "redis", "expiry"}),
   On("postgres", {"database", "redis"}),
   On("postgres", {"reset"}),
   On("memory", {"crash", "reset"}),
   [On("memory", {"crash"}) EXCEPT !.locking = FALSE]}
NoFaults == {On("postgres", {})}
RetrySymmetry == Permutations({r1, r2, r3})
=============================================================================
