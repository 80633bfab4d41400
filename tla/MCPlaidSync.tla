---------------------------- MODULE MCPlaidSync ----------------------------
EXTENDS PlaidSync

CONSTANTS c1, c2, x, q1, q2

TwoConns == {c1, c2}
OneKey == {x}
TwoRequests == {q1, q2}
BothLoads == BOOLEAN

(* Requests that overlap share one connection.                             *)
Linked == [one \in BOOLEAN |-> IF one THEN TwoConns ELSE {c1}]

(* A transaction that is posted, changed and taken back, in pages of up to *)
(* two changes; and a connection with nothing in it.                       *)
Books == [c \in TwoConns |->
  IF c = c1 THEN <<[k \in OneKey |-> 1], [k \in OneKey |-> 2], [k \in OneKey |-> 0]>>
            ELSE <<>>]
=============================================================================
