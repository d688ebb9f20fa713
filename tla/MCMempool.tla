----------------------------- MODULE MCMempool -----------------------------
(***************************************************************************)
(* Model checking of Mempool with three transactions.                      *)
(***************************************************************************)
EXTENDS Mempool

CONSTANTS a, b, c, x, y

\* b conflicts with a and c, which can be in the mempool together.
Fork == [t \in Txid |-> IF t = a THEN {x} ELSE IF t = b THEN {x, y} ELSE {y}]

\* Three versions of one payment.
Chain == [t \in Txid |-> {x}]

Rising == [t \in Txid |-> IF t = a THEN 1 ELSE IF t = b THEN 2 ELSE 3]

=============================================================================
