---------------------------- MODULE MCRbfMempool ----------------------------
(***************************************************************************)
(* Model checking of the RBF cache beside the mempool, with two versions   *)
(* of one payment.                                                         *)
(***************************************************************************)
EXTENDS RbfMempool

CONSTANTS a, b, x

Versions == [t \in Txid |-> {x}]

Rising == [t \in Txid |-> IF t = a THEN 1 ELSE 2]

=============================================================================
