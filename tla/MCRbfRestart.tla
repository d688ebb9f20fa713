---------------------------- MODULE MCRbfRestart ----------------------------
(***************************************************************************)
(* Model checking of RbfRestart: every pair of transactions conflicts.     *)
(***************************************************************************)
EXTENDS RbfRestart, TLC

CONSTANTS a, b, c

AllConflict == {p \in Txid \X Txid : p[1] # p[2]}

\* The transactions that signal alike are interchangeable.
TxSymmetry == {p @@ q : p \in Permutations(Signals),
                        q \in Permutations(Txid \ Signals)}

=============================================================================
