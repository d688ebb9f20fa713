----------------------------- MODULE MCRbfCache -----------------------------
(***************************************************************************)
(* Model checking of RbfCache with a few transactions.                     *)
(***************************************************************************)
EXTENDS RbfCache, TLC

CONSTANTS a, b, c, d

\* The transactions that signal alike are interchangeable.
TxSymmetry == {p @@ q : p \in Permutations(Signals),
                        q \in Permutations(Txid \ Signals)}

=============================================================================
