----------------------------- MODULE MCIndexer -----------------------------
(***************************************************************************)
(* Model checking of Indexer with one call more than it should ever have   *)
(* in progress at once, so that a missing guard shows.                     *)
(***************************************************************************)
EXTENDS Indexer, TLC

CONSTANTS r1, r2, c1, c2, c3

CallSymmetry == {p @@ q : p \in Permutations(Runs), q \in Permutations(Calls)}

=============================================================================
