------------------------------ MODULE MCBlocks ------------------------------
(***************************************************************************)
(* Model checking of Blocks: a chain that splits above its oldest block,   *)
(* the second branch one block longer than the first.                      *)
(***************************************************************************)
EXTENDS Blocks

CONSTANTS r, a2, a3, b2, b3, b4

HeightDef == [x \in Block |->
    CASE x = r -> 1 [] x \in {a2, b2} -> 2 [] x \in {a3, b3} -> 3 [] x = b4 -> 4]

PrevDef == [x \in Block |->
    CASE x = r -> None [] x \in {a2, b2} -> r [] x = a3 -> a2
      [] x = b3 -> b2 [] x = b4 -> b3]
=============================================================================
