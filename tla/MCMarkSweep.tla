----------------------------- MODULE MCMarkSweep -----------------------------
(***************************************************************************)
(* Instances of MarkSweep for TLC.                                         *)
(***************************************************************************)
EXTENDS MarkSweep, TLC

\* Blocks, and the words that hold them, are interchangeable.
BlockSymmetry == Permutations(Block)
=============================================================================
