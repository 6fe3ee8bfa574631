----------------------------- MODULE MCRefCount -----------------------------
(***************************************************************************)
(* Instances of RefCount for TLC.  Blocks are interchangeable; the names of *)
(* variables are not, as the end of a scope goes through them in order.     *)
(***************************************************************************)
EXTENDS RefCount, TLC

OneName == <<"a">>
TwoNames == <<"a", "b">>

BlockSymmetry == Permutations(Block)

=============================================================================
