----------------------------- MODULE MCToolchain -----------------------------
(* Instances of Toolchain for model checking. *)
EXTENDS Toolchain

CONSTANTS p, q, r

Programs == {p, q, r}

Requests == {[src |-> p, alloc |-> "reference_count", debug |-> TRUE],
             [src |-> q, alloc |-> "mark_sweep", debug |-> FALSE],
             [src |-> p, alloc |-> "simple", debug |-> FALSE],
             [src |-> r, alloc |-> "simple", debug |-> FALSE],
             [src |-> p, alloc |-> "other", debug |-> FALSE],
             [src |-> None, alloc |-> "mark_sweep", debug |-> TRUE]}

=============================================================================
