------------------------------ MODULE MCVisitor ------------------------------
(* Instances of Visitor for model checking. *)
EXTENDS Visitor

=============================================================================
