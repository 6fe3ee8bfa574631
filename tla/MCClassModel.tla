---------------------------- MODULE MCClassModel ----------------------------
(* Instances of ClassModel for model checking. *)
EXTENDS ClassModel

\* Three classes; classes declared again, with another between the two or not; names with
\* underscores.
Programs == { << <<"A">>, <<"B">>, <<"C">> >>, << <<"A">>, <<"B">>, <<"A">> >>,
              << <<"A">>, <<"A">>, <<"A">> >>, << <<"A", "A">>, <<"B", "B">> >> }

\* Names with and without underscores in one program.
Underscored == { << <<"A">>, <<"B", "B">> >>, << <<"A">>, <<"B">>, <<"B", "B">> >> }

OneMethod == { <<"m">> }
OneField == { <<"f">> }

=============================================================================
