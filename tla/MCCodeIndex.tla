---------------------------- MODULE MCCodeIndex ----------------------------
(***************************************************************************)
(* CodeIndex with one file that changes and changes back.                  *)
(***************************************************************************)
EXTENDS CodeIndex

OneFile == {"a"}
ChangedBack == << << [a |-> 1], [a |-> 2], [a |-> 1] >> >>
SameSize == <<1, 1>>

=============================================================================
