---------------------------- MODULE MCStudentDb ----------------------------
(***************************************************************************)
(* Instances of StudentDb for TLC.                                         *)
(***************************************************************************)
EXTENDS StudentDbHistory

\* Ids below, inside and above the range, none of which wraps to a student.
SomeIds == {-1, 1, 2, 3}
=============================================================================
