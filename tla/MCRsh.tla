------------------------------- MODULE MCRsh -------------------------------
(***************************************************************************)
(* Instances of RshSystem for TLC.                                         *)
(***************************************************************************)
EXTENDS RshSystem, TLC

\* Client processes are interchangeable: only safety runs may use this.
ClientSymmetry == Permutations(Clients)
=============================================================================
