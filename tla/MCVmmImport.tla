---------------------------- MODULE MCVmmImport ----------------------------
(***************************************************************************)
(* Instances of VmmImport for TLC.                                         *)
(***************************************************************************)
EXTENDS VmmImport, TLC

Symmetry == Permutations(Threads)
=============================================================================
