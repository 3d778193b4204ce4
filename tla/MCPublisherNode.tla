--------------------------- MODULE MCPublisherNode ---------------------------
(***************************************************************************)
(* An instance of PublisherNode for TLC.                                   *)
(***************************************************************************)
EXTENDS PublisherNode, TLC

Symmetry == Permutations(Blocks) \cup Permutations(Subs)
=============================================================================
