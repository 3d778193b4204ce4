-------------------------- MODULE MCGpuBufferPool --------------------------
(***************************************************************************)
(* Instances of GpuBufferPool for TLC.                                     *)
(***************************************************************************)
EXTENDS GpuBufferPool, TLC

ThreadSymmetry == Permutations(Threads)

\* A name left behind by a dead process with this pid.
FirstName == {0}
============================================================================
