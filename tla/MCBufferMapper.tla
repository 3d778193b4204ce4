--------------------------- MODULE MCBufferMapper ---------------------------
(***************************************************************************)
(* Instances of BufferMapper for TLC.                                      *)
(***************************************************************************)
EXTENDS BufferMapper, TLC

\* With three publications a message can be two behind its block; the successor
\* under the same pid needs two to make the cache stale once more.
ThreeThenTwo == <<3, 2>>

ThreadSymmetry == Permutations(Threads)
=============================================================================
