---------------------------- MODULE MCBufferRef ----------------------------
(* Small instances of BufferRef for TLC. *)
EXTENDS BufferRef, TLC

\* Subscribers are interchangeable, and so are the publisher's threads.
ThreadSymmetry == Permutations(Readers) \cup Permutations(Publishers)
\* The block starts a few generations before its last uid.
FirstUid == {1}
============================================================================
