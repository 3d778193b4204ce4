--------------------------- MODULE MCUnixFdServer ---------------------------
(***************************************************************************)
(* An instance of UnixFdServer for TLC: two blocks, of one pool or of two. *)
(***************************************************************************)
EXTENDS UnixFdServer

CONSTANTS s1, s2

OnePoolOrTwo == {{<<s1, s2>>}, {<<s1>>, <<s2>>}}
=============================================================================
