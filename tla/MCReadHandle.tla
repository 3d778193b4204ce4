---------------------------- MODULE MCReadHandle ----------------------------
(***************************************************************************)
(* Instances of ReadHandle for TLC.                                        *)
(***************************************************************************)
EXTENDS ReadHandle

\* The device of the imported memory is current in the caller, or none is.
SameDevice == {"here", "none"}

\* Another device is current, as in a test of ReadHandle.
AnotherDevice == {"there"}
=============================================================================
