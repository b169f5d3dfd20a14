---------------------------- MODULE MCRunControl ----------------------------
(***************************************************************************)
(* RunControl for TLC: a request, the scheduler and a command-line run     *)
(* compete for the slot and the lock.  The bounds are in the .cfg files.   *)
(***************************************************************************)
EXTENDS RunControl
=============================================================================
