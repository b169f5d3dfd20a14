------------------------------ MODULE MCAccess -------------------------------
(***************************************************************************)
(* Access for TLC.                                                         *)
(***************************************************************************)
EXTENDS Access, TLC

\* No definition tells one browser, one address or one password from another.
Symmetry == Permutations(Browsers) \cup Permutations(Addresses) \cup Permutations(Passwords)
=============================================================================
