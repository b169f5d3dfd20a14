---------------------------- MODULE MCFleetSweep ----------------------------
(***************************************************************************)
(* FleetSweep for TLC.  One answer of a router has both versions, the      *)
(* other comes from a router that does not reach its update server.        *)
(***************************************************************************)
EXTENDS FleetSweep

MCAnswers == {[installed |-> 1, latest |-> 2], [installed |-> 2, latest |-> None]}
=============================================================================
