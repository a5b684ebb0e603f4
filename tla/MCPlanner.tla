------------------------------ MODULE MCPlanner ------------------------------
(* Instances of TripPlanner for TLC.                                       *)
EXTENDS TripPlanner
=============================================================================
