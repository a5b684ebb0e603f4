------------------------------ MODULE MCEnvelope ------------------------------
(* Instances of JourneyEnvelope for TLC.                                   *)
EXTENDS JourneyEnvelope
=============================================================================
