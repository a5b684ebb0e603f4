-------------------------------- MODULE MCGate --------------------------------
(* Instances of DbGate for TLC.                                            *)
EXTENDS DbGate
=============================================================================
