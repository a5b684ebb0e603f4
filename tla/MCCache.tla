------------------------------- MODULE MCCache -------------------------------
(* Instances of SingleFlightCache for TLC.                                 *)
EXTENDS SingleFlightCache, TLC

CallSymmetry == Permutations(Calls)
=============================================================================
