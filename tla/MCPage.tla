-------------------------------- MODULE MCPage --------------------------------
(* Instances of SearchPage for TLC.                                        *)
EXTENDS SearchPage, TLC

PageSymmetry == Permutations(Trips) \cup Permutations(Posts)
=============================================================================
