SPECIFICATION Spec
CONSTANTS
  Calls = {c1, c2, c3}
  Keys = {k1}
  NoCall = NoCall
  UseRedis = TRUE
SYMMETRY CallSymmetry
INVARIANT SingleFlight
