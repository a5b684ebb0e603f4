SPECIFICATION Spec
CONSTANTS
  Calls = {c1, c2, c3, c4}
  Keys = {k1}
  NoCall = NoCall
  UseRedis = TRUE
SYMMETRY CallSymmetry
INVARIANTS
  NoParallelFetch
  FollowersAreServed
  AnswerIsOwn
