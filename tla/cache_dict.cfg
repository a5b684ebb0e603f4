SPECIFICATION FairSpec
CONSTANTS
  Calls = {c1, c2, c3}
  Keys = {k1, k2}
  NoCall = NoCall
  UseRedis = FALSE
INVARIANTS
  SingleFlight
  CancelIsolation
  OutageNeverCached
PROPERTIES
  LiveValueKept
  ExpiredNeverServed
  EveryCallEnds
  KeepsPromise
