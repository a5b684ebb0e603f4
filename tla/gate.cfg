SPECIFICATION FairSpec
CONSTANTS
  Calls = {c1, c2, c3, c4}
  Slots = 2
  MaxAttempts = 2
INVARIANTS
  SlotsConserved
  NoLostWakeup
PROPERTIES
  NoOvertaking
  AdmitsInTurn
  EveryCallEnds
