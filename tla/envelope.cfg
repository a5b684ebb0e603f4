SPECIFICATION Spec
CONSTANTS
  MaxLegs = 3
  MaxTime = 3
  Minute = 1
INVARIANTS
  TypeOK
  NeverUnderstated
  NeverOverstated
  ChangesLieInside
