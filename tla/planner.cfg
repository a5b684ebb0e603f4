SPECIFICATION Spec
CONSTANTS
  UseDb = TRUE
  EnableAir = TRUE
  MaxFinds = 1
INVARIANTS
  TypeOK
  RailAbsenceIsReal
  ComparisonIsComplete
  HealthyIsNotFlagged
