SPECIFICATION Spec
CONSTANTS
  UseDb = TRUE
  EnableAir = TRUE
  MaxFinds = 1
INVARIANT RailWarningIsTrue
