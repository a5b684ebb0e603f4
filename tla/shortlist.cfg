SPECIFICATION Spec
CONSTANTS
  Tariffs <- MCTariffs
  Curve <- MCCurve
  Places <- MCPlaces
  Km <- MCKm
  Around <- MCAround
  Speeds <- MCSpeeds
  Regions <- MCRegions
  Requests <- MCRequests
  Distances = {4, 5, 20, 28, 29, 64, 620}
  NoLimit = NoLimit
INVARIANTS
  TypeOK
  RowsAreBest
  BandsAreRanges
PROPERTIES
  LooseningHelps
  EarlierNeverDearer
