SPECIFICATION Spec
CONSTANTS
  MinInt <- MCMinInt
  MaxInt = 7
  Cap = 5
  Capped = TRUE
  Inputs <- MCInputs
  MaxGiven = 24
  Null = Null
INVARIANTS
  TypeOK
  CacheCoherent
PROPERTIES
  SavedCoherent
