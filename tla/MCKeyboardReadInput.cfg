SPECIFICATION Spec
CONSTANTS
  MaximumNumberOfMeasurementses = 4
  NumberOfPercentiles = 2
  Measurements <- FewLatencies
  IntLimit = 4
  Keys = {"T", "t", "%", "#"}
  MaxTyped = 4
  MaxWaiting = 1
INVARIANTS
  TypeOK
  TableOfMeasurements
  SurplusOnlyAfterToggle
PROPERTY
  KeysAreRead
