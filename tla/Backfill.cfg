CONSTANTS
  Keys = {9, 10, 11}
  Values = {x, y}
  Null = Null
  NoRow = NoRow
  Checksums = {"a", "b"}
  Specs <- AllSpecs
  BatchSize = 2
  MaxCrashes = 1
  MaxWrites = 2
  MaxRollbacks = 1
SPECIFICATION Spec
SYMMETRY EitherValue
INVARIANTS BackfillTypeOK TransformedOnce CohortCovered OneBody GuardHeld NoneStranded Aligned WritesSurvive
CHECK_DEADLOCK FALSE
