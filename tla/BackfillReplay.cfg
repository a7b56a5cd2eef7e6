CONSTANTS
  Keys = {9, 10, 11}
  Values = {x, y}
  Null = Null
  NoRow = NoRow
  Checksums = {"a", "b"}
  Specs <- OnlyGuarded
  BatchSize = 2
  MaxCrashes = 0
  MaxWrites = 0
  MaxRollbacks = 1
SPECIFICATION Spec
SYMMETRY EitherValue
INVARIANTS Replayed
CHECK_DEADLOCK FALSE
