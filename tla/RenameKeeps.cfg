CONSTANTS
  Keys = {9, 10, 11}
  Values = {x, y}
  Null = Null
  NoRow = NoRow
  Checksums = {"a", "b"}
  Specs <- OnlyRename
  BatchSize = 2
  MaxCrashes = 1
  MaxWrites = 2
  MaxRollbacks = 0
SPECIFICATION Spec
SYMMETRY EitherValue
INVARIANTS ValuesKept
CHECK_DEADLOCK FALSE
