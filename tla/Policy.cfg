CONSTANTS
  Objects <- Tables
  Patterns <- Globs
  Keys = {"create", "alter"}
  CreateTable = "create"
  Inherited = {"create"}
  Powers = {1, 2}
  Default <- Tightest
  Injects = {"c", "other"}
  Roots <- SomeRoots
  Drafts <- SomeDrafts
  MaxLayers = 4
SPECIFICATION PolicySpec
INVARIANTS AskedFor InjectsCover OneShape
PROPERTIES NeverLooser
CHECK_DEADLOCK FALSE
