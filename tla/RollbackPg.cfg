CONSTANTS
  Versions = {1, 2, 3, 4, 5}
  Checksums = {"a", "b"}
  NoMarker = NoMarker
  Deployers = {d1, d2}
  Catalog <- RbCatalog
  Manifests <- RbManifests
  Grants <- NoGrant
  Backend = "postgres"
  NoOwner = NoOwner
  MaxEvents = 4
  MaxCrashes = 1
  Operators = {o1}
  Requests <- RbRequests
  Repairs <- UndoOnly
  Adoptable <- NothingToAdopt
SPECIFICATION RollbackSpec
SYMMETRY Symmetric
INVARIANTS RollbackTypeOK UndoesWhatRan NothingDangles JournalIsTrue Accounted MarkerNamesBody NoSkipWhileArmed OnceOnly
PROPERTIES DependenciesBuilt AllAtOnce
CHECK_DEADLOCK FALSE
