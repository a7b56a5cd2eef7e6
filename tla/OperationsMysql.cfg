CONSTANTS
  Versions = {1, 2, 3, 4}
  Checksums = {"a", "b"}
  NoMarker = NoMarker
  Deployers = {d1}
  Catalog <- OpCatalog
  Manifests <- OpManifests
  Grants <- SomeGrants
  Backend = "mysql"
  NoOwner = NoOwner
  MaxEvents = 4
  MaxCrashes = 2
  Operators = {o1}
  Requests <- OpRequests
  Repairs <- UndoOnly
  Adoptable <- NothingToAdopt
SPECIFICATION OperationsSpec
INVARIANTS JournalIsTrue NoDoubleApply SkippedIsBuilt
PROPERTIES AllAtOnce
CHECK_DEADLOCK FALSE
