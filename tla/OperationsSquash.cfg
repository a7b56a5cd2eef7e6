CONSTANTS
  Versions = {1, 2, 3, 4, 5}
  Checksums = {"a", "b"}
  NoMarker = NoMarker
  Deployers = {d1, d2}
  Catalog <- SoCatalog
  Manifests <- SoManifests
  Grants <- NoGrant
  Backend = "postgres"
  NoOwner = NoOwner
  MaxEvents = 4
  MaxCrashes = 1
  Operators = {o1}
  Requests <- SoRequests
  Repairs <- UndoOnly
  Adoptable <- SoAdoptable
SPECIFICATION OperationsSpec
SYMMETRY Symmetric
INVARIANTS JournalIsTrue NoDoubleApply PlanStaysFresh
PROPERTIES AllAtOnce
CHECK_DEADLOCK FALSE
