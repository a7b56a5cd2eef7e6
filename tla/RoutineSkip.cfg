CONSTANTS
  Versions = {1, 2, 3, 4}
  Checksums = {"a", "b"}
  NoMarker = NoMarker
  Deployers = {d1}
  Catalog <- RtCatalog
  Manifests <- RtManifests
  Grants <- NoGrant
  Backend = "mysql"
  NoOwner = NoOwner
  MaxEvents = 4
  MaxCrashes = 1
SPECIFICATION Spec
INVARIANTS NoSkipWhileArmed
CHECK_DEADLOCK FALSE
