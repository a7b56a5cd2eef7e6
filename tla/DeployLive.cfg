CONSTANTS
  Versions = {1, 2, 3, 4}
  Checksums = {"a", "b"}
  NoMarker = NoMarker
  Deployers = {d1, d2}
  Catalog <- LiveCatalog
  Manifests <- LiveManifests
  Grants <- NoGrant
  Backend = "postgres"
  NoOwner = NoOwner
  MaxEvents = 4
  MaxCrashes = 2
SPECIFICATION FairSpec
INVARIANTS TypeOK
PROPERTIES LockComesBack Converges
CHECK_DEADLOCK FALSE
