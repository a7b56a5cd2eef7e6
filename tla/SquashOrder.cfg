CONSTANTS
  Versions = {1, 2, 3, 4}
  Checksums = {"a", "b"}
  NoMarker = NoMarker
  Deployers = {d1}
  Catalog <- FrCatalog
  Manifests <- FrManifests
  Grants <- NoGrant
  Backend = "postgres"
  NoOwner = NoOwner
  MaxEvents = 4
  MaxCrashes = 0
SPECIFICATION Spec
PROPERTIES DependenciesBuilt
CHECK_DEADLOCK FALSE
