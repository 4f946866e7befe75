SPECIFICATION Spec
CONSTANTS
  Roots <- MCRoots
  Timestamps <- MCTimestamps
  Snapshots <- MCSnapshots
  TargetsFiles <- MCTargetsFiles
  Catalogs <- MCCatalogs
  Releases <- MCReleases
  Installations <- MCInstallations
  Hosts <- MCHosts
  Bundles <- MCBundles
  MaxRotations = 2
  MaxTime = 3
  Request = {q1, q2}
  None = None
SYMMETRY Symmetry
INVARIANTS TypeOK FallbackNotRolledBack RecordedIsComplete UpdatesAuthorized
PROPERTIES FoundNotOlder
