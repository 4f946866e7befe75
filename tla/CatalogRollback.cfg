SPECIFICATION Spec
CONSTANTS
  Roots <- MCRoots
  Timestamps <- MCTimestamps
  Snapshots <- MCSnapshots
  TargetsFiles <- MCTargetsFiles
  Catalogs <- MCCatalogs
  Releases <- MCReleases
  Installations <- MCInstallations
  Hosts <- MCHosts
  Bundles <- MCBundles
  MaxRotations = 1
  MaxTime = 3
  Request = {q1}
  None = None
PROPERTY NoRollbackShown
