SPECIFICATION Spec
CONSTANTS
  File <- MCFile
  ManifestFile = "package.json"
  IgnoreFile = ".aemignore"
  Nested = {"sub/package.json"}
  Dropped = {".aemignore"}
  Refused = {}
  Native = {"tool.exe"}
  Key <- MCKey
  Name = {"ours", "theirs", "manager"}
  Version = {"1", "2", "dev"}
  Rank <- MCRank
  None = None
  Tag = {"v1", "v2"}
  TagVersion <- MCTagVersion
  Asset = {"main", "other"}
  ManagerAsset = "main"
  ManagerName = "manager"
  Ref = {"main", "dev"}
  Hubs <- MCHubs
  FirstHubs <- MCFirstHubs
  MaxChanges = 2
INVARIANTS TypeOK SourceHeld
PROPERTY LineageKept
