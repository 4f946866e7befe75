SPECIFICATION FolderSpec
CONSTANTS
  File <- MCFile
  ManifestFile = "package.json"
  IgnoreFile = ".aemignore"
  Nested = {}
  Dropped = {".aemignore"}
  Refused = {}
  Native = {"tool.exe"}
  Key <- MCKey
  Name = {"ours", "theirs"}
  Version = {"1", "2"}
  Rank <- MCRank
  None = None
  Contents <- MCContents
  Order <- MCOrder
  First <- MCFirst
  MaxEdits = 2
  Room = 2
  Foreign = {other}
INVARIANTS SnapshotTrue
