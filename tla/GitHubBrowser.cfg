SPECIFICATION BrowserSpec
CONSTANTS
  Query = {"all", "some"}
  Listings <- MCListings
  Load = {l1, l2}
  PageSize = 2
  RawSize = 3
  ScanLimit = 3
  FullPages = TRUE
  Nil = Nil
SYMMETRY Symmetry
INVARIANTS NothingSkipped
