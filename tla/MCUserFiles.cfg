SPECIFICATION FilesSpec
CONSTANTS
  Accounts = {"bank"}
  Instruments = {"fund"}
  Benchmarks = {"index"}
  Identities = {"a", "b", "c"}
  None = none
  Half = half
  Unreadable = unreadable
  Files <- SmallFiles
  Stamps = {s1, s2}
  Tokens = {t1}
  Archivable = {"bank"}
  Posted = {1}
  MaxAmount = 2
  Horizon = 1
  MaxFacts = 3
  MaxBatches = 2
  Supported = 2
  Households = {"ours", "theirs"}
  Foreign <- ForeignBundles
  NoHousehold = nohousehold
  Nobody = nobody
  MaxVersion = 1
  MaxFiles = 2
  MaxRewrites = 1
INVARIANTS ImportedOnce RestoredIsShown
PROPERTY OnlyPreviewed
SYMMETRY Symmetry
CHECK_DEADLOCK FALSE
