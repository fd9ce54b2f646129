SPECIFICATION PageSpec
CONSTANTS
  None = None
  Pairs <- ThreePairs
  Voter = {v1, v2, v3}
  Size = 4
  MatchKey <- Keyed
  Offers <- AllOffers
  Rankings <- AllRankings
  Titles <- AllTitles
  Slugify <- Slugs
  MIN_GROUP_SIZE = 2
  MAX_GROUP_SIZE = 3
  MaxPairs = 5
  Key = {k1, k2}
  LIMIT = 2
  WINDOW = 4
  SweepAbove = 1
  Horizon = 6
  MaxPerInstant = 2
  Null = None
  Hour = 2
  SummerFrom = 10
  SummerTo = 40
  Slug = {s1, s2}
  Typed = {typed}
  Garbled = garbled
  Fraction = fraction
  Replies <- AllReplies
  DraftNames = {"n"}
  StartsLocal <- Starts
  CellEdits <- TotalEdits
  MaxRows = 2
  MaxLoads = 1
  TournamentId = {1, 2, 3}
  Limits = {1, 2}
  LastDay = 2
  Delay = 1
  Nothing = None
  PlayerId = {1, 2, 3}
  Imports <- TwoSheets
  Entries <- TwoEntries
  MaxImports = 2
INVARIANTS
  NothingUnpreviewed
CHECK_DEADLOCK FALSE
