SPECIFICATION Spec
CONSTANTS
  NoSheet = NoSheet
  ana = ana
  anaAccented = anaAccented
  rui = rui
  Name <- Names
  MatchKey <- Keys
  Sync = {s1, s2, s3}
  Sheets <- Changing
  Calendar <- TwoDays
  MaxEdits = 1
  MaxInt = 9
  Roster <- Nobody
SYMMETRY Runs
INVARIANTS
  NeverInFuture
  FallbackParses
  LoneSyncShows
  RerunChangesNothing
CHECK_DEADLOCK FALSE
