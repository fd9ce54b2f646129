SPECIFICATION Spec
CONSTANTS
  NoSheet = NoSheet
  ana = ana
  anaAccented = anaAccented
  rui = rui
  Name <- Names
  MatchKey <- Keys
  Sync = {s1}
  Sheets <- Dated
  Calendar <- TwoDays
  MaxEdits = 0
  MaxInt = 9
  Roster <- WithClub
PROPERTIES
  ClubKept
CHECK_DEADLOCK FALSE
