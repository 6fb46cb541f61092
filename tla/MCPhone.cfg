CONSTANTS
  Dialled = {1, 2}
  Projects = {2}
  NoCall = NoCall
  Main = Main
  MaxHangUps = 1
  MaxShutdowns = 1
  Requests = {r1}
  MaxSessions = 2
  MaxAttempts = 2
  MaxDrops = 2
  Folders = {"f1", "f2"}
  Sessions = {"s1", "s2"}
  FolderOf <- MCFolderOf
  PageLimit = 1
  MaxEdits = 2
  MaxLosses = 1
  MaxRefusals = 1
  MaxRefreshes = 2
  MaxIce = 1
  MaxLocal = 1
  MaxDowns = 1
SPECIFICATION AndroidSpec
INVARIANTS
  CallEndsWhole
  PhonePeerIsExact
  LinkIsHonest
  RowsFollow
CHECK_DEADLOCK FALSE
