CONSTANTS
  p1 = p1
  p2 = p2
  Paths = {p1, p2}
  Matching = {p2}
  Start = {p1, p2}
  Limit = 1
  RetryBudget = 5
  MaxEdits = 2
  MaxTurns = 1
  MaxScrolls = 2
  Sessions = {s1, s2}
  MaxChanges = 2
  MaxLoads = 2
  Viewers = {v1, v2}
  MaxDialogs = 1
  MaxAnswers = 2
  MaxLost = 1
  MaxLines = 2
  MaxReplies = 1
  MaxBash = 1
  MaxTroubles = 1
  MaxLag = 1
  Reals = {r1, r2}
  Placeholders = {pending}
  Home = Home
  Nowhere = Nowhere
  MaxDeeds = 2
  MaxPushed = 1
SPECIFICATION ViewSpec
INVARIANTS
  WindowIsExact
  ListIsCurrent
  DialogsAreExact
  TranscriptIsExact
  TabsAreExact
CHECK_DEADLOCK FALSE
