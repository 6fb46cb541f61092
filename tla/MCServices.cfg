CONSTANTS
  Sessions = {s, m}
  Ids = {d, e}
  None = None
  Retained = {m}
  MaxQueue = 2
  MaxStarts = 2
  MaxCrashes = 1
  MaxFailures = 1
  Paths = {p1, h1}
  Readers = {r1, r2}
  Hubs = {h1}
  MaxMoves = 2
  MaxExpiries = 1
  Repos = {g1, g2, g3}
  Slots = 1
  MaxCommits = 1
  MaxAsks = 4
  MaxLapses = 2
  Members = {m1, m2}
  Mutations = {1, 2}
  MaxFaults = 1
  MaxOthers = 1
  NoMember = NoMember
  Makers = {k1, k2}
  Puts = {w1}
  MaxWriteFaults = 2
  MaxExpired = 1
  Hosts = {x1, x2}
  Bundles = {f1, f2}
  MaxDeeds = 5
  Devices = {d1}
  MaxSubs = 2
  MaxTurns = 6
  Operators = {o1, o2}
  MaxPicks = 4
  MaxSteps = 1
SPECIFICATION ServicesSpec
INVARIANTS
  EndsAreFinal
  ViewsAgree
  RepositoriesAreExact
  SlotsAreUsed
  FoldersAreWhole
  HostingIsExact
  PushIsExact
  LoginIsExact
PROPERTY EverythingIsAnswered
CHECK_DEADLOCK FALSE
