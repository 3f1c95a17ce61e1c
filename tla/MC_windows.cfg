SPECIFICATION WindowsSpec
CONSTANTS
  Windows = {w, v}
  SmSessions = {a, b}
  MaxSteps = 5
  MaxCrashes = 1
  SmHazards <- NoHazards
  LcWindows = {w, v}
  LcTopics = {t, u}
  LcUsers = {a, b}
  MaxUserMoves = 3
  MaxLcCrashes = 1
  LcHazards <- NoHazards
  NoWin = NoWin
  NoTopic = NoTopic
  NoOwner = NoOwner
  RtUsers = {7, 8}
  RtChats = {c}
  RtThreads = {1, 2}
  RtWindows = {w, v}
  RetiredLimit = 1
  MaxSeedRows = 2
  MaxRouting = 2
  MaxSaveFaults = 1
  RtHazards <- NoHazards
  NoRoute = NoRoute
SYMMETRY WindowSymmetry
INVARIANTS SessionMapInv RoutingInv LifecycleInv
PROPERTIES BoundStateKept CleanupSparesActive LiveTopicKept  QuarantineNotAdopted
CHECK_DEADLOCK FALSE
