SPECIFICATION BackendsSpec
CONSTANTS
  AgWins = {w, v}
  AgSess = {a, b}
  AgTopics = {t, u}
  MaxAgMoves = 2
  MaxOutages = 1
  AgHazards <- NoHazards
  NoSess = NoSess
  NoThread = NoThread
  TwTopics = {t, u}
  ChatTopics = {}
  TwAgents = {a, b}
  TwNames = {n, m, o}
  MaxId = 5
  MaxServers = 1
  MaxRenames = 1
  TwHazards <- NoHazards
  NoAgent = NoAgent
  NoName = NoName
  PwWindows = {p, q, r}
  PwTopics = {k}
  HookWindows = {p, r}
  AgentWindows = {p}
  MadeWindows = {p}
  NativeModes = {"gap"}
  MaxPaneMoves = 3
  MaxPushes = 1
  PwHazards <- NoHazards
  NoPane = NoPane
  HbPanes = {x, y}
  NewPane = y
  HbRuns = {a, b}
  HbTopics = {t, u}
  MaxHbCrashes = 1
  MaxHbMoves = 4
  NoRun = NoRun
  NoTarget = NoTarget
  HbHazards <- NoHazards
SYMMETRY BackendSymmetry
INVARIANTS AgtermInv   PollingInv
PROPERTIES  WorkingTopicKept ReadyAfterWork
CHECK_DEADLOCK FALSE
