SPECIFICATION RelaySpec
CONSTANTS
  Sids = {a, b}
  NoSid = NoSid
  MaxChanges = 3
  MaxLines = 3
  MaxEvents = 2
  Hazards <- NoHazards
  TopicWindows = {w, v}
  MaxTasks = 4
  MaxQueued = 2
  MaxFaults = 2
  BatchMaxEntries = 2
  BigTool = 4
  StreamedFlush = FALSE
  NoticeFlood = FALSE
  Providers <- AllProviders
  MaxTurns = 5
  TpHazards <- NoHazards
  MaxItems = 2
  MaxPlanning = 6
  MaxSessions = 2
  TlHazards <- NoHazards
  IpTexts = {p, q, r}
  PlainTexts = {r}
  MaxAsks = 2
  MaxTaps = 2
  MaxNotices = 2
  MaxIpFaults = 1
  IpHazards <- NoHazards
  NoText = NoText
  TiMessages = {c, d}
  MaxKeyed = 1
  MaxAgentMoves = 3
  TiHazards <- NoHazards
  NoMsg = NoMsg
  Length = 3
  MaxOffset = 2
INVARIANTS  TopicInv  TaskListInv PromptInv PromptShown InputInv EchoSuppressed MatchesLoops
CHECK_DEADLOCK FALSE
