SPECIFICATION FairSpec
CONSTANTS
  Sessions = {s1}
  Users = {u1}
  Topics = {t1}
  MaxLen = 4
  Unbound = Unbound
  NoSkip = NoSkip
  NoSession = NoSession
  Transcript <- ToolCallThenText
  Budget <- SkipOnce
PROPERTIES WatermarkCatchesUp
