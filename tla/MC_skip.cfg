SPECIFICATION Spec
CONSTANTS
  Sessions = {s1}
  Users = {u1}
  Topics = {t1}
  MaxLen = 3
  Unbound = Unbound
  NoSkip = NoSkip
  NoSession = NoSession
  Transcript <- ToolCall
  Budget <- SkipFaults
INVARIANTS SkipAnnounced DeliveryInv
PROPERTIES KeepsPromise RetiredBehindBarrier WatermarkMonotone
