SPECIFICATION Spec
CONSTANTS
  Sessions = {s1}
  Users = {u1}
  Topics = {t1, t2}
  MaxLen = 3
  Unbound = Unbound
  NoSkip = NoSkip
  NoSession = NoSession
  Transcript <- PromptOnly
  Budget <- TopicFaults
INVARIANTS ReceiptAccounting
