SPECIFICATION Spec
CONSTANTS
  Sessions = {s1}
  Users = {u1, u2}
  Topics = {t1}
  MaxLen = 2
  Unbound = Unbound
  NoSkip = NoSkip
  NoSession = NoSession
  Transcript <- TextOnly
  Budget <- SendFaults
INVARIANTS TypeOK NoLoss NoLossPerUser
