SPECIFICATION Spec
CONSTANTS
  Sessions = {s1}
  Users = {u1}
  Topics = {t1}
  MaxLen = 2
  Unbound = Unbound
  NoSkip = NoSkip
  NoSession = NoSession
  Transcript <- TextOnly
  Budget <- ReadFault
INVARIANTS NoLoss
