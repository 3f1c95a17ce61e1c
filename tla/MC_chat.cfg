SPECIFICATION ChatSpec
CONSTANTS
  ShMessages = {a, b}
  MaxTyped = 1
  MaxFixed = 1
  MaxOut = 2
  ShHazards <- NoHazards
  NoRequest = NoRequest
  WzTopics = {t, u}
  NoTopic = NoTopic
  MaxCards = 3
  MaxTexts = 2
  MaxBranches = 1
  WzHazards <- NoHazards
SYMMETRY ChatSymmetry
INVARIANTS  LastOutputShown WizardInv LaunchedAsShown
CHECK_DEADLOCK FALSE
