SPECIFICATION WizardSpec
CONSTANTS
  WzTopics = {t, u}
  NoTopic = NoTopic
  MaxCards = 3
  MaxTexts = 2
  MaxBranches = 1
  WzHazards <- Residue
SYMMETRY TopicSymmetry
INVARIANTS LaunchedAsShown
CHECK_DEADLOCK FALSE
