--------------------------- MODULE MCTopicWizard ---------------------------
(***************************************************************************)
(* TopicWizard with one of the hazards that the code does not exclude.     *)
(***************************************************************************)
EXTENDS TopicWizard, TLC

Residue == {"residue"}

TopicSymmetry == Permutations(WzTopics)
=============================================================================
