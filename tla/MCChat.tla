------------------------------- MODULE MCChat -------------------------------
(***************************************************************************)
(* Shell topics and the wizard that starts a topic, one at a time: "focus" *)
(* names the one that moves, the other rests in an initial state.  They    *)
(* share no variable, so a run of this module is the run of each of them.  *)
(***************************************************************************)
EXTENDS ShellTopics, TopicWizard, TLC

VARIABLE focus

NoHazards == {}

\* Messages are interchangeable, and so are topics.
ChatSymmetry == Permutations(ShMessages) \cup Permutations(WzTopics)

ChatVars == <<focus, shVars, wzVars>>

ChatInit ==
    /\ focus \in {"shell", "wizard"}
    /\ ShellInit /\ (focus # "shell" => marker)
    /\ WizardInit
    /\ (focus # "wizard" => mux = "tmux" /\ spare /\ \A t \in WzTopics : attached[t] = "free")

ChatNext ==
    \/ focus = "shell" /\ ShellNext /\ UNCHANGED <<focus, wzVars>>
    \/ focus = "wizard" /\ WizardNext /\ UNCHANGED <<focus, shVars>>

ChatSpec == ChatInit /\ [][ChatNext]_ChatVars
=============================================================================
