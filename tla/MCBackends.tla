----------------------------- MODULE MCBackends -----------------------------
(***************************************************************************)
(* The backends that hold the windows, and the loop that polls them, one   *)
(* component at a time: "focus" names the one that moves, the others rest  *)
(* in an initial state.  The components share no variable, so a run of     *)
(* this module is the run of each of them.                                 *)
(***************************************************************************)
EXTENDS AgtermSync, TmuxWindows, HerdrTargets, WindowPolling, TLC

VARIABLE focus

NoHazards == {}

\* Windows, sessions, topics and names are interchangeable; the panes of
\* WindowPolling are not.
BackendSymmetry ==
    Permutations(AgWins) \cup Permutations(AgSess) \cup Permutations(AgTopics)

BackendsVars == <<focus, agVars, twVars, hbVars, pwVars>>

BackendsInit ==
    /\ focus \in {"agterm", "tmux", "herdr", "polling"}
    /\ AgtermInit /\ (focus # "agterm" => forum = {})
    /\ TmuxInit
    /\ HbInit
    /\ PollingInit /\ (focus # "polling" => native = CHOOSE n \in NativeModes : TRUE)

BackendsNext ==
    \/ /\ focus = "agterm" /\ AgtermNext
       /\ UNCHANGED <<focus, twVars, hbVars, pwVars>>
    \/ /\ focus = "tmux" /\ TmuxNext
       /\ UNCHANGED <<focus, agVars, hbVars, pwVars>>
    \/ /\ focus = "herdr" /\ HbNext
       /\ UNCHANGED <<focus, agVars, twVars, pwVars>>
    \/ /\ focus = "polling" /\ PollingNext
       /\ UNCHANGED <<focus, agVars, twVars, hbVars>>

BackendsSpec == BackendsInit /\ [][BackendsNext]_BackendsVars
=============================================================================
