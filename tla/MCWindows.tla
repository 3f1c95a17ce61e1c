----------------------------- MODULE MCWindows ------------------------------
(***************************************************************************)
(* What keeps windows, sessions and topics together, one component at a    *)
(* time: "focus" names the one that moves, the others rest in an initial   *)
(* state.  The components share no variable, so a run of this module is    *)
(* the run of each of them.                                                *)
(***************************************************************************)
EXTENDS SessionMap, TopicLifecycle, ThreadRouter, TLC

VARIABLE focus

NoHazards == {}

\* Windows, sessions and users, and topics are interchangeable.
WindowSymmetry ==
    Permutations(Windows) \cup Permutations(SmSessions) \cup Permutations(LcTopics)

WindowsVars == <<focus, smVars, lcVars, rtVars>>

WindowsInit ==
    /\ focus \in {"map", "topics", "router"}
    /\ SmInit
    /\ LifecycleInit /\ (focus # "topics" => ~onDemand)
    /\ RoutingInit /\ (focus # "router" => legacy = NoRows.legacy /\ stored = NoRows)

WindowsNext ==
    \/ /\ focus = "map" /\ SmNext
       /\ UNCHANGED <<focus, lcVars, rtVars>>
    \/ /\ focus = "topics" /\ LifecycleNext
       /\ UNCHANGED <<focus, smVars, rtVars>>
    \/ /\ focus = "router" /\ RoutingNext
       /\ UNCHANGED <<focus, smVars, lcVars>>

WindowsSpec == WindowsInit /\ [][WindowsNext]_WindowsVars
=============================================================================
