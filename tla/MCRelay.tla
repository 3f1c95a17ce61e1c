----------------------------- MODULE MCRelay -------------------------------
(***************************************************************************)
(* What is between an agent and the messages of its topic, in both         *)
(* directions, one component at a time: "focus" names the one that moves,  *)
(* the others rest in an initial state.  The components share no variable, *)
(* so a run of this module is the run of each of them.                     *)
(***************************************************************************)
EXTENDS TranscriptTracking, TopicMessages, TranscriptParsing, TaskList,
        InteractivePrompts, TerminalInput, MCDeliveryContract

VARIABLE focus

NoHazards == {}
AllProviders == {"claude", "codex", "gemini", "antigravity", "pi"}

RelayVars == <<focus, trVars, tmVars, tpVars, tlVars, ipVars, tiVars, receipts>>

RelayInit ==
    /\ focus \in {"tracking", "messages", "parsing", "tasks", "prompts", "input",
                  "contract"}
    /\ TrackingInit /\ (focus # "tracking" => file.next = 2)
    /\ TmInit /\ (focus # "messages" => toolMode = "batched")
    /\ TpInit /\ (focus # "parsing" => provider = "claude")
    /\ TlInit
    /\ PromptInit
    /\ InputInit /\ (focus # "input" => backend = "tmux" /\ vim = "off")
    /\ Init

RelayNext ==
    \/ /\ focus = "tracking" /\ TrackingNext
       /\ UNCHANGED <<focus, tmVars, tpVars, tlVars, ipVars, tiVars, receipts>>
    \/ /\ focus = "messages" /\ TmNext
       /\ UNCHANGED <<focus, trVars, tpVars, tlVars, ipVars, tiVars, receipts>>
    \/ /\ focus = "parsing" /\ ParsingNext
       /\ UNCHANGED <<focus, trVars, tmVars, tlVars, ipVars, tiVars, receipts>>
    \/ /\ focus = "tasks" /\ TaskListNext
       /\ UNCHANGED <<focus, trVars, tmVars, tpVars, ipVars, tiVars, receipts>>
    \/ /\ focus = "prompts" /\ PromptNext
       /\ UNCHANGED <<focus, trVars, tmVars, tpVars, tlVars, tiVars, receipts>>
    \/ /\ focus = "input" /\ InputNext
       /\ UNCHANGED <<focus, trVars, tmVars, tpVars, tlVars, ipVars, receipts>>
    \/ /\ focus = "contract" /\ Next
       /\ UNCHANGED <<focus, trVars, tmVars, tpVars, tlVars, ipVars, tiVars>>

RelaySpec == RelayInit /\ [][RelayNext]_RelayVars
=============================================================================
