---------------------------- MODULE HerdrTargets ----------------------------
(***************************************************************************)
(* Topic identity on the herdr backend (multiplexer/herdr.py, with         *)
(* multiplexer/reconciliation.py, session.py, window_resolver.py and the   *)
(* re-keying of session_map.json).                                         *)
(*                                                                         *)
(* A topic is bound to a TARGET derived from the session an agent runs.    *)
(* Herdr publishes an agent before it can name its session, so a topic     *)
(* that ccgram creates is first handed a stand-in derived from the         *)
(* terminal; when the session is named the backend declares that the new   *)
(* target supersedes the stand-in, and every store that mentions the       *)
(* stand-in is folded onto the new target.                                 *)
(*                                                                         *)
(* A run is one conversation of one agent.  A pane stands for its terminal *)
(* too: herdr keeps one terminal per pane.                                 *)
(***************************************************************************)
EXTENDS Naturals, FiniteSets

CONSTANTS
    HbPanes,    \* panes of the herdr server
    NewPane,    \* the pane the next tab that ccgram creates will have
    HbRuns,     \* conversations
    HbTopics,   \* topics
    MaxHbCrashes, MaxHbMoves,   \* bounds: restarts of the bot, moves of the agents
    HbHazards,  \* behaviours of the code that a passing run leaves out
    NoRun, NoTarget

ASSUME HbAssumption ==
    /\ NewPane \in HbPanes /\ IsFiniteSet(HbPanes)
    /\ MaxHbCrashes \in Nat /\ MaxHbMoves \in Nat
    /\ HbHazards \subseteq {"worktreeLabels", "reusedTerminal",
                            "restartBeforeNaming", "adoptStandin", "sharedSession"}

VARIABLES
    open,        \* panes that exist
    runs,        \* what runs in a pane
    named,       \* runs whose session herdr can name
    fault,       \* what is wrong with the record herdr publishes for a pane
    spaces,      \* workspaces: the one a user picks, the one a creation makes
    provisional, \* panes whose stand-in was handed to a creation
    making,         \* the creation transaction
    snap,        \* agent.list as a reconciliation read it, before the labels
    listing,     \* ids of the last confirmed listing
    bound,       \* topic -> target (thread_router)
    follows,     \* topic -> the run it was opened for (history)
    disk,        \* the bindings in state.json
    hbCrashes, hbMoves

serverVars == <<open, runs, named, fault, spaces, hbMoves>>
storeVars  == <<bound, follows, disk>>
hbVars == <<serverVars, provisional, making, snap, listing, storeVars, hbCrashes>>

Named(r) == <<"id", r>>
Standin(p) == <<"terminal", p>>
HbTargets == {Named(r) : r \in HbRuns} \cup {Standin(p) : p \in HbPanes}
(* The absent run and the absent target are none of them.                  *)
ASSUME HbApart == NoRun \notin HbRuns /\ NoTarget \notin HbTargets

(* The target derived from the record of a pane.                           *)
TargetOf(p) == IF runs[p] \in named THEN Named(runs[p]) ELSE Standin(p)

Agents == {p \in open : runs[p] # NoRun}
LiveRuns == {runs[p] : p \in Agents}
SameTarget(p) == {q \in Agents : fault[q] # "malformed" /\ TargetOf(q) = TargetOf(p)}

(* Records that are safe to address: parsed, one pane, one target.         *)
SafePanes == {p \in Agents : fault[p] = "none" /\ SameTarget(p) = {p}}

(* A target several panes share is alive but cannot be addressed.  It is   *)
(* listed once, by the record of whichever pane agent.list names first.    *)
SharedPanes == {p \in Agents : fault[p] = "none" /\ Cardinality(SameTarget(p)) > 1}
Representatives == {R \in SUBSET SharedPanes :
    /\ \A p \in SharedPanes : Cardinality(R \cap SameTarget(p)) = 1
    /\ "sharedSession" \in HbHazards \/ SharedPanes \cap provisional \subseteq R}

CompleteDespiteDoubles == \A p \in Agents : fault[p] # "malformed"

(* Nothing alive is missing from the safe and shared records.              *)
Complete == \A p \in Agents : fault[p] = "none"

NoSnap == [taken |-> FALSE, complete |-> FALSE, listed |-> {}, alive |-> {},
           asked |-> [t \in HbTopics |-> NoTarget]]
NoJob == [pc |-> "idle", kind |-> "none", space |-> "none", target |-> NoTarget, run |-> NoRun]

HbInit ==
    /\ open = HbPanes \ {NewPane}
    /\ runs = [p \in HbPanes |-> NoRun] /\ named = {}
    /\ fault = [p \in HbPanes |-> "none"] /\ spaces = {"picked"}
    /\ provisional = {} /\ making = NoJob /\ snap = NoSnap /\ listing = {}
    /\ bound = [t \in HbTopics |-> NoTarget]
    /\ follows = [t \in HbTopics |-> NoRun]
    /\ disk = bound /\ hbCrashes = 0 /\ hbMoves = 0

-----------------------------------------------------------------------------
(* The herdr server and its agents.                                        *)

OnTopic(p) == making.pc \in {"found", "done"} \/ \E t \in HbTopics : bound[t] = Standin(p)

HbAgentMoves == hbMoves < MaxHbMoves /\ hbMoves' = hbMoves + 1

Unaged(r) == r \notin named \cup LiveRuns \cup {making.run} \cup {follows[t] : t \in HbTopics}

(* A conversation whose topic still waits under the stand-in.              *)
Unfolded(r) == \/ making.pc \in {"found", "done"} /\ making.run = r
               \/ \E t \in HbTopics, p \in HbPanes : follows[t] = r /\ bound[t] = Standin(p)

(* An agent starts, resumes a session, or is re-keyed by /clear.  Only a   *)
(* session that has a name can be resumed in a second pane.                *)
StartRun(p, r) ==
    /\ HbAgentMoves
    /\ p \in open /\ r # runs[p]
    /\ p = NewPane /\ making.pc \in {"tab", "launched"} => making.pc = "launched" /\ runs[p] = NoRun
    /\ r \in named \/ Unaged(r)
    /\ "sharedSession" \in HbHazards \/ Unaged(r) \/ ~Unfolded(r)
    /\ "reusedTerminal" \in HbHazards \/ p \notin provisional \/ ~OnTopic(p)
    /\ runs' = [runs EXCEPT ![p] = r]
    /\ UNCHANGED <<open, named, fault, spaces, provisional, making, snap, listing,
                   storeVars, hbCrashes>>

NameSession(p) ==
    /\ HbAgentMoves
    /\ p \in Agents /\ runs[p] \notin named
    /\ "adoptStandin" \in HbHazards \/ p \in provisional \/ ~OnTopic(p)
    /\ named' = named \cup {runs[p]}
    /\ UNCHANGED <<open, runs, fault, spaces, provisional, making, snap, listing,
                   storeVars, hbCrashes>>

StopRun(p) ==
    /\ HbAgentMoves
    /\ p \in Agents /\ p = NewPane => making.pc \notin {"launched", "found"}
    /\ runs' = [runs EXCEPT ![p] = NoRun]
    /\ UNCHANGED <<open, named, fault, spaces, provisional, making, snap, listing,
                   storeVars, hbCrashes>>

(* A record comes out malformed, or a pane is listed under two targets.    *)
Garble(p, f) ==
    /\ HbAgentMoves
    /\ p \in Agents /\ fault[p] # f
    /\ fault' = [fault EXCEPT ![p] = f]
    /\ UNCHANGED <<open, runs, named, spaces, provisional, making, snap, listing,
                   storeVars, hbCrashes>>

-----------------------------------------------------------------------------
(* create_topic_target and create_worktree_window.                         *)

(* Validate the picked workspace, or make one of our own.                  *)
BeginTopic(space) ==
    /\ making.pc = "idle"
    /\ making' = [NoJob EXCEPT !.pc = "asked", !.kind = "topic", !.space = space]
    /\ spaces' = spaces \cup {space}
    /\ UNCHANGED <<open, runs, named, fault, provisional, snap, listing, storeVars, hbCrashes, hbMoves>>

CreateTab ==
    /\ making.pc = "asked"
    /\ open' = open \cup {NewPane}
    /\ making' = [making EXCEPT !.pc = "tab"]
    /\ UNCHANGED <<runs, named, fault, spaces, provisional, snap, listing, storeVars, hbCrashes, hbMoves>>

(* One call makes the checkout, its workspace and the tab.                 *)
BeginWorktree ==
    /\ making.pc = "idle"
    /\ open' = open \cup {NewPane}
    /\ making' = [NoJob EXCEPT !.pc = "tab", !.kind = "worktree"]
    /\ UNCHANGED <<runs, named, fault, spaces, provisional, snap, listing, storeVars, hbCrashes, hbMoves>>

LaunchAgent ==
    /\ making.pc = "tab"
    /\ making' = [making EXCEPT !.pc = "launched"]
    /\ UNCHANGED <<serverVars, provisional, snap, listing, storeVars, hbCrashes>>

(* The new pane reports exactly one session; a stand-in is remembered.     *)
FindSession ==
    /\ making.pc = "launched" /\ NewPane \in SafePanes
    /\ making' = [making EXCEPT !.pc = "found", !.target = TargetOf(NewPane), !.run = runs[NewPane]]
    /\ provisional' = IF runs[NewPane] \in named THEN provisional
                      ELSE provisional \cup {NewPane}
    /\ UNCHANGED <<serverVars, snap, listing, storeVars, hbCrashes>>

LabelsFound ==
    /\ making.pc = "found"
    /\ making' = [making EXCEPT !.pc = "done"]
    /\ UNCHANGED <<serverVars, provisional, snap, listing, storeVars, hbCrashes>>

(* Only a workspace this transaction made is closed.                       *)
OwnSpaceClosed == spaces \ ({making.space} \ {"picked"})

(* create_worktree_window asks for the labels outside its try block.       *)
Escapes == "worktreeLabels" \in HbHazards /\ making.pc = "found" /\ making.kind = "worktree"

(* A call fails, an answer is unusable, no session shows up, or the task   *)
(* is cancelled: the tab is closed, and then the workspace we made.  An    *)
(* exception that escapes closes nothing.                                  *)
TargetFails ==
    /\ making.pc \in {"asked", "tab", "launched", "found"}
    /\ making' = [making EXCEPT !.pc = "failed"]
    /\ \E lost \in {{}, {NewPane}} :
         /\ lost = {} => Escapes
         /\ open' = open \ lost
         /\ runs' = [p \in HbPanes |-> IF p \in lost THEN NoRun ELSE runs[p]]
         /\ fault' = [p \in HbPanes |-> IF p \in lost THEN "none" ELSE fault[p]]
    /\ spaces' = OwnSpaceClosed
    /\ UNCHANGED <<named, provisional, snap, listing, storeVars, hbCrashes, hbMoves>>

(* The launch binds the topic to the target it was handed (bind_thread,    *)
(* window_store), whatever happened to that target since.                  *)
BindTarget(t) ==
    /\ making.pc = "done" /\ bound[t] = NoTarget
    /\ bound' = [u \in HbTopics |-> IF u = t THEN making.target
                                    ELSE IF bound[u] = making.target THEN NoTarget ELSE bound[u]]
    /\ follows' = [follows EXCEPT ![t] = making.run]
    /\ making' = [making EXCEPT !.pc = "bound"]
    /\ UNCHANGED <<serverVars, provisional, snap, listing, disk, hbCrashes>>

-----------------------------------------------------------------------------
(* Listings and the fold of superseded targets.                            *)

ReadRecords ==
    /\ ~snap.taken
    /\ \E R \in Representatives :
         snap' = [taken |-> TRUE, complete |-> Complete, alive |-> LiveRuns, asked |-> bound,
                  listed |-> {[pane |-> p, target |-> TargetOf(p)] : p \in SafePanes \cup R}]
    /\ UNCHANGED <<serverVars, provisional, making, listing, storeVars, hbCrashes>>

(* The records or the labels are missing: nothing is known.                *)
ListingUnknown ==
    /\ snap.taken /\ snap' = NoSnap
    /\ UNCHANGED <<serverVars, provisional, making, listing, storeVars, hbCrashes>>

SupersededByAny(rec) == IF rec.target[1] = "id"
    THEN {Standin(rec.pane)} \cup {Named(r) : r \in named \ LiveRuns} ELSE {}

(* The stand-in that a record's named session replaced, if a creation was  *)
(* handed it.                                                              *)
Superseded(rec) == IF rec.target[1] = "id" /\ rec.pane \in provisional
                   THEN {Standin(rec.pane)} ELSE {}

Aliases == UNION {Superseded(rec) : rec \in snap.listed}
Canonical(a) == (CHOOSE rec \in snap.listed : a \in Superseded(rec)).target
Folded(x) == IF x \in Aliases THEN Canonical(x) ELSE x

(* The topic of the stand-in carries the history: a topic that discovery   *)
(* bound to the named target meanwhile gives way.                          *)
FoldedBinding(t) ==
    IF \E u \in HbTopics : bound[u] \in Aliases /\ Canonical(bound[u]) = bound[t]
    THEN NoTarget ELSE Folded(bound[t])

ListedIds == {rec.target : rec \in snap.listed}

Confirm == snap.taken /\ snap.complete /\ snap' = NoSnap

(* The entries of session_map.json are re-keyed under the hook's lock;     *)
(* memory is folded once that has succeeded.                               *)
Reconcile ==
    /\ Confirm
    /\ listing' = ListedIds
    /\ bound' = [t \in HbTopics |-> FoldedBinding(t)]
    /\ UNCHANGED <<serverVars, provisional, making, follows, disk, hbCrashes>>

(* The backup or the re-key fails: everything is kept for the next pass.   *)
ReconcileDeferred ==
    /\ Confirm
    /\ listing' = ListedIds
    /\ UNCHANGED <<serverVars, provisional, making, storeVars, hbCrashes>>

(* Discovery opens a topic for a listed target that has none.              *)
Adopt(t, p) ==
    /\ making.pc \in {"idle", "bound", "failed"}
    /\ p \in SafePanes /\ TargetOf(p) \in listing
    /\ runs[p] \in named \/ "adoptStandin" \in HbHazards
    /\ bound[t] = NoTarget /\ \A u \in HbTopics : bound[u] # TargetOf(p)
    /\ bound' = [bound EXCEPT ![t] = TargetOf(p)]
    /\ follows' = [follows EXCEPT ![t] = runs[p]]
    /\ UNCHANGED <<serverVars, provisional, making, snap, listing, disk, hbCrashes>>

(* window_presence answers that the target a repair asked about is gone:   *)
(* the topic of the ghost binding is closed.                               *)
Gone(x) == x \notin ListedIds \cup Aliases

CloseHbGhost(t) ==
    /\ Confirm
    /\ bound[t] # NoTarget /\ bound[t] = snap.asked[t] /\ Gone(bound[t])
    /\ bound' = [bound EXCEPT ![t] = NoTarget]
    /\ UNCHANGED <<serverVars, provisional, making, listing, follows, disk, hbCrashes>>

SaveBindings ==
    /\ disk' = bound
    /\ UNCHANGED <<serverVars, provisional, making, snap, listing, bound, follows, hbCrashes>>

(* The bot stops, perhaps after the re-key and before the save.  What was  *)
(* handed to a creation is only in memory.                                 *)
HbRestart ==
    /\ hbCrashes < MaxHbCrashes /\ making.pc \in {"idle", "bound", "failed"}
    /\ "restartBeforeNaming" \in HbHazards
       \/ \A p \in provisional, t \in HbTopics : Standin(p) \notin {bound[t], disk[t]}
    /\ hbCrashes' = hbCrashes + 1
    /\ bound' = disk
    /\ follows' = [t \in HbTopics |-> IF disk[t] # NoTarget /\ disk[t][1] = "id"
                                      THEN disk[t][2] ELSE follows[t]]
    /\ provisional' = {} /\ snap' = NoSnap /\ listing' = {}
    /\ UNCHANGED <<serverVars, making, disk>>

HbNext ==
    \/ \E p \in HbPanes :
         \/ \E r \in HbRuns : StartRun(p, r)
         \/ NameSession(p) \/ StopRun(p)
         \/ \E f \in {"none", "malformed", "doubled"} : Garble(p, f)
         \/ \E t \in HbTopics : Adopt(t, p)
    \/ \E s \in {"picked", "owned"} : BeginTopic(s)
    \/ CreateTab \/ BeginWorktree \/ LaunchAgent \/ FindSession \/ LabelsFound
    \/ TargetFails
    \/ ReadRecords \/ ListingUnknown \/ Reconcile \/ ReconcileDeferred
    \/ \E t \in HbTopics : BindTarget(t) \/ CloseHbGhost(t)
    \/ SaveBindings \/ HbRestart

HbSpec == HbInit /\ [][HbNext]_hbVars

-----------------------------------------------------------------------------
(* The type invariant of the herdr model.                                  *)
HbTypeOK ==
    /\ open \subseteq HbPanes /\ runs \in [HbPanes -> HbRuns \cup {NoRun}]
    /\ named \subseteq HbRuns /\ provisional \subseteq HbPanes
    /\ spaces \subseteq {"picked", "owned"}
    /\ bound \in [HbTopics -> HbTargets \cup {NoTarget}]
    /\ disk \in [HbTopics -> HbTargets \cup {NoTarget}]
    /\ listing \subseteq HbTargets

(* A creation that fails, at whatever step, leaves neither its tab nor the *)
(* workspace it made, and never closes the workspace the user picked.      *)
(* (HerdrManager: methods return False on failure, "callers gate on the    *)
(* result, never on a herdr-specific error type"; "A failed launch ...     *)
(* closes the newly-created tab; it never closes a picker-selected         *)
(* workspace", herdr.py:1512-1521.)                                        *)
FailedCreationLeavesNothing ==
    making.pc = "failed" => NewPane \notin open /\ spaces = {"picked"}

(* A topic bound to a named target follows the conversation it was opened  *)
(* for: no chain of naming, folding, adopting and restarting hands it      *)
(* another one (herdr.py _superseded_target_ids, :812-823).                *)
ConversationKept ==
    \A t \in HbTopics :
        bound[t] # NoTarget /\ bound[t][1] = "id" => bound[t] = Named(follows[t])

(* A topic that a repair closes as a ghost follows a conversation that no  *)
(* pane was running when the listing was read: a quarantined, shared or    *)
(* renamed session is never taken for a dead one.                          *)
ClosedTopicIsDead ==
    [][\A t \in HbTopics : CloseHbGhost(t) => follows[t] \notin snap.alive]_hbVars

(* A target stays what it was made for: the parts above, with the types    *)
(* (herdr.py).                                                             *)
HerdrInv == HbTypeOK /\ FailedCreationLeavesNothing /\ ConversationKept
=============================================================================
