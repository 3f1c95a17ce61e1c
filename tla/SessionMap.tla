----------------------------- MODULE SessionMap -----------------------------
(* Which agent session speaks for which window.                             *)
(*                                                                          *)
(* The hook processes of the agents write session_map.json and append to    *)
(* events.jsonl (hook.py); the monitor loop of the bot lists the windows,   *)
(* re-reads the map, consumes the events, copies the map into the window    *)
(* states, reconciles it with the map it knew, prunes the entries of dead   *)
(* windows and adopts unbound ones (session_monitor.py, session_map.py,     *)
(* session_lifecycle.py).  Transcript discovery may write an entry too      *)
(* (transcript_discovery.py).  The hooks are processes of their own, so     *)
(* they step between any two steps of the bot.                              *)
EXTENDS Naturals, Sequences, FiniteSets, SequencesExt

CONSTANTS
  Windows,      \* window ids, never reused by the backend
  SmSessions,     \* agent session ids, each with its own transcript
  MaxSteps,     \* steps of the agents, their hooks and the user
  MaxCrashes,   \* restarts of the bot
  SmHazards     \* the known weaknesses a run switches on

SmFlags == {"pruneRace", "endGap", "saveMidDispatch", "resumedElsewhere",
            "slowSeed"}

ASSUME SessionMapAssumption ==
  /\ SmHazards \subseteq SmFlags
  /\ MaxSteps \in Nat
  /\ MaxCrashes \in Nat

VARIABLES
  smFile,      \* session_map.json: the session written for each window
  smState,     \* window_states: session_id of each window's state
  smBound,     \* windows a topic is bound to
  smCreating,  \* windows whose creation is in flight
  smLife,      \* the backend's windows: "new", "live" or "dead"
  smAgent,     \* the session of the agent each window runs
  smHeard,     \* windows whose agent's SessionStart hook has written the map
  smRecent,    \* transcripts, oldest modification first
  smFresh,     \* transcripts modified within the primary-session grace
  smLog,       \* events.jsonl: the SessionEnd events
  smRead,      \* state.events_offset in memory
  smSaved,     \* events_offset on disk
  smPending,   \* events read and not dispatched yet
  smEnded,     \* sessions whose end has been handled for a bound window
  smMon,       \* the monitor cycle: its step, listing and raw map
  smKnown,     \* SessionLifecycle._last_session_map
  smTracked,   \* sessions the transcript reader tracks
  smProbe,     \* a discovery suspended between its check and its write
  smSteps, smCrashes

smWorld == <<smLife, smAgent, smHeard, smRecent, smFresh, smSteps>>
smEvents == <<smLog, smRead, smSaved, smPending, smEnded>>
smBot == <<smState, smBound, smCreating, smMon, smKnown, smTracked, smProbe,
           smCrashes>>
smVars == <<smFile, smWorld, smEvents, smBot>>

-----------------------------------------------------------------------------
NoSession == "none"     \* no entry, no agent
Unset == "unset"        \* a window state whose session_id is ""
Absent == "absent"      \* no window state at all
NoProbe == [kind |-> "none"]

\* A session id is a UUID: none of the values that stand for its absence.
ASSUME SessionsNamed == {NoSession, Unset, Absent} \cap SmSessions = {}

IdleCycle == [pc |-> "idle", ok |-> FALSE, listed |-> {},
         raw |-> [w \in Windows |-> NoSession]]

MapKeys(map) == {w \in Windows : map[w] # NoSession}
MapSessions(map) == {map[w] : w \in MapKeys(map)}
AliveWindows == {w \in Windows : smLife[w] = "live"}
HasTranscript(s) == s \in Range(smRecent)

\* _prefer_existing_primary: the existing transcript is fresh or at least as new.
AtLeastAsNew(old, new) ==
  /\ HasTranscript(old)
  /\ \/ ~HasTranscript(new)
     \/ SelectInSeq(smRecent, LAMBDA s : s = old)
          >= SelectInSeq(smRecent, LAMBDA s : s = new)

\* effective_session_map_info: the session an entry r of window w stands for,
\* when the states are st.
Effective(st, w, r) ==
  IF /\ st[w] \in SmSessions
     /\ r # st[w]
     /\ st[w] \in smFresh \/ AtLeastAsNew(st[w], r)
  THEN st[w] ELSE r

\* parse_session_map: what reconciliation sees of a raw map.
Parsed(st, map) ==
  [w \in Windows |-> IF map[w] = NoSession THEN NoSession ELSE Effective(st, w, map[w])]

\* A session id that some store still relates to another window.
Elsewhere(w, s) ==
  \/ \E v \in Windows \ {w} : s \in {smFile[v], smState[v], smKnown[v], smMon.raw[v]}
  \/ \E i \in DOMAIN smLog : smLog[i].session = s /\ smLog[i].window # w

Attached(s) == \E w \in Windows : smAgent[w] = s

SmInit ==
  /\ smFile = [w \in Windows |-> NoSession]
  /\ smState = [w \in Windows |-> Absent]
  /\ smLife = [w \in Windows |-> "new"]
  /\ smAgent = [w \in Windows |-> NoSession]
  /\ smKnown = [w \in Windows |-> NoSession]
  /\ smBound = {}
  /\ smCreating = {}
  /\ smHeard = {}
  /\ smFresh = {}
  /\ smEnded = {}
  /\ smTracked = {}
  /\ smRecent = <<>>
  /\ smLog = <<>>
  /\ smPending = <<>>
  /\ smRead = 0
  /\ smSaved = 0
  /\ smMon = IdleCycle
  /\ smProbe = NoProbe
  /\ smSteps = 0
  /\ smCrashes = 0

-----------------------------------------------------------------------------
\* The agents, their hooks and the user.

Step == smSteps < MaxSteps /\ smSteps' = smSteps + 1

\* A window appears between two listings, or during a cycle that has listed
\* the windows already ("pruneRace").
MayAppear == smMon.pc = "idle" \/ "pruneRace" \in SmHazards

OpenWindow(w) ==
  /\ smLife[w] = "new" /\ MayAppear
  /\ Step
  /\ smLife' = [smLife EXCEPT ![w] = "live"]
  /\ UNCHANGED <<smFile, smAgent, smHeard, smRecent, smFresh, smEvents, smBot>>

\* The bot creates the window: the state is written before hook or binding.
WindowOpens(w) ==
  /\ smLife[w] = "new" /\ MayAppear
  /\ Step
  /\ smLife' = [smLife EXCEPT ![w] = "live"]
  /\ smCreating' = smCreating \union {w}
  /\ smState' = [smState EXCEPT ![w] = Unset]
  /\ UNCHANGED <<smFile, smAgent, smHeard, smRecent, smFresh, smEvents,
                 smBound, smMon, smKnown, smTracked, smProbe, smCrashes>>

\* A seed's thread writes the map before the agent it found is replaced, but
\* under "slowSeed".
SeedWritten == smProbe.kind # "seed" \/ "slowSeed" \in SmHazards

\* An agent starts; its SessionStart hook runs _update_session_map, unless no
\* hook was installed (hooked = FALSE).
Starts(w, s, hooked) ==
  /\ SeedWritten
  /\ smLife[w] = "live"
  /\ Step
  /\ ~Attached(s)
  /\ "resumedElsewhere" \in SmHazards \/ ~Elsewhere(w, s)
  /\ smAgent' = [smAgent EXCEPT ![w] = s]
  /\ smHeard' = IF hooked THEN smHeard \union {w} ELSE smHeard \ {w}
  /\ smFile' = IF hooked THEN [smFile EXCEPT ![w] = s] ELSE smFile
  /\ smEnded' = smEnded \ {s}
  /\ UNCHANGED <<smLife, smRecent, smFresh, smRead, smSaved, smPending, smBot>>

StartAgent(w, s, hooked) ==
  /\ smAgent[w] = NoSession
  /\ "endGap" \in SmHazards \/ \A i \in DOMAIN smLog : smLog[i].window # w
  /\ Starts(w, s, hooked)
  /\ UNCHANGED smLog

\* SessionEnd and the SessionStart that follows it at once (/clear, /resume);
\* "endGap" lets the bot read the map and the events between the two.
RestartAgent(w, s) ==
  /\ smAgent[w] # NoSession /\ s # smAgent[w]
  /\ smMon.pc \in {"idle", "listed"} \/ "endGap" \in SmHazards
  /\ Starts(w, s, TRUE)
  /\ smLog' = Append(smLog, [window |-> w, session |-> smAgent[w]])

EndAgent(w) ==
  /\ SeedWritten
  /\ smAgent[w] # NoSession
  /\ Step
  /\ smLog' = Append(smLog, [window |-> w, session |-> smAgent[w]])
  /\ smAgent' = [smAgent EXCEPT ![w] = NoSession]
  /\ smHeard' = smHeard \ {w}
  /\ UNCHANGED <<smFile, smLife, smRecent, smFresh, smRead, smSaved,
                 smPending, smEnded, smBot>>

\* Any later hook of session s fired in window w, a nested agent's too where
\* _is_nested_session fails open: _refresh_session_map_if_stale.
FireHook(w, s) ==
  /\ smLife[w] = "live"
  /\ Step
  /\ \/ s = smAgent[w]
     \/ /\ smAgent[w] # NoSession
        /\ ~Attached(s) /\ ~Elsewhere(w, s)
        /\ \A i \in DOMAIN smLog : smLog[i].session # s
  /\ smFile[w] \notin {NoSession, s}
  /\ smFile' = [smFile EXCEPT ![w] = s]
  /\ UNCHANGED <<smLife, smAgent, smHeard, smRecent, smFresh, smEvents, smBot>>

\* The transcript of a session that runs, or that a hook named, grows.
WriteTranscript(s) ==
  /\ Attached(s) \/ s \in MapSessions(smFile)
  /\ Step
  /\ smRecent' = Append(SelectSeq(smRecent, LAMBDA t : t # s), s)
  /\ smFresh' = smFresh \union {s}
  /\ UNCHANGED <<smFile, smLife, smAgent, smHeard, smEvents, smBot>>

GraceLapses ==
  /\ smFresh # {}
  /\ Step
  /\ smFresh' = {}
  /\ UNCHANGED <<smFile, smLife, smAgent, smHeard, smRecent, smEvents, smBot>>

WindowCloses(w) ==
  /\ smLife[w] = "live"
  /\ Step
  /\ smLife' = [smLife EXCEPT ![w] = "dead"]
  /\ smAgent' = [smAgent EXCEPT ![w] = NoSession]
  /\ smHeard' = smHeard \ {w}
  /\ UNCHANGED <<smFile, smRecent, smFresh, smEvents, smBot>>

UnbindWindow(w) ==
  /\ w \in smBound
  /\ Step
  /\ smBound' = smBound \ {w}
  /\ UNCHANGED <<smFile, smLife, smAgent, smHeard, smRecent, smFresh, smEvents, smState, smCreating, smMon, smKnown,
                 smTracked, smProbe, smCrashes>>

-----------------------------------------------------------------------------
\* load_session_map: the states after loading a raw map.

SyncedState(map) ==
  [w \in Windows |-> IF map[w] = NoSession THEN smState[w] ELSE Effective(smState, w, map[w])]

\* Mutant: a window in creation is taken for a stale one.
StaleUnlessBound(map) == Windows \ (MapKeys(map) \union smBound)

\* _remove_stale_window_states
StaleWindows(map) == Windows \ (MapKeys(map) \union smBound \union smCreating)

LoadedState(map) ==
  IF MapKeys(map) = {} THEN smState
  ELSE [w \in Windows |-> IF w \in StaleWindows(map) THEN Absent ELSE SyncedState(map)[w]]

\* wait_for_session_map_entry, then the topic is bound and creation ends.
FinishCreate(w) ==
  /\ w \in smCreating
  /\ smState' = IF smFile[w] = NoSession THEN smState ELSE LoadedState(smFile)
  /\ smBound' = smBound \union {w}
  /\ smCreating' = smCreating \ {w}
  /\ UNCHANGED <<smFile, smWorld, smEvents, smMon, smKnown, smTracked, smProbe, smCrashes>>

ListLive(ok) ==
  /\ smMon.pc = "idle"
  /\ smMon' = [IdleCycle EXCEPT !.pc = "listed", !.ok = ok,
                               !.listed = IF ok THEN AliveWindows ELSE {}]
  /\ UNCHANGED <<smFile, smWorld, smEvents, smState, smBound, smCreating, smKnown,
                 smTracked, smProbe, smCrashes>>

ReadMap ==
  /\ smMon.pc = "listed"
  /\ smMon' = [smMon EXCEPT !.pc = "mapped", !.raw = smFile]
  /\ UNCHANGED <<smFile, smWorld, smEvents, smState, smBound, smCreating, smKnown,
                 smTracked, smProbe, smCrashes>>

\* read_new_events: the offset passes the events before they are dispatched.
TakeEvents ==
  /\ smMon.pc = "mapped"
  /\ smMon' = [smMon EXCEPT !.pc = "events"]
  /\ smPending' = SubSeq(smLog, smRead + 1, Len(smLog))
  /\ smRead' = Len(smLog)
  /\ UNCHANGED <<smFile, smWorld, smLog, smSaved, smEnded, smState, smBound, smCreating,
                 smKnown, smTracked, smProbe, smCrashes>>

\* dispatch_hook_event, _handle_session_end: only a bound window is cleared.
DispatchEnd ==
  /\ smMon.pc = "events" /\ smPending # <<>>
  /\ LET e == Head(smPending) IN
     IF e.window \in smBound
     THEN /\ smState' = [smState EXCEPT ![e.window] = Unset]
          /\ smEnded' = smEnded \union {s \in {e.session} : ~Attached(s)}
     ELSE UNCHANGED <<smState, smEnded>>
  /\ smPending' = Tail(smPending)
  /\ UNCHANGED <<smFile, smWorld, smLog, smRead, smSaved, smBound, smCreating, smMon,
                 smKnown, smTracked, smProbe, smCrashes>>

\* SessionLifecycle.reconcile: sessions whose window changed or went.
Removed(map) == {smKnown[w] : w \in {v \in MapKeys(smKnown) : map[v] # smKnown[v]}}

\* load_session_map, parse_session_map and reconcile run without a suspension.
LoadAndReconcile ==
  /\ smMon.pc = "events" /\ smPending = <<>>
  /\ smMon' = [smMon EXCEPT !.pc = "loaded"]
  /\ smState' = LoadedState(smMon.raw)
  /\ smKnown' = Parsed(smState', smMon.raw)
  /\ smTracked' = smTracked \ Removed(smKnown')
  /\ smSaved' = IF Removed(smKnown') = {} THEN smSaved ELSE smRead
  /\ UNCHANGED <<smFile, smWorld, smLog, smRead, smPending, smEnded, smBound, smCreating,
                 smProbe, smCrashes>>

\* Mutant: entries of windows without a topic count as dead.
UnboundEntries == MapKeys(smFile) \ (smMon.listed \intersect smBound)

\* _dead_session_map_entries: the file as it is now, the listing as it was.
DeadEntries == MapKeys(smFile) \ smMon.listed

PruneMap ==
  /\ smMon.pc = "loaded"
  /\ smMon' = [smMon EXCEPT !.pc = "pruned"]
  /\ IF smMon.ok
     THEN /\ smFile' = [w \in Windows |-> IF w \in DeadEntries THEN NoSession ELSE smFile[w]]
          /\ smState' = [w \in Windows |-> IF w \in DeadEntries \ smBound THEN Absent
                                           ELSE smState[w]]
     ELSE UNCHANGED <<smFile, smState>>
  /\ UNCHANGED <<smWorld, smEvents, smBound, smCreating, smKnown, smTracked, smProbe,
                 smCrashes>>

\* NewWindowEvent of the three discovery paths: the callback binds a topic.
AdoptWindow(w) ==
  /\ smMon.pc \in {"loaded", "pruned"} /\ smMon.ok
  /\ w \in smMon.listed
  /\ w \notin smBound \union smCreating
  /\ smBound' = smBound \union {w}
  /\ UNCHANGED <<smFile, smWorld, smEvents, smState, smCreating, smMon, smKnown,
                 smTracked, smProbe, smCrashes>>

\* check_for_updates reads the sessions of the monitored windows, then the
\* state is saved, the event offset with it.
CheckUpdates ==
  /\ smMon.pc = "pruned"
  /\ smMon' = IdleCycle
  /\ smTracked' = smTracked \union
       {smKnown[w] : w \in {v \in MapKeys(smKnown) : smMon.ok => v \in smMon.listed}}
  /\ smSaved' = smRead
  /\ UNCHANGED <<smFile, smWorld, smLog, smRead, smPending, smEnded, smState, smBound,
                 smCreating, smKnown, smProbe, smCrashes>>

\* A callback of the bot saves the monitor state while events are dispatched
\* (request_backlog_skip, mark_delivered_to_eof).
SaveMidCycle ==
  /\ smMon.pc = "events"
  /\ "saveMidDispatch" \in SmHazards \/ smPending = <<>>
  /\ smSaved # smRead
  /\ smSaved' = smRead
  /\ UNCHANGED <<smFile, smWorld, smLog, smRead, smPending, smEnded, smBot>>

\* The bot dies; the next one reloads its state and cleans up stale sessions.
RestartBot ==
  /\ smCrashes < MaxCrashes
  /\ smCrashes' = smCrashes + 1
  /\ smMon' = IdleCycle
  /\ smProbe' = NoProbe
  /\ smCreating' = {}
  /\ smPending' = <<>>
  /\ smRead' = smSaved
  /\ smKnown' = Parsed(smState, smFile)
  /\ smTracked' = smTracked \intersect MapSessions(smKnown')
  /\ UNCHANGED <<smFile, smWorld, smLog, smSaved, smEnded, smState, smBound>>

-----------------------------------------------------------------------------
\* Transcript discovery, run by the status poller.

\* _bootstrap_identity: a live bound window without a state.  The pane is
\* probed between the check of the map and its re-check.
BeginBootstrap(w) ==
  /\ smProbe = NoProbe
  /\ w \in smBound /\ smLife[w] = "live" /\ smState[w] = Absent
  /\ smFile[w] = NoSession
  /\ smProbe' = [kind |-> "bootstrap", window |-> w]
  /\ UNCHANGED <<smFile, smWorld, smEvents, smState, smBound, smCreating, smMon, smKnown,
                 smTracked, smCrashes>>

EndBootstrap ==
  /\ smProbe.kind = "bootstrap"
  /\ LET w == smProbe.window IN
     IF smAgent[w] # NoSession /\ smFile[w] = NoSession
     THEN smState' = [smState EXCEPT ![w] = Unset]
     ELSE UNCHANGED smState
  /\ smProbe' = NoProbe
  /\ UNCHANGED <<smFile, smWorld, smEvents, smBound, smCreating, smMon, smKnown, smTracked,
                 smCrashes>>

\* seed_session_from_native_id: the state first, the file from a thread.
SeedSession(w) ==
  /\ smProbe = NoProbe
  /\ w \in smBound /\ smLife[w] = "live" /\ smState[w] # Absent
  /\ smAgent[w] \notin {NoSession, smState[w]}
  /\ HasTranscript(smAgent[w])
  /\ \A v \in Windows \ {w} : smState[v] # smAgent[w]
  /\ smState' = [smState EXCEPT ![w] = smAgent[w]]
  /\ smProbe' = [kind |-> "seed", window |-> w, session |-> smAgent[w]]
  /\ UNCHANGED <<smFile, smWorld, smEvents, smBound, smCreating, smMon, smKnown, smTracked,
                 smCrashes>>

WriteSeed ==
  /\ smProbe.kind = "seed"
  /\ smFile' = [smFile EXCEPT ![smProbe.window] = smProbe.session]
  /\ smProbe' = NoProbe
  /\ UNCHANGED <<smWorld, smEvents, smState, smBound, smCreating, smMon, smKnown, smTracked,
                 smCrashes>>

SmNext ==
  \/ \E w \in Windows :
       \/ OpenWindow(w) \/ WindowOpens(w) \/ WindowCloses(w)
       \/ FinishCreate(w) \/ UnbindWindow(w) \/ AdoptWindow(w)
       \/ EndAgent(w) \/ BeginBootstrap(w) \/ SeedSession(w)
       \/ \E s \in SmSessions : RestartAgent(w, s) \/ FireHook(w, s)
       \/ \E s \in SmSessions, hooked \in BOOLEAN : StartAgent(w, s, hooked)
  \/ \E s \in SmSessions : WriteTranscript(s)
  \/ \E ok \in BOOLEAN : ListLive(ok)
  \/ GraceLapses \/ ReadMap \/ TakeEvents \/ DispatchEnd \/ LoadAndReconcile
  \/ PruneMap \/ CheckUpdates \/ SaveMidCycle \/ RestartBot
  \/ EndBootstrap \/ WriteSeed

SmSpec == SmInit /\ [][SmNext]_smVars

-----------------------------------------------------------------------------
(* Every store keeps values of its type. *)
SessionMapTypeOK ==
  /\ smFile \in [Windows -> SmSessions \union {NoSession}]
  /\ smState \in [Windows -> SmSessions \union {Unset, Absent}]
  /\ smKnown \in [Windows -> SmSessions \union {NoSession}]
  /\ smAgent \in [Windows -> SmSessions \union {NoSession}]
  /\ smLife \in [Windows -> {"new", "live", "dead"}]
  /\ smBound \union smCreating \union smHeard \union smMon.listed \subseteq Windows
  /\ smTracked \union smFresh \union smEnded \subseteq SmSessions
  /\ smSaved <= smRead /\ smRead <= Len(smLog)
  /\ smMon.pc \in {"idle", "listed", "mapped", "events", "loaded", "pruned"}

(* The entry a SessionStart hook wrote for a window stays in the map while   *)
(* that agent runs: no prune, bootstrap or seed of the bot loses it.         *)
HookEntrySurvives == \A w \in smHeard : smFile[w] # NoSession

(* The state of a window a topic is bound to (the recovery banner reads its  *)
(* directory from it, #176), or that lives and is being created, is kept.    *)
Wanted == smBound \union (smCreating \intersect AliveWindows)
BoundStateKept ==
  [][\A w \in Wanted \intersect Wanted' :
       smState[w] # Absent => smState'[w] # Absent]_smVars

(* An event the saved offset has passed has been dispatched: a crash repeats *)
(* events and loses none.                                                    *)
EventsNotLost == smSaved + Len(smPending) <= smRead

(* A session whose end was handled never keeps a window against the running  *)
(* one that the map already names for it.                                    *)
EndedSessionYields ==
  smMon.pc = "loaded" =>
    \A w \in smBound :
      smState[w] \in smEnded => smAgent[w] = NoSession \/ smMon.raw[w] # smAgent[w]

(* What the hook process writes, the entry of a window and the event of an *)
(* end, is not lost by the bot, and an ended session gives way: the parts  *)
(* above, with the types (session_map.py, event_reader.py).                *)
SessionMapInv == SessionMapTypeOK /\ HookEntrySurvives /\ EventsNotLost /\ EndedSessionYields
=============================================================================
