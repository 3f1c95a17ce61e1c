----------------------------- MODULE TmuxWindows -----------------------------
(***************************************************************************)
(* tmux windows and the state the bot keeps about them by window id        *)
(* (tmux.py, window_resolver.py, session.py, window_state_store.py).       *)
(* tmux numbers the windows of one server; when the server restarts, the   *)
(* windows come back under new ids, and the next start of the bot finds    *)
(* them by display name: first the window states, then the topic bindings. *)
(*                                                                         *)
(* Rows of ChatTopics are stored with their chat (chat_thread_bindings),   *)
(* the others per user (thread_bindings).  An agent stands for the         *)
(* conversation that runs in a window.                                     *)
(*                                                                         *)
(* TwHazards lets happen what the code does not exclude:                   *)
(*   "idsReused"  a new server hands out ids that are still recorded       *)
(*   "twins"      a window is given a name at the terminal that another    *)
(*                has, or the bot's check of the name is overtaken         *)
(*   "deadNames"  a window gets the name recorded for another, closed one  *)
(***************************************************************************)
EXTENDS Naturals, FiniteSets, FiniteSetsExt, Functions

CONSTANTS TwTopics, ChatTopics, TwAgents, TwNames, MaxId, MaxServers, MaxRenames,
          TwHazards, NoAgent, NoName

ASSUME TmuxAssumption ==
  /\ ChatTopics \subseteq TwTopics /\ NoAgent \notin TwAgents /\ NoName \notin TwNames
  /\ MaxId \in Nat /\ MaxServers \in Nat /\ MaxRenames \in Nat
  /\ TwHazards \subseteq {"idsReused", "twins", "deadNames"}

Ids == 1..MaxId
NoWindow == [agent |-> NoAgent, name |-> NoName]

VARIABLES
  wins,      \* the windows of the session, by id
  nextId,    \* the id the server hands out next
  server,    \* the tmux server answers
  row,       \* the window id a topic is bound to, 0 for none
  states,    \* window_states: whose conversation an id's row describes
  display,   \* window_display_names
  running,   \* the bot runs
  owner,     \* the conversation a topic was bound to (history)
  creating,  \* create_window between the name check and new_window
  servers, renames    \* counters of the bounds
twTmux == <<wins, nextId, server>>
twState == <<row, states, display>>
twVars == <<twTmux, twState, running, owner, creating, servers, renames>>

NotCreating == [topic |-> {}, agent |-> NoAgent, name |-> NoName]
TmuxLive == {i \in Ids : wins[i] # NoWindow}
Names == {wins[i].name : i \in TmuxLive}

\* Names recorded for ids that no longer have them
Remembered == {display[i] : i \in {j \in Ids : wins[j].name # display[j]}} \ {NoName}
Spare(n) == n \notin Remembered \/ "deadNames" \in TwHazards
Unlike(n) == n \notin Names \cup {creating.name} \/ "twins" \in TwHazards

----------------------------------------------------------------------------
(* tmux and its user *)

NewWindow(a, n) ==
  /\ nextId \in Ids /\ nextId' = nextId + 1
  /\ wins' = [wins EXCEPT ![nextId] = [agent |-> a, name |-> n]]

OpenAtTerminal(a, n) ==
  /\ server /\ a \notin {wins[i].agent : i \in TmuxLive}
  /\ Spare(n) /\ Unlike(n)
  /\ NewWindow(a, n)
  /\ UNCHANGED <<server, twState, running, owner, creating, servers, renames>>

RenameAtTerminal(i, n) ==
  /\ i \in TmuxLive /\ renames < MaxRenames /\ renames' = renames + 1
  /\ Spare(n) /\ Unlike(n)
  /\ wins' = [wins EXCEPT ![i].name = n]
  /\ UNCHANGED <<nextId, server, twState, running, owner, creating, servers>>

CloseWindow(i) ==
  /\ i \in TmuxLive /\ wins' = [wins EXCEPT ![i] = NoWindow]
  /\ UNCHANGED <<nextId, server, twState, running, owner, creating, servers, renames>>

\* The server ends; a new one restores the windows of `kept`, in id order
RestartServer(kept) ==
  /\ server /\ servers < MaxServers /\ servers' = servers + 1
  /\ LET first == IF "idsReused" \in TwHazards THEN 1 ELSE nextId
         last == first + Cardinality(kept) - 1 IN
     /\ last <= MaxId /\ nextId' = last + 1
     /\ \E old \in [first..last -> kept] :
          /\ \A i, j \in first..last : i < j => old[i] < old[j]
          /\ wins' = [i \in Ids |-> IF i \in first..last THEN wins[old[i]] ELSE NoWindow]
  /\ UNCHANGED <<server, twState, running, owner, creating, renames>>

ServerAnswers ==
  /\ server' = ~server /\ renames < MaxRenames /\ renames' = renames + 1
  /\ UNCHANGED <<wins, nextId, twState, running, owner, creating, servers>>

----------------------------------------------------------------------------
(* create_window: a name no listed window has, then the window *)

\* A name with a suffix when a window has the name already
FreeName(n) == IF n \notin Names THEN {n} ELSE TwNames \ Names

CreateWindow(t, a, n) ==
  /\ running /\ server /\ creating = NotCreating /\ row[t] = 0
  /\ a \notin {wins[i].agent : i \in TmuxLive}
  /\ \E m \in FreeName(n) : Spare(m) /\ creating' = [topic |-> {t}, agent |-> a, name |-> m]
  /\ UNCHANGED <<twTmux, twState, running, owner, servers, renames>>

BindNewWindow ==
  /\ creating # NotCreating /\ creating' = NotCreating
  /\ IF server
     THEN LET t == CHOOSE x \in creating.topic : TRUE IN
          /\ creating.agent \notin {wins[i].agent : i \in TmuxLive}
          /\ NewWindow(creating.agent, creating.name)
          /\ row' = [row EXCEPT ![t] = nextId] /\ owner' = [owner EXCEPT ![t] = creating.agent]
          /\ states' = [states EXCEPT ![nextId] = creating.agent]
          /\ display' = [display EXCEPT ![nextId] = creating.name]
     ELSE UNCHANGED <<wins, nextId, row, owner, states, display>>
  /\ UNCHANGED <<server, running, servers, renames>>

CloseTopic(t) ==
  /\ running /\ row[t] # 0
  /\ row' = [row EXCEPT ![t] = 0] /\ owner' = [owner EXCEPT ![t] = NoAgent]
  /\ UNCHANGED <<twTmux, states, display, running, creating, servers, renames>>

SyncedNames(d) == [i \in Ids |-> IF i \in TmuxLive /\ d[i] # NoName THEN wins[i].name ELSE d[i]]

\* A poll cycle synchronises names and forgets windows nothing refers to
PollCycle ==
  LET used == {row[t] : t \in TwTopics}
      kept == [i \in Ids |-> IF i \in used \cup TmuxLive THEN states[i] ELSE NoAgent] IN
  /\ running /\ server /\ creating = NotCreating
  /\ states' = kept
  /\ display' = [i \in Ids |-> IF (i \in TmuxLive \cup used) \/ (kept[i] # NoAgent)
                               THEN SyncedNames(display)[i] ELSE NoName]
  /\ <<states, display>> # <<states', display'>>
  /\ UNCHANGED <<twTmux, row, running, owner, creating, servers, renames>>

----------------------------------------------------------------------------
(* The start of the bot *)

StopBot ==
  /\ running /\ running' = FALSE /\ creating' = NotCreating
  /\ UNCHANGED <<twTmux, twState, owner, servers, renames>>

\* The live window of a name; of several, the last one listed
LiveByName(n) == IF n \in Names THEN Max({i \in TmuxLive : wins[i].name = n}) ELSE 0

\* Where a recorded id is found now; 0 when it is not
ResolvedId(i) == IF i = 0 \/ i \in TmuxLive THEN i ELSE LiveByName(display[i])

\* _resolve_window_states: the last row that moves to an id wins
MovedStates ==
  [j \in Ids |->
     LET from == {i \in Ids : states[i] # NoAgent /\
                     (ResolvedId(i) = j \/ (i = j /\ ResolvedId(i) = 0))} IN
     IF from = {} THEN NoAgent ELSE states[Max(from)]]
MovedNames ==
  [j \in Ids |->
     LET from == {i \in Ids : states[i] # NoAgent /\ i \notin TmuxLive /\ ResolvedId(i) = j} IN
     IF from # {} THEN display[Max(from)]
     ELSE IF states[j] # NoAgent /\ j \notin TmuxLive /\ ResolvedId(j) # 0 THEN NoName
     ELSE display[j]]

MovedRowsLate ==
  [t \in TwTopics |->
     IF row[t] = 0 \/ row[t] \in TmuxLive \/ MovedNames[row[t]] \notin Names THEN row[t]
     ELSE LiveByName(MovedNames[row[t]])]

\* _resolve_thread_bindings reads the names as they were before the move
MovedRows ==
  [t \in TwTopics |-> IF t \in ChatTopics \/ ResolvedId(row[t]) = 0 THEN row[t]
                      ELSE ResolvedId(row[t])]

StartBot ==
  /\ ~running /\ running' = TRUE
  /\ IF server
     THEN row' = MovedRows /\ states' = MovedStates /\ display' = SyncedNames(MovedNames)
     ELSE UNCHANGED twState
  /\ UNCHANGED <<twTmux, owner, creating, servers, renames>>

----------------------------------------------------------------------------
TmuxInit ==
  /\ wins = [i \in Ids |-> NoWindow] /\ nextId = 1 /\ server = TRUE
  /\ row = [t \in TwTopics |-> 0] /\ states = [i \in Ids |-> NoAgent]
  /\ display = [i \in Ids |-> NoName] /\ running = TRUE
  /\ owner = [t \in TwTopics |-> NoAgent] /\ creating = NotCreating
  /\ servers = 0 /\ renames = 0

TmuxNext ==
  \/ \E a \in TwAgents, n \in TwNames :
       OpenAtTerminal(a, n) \/ \E t \in TwTopics : CreateWindow(t, a, n)
  \/ \E i \in Ids : CloseWindow(i) \/ \E n \in TwNames : RenameAtTerminal(i, n)
  \/ \E kept \in SUBSET TmuxLive : RestartServer(kept)
  \/ \E t \in TwTopics : CloseTopic(t)
  \/ ServerAnswers \/ BindNewWindow \/ PollCycle \/ StopBot \/ StartBot

TmuxSpec == TmuxInit /\ [][TmuxNext]_twVars

----------------------------------------------------------------------------
TmuxTypeOK ==
  /\ \A i \in Ids : wins[i] = NoWindow \/ wins[i] \in [agent : TwAgents, name : TwNames]
  /\ nextId \in 1..(MaxId + 1) /\ server \in BOOLEAN /\ running \in BOOLEAN
  /\ row \in [TwTopics -> 0..MaxId] /\ states \in [Ids -> TwAgents \cup {NoAgent}]
  /\ display \in [Ids -> TwNames \cup {NoName}]
  /\ owner \in [TwTopics -> TwAgents \cup {NoAgent}]

(* A topic is never bound to a live window of another conversation than the *)
(* one it was bound to: what its users type cannot reach a stranger's agent *)
(* (create_window's unique names, _resolve_thread_bindings).                *)
TopicKeepsAgent ==
  \A t \in TwTopics : row[t] \in TmuxLive => wins[row[t]].agent = owner[t]

(* The window state of a bound topic moves with its binding: recovery reads *)
(* the provider and the directory of the id the topic is bound to           *)
(* (resolve_stale_ids, window_resolver.py:484-543).                         *)
StateFollowsBinding ==
  \A t \in TwTopics : row[t] # 0 => states[row[t]] = owner[t]

(* No two topics are bound to one tmux window ("1 Telegram topic = 1         *)
(* multiplexer window/tab = 1 provider session", docs/ai-agents/README.md).  *)
OneTopicPerTmuxWindow ==
  \A t, u \in TwTopics : t # u /\ row[t] = row[u] => row[t] = 0

(* A topic, its window and the state of that window stay together: the     *)
(* parts above, with the types (tmux.py, window_resolver.py).              *)
TmuxInv == TmuxTypeOK /\ TopicKeepsAgent /\ StateFollowsBinding /\ OneTopicPerTmuxWindow
=============================================================================
