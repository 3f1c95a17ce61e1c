---------------------------- MODULE WindowPolling ----------------------------
(***************************************************************************)
(* The status poll: each cycle lists the multiplexer's windows, runs the   *)
(* periodic tasks, ticks every bound window against that listing and then  *)
(* retires the topics whose timers ran out (polling_coordinator.py,        *)
(* window_tick, polling_state.py).  The event stream pushes the backend's  *)
(* own status and the end of a window (event_stream_monitor.py) and        *)
(* handles a dead window concurrently with the poll.                       *)
(*                                                                         *)
(* PwHazards lets happen what the code does not exclude:                   *)
(*   "staleCycle"     a topic is bound to, or its user writes to, a window *)
(*                    that began or was taken up again after the cycle's   *)
(*                    listing, or a topic leaves the window that the cycle *)
(*                    is still to tick it with, or is reading              *)
(*   "timedBind"      a topic is bound while the done timer of its last    *)
(*                    window still runs                                    *)
(*   "unreadTick"     a tick reads no status (the user's queue is busy, or *)
(*                    the capture is empty) while a done timer runs        *)
(*   "shellRestart"   the bot restarts over a window at a shell prompt     *)
(*   "stalePush"      a tick reads a pushed status that the window has     *)
(*                    left: the event is late, or the stream ended         *)
(***************************************************************************)
EXTENDS Naturals, Sequences, FiniteSets

CONSTANTS
  PwWindows, PwTopics,
  HookWindows,       \* windows whose provider has hooks
  AgentWindows,      \* windows whose origin is an agent, not a shell
  MadeWindows,       \* windows the bot created
  NativeModes,       \* \subseteq {"off", "gap", "authority"}
  MaxPaneMoves,      \* bound on what agents, users and the bot's host do
  MaxPushes,         \* bound on undelivered stream events
  PwHazards, NoPane

ASSUME PollingAssumption ==
  /\ HookWindows \subseteq PwWindows /\ AgentWindows \subseteq PwWindows
  /\ MadeWindows \subseteq AgentWindows /\ NoPane \notin PwWindows
  /\ NativeModes \subseteq {"off", "gap", "authority"}
  /\ MaxPaneMoves \in Nat /\ MaxPushes \in Nat
  /\ PwHazards \subseteq {"staleCycle", "unreadTick", "shellRestart", "stalePush",
                   "timedBind"}

VARIABLES
  pane,        \* what runs in a window: "unborn", "busy", "quiet",
               \* "prompt" (it asks), "shell" or "gone"
  recent,      \* windows whose transcript grew in the last seconds
  shows,       \* the window a topic shows
  listed,      \* the cycle's listing, with each window's command
  poll,        \* the poll loop: its stage, the bindings it has left and
               \* the tick it is in
  push,        \* the stream's dead-window call
  stream, linked,      \* pushed events in flight; the subscription is live
  cache, native,       \* agent_status_cache; the configured mode
  ps,          \* WindowPollState: seen, startup, settled, announced
  notified,    \* _dead_notified
  auto, due,   \* autoclose timers, and the topics whose time has passed
  asks,        \* _interactive_mode: the window whose prompt a topic shows
  bubble,      \* the last status asked for
  ends, banners,       \* how often a shown window ended and was called dead
  steady, worked,      \* busy for the whole cycle; ran since Ready
  paneMoves
pwPush == <<push, stream, linked, cache>>
pwTimers == <<auto, due>>
pwSeen == <<ends, banners, steady, worked>>
pwVars == <<pane, recent, shows, listed, poll, pwPush, native, ps, notified,
            pwTimers, asks, bubble, pwSeen, paneMoves>>

Fresh == [seen |-> FALSE, startup |-> "none", settled |-> FALSE,
          announced |-> FALSE]
Resting == [stage |-> "idle", todo |-> {}, t |-> NoPane, w |-> NoPane,
            saw |-> "none"]
NoCall == [stage |-> "idle", t |-> NoPane, w |-> NoPane]
Allowed(h, condition) == condition \/ h \in PwHazards
PaneMove == paneMoves < MaxPaneMoves /\ paneMoves' = paneMoves + 1
Alive(w) == pane[w] \notin {"unborn", "gone"}
Bindings == {<<t, shows[t]>> : t \in {s \in PwTopics : shows[s] # NoPane}}
(* agent_origin_returned_to_shell *)
Exited(w, command) == w \in AgentWindows /\ command = "shell"

PollingInit ==
  /\ pane = [w \in PwWindows |-> "unborn"]
  /\ recent = {} /\ shows = [t \in PwTopics |-> NoPane]
  /\ listed = pane /\ poll = Resting /\ push = NoCall
  /\ stream = <<>> /\ linked = FALSE
  /\ cache = [w \in PwWindows |-> "cold"] /\ native \in NativeModes
  /\ ps = [w \in PwWindows |-> Fresh] /\ notified = {}
  /\ auto = [t \in PwTopics |-> "none"] /\ due = {}
  /\ asks = [t \in PwTopics |-> NoPane]
  /\ bubble = [t \in PwTopics |-> "none"]
  /\ ends = [w \in PwWindows |-> 0] /\ banners = [w \in PwWindows |-> 0]
  /\ steady = {} /\ worked = {} /\ paneMoves = 0

(***************************************************************************)
(* The agents and the event stream.                                        *)
(***************************************************************************)
State(p) == IF p = "busy" THEN "working" ELSE IF p = "prompt" THEN "blocked"
            ELSE "idle"
Pushed(w, p) == IF p = "gone" THEN <<w, "died">> ELSE <<w, State(p)>>
Streams(w, p) ==
  IF linked /\ native # "off" /\ \E t \in PwTopics : shows[t] = w
  THEN /\ Len(stream) < MaxPushes
       /\ stream' = Append(stream, Pushed(w, p))
  ELSE UNCHANGED stream
Turns(w, p) ==
  /\ pane' = [pane EXCEPT ![w] = p] /\ Streams(w, p)
  /\ steady' = IF p = "busy" THEN steady ELSE steady \ {w}
  /\ ends' = IF /\ \E t \in PwTopics : shows[t] = w
                /\ ~Exited(w, pane[w]) /\ (p = "gone" \/ Exited(w, p))
             THEN [ends EXCEPT ![w] = @ + 1] ELSE ends

AgentMoves(w, p) ==
  /\ PaneMove /\ Alive(w) /\ p \in {"busy", "quiet", "prompt", "shell", "gone"}
  /\ p # pane[w] /\ Turns(w, p)
  /\ recent' = IF p = "busy" THEN recent \cup {w} ELSE recent
  /\ worked' = worked \cup {w}
  /\ UNCHANGED <<shows, listed, poll, push, linked, cache, native, ps,
                 notified, pwTimers, asks, bubble, banners>>
(* ACTIVITY_THRESHOLD passes without a new line *)
ActivityAges(w) ==
  /\ w \in recent /\ pane[w] # "busy" /\ recent' = recent \ {w}
  /\ UNCHANGED <<pane, shows, listed, poll, pwPush, native, ps, notified,
                 pwTimers, asks, bubble, pwSeen, paneMoves>>

(* watch_events subscribes over the bound set and then reprimes, as one    *)
(* event after another; an EOF leaves the cache as it is                   *)
Subscribe ==
  /\ ~linked /\ native # "off" /\ push.stage = "idle"
  /\ linked' = TRUE
  /\ \E w \in PwWindows :
        /\ \E t \in PwTopics : shows[t] = w
        /\ Alive(w) /\ stream' = <<Pushed(w, pane[w])>>
  /\ UNCHANGED <<pane, recent, shows, listed, poll, push, cache, native, ps,
                 notified, pwTimers, asks, bubble, pwSeen, paneMoves>>
StreamEnds ==
  /\ PaneMove /\ linked /\ push.stage = "idle"
  /\ linked' = FALSE /\ stream' = <<>>
  /\ UNCHANGED <<pane, recent, shows, listed, poll, push, cache, native, ps,
                 notified, pwTimers, asks, bubble, pwSeen>>

(* [mutant] the dead mark is set when the banner is sent *)
MarkDeadLate(t, w) == UNCHANGED notified /\ <<t, w>> \notin notified
(* _handle_dead_window_notification marks before it first waits *)
MarkDead(t, w) == notified' = notified \cup {<<t, w>>}
CallDead(t, w) ==
  /\ MarkDead(t, w) /\ cache' = [cache EXCEPT ![w] = "cold"]
  /\ ps' = [ps EXCEPT ![w] = Fresh]
(* After the emoji is edited, the timer; after the banner is sent, perhaps *)
(* the discovery that the topic is gone                                    *)
StartTimer(t, state) ==
  /\ auto' = [auto EXCEPT ![t] = state]
  /\ due' = IF auto[t] = state THEN due ELSE due \ {t}
ClearTimer(t) ==
  auto' = [auto EXCEPT ![t] = "none"] /\ due' = due \ {t}
Leaves(t) ==
  Allowed("staleCycle",
    /\ <<t, shows[t]>> \notin poll.todo
    /\ ~(poll.stage \in {"read", "decide", "painted"} /\ poll.t = t))
Forget(t) ==          \* clear_topic_state
  /\ notified' = {n \in notified : n[1] # t} /\ ClearTimer(t)
  /\ asks' = [asks EXCEPT ![t] = NoPane]
  /\ shows' = [shows EXCEPT ![t] = NoPane]
Banner(t, w) ==
  /\ banners' = [banners EXCEPT ![w] = @ + 1]
  /\ notified' = notified \cup {<<t, w>>}
  /\ UNCHANGED <<pwTimers, asks, shows, ps>>
TopicDeleted(t, w) ==
  /\ Leaves(t) /\ Forget(t) /\ ps' = [ps EXCEPT ![w] = Fresh] /\ UNCHANGED banners

Receive ==
  /\ stream # <<>> /\ push.stage = "idle" /\ stream' = Tail(stream)
  /\ LET w == Head(stream)[1]
         s == Head(stream)[2]
         T == {t \in PwTopics : shows[t] = w /\ <<t, w>> \notin notified}
     IN IF s # "died"
        THEN cache' = [cache EXCEPT ![w] = s] /\ UNCHANGED <<push, ps, notified>>
        ELSE IF T = {}
        THEN cache' = [cache EXCEPT ![w] = "cold"] /\ UNCHANGED <<push, ps, notified>>
        ELSE \E t \in T :
               /\ push' = [stage |-> "marked", t |-> t, w |-> w]
               /\ CallDead(t, w)
  /\ UNCHANGED <<pane, recent, shows, listed, poll, linked, native, pwTimers,
                 asks, bubble, pwSeen, paneMoves>>
PushTimer ==
  /\ push.stage = "marked" /\ push' = [push EXCEPT !.stage = "timed"]
  /\ StartTimer(push.t, "dead")
  /\ UNCHANGED <<pane, recent, shows, listed, poll, stream, linked, cache,
                 native, ps, notified, asks, bubble, pwSeen, paneMoves>>
PushBanner ==
  /\ push.stage = "timed" /\ push' = NoCall
  /\ Banner(push.t, push.w) \/ TopicDeleted(push.t, push.w)
  /\ UNCHANGED <<pane, recent, listed, poll, stream, linked, cache, native,
                 bubble, ends, steady, worked, paneMoves>>

(*************************************************************************)
(* The poll cycle.                                                       *)
(*************************************************************************)
(* An unanswered listing skips the cycle, which is no step               *)
ListWindows ==
  /\ poll.stage = "idle" /\ listed' = pane
  /\ poll' = [poll EXCEPT !.stage = "periodic"]
  /\ steady' = {w \in PwWindows : pane[w] = "busy"}
  /\ UNCHANGED <<pane, recent, shows, pwPush, native, ps, notified, pwTimers,
                 asks, bubble, ends, banners, worked, paneMoves>>
(* The periodic tasks are done: the bindings of this moment are ticked *)
BeginTicks ==
  /\ poll.stage = "periodic"
  /\ poll' = [poll EXCEPT !.stage = "next", !.todo = Bindings]
  /\ UNCHANGED <<pane, recent, shows, listed, pwPush, native, ps, notified,
                 pwTimers, asks, bubble, pwSeen, paneMoves>>

Goes(stage) == poll' = [poll EXCEPT !.stage = stage]
NextBinding == poll' = [Resting EXCEPT !.stage = "next", !.todo = poll.todo]

(* Absent from the listing, or left by its agent *)
Condemned(w) == listed[w] \in {"unborn", "gone"} \/ Exited(w, listed[w])
(* tick_window up to its first wait *)
Tick(t, w) ==
  /\ poll.stage = "next" /\ <<t, w>> \in poll.todo
  /\ LET rest == poll.todo \ {<<t, w>>}
     IN IF <<t, w>> \in notified
        THEN /\ poll' = [poll EXCEPT !.todo = rest]
             /\ UNCHANGED <<notified, cache, ps>>
        ELSE IF Condemned(w)
        THEN /\ poll' = [stage |-> "marked", todo |-> rest, t |-> t, w |-> w,
                         saw |-> "none"]
             /\ CallDead(t, w)
        ELSE /\ poll' = [stage |-> "read", todo |-> rest, t |-> t, w |-> w,
                         saw |-> "none"]
             /\ UNCHANGED <<notified, cache, ps>>
  /\ UNCHANGED <<pane, recent, shows, listed, push, stream, linked, native,
                 pwTimers, asks, bubble, pwSeen, paneMoves>>
PollTimer ==
  /\ poll.stage = "marked" /\ Goes("timed") /\ StartTimer(poll.t, "dead")
  /\ UNCHANGED <<pane, recent, shows, listed, pwPush, native, ps, notified,
                 asks, bubble, pwSeen, paneMoves>>
(* A window the bot made is killed once its agent has left it *)
PollBanner ==
  /\ poll.stage = "timed" /\ NextBinding
  /\ Banner(poll.t, poll.w) \/ TopicDeleted(poll.t, poll.w)
  /\ IF poll.w \in MadeWindows /\ Exited(poll.w, listed[poll.w])
     THEN /\ pane' = [pane EXCEPT ![poll.w] = "gone"]
          /\ Streams(poll.w, "gone")
     ELSE UNCHANGED <<pane, stream>>
  /\ UNCHANGED <<recent, listed, push, linked, cache, native, bubble, ends,
                 steady, worked, paneMoves>>

(* The status a capture resolves to: what is on the screen, and the        *)
(* backend's own status for what it does not show, or above it             *)
Scraped(w) == IF pane[w] \in {"busy", "prompt"} THEN pane[w] ELSE "none"
Reported(w) == IF cache[w] # "cold" THEN cache[w] ELSE State(pane[w])
Busy(w) == IF Reported(w) \in {"working", "blocked"} THEN "busy" ELSE "none"
Resolved(w) ==
  CASE native = "off" -> Scraped(w)
    [] native = "gap" -> IF Scraped(w) # "none" THEN Scraped(w) ELSE Busy(w)
    [] OTHER -> IF Reported(w) = "idle"
                THEN IF Scraped(w) = "prompt" THEN "prompt" ELSE "none"
                ELSE IF Scraped(w) # "none" THEN Scraped(w) ELSE Busy(w)

(* The user's queue is busy: only a new prompt is looked for *)
ReadPromptOnly ==
  /\ poll.stage = "read" /\ NextBinding
  /\ Allowed("unreadTick", auto[poll.t] = "none")
  /\ asks' = IF Alive(poll.w) /\ Resolved(poll.w) = "prompt"
             THEN [asks EXCEPT ![poll.t] = poll.w] ELSE asks
  /\ UNCHANGED <<pane, recent, shows, listed, pwPush, native, ps, notified,
                 pwTimers, bubble, pwSeen, paneMoves>>
(* An empty capture ends the tick *)
ReadNothing ==
  /\ poll.stage = "read" /\ NextBinding
  /\ Allowed("unreadTick", auto[poll.t] = "none" \/ ~Alive(poll.w))
  /\ UNCHANGED <<pane, recent, shows, listed, pwPush, native, ps, notified,
                 pwTimers, asks, bubble, pwSeen, paneMoves>>
ReadStatus ==
  /\ poll.stage = "read" /\ Alive(poll.w)
  /\ Allowed("stalePush", cache[poll.w] \in {"cold", State(pane[poll.w])})
  /\ poll' = [poll EXCEPT !.stage = "decide", !.saw = Resolved(poll.w)]
  /\ UNCHANGED <<pane, recent, shows, listed, pwPush, native, ps, notified,
                 pwTimers, asks, bubble, pwSeen, paneMoves>>

MarkSeen(s) == [seen |-> TRUE, startup |-> "none", settled |-> FALSE,
                announced |-> FALSE]
(* [mutant] a level idle at the prompt announces itself again *)
DecideEveryPrompt(w, saw, s) ==
  IF saw = "busy" THEN "working"
  ELSE IF w \in recent THEN "active"
  ELSE IF listed[w] = "shell"
       THEN IF w \in HookWindows THEN "done" ELSE IF s.seen THEN "ready" ELSE "idle"
  ELSE IF s.seen \/ s.settled \/ s.startup = "expired" THEN "idle" ELSE "starting"
(* decide_tick *)
Decide(w, saw, s) ==
  IF saw = "busy" THEN "working"
  ELSE IF w \in recent THEN "active"
  ELSE IF listed[w] = "shell"
       THEN IF w \in HookWindows THEN "done"
            ELSE IF s.seen /\ ~s.announced THEN "ready" ELSE "idle"
  ELSE IF s.seen \/ s.settled \/ s.startup = "expired" THEN "idle" ELSE "starting"
(* What the transition records before it waits *)
Recorded(w, decision, s) ==
  CASE decision = "ready" -> [MarkSeen(s) EXCEPT !.announced = TRUE]
    [] decision = "idle" -> [s EXCEPT !.startup = "none", !.settled = TRUE]
    [] decision \in {"working", "active", "done"} -> MarkSeen(s)
    [] OTHER -> IF s.startup = "none" THEN [s EXCEPT !.startup = "running"]
                ELSE s

(* _update_status: prompts first, then the decision on the flags as they   *)
(* are now                                                                 *)
ShowPrompt ==
  /\ poll.stage = "decide" /\ poll.saw = "prompt" /\ NextBinding
  /\ asks' = [asks EXCEPT ![poll.t] = poll.w]
  /\ UNCHANGED <<pane, recent, shows, listed, pwPush, native, ps, notified,
                 pwTimers, bubble, pwSeen, paneMoves>>
Transition ==
  /\ poll.stage = "decide" /\ poll.saw # "prompt"
  /\ LET w == poll.w
         d == Decide(w, poll.saw, ps[w])
     IN /\ ps' = [ps EXCEPT ![w] = Recorded(w, d, @)]
        /\ poll' = [poll EXCEPT !.stage = "painted", !.saw = d]
        /\ bubble' = IF d = "working"
                     THEN [bubble EXCEPT ![poll.t] = "working"] ELSE bubble
        /\ worked' = IF d = "ready" THEN worked \ {w} ELSE worked
  /\ asks' = [asks EXCEPT ![poll.t] = NoPane]
  /\ UNCHANGED <<pane, recent, shows, listed, pwPush, native, notified,
                 pwTimers, ends, banners, steady, paneMoves>>
(* [mutant] working keeps the timer that done started *)
PaintedKeepsTimer ==
  /\ poll.stage = "painted" /\ NextBinding
  /\ CASE poll.saw = "done" -> StartTimer(poll.t, "done")
       [] poll.saw = "idle" -> ClearTimer(poll.t)
       [] OTHER -> UNCHANGED pwTimers
  /\ UNCHANGED bubble
  /\ UNCHANGED <<pane, recent, shows, listed, pwPush, native, ps, notified,
                 asks, pwSeen, paneMoves>>
(* After the emoji: the timer and the bubble *)
Painted ==
  /\ poll.stage = "painted" /\ NextBinding
  /\ IF poll.saw = "done" THEN StartTimer(poll.t, "done") ELSE ClearTimer(poll.t)
  /\ bubble' = [bubble EXCEPT ![poll.t] =
                  CASE poll.saw = "done" -> "none"
                    [] poll.saw = "ready" -> "ready" [] OTHER -> @]
  /\ UNCHANGED <<pane, recent, shows, listed, pwPush, native, ps, notified,
                 asks, pwSeen, paneMoves>>

EndTicks ==
  /\ poll.stage = "next" /\ poll.todo = {} /\ poll' = [Resting EXCEPT !.stage = "expiry"]
  /\ UNCHANGED <<pane, recent, shows, listed, pwPush, native, ps, notified,
                 pwTimers, asks, bubble, pwSeen, paneMoves>>
(* check_autoclose_timers: a dead timer of a window that is present is     *)
(* dropped, an unanswered presence or a refused close keeps the timer      *)
CloseExpired(t) ==
  /\ poll.stage = "expiry" /\ t \in due /\ UNCHANGED poll
  /\ IF auto[t] = "dead" /\ shows[t] # NoPane /\ Alive(shows[t])
     THEN ClearTimer(t) /\ UNCHANGED <<notified, asks, shows, ps>>
     ELSE /\ Forget(t)
          /\ ps' = IF shows[t] = NoPane THEN ps ELSE [ps EXCEPT ![shows[t]] = Fresh]
  /\ UNCHANGED <<pane, recent, listed, pwPush, native, bubble, pwSeen, paneMoves>>
EndCycle ==
  /\ poll.stage = "expiry" /\ poll' = Resting
  /\ UNCHANGED <<pane, recent, shows, listed, pwPush, native, ps, notified,
                 pwTimers, asks, bubble, pwSeen, paneMoves>>
(* The minutes of a timer, and the seconds of a startup's grace, pass *)
TimerRunsOut(t) ==
  /\ auto[t] # "none" /\ t \notin due /\ due' = due \cup {t}
  /\ UNCHANGED <<pane, recent, shows, listed, poll, pwPush, native, ps,
                 notified, auto, asks, bubble, pwSeen, paneMoves>>
StartupExpires(w) ==
  /\ ps[w].startup = "running" /\ ps' = [ps EXCEPT ![w].startup = "expired"]
  /\ UNCHANGED <<pane, recent, shows, listed, poll, pwPush, native, notified,
                 pwTimers, asks, bubble, pwSeen, paneMoves>>

(***************************************************************************)
(* The users and the host.                                                 *)
(***************************************************************************)
Stale(w) == poll.stage \notin {"idle", "expiry"} /\ Condemned(w)
(* A topic is bound to a live window: one just created, or one picked      *)
BindTopic(t, w) ==
  /\ PaneMove /\ shows[t] = NoPane /\ \A s \in PwTopics : shows[s] # w
  /\ pane[w] \notin {"gone", "shell"}
  /\ Allowed("staleCycle", ~Stale(w)) /\ Allowed("timedBind", auto[t] # "done")
  /\ pane' = IF pane[w] = "unborn" THEN [pane EXCEPT ![w] = "quiet"] ELSE pane
  /\ shows' = [shows EXCEPT ![t] = w]
  /\ UNCHANGED <<recent, listed, poll, pwPush, native, ps, notified, pwTimers,
                 asks, bubble, pwSeen>>
(* The recovery banner: the dead window's topic is unbound and its mark    *)
(* cleared before a new window is bound                                    *)
Recover(t) ==
  /\ PaneMove /\ shows[t] # NoPane /\ Leaves(t)
  /\ pane[shows[t]] = "gone" \/ Exited(shows[t], pane[shows[t]])
  /\ shows' = [shows EXCEPT ![t] = NoPane]
  /\ notified' = {n \in notified : n[1] # t}
  /\ UNCHANGED <<pane, recent, listed, poll, pwPush, native, ps, pwTimers,
                 asks, bubble, pwSeen>>
(* A message to a window confirmed present and running its agent *)
TextArrives(t) ==
  /\ PaneMove /\ shows[t] # NoPane
  /\ Alive(shows[t]) /\ pane[shows[t]] # "shell"
  /\ Allowed("staleCycle", ~Stale(shows[t]))
  /\ notified' = {n \in notified : n[1] # t} /\ ClearTimer(t)
  /\ UNCHANGED <<pane, recent, shows, listed, poll, pwPush, native, ps, asks,
                 bubble, pwSeen>>
UnbindTopic(t) ==
  /\ PaneMove /\ shows[t] # NoPane /\ Leaves(t) /\ Forget(t)
  /\ ps' = [ps EXCEPT ![shows[t]] = Fresh]
  /\ UNCHANGED <<pane, recent, listed, poll, pwPush, native, bubble, pwSeen>>
(* /clear and SessionEnd: reset_window_polling_state *)
ResetPolling(w) ==
  /\ PaneMove /\ ps[w] # Fresh /\ ps' = [ps EXCEPT ![w] = Fresh]
  /\ UNCHANGED <<pane, recent, shows, listed, poll, pwPush, native, notified,
                 pwTimers, asks, bubble, pwSeen>>
(* Memory is lost; _settle_preexisting_windows marks what is bound as seen *)
RestartPolling ==
  /\ PaneMove
  /\ Allowed("shellRestart",
       \A b \in Bindings : pane[b[2]] # "shell")
  /\ poll' = Resting /\ push' = NoCall /\ stream' = <<>> /\ linked' = FALSE
  /\ cache' = [w \in PwWindows |-> "cold"] /\ notified' = {}
  /\ ps' = [w \in PwWindows |->
              IF \E t \in PwTopics : shows[t] = w THEN MarkSeen(Fresh) ELSE Fresh]
  /\ auto' = [t \in PwTopics |-> "none"] /\ due' = {}
  /\ asks' = [t \in PwTopics |-> NoPane]
  /\ banners' = [w \in PwWindows |-> 0]
  /\ ends' = [w \in PwWindows |->
                IF pane[w] = "gone" \/ Exited(w, pane[w]) THEN 1 ELSE 0]
  /\ worked' = {w \in worked : pane[w] # "shell"}
  /\ UNCHANGED <<pane, recent, shows, listed, native, bubble, steady>>

PollingNext ==
  \/ ListWindows \/ BeginTicks \/ PollTimer \/ PollBanner \/ ReadPromptOnly
  \/ ReadNothing \/ ReadStatus \/ ShowPrompt \/ Transition \/ Painted
  \/ EndTicks \/ EndCycle \/ Subscribe \/ StreamEnds \/ Receive \/ PushTimer
  \/ PushBanner \/ RestartPolling
  \/ \E w \in PwWindows :
        \/ ActivityAges(w) \/ StartupExpires(w) \/ ResetPolling(w)
        \/ \E p \in {"busy", "quiet", "prompt", "shell", "gone"} :
              AgentMoves(w, p)
        \/ \E t \in PwTopics : Tick(t, w) \/ BindTopic(t, w)
  \/ \E t \in PwTopics :
        CloseExpired(t) \/ TimerRunsOut(t) \/ Recover(t) \/ TextArrives(t)
        \/ UnbindTopic(t)
PollingSpec == PollingInit /\ [][PollingNext]_pwVars

(***************************************************************************)
(* Properties.                                                             *)
(***************************************************************************)
PollingTypeOK ==
  /\ pane \in [PwWindows -> {"unborn", "busy", "quiet", "prompt", "shell", "gone"}]
  /\ recent \subseteq PwWindows /\ shows \in [PwTopics -> PwWindows \cup {NoPane}]
  /\ listed \in [PwWindows -> {"unborn", "busy", "quiet", "prompt", "shell", "gone"}]
  /\ poll.stage \in {"idle", "periodic", "next", "marked", "timed", "read",
                     "decide", "painted", "expiry"}
  /\ poll.todo \subseteq PwTopics \X PwWindows
  /\ push.stage \in {"idle", "marked", "timed"}
  /\ cache \in [PwWindows -> {"cold", "working", "blocked", "idle"}]
  /\ notified \subseteq PwTopics \X PwWindows
  /\ auto \in [PwTopics -> {"none", "done", "dead"}] /\ due \subseteq PwTopics
  /\ asks \in [PwTopics -> PwWindows \cup {NoPane}]
  /\ bubble \in [PwTopics -> {"none", "working", "ready"}]
  /\ steady \subseteq PwWindows /\ worked \subseteq PwWindows

(* However the poll, the event stream and the user's answers interleave, a *)
(* window is called dead at most once for each time it really ended.       *)
DeadBannersAreTrue == \A w \in PwWindows : banners[w] <= ends[w]

(* An expired timer never closes the topic of a window that has been       *)
(* working since before the cycle that closes it.                          *)
WorkingTopicKept ==
  [][\A t \in PwTopics :
       CloseExpired(t) /\ shows'[t] = NoPane /\ shows[t] # NoPane
         => shows[t] \notin steady]_pwVars

(* The poll decides on Ready only for a window whose agent ran since the   *)
(* last Ready: a dormant shell is never announced.                         *)
ReadyAfterWork ==
  [][Transition /\ poll'.saw = "ready" => poll.w \in worked]_pwVars

(* Every death is told once at most: the part above, with the types        *)
(* (apply.py, event_stream_monitor.py).                                    *)
PollingInv == PollingTypeOK /\ DeadBannersAreTrue
=============================================================================
