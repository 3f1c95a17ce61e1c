--------------------------- MODULE TopicLifecycle ---------------------------
(***************************************************************************)
(* How a window gets its Telegram topic and loses it, in one forum chat.   *)
(* A user launches a window into a topic (window_launch_service.py),       *)
(* recovers or picks one; discovery creates or re-uses a topic for a       *)
(* window nobody bound (topic_orchestration.py), or offers it in General   *)
(* (topic_announce.py); /close, /kill, a closed or deleted topic and the   *)
(* timers take topics and windows away (topic_lifecycle.py, cleanup.py).   *)
(* Each of these is a coroutine that waits for the multiplexer or for      *)
(* Telegram between what it read and what it writes.  The handlers of      *)
(* updates run one after another (bot.create_bot leaves concurrent_updates *)
(* off); the monitor and polling loops run beside them.                    *)
(*                                                                         *)
(* LcHazards lets a coroutine do, during another's wait, what the code     *)
(* does not exclude:                                                       *)
(*   "openDuringAdopt"    an offer is opened while discovery gives the     *)
(*                        window a topic of its name                       *)
(*   "takenOver"          /resume picks a window another user's topic      *)
(*                        shows                                            *)
(*   "unguardedRecovery"  discovery sees the window a recovery creates     *)
(*   "pickDuringAdopt"    a window is picked while discovery adopts it     *)
(*   "changesHands"       a topic is recovered, picked for or taken over   *)
(*                        by name while a launch, a teardown or a take-    *)
(*                        over of it waits                                 *)
(*   "bindDuringSweep"    an expired window is bound before its kill       *)
(*   "lapsedQuarantine"   the guard of a window that could not be killed   *)
(*                        runs into its time limit                         *)
(***************************************************************************)
EXTENDS Naturals, FiniteSets

CONSTANTS
  LcWindows, LcTopics, LcUsers,
  MaxUserMoves,      \* bound on what the users do
  MaxLcCrashes,      \* bound on restarts
  LcHazards, NoWin, NoTopic, NoOwner

ASSUME LifecycleAssumption ==
  /\ NoWin \notin LcWindows /\ NoTopic \notin LcTopics /\ NoOwner \notin LcUsers
  /\ MaxUserMoves \in Nat /\ MaxLcCrashes \in Nat
  /\ LcHazards \subseteq {"openDuringAdopt", "takenOver",
       "unguardedRecovery", "pickDuringAdopt", "changesHands", "bindDuringSweep",
       "lapsedQuarantine"}

VARIABLES
  win,        \* the multiplexer's windows: "unborn", "live", "gone"
  made,       \* windows whose origin is CCGRAM_CREATED_WINDOW_ORIGIN
  top,        \* Telegram's topics: "new", "open", "removed"
  bnd, own,   \* the window a topic shows, and the user who bound it
  guards,     \* _pending_user_creations
  launch,     \* the launch, recovery or reopen in progress
  disc,       \* the holder of each window's topic lock
  waiting,    \* users whose press of Open waits for that lock
  offers, hidden,       \* topic_announce: offered and dismissed windows
  onDemand,             \* CCGRAM_TOPIC_ON_DEMAND
  timed, sweep,         \* unbound timers; windows being killed for them
  down,                 \* the teardown in progress
  stuck,      \* windows of failed launches that could not be killed
  moves, lcCrashes
lcBind == <<bnd, own>>
lcOffer == <<offers, hidden, onDemand, waiting>>
lcKill == <<timed, sweep>>
lcVars == <<win, made, top, lcBind, guards, launch, disc, lcOffer, lcKill,
            down, stuck, moves, lcCrashes>>

NoLaunch == [stage |-> "idle", kind |-> "new", t |-> NoTopic, w |-> NoWin]
NoHolder == [stage |-> "idle", t |-> NoTopic, u |-> NoOwner, asked |-> FALSE]
NoTeardown == [kind |-> "none", t |-> NoTopic, w |-> NoWin]

Live(w) == w \in LcWindows /\ win[w] = "live"
Topics(w) == {t \in LcTopics : bnd[t] = w}
Bound(w) == Topics(w) # {}
May(h, condition) == condition \/ h \in LcHazards
Move == moves < MaxUserMoves /\ moves' = moves + 1 /\ UNCHANGED lcCrashes
Still == UNCHANGED <<moves, lcCrashes>>
Commands == {"unbind", "closeCommand", "closed", "kill"}
(* The update whose handler runs: the next one waits for its end *)
Serving ==
  \/ launch # NoLaunch \/ down.kind \in Commands \cup {"ghost"}
  \/ \E w \in LcWindows : waiting[w] # {} \/ disc[w].asked
Served == Move /\ ~Serving

(* bind_thread in the one chat: every other topic of the window loses it   *)
Bind(t, w, u) ==
  /\ May("bindDuringSweep", w \notin sweep)
  /\ bnd' = [s \in LcTopics |-> IF s = t THEN w
                                ELSE IF bnd[s] = w THEN NoWin ELSE bnd[s]]
  /\ own' = [own EXCEPT ![t] = u]
Unbind1(t) == bnd' = [bnd EXCEPT ![t] = NoWin] /\ UNCHANGED own

(* [mutant] the transaction of a window that has no identity is not asked  *)
PendingIfGuarded(w) == w \in guards
(* _is_pending_user_creation: a transaction of any launch, or the guard.   *)
(* The recovery flow takes neither.                                        *)
PendingCreation(w) ==
  \/ launch.stage = "creating" /\ launch.kind # "recover"
  \/ w \in guards

(***************************************************************************)
(* Launching a window into a topic.                                        *)
(***************************************************************************)
(* A launch needs a topic that shows nothing, a recovery one whose window  *)
(* is gone; /resume drops whatever its topic shows, before it creates      *)
(* anything.                                                               *)
Launchable(t, kind) ==
  CASE kind = "new" -> bnd[t] = NoWin
    [] kind = "recover" -> bnd[t] # NoWin /\ win[bnd[t]] = "gone"
    [] OTHER -> TRUE
BeginLaunch(t, kind) ==
  /\ Served /\ top[t] = "open" /\ Launchable(t, kind)
  /\ May("changesHands", down.t # t /\ \A w \in LcWindows : disc[w].t # t)
  /\ launch' = [stage |-> "creating", kind |-> kind, t |-> t, w |-> NoWin]
  /\ Unbind1(t)
  /\ UNCHANGED <<win, made, top, guards, disc, lcOffer, lcKill, down, stuck>>

(* The Reopen button of an ended session starts its agent again *)
BeginReopen ==
  /\ Served
  /\ launch' = [stage |-> "creating", kind |-> "reopen", t |-> NoTopic,
                w |-> NoWin]
  /\ UNCHANGED <<win, made, top, lcBind, guards, disc, lcOffer, lcKill, down,
                 stuck>>

(* The multiplexer creates the window before the call returns *)
SpawnWindow(w) ==
  /\ launch.stage = "creating" /\ launch.w = NoWin /\ win[w] = "unborn"
  /\ win' = [win EXCEPT ![w] = "live"]
  /\ launch' = [launch EXCEPT !.w = w] /\ Still
  /\ UNCHANGED <<made, top, lcBind, guards, disc, lcOffer, lcKill, down, stuck>>
(* The call fails and the flow is abandoned (_abort_topic_creation) *)
CreateFails ==
  /\ launch.stage = "creating" /\ launch.w = NoWin
  /\ launch' = NoLaunch /\ Still
  /\ UNCHANGED <<win, made, top, lcBind, guards, disc, lcOffer, lcKill, down,
                 stuck>>
(* It returns: the guard is registered before the transaction ends and the *)
(* origin is recorded; a recovery first waits for the hook                 *)
WindowCreated ==
  /\ launch.stage = "creating" /\ launch.w # NoWin
  /\ launch' = [launch EXCEPT !.stage = "wiring"]
  /\ guards' = IF launch.kind = "recover" THEN guards
               ELSE guards \cup {launch.w}
  /\ made' = made \cup {launch.w} /\ Still
  /\ UNCHANGED <<win, top, lcBind, disc, lcOffer, lcKill, down, stuck>>

(* The topic is bound; a recovery or a resume is over, and the resume ends *)
(* its guard; a launch still waits for the hook                            *)
BindLaunched(u) ==
  /\ launch.stage = "wiring" /\ launch.kind # "reopen"
  /\ Bind(launch.t, launch.w, u)
  /\ launch' = IF launch.kind # "new" THEN NoLaunch
               ELSE [launch EXCEPT !.stage = "registering"]
  /\ guards' = IF launch.kind = "resume" THEN guards \ {launch.w} ELSE guards
  /\ Still
  /\ UNCHANGED <<win, made, top, disc, lcOffer, lcKill, down, stuck>>
(* A reopened session asks for a topic of its own, as an explicit open; no *)
(* step comes between the end of its guard and the lock                    *)
OpenReopened(u) ==
  /\ launch.stage = "wiring" /\ launch.kind = "reopen"
  /\ disc[launch.w].stage = "idle"
  /\ guards' = guards \ {launch.w}
  /\ disc' = [disc EXCEPT ![launch.w] =
                 [stage |-> "detect", t |-> NoTopic, u |-> u, asked |-> TRUE]]
  /\ launch' = NoLaunch /\ Still
  /\ UNCHANGED <<win, made, top, lcBind, lcOffer, lcKill, down, stuck>>
(* The hook's entry arrived, or none is needed *)
LaunchRegistered ==
  /\ launch.stage = "registering"
  /\ guards' = guards \ {launch.w} /\ launch' = NoLaunch /\ Still
  /\ UNCHANGED <<win, made, top, lcBind, disc, lcOffer, lcKill, down, stuck>>

(* [mutant] the guard is released and the topic unbound whatever the kill  *)
(* returned                                                                *)
LaunchFailsAnyway ==
  /\ launch.stage \in {"wiring", "registering"} /\ launch.kind = "new"
  /\ launch' = NoLaunch /\ Still
  /\ \/ win' = [win EXCEPT ![launch.w] = "gone"] /\ UNCHANGED stuck
     \/ stuck' = stuck \cup {launch.w} /\ UNCHANGED win
  /\ guards' = guards \ {launch.w} /\ Unbind1(launch.t)
  /\ UNCHANGED <<made, top, disc, lcOffer, lcKill, down>>
(* The launch fails after the window exists.  Only a window that could be  *)
(* killed releases the guard and the topic; otherwise both are kept.       *)
LaunchFails ==
  /\ launch.stage \in {"wiring", "registering"} /\ launch.kind = "new"
  /\ launch' = NoLaunch /\ Still
  /\ \/ /\ win' = [win EXCEPT ![launch.w] = "gone"]
        /\ guards' = guards \ {launch.w} /\ Unbind1(launch.t)
        /\ UNCHANGED stuck
     \/ /\ stuck' = stuck \cup {launch.w}
        /\ UNCHANGED <<win, guards, lcBind>>
  /\ UNCHANGED <<made, top, disc, lcOffer, lcKill, down>>
(* The time limit of a guard (30 s and more) passes: a launch extends it   *)
(* over its whole wait, and a topic is created well within it              *)
GuardLapses(w) ==
  /\ w \in guards /\ disc[w].stage # "create"
  /\ launch.w # w
  /\ May("lapsedQuarantine", w \notin stuck \/ Bound(w))
  /\ guards' = guards \ {w} /\ Still
  /\ stuck' = IF Bound(w) THEN stuck \ {w} ELSE stuck
  /\ UNCHANGED <<win, made, top, lcBind, launch, disc, lcOffer, lcKill, down>>

(***************************************************************************)
(* Discovery (handle_new_window), one holder of a window's lock at a time. *)
(***************************************************************************)
Holds(w, stage, t) ==
  disc' = [disc EXCEPT ![w] = [@ EXCEPT !.stage = stage, !.t = t]]
Release(w) == disc' = [disc EXCEPT ![w] = NoHolder]

Discover(w) ==
  /\ disc[w].stage = "idle" /\ Live(w) /\ ~Bound(w) /\ ~PendingCreation(w)
  /\ May("unguardedRecovery", launch.w # w \/ launch.kind # "recover")
  /\ May("openDuringAdopt", waiting[w] = {})
  /\ Holds(w, "detect", NoTopic) /\ Still
  /\ UNCHANGED <<win, made, top, lcBind, guards, launch, lcOffer, lcKill, down,
                 stuck>>

(* After provider detection and the native session seed, automatic         *)
(* discovery looks for the one topic of that name whose window is gone.    *)
ProbeSameName(w, t) ==
  /\ disc[w].stage = "detect" /\ disc[w].u = NoOwner
  /\ bnd[t] # NoWin /\ bnd[t] # w /\ win[bnd[t]] = "gone"
  /\ May("changesHands", /\ down.t # t /\ launch.t # t
                         /\ \A x \in LcWindows : disc[x].t # t)
  /\ Holds(w, "probe", t) /\ Still
  /\ UNCHANGED <<win, made, top, lcBind, guards, launch, lcOffer, lcKill, down,
                 stuck>>
(* The probe of that topic answers: it exists and is bound to the window;  *)
(* or it is gone and unbound; or nobody can say                            *)
ProbeAnswered(w) ==
  /\ disc[w].stage = "probe" /\ Still
  /\ LET t == disc[w].t IN
     \/ /\ top[t] = "open" /\ Bind(t, w, own[t]) /\ Release(w)
     \/ /\ top[t] = "removed" /\ Unbind1(t) /\ Holds(w, "named", NoTopic)
     \/ Holds(w, "named", NoTopic) /\ UNCHANGED lcBind
  /\ UNCHANGED <<win, made, top, guards, launch, lcOffer, lcKill, down, stuck>>

(* _find_topic_owner: a user who shows this window in no topic yet *)
Owners(w) ==
  {u \in LcUsers : \A t \in Topics(w) : own[t] # u}
(* create_topic_in_chat: the guard is set and Telegram is asked, unless    *)
(* nobody can own the topic or a back-off runs                             *)
RequestTopic(w) ==
  /\ disc[w].stage \in {"detect", "named"} /\ Still
  /\ disc[w].u # NoOwner \/ ~onDemand
  /\ \/ \E u \in Owners(w) :
          /\ disc[w].u \in {NoOwner, u}
          /\ disc' = [disc EXCEPT ![w] =
                        [@ EXCEPT !.stage = "create", !.t = NoTopic, !.u = u]]
          /\ guards' = guards \cup {w}
     \/ Release(w) /\ UNCHANGED guards
  /\ UNCHANGED <<win, made, top, lcBind, launch, lcOffer, lcKill, down, stuck>>
(* [mutant] the guard survives a failed creation *)
CreationFailedGuarded(w) ==
  Release(w) /\ UNCHANGED <<guards, top, lcBind, offers>>
(* A creation that Telegram refused releases the guard *)
CreationFailed(w) ==
  Release(w) /\ guards' = guards \ {w} /\ UNCHANGED <<top, lcBind, offers>>
TopicCreated(w) ==
  /\ disc[w].stage = "create" /\ Still
  /\ \/ \E t \in LcTopics :
          /\ top[t] = "new" /\ top' = [top EXCEPT ![t] = "open"]
          /\ Bind(t, w, disc[w].u)
          /\ guards' = guards \ {w} /\ offers' = offers \ {w} /\ Release(w)
     \/ CreationFailed(w)
  /\ UNCHANGED <<win, made, launch, hidden, onDemand, waiting, lcKill, down,
                 stuck>>

(***************************************************************************)
(* Offers (topic_announce.py).                                             *)
(***************************************************************************)
Announce(w) ==
  /\ disc[w].stage \in {"detect", "named"} /\ disc[w].u = NoOwner /\ onDemand
  /\ offers' = IF w \in hidden THEN offers ELSE offers \cup {w}
  /\ Release(w) /\ Still
  /\ UNCHANGED <<win, made, top, lcBind, guards, launch, hidden, onDemand,
                 waiting, lcKill, down, stuck>>
(* Open: a bound window retires the offer; otherwise the creation is asked *)
(* for, on behalf of that user                                             *)
PressOpen(u, w) ==
  /\ Served /\ w \in offers
  /\ May("openDuringAdopt", disc[w].stage = "idle")
  /\ IF Bound(w) \/ ~Live(w)
     THEN offers' = offers \ {w} /\ UNCHANGED waiting
     ELSE waiting' = [waiting EXCEPT ![w] = @ \cup {u}] /\ UNCHANGED offers
  /\ UNCHANGED <<win, made, top, lcBind, guards, launch, disc, hidden,
                 onDemand, lcKill, down, stuck>>
(* The lock is free: an explicit open does not ask whether the window is   *)
(* bound by now, only whether this user shows it                           *)
OpenOffer(u, w) ==
  /\ disc[w].stage = "idle" /\ u \in waiting[w] /\ Still
  /\ waiting' = [waiting EXCEPT ![w] = @ \ {u}]
  /\ IF PendingCreation(w) THEN UNCHANGED disc
     ELSE disc' = [disc EXCEPT ![w] =
                     [stage |-> "detect", t |-> NoTopic, u |-> u, asked |-> TRUE]]
  /\ UNCHANGED <<win, made, top, lcBind, guards, launch, offers, hidden,
                 onDemand, lcKill, down, stuck>>
HideOffer(w) ==
  /\ Served /\ w \in offers
  /\ offers' = offers \ {w} /\ hidden' = hidden \cup {w}
  /\ UNCHANGED <<win, made, top, lcBind, guards, launch, disc, onDemand,
                 waiting, lcKill, down, stuck>>
(* reconcile_announcements, on a confirmed listing *)
ReconcileOffers ==
  /\ \E w \in offers \cup hidden : ~Live(w)
  /\ offers' = {w \in offers : Live(w)} /\ hidden' = {w \in hidden : Live(w)}
  /\ Still
  /\ UNCHANGED <<win, made, top, lcBind, guards, launch, disc, onDemand,
                 waiting, lcKill, down, stuck>>

(***************************************************************************)
(* Users: new topics, the window picker, dying windows, removed topics.    *)
(***************************************************************************)
UserOpensTopic(t) ==
  /\ Move /\ top[t] = "new" /\ top' = [top EXCEPT ![t] = "open"]
  /\ UNCHANGED <<win, made, lcBind, guards, launch, disc, lcOffer, lcKill,
                 down, stuck>>
UserOpensWindow(w) ==
  /\ Move /\ win[w] = "unborn" /\ win' = [win EXCEPT ![w] = "live"]
  /\ UNCHANGED <<made, top, lcBind, guards, launch, disc, lcOffer, lcKill, down,
                 stuck>>
WindowDies(w) ==
  /\ Move /\ Live(w) /\ win' = [win EXCEPT ![w] = "gone"]
  /\ UNCHANGED <<made, top, lcBind, guards, launch, disc, lcOffer, lcKill, down,
                 stuck>>
UserDeletesTopic(t) ==
  /\ Move /\ top[t] = "open" /\ top' = [top EXCEPT ![t] = "removed"]
  /\ UNCHANGED <<win, made, lcBind, guards, launch, disc, lcOffer, lcKill,
                 down, stuck>>
(* _handle_bind: the picker lists unbound windows *)
PickWindow(t, w, u) ==
  /\ Served /\ top[t] = "open" /\ bnd[t] = NoWin /\ Live(w) /\ ~Bound(w)
  /\ May("pickDuringAdopt", disc[w].stage = "idle")
  /\ May("changesHands", down.t # t)
  /\ Bind(t, w, u)
  /\ UNCHANGED <<win, made, top, guards, launch, disc, lcOffer, lcKill, down,
                 stuck>>

(* _bind_live_window: the session picked in /resume runs in a window; only *)
(* a topic of the same user for it is noticed                              *)
PickLive(t, w, u) ==
  /\ Served /\ top[t] = "open" /\ bnd[t] # w /\ Live(w) /\ u \in Owners(w)
  /\ May("takenOver", ~Bound(w))
  /\ May("pickDuringAdopt", disc[w].stage = "idle")
  /\ May("changesHands", down.t # t /\ \A x \in LcWindows : disc[x].t # t)
  /\ Bind(t, w, u)
  /\ UNCHANGED <<win, made, top, guards, launch, disc, lcOffer, lcKill, down,
                 stuck>>

(***************************************************************************)
(* Teardown.                                                               *)
(***************************************************************************)
(* /kill and KILL_ON_TOPIC_CLOSE kill a window that is there; /kill, an    *)
(* expired "dead" timer and a /sync ghost need a confirmed absence; the    *)
(* others leave the window alone.                                          *)
Kills == {"kill", "closed", "deleted"}
Condemns == {"kill", "deadTimer", "ghost"}
(* The verdict, with the kill it implies; an unknown presence or a refused *)
(* kill ends a condemning teardown before it changed anything              *)
Judged(kind, w) ==
  \/ kind \in Kills /\ Live(w) /\ win' = [win EXCEPT ![w] = "gone"]
  \/ (kind \in Condemns => ~Live(w)) /\ UNCHANGED win
StartTeardown(kind, t) ==
  /\ down = NoTeardown /\ bnd[t] # NoWin /\ launch.t # t
  /\ \A w \in LcWindows : May("changesHands", disc[w].t # t)
  /\ Judged(kind, bnd[t])
  /\ down' = [kind |-> kind, t |-> t, w |-> bnd[t]]
  /\ UNCHANGED <<made, top, lcBind, guards, launch, disc, lcOffer, lcKill,
                 stuck>>
CommandTeardown(t) ==
  /\ Served /\ top[t] = "open"
  /\ \E kind \in Commands : StartTeardown(kind, t)
(* check_autoclose_timers: a topic that was done, or whose window was dead *)
ExpireTopic(t) ==
  Still /\ \E kind \in {"doneTimer", "deadTimer"} : StartTeardown(kind, t)
(* probe_topic_existence: Telegram says that the topic does not exist *)
ProbeDeleted(t) == Still /\ top[t] = "removed" /\ StartTeardown("deleted", t)
(* the /sync repair of a binding whose window is gone *)
RepairGhost(t) == ~Serving /\ Still /\ StartTeardown("ghost", t)
(* After the waits of clear_topic_state and of Telegram the topic is       *)
(* unbound, whatever it shows by then.  /close and the timers also remove  *)
(* it, as far as Telegram lets them.                                       *)
EndTeardown ==
  /\ down # NoTeardown /\ Unbind1(down.t)
  /\ \/ down.kind # "unbind" /\ top' = [top EXCEPT ![down.t] = "removed"]
     \/ down.kind \in {"unbind", "closeCommand", "kill"} /\ UNCHANGED top
  /\ down' = NoTeardown /\ Still
  /\ UNCHANGED <<win, made, guards, launch, disc, lcOffer, lcKill, stuck>>

(* [mutant] a bound window keeps its timer *)
CheckUnboundTTLKept ==
  /\ sweep = {} /\ Still
  /\ timed' = timed \cup {w \in LcWindows : Live(w) /\ w \in made /\ ~Bound(w)}
  /\ sweep' \in SUBSET (timed \ {launch.w})
  /\ UNCHANGED <<win, made, top, lcBind, guards, launch, disc, lcOffer, down,
                 stuck>>
(* check_unbound_window_ttl: timers run for live windows the bot made that *)
(* nothing shows; those that expired are killed one by one.  The limit is  *)
(* minutes: no window expires in the moments before its launch binds it.   *)
CheckUnboundTTL ==
  /\ sweep = {} /\ Still
  /\ timed' = {w \in LcWindows : Live(w) /\ w \in made /\ ~Bound(w)}
  /\ sweep' \in SUBSET ((timed \cap timed') \ {launch.w})
  /\ UNCHANGED <<win, made, top, lcBind, guards, launch, disc, lcOffer, down,
                 stuck>>
SweepKill(w) ==
  /\ w \in sweep /\ sweep' = sweep \ {w} /\ timed' = timed \ {w} /\ Still
  /\ win' = [win EXCEPT ![w] = IF Live(w) THEN "gone" ELSE @]
  /\ UNCHANGED <<made, top, lcBind, guards, launch, disc, lcOffer, down, stuck>>

(* Memory is lost; the bindings and offers come back from disk *)
RestartLifecycle ==
  /\ lcCrashes < MaxLcCrashes /\ lcCrashes' = lcCrashes + 1 /\ UNCHANGED moves
  /\ guards' = {} /\ launch' = NoLaunch /\ down' = NoTeardown
  /\ disc' = [w \in LcWindows |-> NoHolder]
  /\ waiting' = [w \in LcWindows |-> {}]
  /\ timed' = {} /\ sweep' = {} /\ stuck' = {}
  /\ UNCHANGED <<win, made, top, lcBind, offers, hidden, onDemand>>

(***************************************************************************)
LifecycleInit ==
  /\ win = [w \in LcWindows |-> "unborn"] /\ made = {}
  /\ top = [t \in LcTopics |-> "new"]
  /\ bnd = [t \in LcTopics |-> NoWin] /\ own = [t \in LcTopics |-> NoOwner]
  /\ guards = {} /\ launch = NoLaunch /\ down = NoTeardown
  /\ disc = [w \in LcWindows |-> NoHolder]
  /\ waiting = [w \in LcWindows |-> {}]
  /\ offers = {} /\ hidden = {} /\ onDemand \in BOOLEAN
  /\ timed = {} /\ sweep = {} /\ stuck = {} /\ moves = 0 /\ lcCrashes = 0

LifecycleNext ==
  \/ BeginReopen \/ CreateFails \/ WindowCreated \/ LaunchRegistered \/ LaunchFails
  \/ EndTeardown \/ CheckUnboundTTL \/ ReconcileOffers \/ RestartLifecycle
  \/ \E u \in LcUsers : BindLaunched(u) \/ OpenReopened(u)
  \/ \E t \in LcTopics :
       \/ UserOpensTopic(t) \/ UserDeletesTopic(t)
       \/ CommandTeardown(t) \/ ExpireTopic(t) \/ ProbeDeleted(t)
       \/ RepairGhost(t)
       \/ \E kind \in {"new", "recover", "resume"} : BeginLaunch(t, kind)
       \/ \E w \in LcWindows : ProbeSameName(w, t)
       \/ \E w \in LcWindows, u \in LcUsers :
            PickWindow(t, w, u) \/ PickLive(t, w, u)
  \/ \E w \in LcWindows :
       \/ SpawnWindow(w) \/ GuardLapses(w) \/ Discover(w) \/ ProbeAnswered(w)
       \/ RequestTopic(w) \/ TopicCreated(w) \/ Announce(w) \/ HideOffer(w)
       \/ UserOpensWindow(w) \/ WindowDies(w) \/ SweepKill(w)
       \/ \E u \in LcUsers : PressOpen(u, w) \/ OpenOffer(u, w)

LifecycleSpec == LifecycleInit /\ [][LifecycleNext]_lcVars

(*************************************************************************)
(* Properties.                                                           *)
(*************************************************************************)
(* Every variable of the lifecycle has a value of its kind               *)
LifecycleTypeOK ==
  /\ win \in [LcWindows -> {"unborn", "live", "gone"}]
  /\ made \cup guards \cup offers \cup hidden \cup timed \cup sweep \cup stuck
       \subseteq LcWindows
  /\ top \in [LcTopics -> {"new", "open", "removed"}]
  /\ bnd \in [LcTopics -> LcWindows \cup {NoWin}]
  /\ own \in [LcTopics -> LcUsers \cup {NoOwner}]
  /\ launch \in [stage : {"idle", "creating", "wiring", "registering"},
                 kind : {"new", "recover", "resume", "reopen"},
                 t : LcTopics \cup {NoTopic}, w : LcWindows \cup {NoWin}]
  /\ disc \in [LcWindows -> [stage : {"idle", "detect", "probe", "named",
                                      "create"},
                             t : LcTopics \cup {NoTopic},
                             u : LcUsers \cup {NoOwner}, asked : BOOLEAN]]
  /\ waiting \in [LcWindows -> SUBSET LcUsers]
  /\ down.t \in LcTopics \cup {NoTopic} /\ down.w \in LcWindows \cup {NoWin}

(* A topic that shows a live window goes on showing it, whatever discovery *)
(* and other launches do meanwhile, unless its own window was torn down,   *)
(* its own launch failed, or a user asked for another session in it:       *)
(* nobody's window is taken over by a second topic.                        *)
LiveTopicKept ==
  [][\A t \in LcTopics :
       bnd[t] # NoWin /\ Live(bnd[t]) /\ bnd'[t] # bnd[t]
         => \/ lcCrashes' # lcCrashes
            \/ moves' # moves /\ (launch'.t = t \/ bnd'[t] # NoWin)
            \/ down.t = t /\ down.w = bnd[t]
            \/ launch.t = t /\ launch.w = bnd[t] /\ launch.stage # "creating"]_lcVars

(* The unbound-window sweep kills no window some topic shows, although     *)
(* windows are bound and unbound while it works through its list.          *)
SweepSparesBound ==
  [][\A w \in sweep \ sweep' : lcCrashes' = lcCrashes /\ Live(w) => ~Bound(w)]_lcVars

(* Every guard belongs to somebody who will release it: the launch of that *)
(* window, the topic creation for it, or a window that could not be killed *)
GuardsAreOwned ==
  guards \subseteq {launch.w} \cup stuck
                     \cup {w \in LcWindows : disc[w].stage = "create"}

(* Discovery gives no topic to a window whose failed launch could not be   *)
(* cleaned up: that window stays with the topic of its launch, or alone.   *)
QuarantineNotAdopted ==
  [][\A w \in stuck, t \in LcTopics :
       bnd'[t] = w /\ bnd[t] # w => disc'[w] = disc[w]]_lcVars

(* A /kill, an expired dead timer and a /sync ghost take a topic away only *)
(* from a window that is gone, for as long as the teardown takes.          *)
VerdictHolds == down.kind \in Condemns => win[down.w] = "gone"

(* Guards have an owner and a teardown its reason: the parts above, with   *)
(* the types (topic_orchestration.py, cleanup.py).                         *)
LifecycleInv == LifecycleTypeOK /\ GuardsAreOwned /\ VerdictHolds
=============================================================================
