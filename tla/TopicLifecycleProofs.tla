------------------------ MODULE TopicLifecycleProofs ------------------------
(***************************************************************************)
(* What holds of the topics, their windows and the coroutines between them *)
(* for every number of windows, topics, users, moves and restarts.  Each   *)
(* theorem names the only hazards of LcHazards it excludes: the types, the *)
(* owners of the guards and the verdict of a teardown need none excluded,  *)
(* the sweep and the quarantine one each, the topic of a live window five. *)
(***************************************************************************)
EXTENDS TopicLifecycle, TLAPS

TeardownKinds == Commands \cup {"ghost", "doneTimer", "deadTimer", "deleted"}

(* The types, with those of the teardown and of a launch that goes on      *)
LaunchTypeOK ==
  /\ launch.stage = "idle" => launch = NoLaunch
  /\ launch.stage \in {"wiring", "registering"} => launch.w # NoWin
  /\ launch.stage = "registering" => launch.kind = "new"
  /\ launch.stage # "idle" /\ launch.kind # "reopen" => launch.t # NoTopic
LcTypes ==
  /\ LifecycleTypeOK /\ LaunchTypeOK
  /\ down \in [kind : TeardownKinds \cup {"none"}, t : LcTopics \cup {NoTopic},
               w : LcWindows \cup {NoWin}]
  /\ down # NoTeardown => down.kind # "none" /\ down.t # NoTopic /\ down.w # NoWin

(* The four starts of a teardown differ in when they may happen *)
LEMMA TeardownStarts ==
  ASSUME NEW t \in LcTopics,
         CommandTeardown(t) \/ ExpireTopic(t) \/ ProbeDeleted(t) \/ RepairGhost(t)
  PROVE  \E kind \in TeardownKinds : StartTeardown(kind, t)
<1>1. CASE CommandTeardown(t)
  BY <1>1 DEF CommandTeardown, TeardownKinds
<1>2. CASE ExpireTopic(t)
  BY <1>2 DEF ExpireTopic, TeardownKinds
<1>3. CASE ProbeDeleted(t)
  BY <1>3 DEF ProbeDeleted, TeardownKinds
<1>4. CASE RepairGhost(t)
  BY <1>4 DEF RepairGhost, TeardownKinds
<1> QED
  BY <1>1, <1>2, <1>3, <1>4

(* What a holder of a topic lock is about; a holder replaced by another *)
Holders == [stage : {"idle", "detect", "probe", "named", "create"},
            t : LcTopics \cup {NoTopic}, u : LcUsers \cup {NoOwner},
            asked : BOOLEAN]
LEMMA HolderReplaced ==
  ASSUME disc \in [LcWindows -> Holders], NEW w \in LcWindows,
         NEW h \in Holders, disc' = [disc EXCEPT ![w] = h]
  PROVE  disc' \in [LcWindows -> Holders]
  OBVIOUS
LEMMA HoldsTyped ==
  ASSUME disc \in [LcWindows -> Holders], NEW w \in LcWindows,
         NEW stage \in {"idle", "detect", "probe", "named", "create"},
         NEW t \in LcTopics \cup {NoTopic}, Holds(w, stage, t)
  PROVE  disc' \in [LcWindows -> Holders]
<1> DEFINE h == [disc[w] EXCEPT !.stage = stage, !.t = t]
<1>1. disc[w] \in Holders
  OBVIOUS
<1>2. h \in Holders
  BY <1>1 DEF Holders
<1> QED
  BY <1>2, HolderReplaced DEF Holds
LEMMA ReleaseTyped ==
  ASSUME disc \in [LcWindows -> Holders], NEW w \in LcWindows, Release(w)
  PROVE  disc' \in [LcWindows -> Holders]
<1>1. NoHolder \in Holders
  BY DEF NoHolder, Holders
<1> QED
  BY <1>1, HolderReplaced DEF Release

(* Init => the types *)
LEMMA TypesInit == LifecycleInit => LcTypes
  BY LifecycleAssumption DEF LifecycleInit, LcTypes, LifecycleTypeOK, LaunchTypeOK,
     NoLaunch, NoHolder, NoTeardown, TeardownKinds, Commands

(* Every step keeps the types *)
LEMMA TypesStep ==
  ASSUME LcTypes, [LifecycleNext]_lcVars
  PROVE  LcTypes'
<1> USE LifecycleAssumption DEF LcTypes, LifecycleTypeOK, LaunchTypeOK, lcBind,
        lcOffer, lcKill
<1>1. CASE BeginReopen
  BY <1>1 DEF BeginReopen, Served, NoLaunch, NoHolder, NoTeardown
<1>2. CASE CreateFails
  BY <1>2 DEF CreateFails, NoLaunch, NoHolder, NoTeardown
<1>3. CASE WindowCreated
  BY <1>3 DEF WindowCreated, NoLaunch, NoHolder, NoTeardown
<1>4. CASE LaunchRegistered
  BY <1>4 DEF LaunchRegistered, NoLaunch, NoHolder, NoTeardown
<1>5. CASE LaunchFails
  BY <1>5 DEF LaunchFails, Unbind1, NoLaunch, NoHolder, NoTeardown
<1>6. CASE EndTeardown
  BY <1>6 DEF EndTeardown, Unbind1, NoLaunch, NoHolder, NoTeardown
<1>7. CASE CheckUnboundTTL
  BY <1>7 DEF CheckUnboundTTL, NoLaunch, NoHolder, NoTeardown
<1>8. CASE ReconcileOffers
  BY <1>8 DEF ReconcileOffers, NoLaunch, NoHolder, NoTeardown
<1>9. CASE RestartLifecycle
  BY <1>9 DEF RestartLifecycle, NoLaunch, NoHolder, NoTeardown
<1>10. ASSUME NEW u \in LcUsers, BindLaunched(u)
      PROVE  LcTypes'
  BY <1>10 DEF BindLaunched, Bind, NoLaunch, NoHolder, NoTeardown
<1>11. ASSUME NEW u \in LcUsers, OpenReopened(u)
      PROVE  LcTypes'
  BY <1>11 DEF OpenReopened, NoLaunch, NoHolder, NoTeardown
<1>12. ASSUME NEW t \in LcTopics, UserOpensTopic(t)
      PROVE  LcTypes'
  BY <1>12 DEF UserOpensTopic, NoLaunch, NoHolder, NoTeardown
<1>13. ASSUME NEW t \in LcTopics, UserDeletesTopic(t)
      PROVE  LcTypes'
  BY <1>13 DEF UserDeletesTopic, NoLaunch, NoHolder, NoTeardown
<1>14. ASSUME NEW t \in LcTopics, NEW kind \in TeardownKinds, StartTeardown(kind, t)
      PROVE  LcTypes'
  BY <1>14 DEF StartTeardown, Judged, TeardownKinds, Commands, NoTeardown
<1>15. ASSUME NEW t \in LcTopics, NEW kind \in {"new", "recover", "resume"},
             BeginLaunch(t, kind)
      PROVE  LcTypes'
  BY <1>15 DEF BeginLaunch, Served, Unbind1, NoLaunch, NoHolder, NoTeardown
<1>16. ASSUME NEW w \in LcWindows, NEW t \in LcTopics, ProbeSameName(w, t)
      PROVE  LcTypes'
  <2>1. disc' \in [LcWindows -> Holders]
    BY <1>16, HoldsTyped DEF ProbeSameName, Holders
  <2> QED
    BY <1>16, <2>1 DEF ProbeSameName, Holders
<1>17. ASSUME NEW t \in LcTopics, NEW w \in LcWindows, NEW u \in LcUsers,
             PickWindow(t, w, u)
      PROVE  LcTypes'
  BY <1>17 DEF PickWindow, Served, Bind, NoLaunch, NoHolder, NoTeardown
<1>18. ASSUME NEW t \in LcTopics, NEW w \in LcWindows, NEW u \in LcUsers,
             PickLive(t, w, u)
      PROVE  LcTypes'
  BY <1>18 DEF PickLive, Served, Bind, NoLaunch, NoHolder, NoTeardown
<1>19. ASSUME NEW w \in LcWindows, SpawnWindow(w)
      PROVE  LcTypes'
  BY <1>19 DEF SpawnWindow, NoLaunch, NoHolder, NoTeardown
<1>20. ASSUME NEW w \in LcWindows, GuardLapses(w)
      PROVE  LcTypes'
  BY <1>20 DEF GuardLapses, NoLaunch, NoHolder, NoTeardown
<1>21. ASSUME NEW w \in LcWindows, Discover(w)
      PROVE  LcTypes'
  <2>1. disc' \in [LcWindows -> Holders]
    BY <1>21, HoldsTyped DEF Discover, Holders
  <2> QED
    BY <1>21, <2>1 DEF Discover, Holders
<1>22. ASSUME NEW w \in LcWindows, ProbeAnswered(w)
      PROVE  LcTypes'
  <2>1. disc' \in [LcWindows -> Holders]
    <3>1. CASE Release(w)
      BY <3>1, ReleaseTyped DEF Holders
    <3>2. CASE Holds(w, "named", NoTopic)
      BY <3>2, HoldsTyped DEF Holders
    <3> QED
      BY <1>22, <3>1, <3>2 DEF ProbeAnswered
  <2>2. disc[w].t \in LcTopics \cup {NoTopic}
    OBVIOUS
  <2>3. bnd' \in [LcTopics -> LcWindows \cup {NoWin}]
        /\ own' \in [LcTopics -> LcUsers \cup {NoOwner}]
    <3>1. ASSUME NEW t \in LcTopics \cup {NoTopic}, Bind(t, w, own[t])
          PROVE  /\ bnd' \in [LcTopics -> LcWindows \cup {NoWin}]
                 /\ own' \in [LcTopics -> LcUsers \cup {NoOwner}]
      <4>1. CASE t \in LcTopics
        BY <3>1, <4>1 DEF Bind
      <4>2. CASE t \notin LcTopics
        BY <3>1, <4>2 DEF Bind
      <4> QED
        BY <4>1, <4>2
    <3>2. CASE \E t \in LcTopics \cup {NoTopic} : Unbind1(t)
      BY <3>2 DEF Unbind1
    <3>3. CASE UNCHANGED lcBind
      BY <3>3
    <3> QED
      BY <1>22, <2>2, <3>1, <3>2, <3>3 DEF ProbeAnswered
  <2> QED
    BY <1>22, <2>1, <2>3 DEF ProbeAnswered, Holders
<1>23. ASSUME NEW w \in LcWindows, RequestTopic(w)
      PROVE  LcTypes'
  <2>1. disc' \in [LcWindows -> Holders]
    <3>1. CASE Release(w)
      BY <3>1, ReleaseTyped DEF Holders
    <3>2. ASSUME NEW u \in LcUsers,
                 disc' = [disc EXCEPT ![w] =
                   [disc[w] EXCEPT !.stage = "create", !.t = NoTopic, !.u = u]]
          PROVE  disc' \in [LcWindows -> Holders]
      <4> DEFINE h == [disc[w] EXCEPT !.stage = "create", !.t = NoTopic, !.u = u]
      <4>1. disc[w] \in Holders
        BY DEF Holders
      <4>2. h \in Holders
        BY <4>1 DEF Holders
      <4>3. disc \in [LcWindows -> Holders]
        BY DEF Holders
      <4>4. disc' = [disc EXCEPT ![w] = h]
        BY <3>2
      <4> HIDE DEF h
      <4> QED
        BY <4>2, <4>3, <4>4, HolderReplaced
    <3>3. Owners(w) \subseteq LcUsers
      BY DEF Owners
    <3>4. \/ Release(w)
          \/ \E u \in Owners(w) : disc' = [disc EXCEPT ![w] =
                   [disc[w] EXCEPT !.stage = "create", !.t = NoTopic, !.u = u]]
      BY <1>23 DEF RequestTopic
    <3>5. CASE ~Release(w)
      <4>1. PICK u \in Owners(w) : disc' = [disc EXCEPT ![w] =
                   [disc[w] EXCEPT !.stage = "create", !.t = NoTopic, !.u = u]]
        BY <3>4, <3>5
      <4>2. u \in LcUsers
        BY <3>3
      <4> HIDE DEF LcTypes
      <4> QED
        BY <4>1, <4>2, <3>2
    <3> QED
      BY <3>1, <3>5
  <2>2. guards' \subseteq guards \cup {w}
    <3> HIDE DEF LcTypes
    <3> QED
      BY <1>23 DEF RequestTopic
  <2>3. UNCHANGED <<win, made, top, bnd, own, launch, offers, hidden, waiting,
                    timed, sweep, down, stuck>>
    <3> HIDE DEF LcTypes
    <3> QED
      BY <1>23 DEF RequestTopic
  <2> QED
    BY <2>1, <2>2, <2>3 DEF Holders
<1>24. ASSUME NEW w \in LcWindows, TopicCreated(w)
      PROVE  LcTypes'
  <2>1. Release(w) /\ disc' \in [LcWindows -> Holders]
    BY <1>24, ReleaseTyped DEF TopicCreated, CreationFailed, Holders
  <2>2. disc[w].u \in LcUsers \cup {NoOwner}
    OBVIOUS
  <2>3. /\ bnd' \in [LcTopics -> LcWindows \cup {NoWin}]
        /\ own' \in [LcTopics -> LcUsers \cup {NoOwner}]
        /\ top' \in [LcTopics -> {"new", "open", "removed"}]
        /\ offers' \subseteq LcWindows
    BY <1>24, <2>2 DEF TopicCreated, CreationFailed, Bind
  <2> QED
    BY <1>24, <2>1, <2>3 DEF TopicCreated, CreationFailed, Holders
<1>25. ASSUME NEW w \in LcWindows, Announce(w)
      PROVE  LcTypes'
  BY <1>25 DEF Announce, Release, NoLaunch, NoHolder, NoTeardown
<1>26. ASSUME NEW w \in LcWindows, HideOffer(w)
      PROVE  LcTypes'
  BY <1>26 DEF HideOffer, Served, NoLaunch, NoHolder, NoTeardown
<1>27. ASSUME NEW w \in LcWindows, UserOpensWindow(w)
      PROVE  LcTypes'
  BY <1>27 DEF UserOpensWindow, NoLaunch, NoHolder, NoTeardown
<1>28. ASSUME NEW w \in LcWindows, WindowDies(w)
      PROVE  LcTypes'
  BY <1>28 DEF WindowDies, NoLaunch, NoHolder, NoTeardown
<1>29. ASSUME NEW w \in LcWindows, SweepKill(w)
      PROVE  LcTypes'
  BY <1>29 DEF SweepKill, NoLaunch, NoHolder, NoTeardown
<1>30. ASSUME NEW u \in LcUsers, NEW w \in LcWindows, PressOpen(u, w)
      PROVE  LcTypes'
  BY <1>30 DEF PressOpen, Served, NoLaunch, NoHolder, NoTeardown
<1>31. ASSUME NEW u \in LcUsers, NEW w \in LcWindows, OpenOffer(u, w)
      PROVE  LcTypes'
  <2>1. disc' \in [LcWindows -> Holders]
    <3>1. [stage |-> "detect", t |-> NoTopic, u |-> u, asked |-> TRUE] \in Holders
      BY DEF Holders
    <3>2. disc \in [LcWindows -> Holders]
      BY DEF Holders
    <3> QED
      BY <1>31, <3>1, <3>2, HolderReplaced DEF OpenOffer
  <2> QED
    BY <1>31, <2>1 DEF OpenOffer, Holders
<1>32. CASE UNCHANGED lcVars
  BY <1>32 DEF lcVars
<1> QED
  BY <1>1, <1>2, <1>3, <1>4, <1>5, <1>6, <1>7, <1>8, <1>9, <1>10, <1>11,
     <1>12, <1>13, <1>14, <1>15, <1>16, <1>17, <1>18, <1>19, <1>20, <1>21,
     <1>22, <1>23, <1>24, <1>25, <1>26, <1>27, <1>28, <1>29, <1>30, <1>31,
     <1>32, TeardownStarts DEF LifecycleNext

(* The steps on a holder, a binding and a topic lock, entry by entry *)
LEMMA HoldsEffect ==
  ASSUME LcTypes, NEW w \in LcWindows, NEW stage, NEW t, Holds(w, stage, t)
  PROVE  /\ disc'[w].stage = stage /\ disc'[w].t = t
         /\ disc'[w].u = disc[w].u /\ disc'[w].asked = disc[w].asked
         /\ \A x \in LcWindows \ {w} : disc'[x] = disc[x]
<1> DEFINE h == [disc[w] EXCEPT !.stage = stage, !.t = t]
<1>1. disc \in [LcWindows -> Holders]
  BY DEF LcTypes, LifecycleTypeOK, Holders
<1>2. disc[w] \in Holders
  BY <1>1
<1>3. h.stage = stage /\ h.t = t /\ h.u = disc[w].u /\ h.asked = disc[w].asked
  BY <1>2 DEF Holders
<1>4. disc' = [disc EXCEPT ![w] = h]
  BY DEF Holds
<1> HIDE DEF h
<1> QED
  BY <1>1, <1>3, <1>4
LEMMA ReleaseEffect ==
  ASSUME LcTypes, NEW w \in LcWindows, Release(w)
  PROVE  disc'[w] = NoHolder /\ \A x \in LcWindows \ {w} : disc'[x] = disc[x]
  BY DEF Release, LcTypes, LifecycleTypeOK
LEMMA RequestEffect ==
  ASSUME LcTypes, NEW w \in LcWindows, RequestTopic(w)
  PROVE  /\ \/ disc'[w].stage = "create" /\ guards' = guards \cup {w}
            \/ disc'[w].stage = "idle" /\ guards' = guards
         /\ disc'[w].t = NoTopic
         /\ \A x \in LcWindows \ {w} : disc'[x] = disc[x]
<1>1. CASE Release(w) /\ UNCHANGED guards
  BY <1>1, ReleaseEffect DEF NoHolder
<1>2. ASSUME NEW u \in Owners(w), guards' = guards \cup {w},
             disc' = [disc EXCEPT ![w] =
                   [@ EXCEPT !.stage = "create", !.t = NoTopic, !.u = u]]
      PROVE  /\ disc'[w].stage = "create" /\ disc'[w].t = NoTopic
             /\ \A x \in LcWindows \ {w} : disc'[x] = disc[x]
  <2> DEFINE h == [disc[w] EXCEPT !.stage = "create", !.t = NoTopic, !.u = u]
  <2>1. disc \in [LcWindows -> Holders]
    BY DEF LcTypes, LifecycleTypeOK, Holders
  <2>2. disc[w] \in Holders
    BY <2>1
  <2>3. h.stage = "create" /\ h.t = NoTopic
    BY <2>2 DEF Holders
  <2>4. disc' = [disc EXCEPT ![w] = h]
    BY <1>2
  <2> HIDE DEF h
  <2> QED
    BY <2>1, <2>3, <2>4
<1> QED
  BY <1>1, <1>2 DEF RequestTopic
LEMMA BindEffect ==
  ASSUME LcTypes, NEW t \in LcTopics, NEW w \in LcWindows, NEW u, Bind(t, w, u)
  PROVE  /\ bnd'[t] = w
         /\ \A s \in LcTopics \ {t} : IF bnd[s] = w THEN bnd'[s] = NoWin
                                                    ELSE bnd'[s] = bnd[s]
  BY DEF Bind, LcTypes, LifecycleTypeOK
LEMMA UnbindEffect ==
  ASSUME LcTypes, NEW t \in LcTopics, Unbind1(t)
  PROVE  bnd'[t] = NoWin /\ \A s \in LcTopics \ {t} : bnd'[s] = bnd[s]
  BY DEF Unbind1, LcTypes, LifecycleTypeOK

(* Windows and topics only grow older *)
Older ==
  /\ \A w \in LcWindows : /\ win[w] # "unborn" => win'[w] # "unborn"
                          /\ win[w] = "gone" => win'[w] = "gone"
  /\ \A t \in LcTopics : top[t] # "new" => top'[t] # "new"
LEMMA OlderStep ==
  ASSUME LcTypes, LcTypes', [LifecycleNext]_lcVars
  PROVE  Older
<1> USE DEF LcTypes, LifecycleTypeOK, Older
<1>1. CASE BeginReopen
  BY <1>1 DEF BeginReopen, Served
<1>2. CASE CreateFails
  BY <1>2 DEF CreateFails
<1>3. CASE WindowCreated
  BY <1>3 DEF WindowCreated
<1>4. CASE LaunchRegistered
  BY <1>4 DEF LaunchRegistered
<1>5. CASE LaunchFails
  BY <1>5 DEF LaunchFails, Unbind1
<1>6. CASE EndTeardown
  BY <1>6 DEF EndTeardown, Unbind1
<1>7. CASE CheckUnboundTTL
  BY <1>7 DEF CheckUnboundTTL
<1>8. CASE ReconcileOffers
  BY <1>8 DEF ReconcileOffers
<1>9. CASE RestartLifecycle
  BY <1>9 DEF RestartLifecycle
<1>10. ASSUME NEW u \in LcUsers, BindLaunched(u)
      PROVE  Older
  BY <1>10 DEF BindLaunched, Bind
<1>11. ASSUME NEW u \in LcUsers, OpenReopened(u)
      PROVE  Older
  BY <1>11 DEF OpenReopened
<1>12. ASSUME NEW t \in LcTopics, UserOpensTopic(t)
      PROVE  Older
  BY <1>12 DEF UserOpensTopic
<1>13. ASSUME NEW t \in LcTopics, UserDeletesTopic(t)
      PROVE  Older
  BY <1>13 DEF UserDeletesTopic
<1>14. ASSUME NEW t \in LcTopics, NEW kind \in TeardownKinds, StartTeardown(kind, t)
      PROVE  Older
  BY <1>14 DEF StartTeardown, Judged, Live, Kills
<1>15. ASSUME NEW t \in LcTopics, NEW kind \in {"new", "recover", "resume"},
             BeginLaunch(t, kind)
      PROVE  Older
  BY <1>15 DEF BeginLaunch, Served, Unbind1
<1>16. ASSUME NEW w \in LcWindows, NEW t \in LcTopics, ProbeSameName(w, t)
      PROVE  Older
  BY <1>16 DEF ProbeSameName, Holds
<1>17. ASSUME NEW t \in LcTopics, NEW w \in LcWindows, NEW u \in LcUsers,
             PickWindow(t, w, u)
      PROVE  Older
  BY <1>17 DEF PickWindow, Served, Bind
<1>18. ASSUME NEW t \in LcTopics, NEW w \in LcWindows, NEW u \in LcUsers,
             PickLive(t, w, u)
      PROVE  Older
  BY <1>18 DEF PickLive, Served, Bind
<1>19. ASSUME NEW w \in LcWindows, SpawnWindow(w)
      PROVE  Older
  BY <1>19 DEF SpawnWindow, Live
<1>20. ASSUME NEW w \in LcWindows, GuardLapses(w)
      PROVE  Older
  BY <1>20 DEF GuardLapses
<1>21. ASSUME NEW w \in LcWindows, Discover(w)
      PROVE  Older
  BY <1>21 DEF Discover, Holds
<1>22. ASSUME NEW w \in LcWindows, ProbeAnswered(w)
      PROVE  Older
  BY <1>22 DEF ProbeAnswered, Bind, Unbind1, Holds, Release
<1>23. ASSUME NEW w \in LcWindows, RequestTopic(w)
      PROVE  Older
  BY <1>23 DEF RequestTopic, Release
<1>24. ASSUME NEW w \in LcWindows, TopicCreated(w)
      PROVE  Older
  BY <1>24 DEF TopicCreated, Bind, CreationFailed, Release
<1>25. ASSUME NEW w \in LcWindows, Announce(w)
      PROVE  Older
  BY <1>25 DEF Announce, Release
<1>26. ASSUME NEW w \in LcWindows, HideOffer(w)
      PROVE  Older
  BY <1>26 DEF HideOffer, Served
<1>27. ASSUME NEW w \in LcWindows, UserOpensWindow(w)
      PROVE  Older
  BY <1>27 DEF UserOpensWindow
<1>28. ASSUME NEW w \in LcWindows, WindowDies(w)
      PROVE  Older
  BY <1>28 DEF WindowDies, Live
<1>29. ASSUME NEW w \in LcWindows, SweepKill(w)
      PROVE  Older
  BY <1>29 DEF SweepKill, Live
<1>30. ASSUME NEW u \in LcUsers, NEW w \in LcWindows, PressOpen(u, w)
      PROVE  Older
  BY <1>30 DEF PressOpen, Served
<1>31. ASSUME NEW u \in LcUsers, NEW w \in LcWindows, OpenOffer(u, w)
      PROVE  Older
  BY <1>31 DEF OpenOffer
<1>32. CASE UNCHANGED lcVars
  BY <1>32 DEF lcVars
<1> QED
  BY <1>1, <1>2, <1>3, <1>4, <1>5, <1>6, <1>7, <1>8, <1>9, <1>10, <1>11,
     <1>12, <1>13, <1>14, <1>15, <1>16, <1>17, <1>18, <1>19, <1>20, <1>21,
     <1>22, <1>23, <1>24, <1>25, <1>26, <1>27, <1>28, <1>29, <1>30, <1>31,
     <1>32, TeardownStarts DEF LifecycleNext

(* What a guard, a lock, an offer's press, a launch, a binding or a        *)
(* teardown names has begun: no window not yet created and no new topic    *)
Born(w) == win[w] # "unborn"
LocksAreBorn ==
  /\ \A w \in guards \cup stuck : Born(w)
  /\ \A w \in LcWindows : disc[w].stage # "idle" \/ waiting[w] # {} => Born(w)
  /\ launch.w # NoWin => Born(launch.w)
BindingsAreBorn ==
  /\ launch.t # NoTopic => top[launch.t] # "new"
  /\ \A t \in LcTopics : bnd[t] # NoWin => Born(bnd[t]) /\ top[t] # "new"
  /\ down # NoTeardown => Born(down.w) /\ top[down.t] # "new"

LEMMA LocksStep ==
  ASSUME LcTypes, LcTypes', LocksAreBorn, [LifecycleNext]_lcVars, Older
  PROVE  LocksAreBorn'
<1> USE LifecycleAssumption DEF LcTypes, LifecycleTypeOK, LocksAreBorn, Born, Older, lcOffer, LaunchTypeOK
<1>1. CASE BeginReopen
  BY <1>1 DEF BeginReopen, Served, NoLaunch, NoHolder
<1>2. CASE CreateFails
  BY <1>2 DEF CreateFails, NoLaunch
<1>3. CASE WindowCreated
  BY <1>3 DEF WindowCreated
<1>4. CASE LaunchRegistered
  BY <1>4 DEF LaunchRegistered, NoLaunch
<1>5. CASE LaunchFails
  BY <1>5 DEF LaunchFails, Unbind1, NoLaunch
<1>6. CASE EndTeardown
  BY <1>6 DEF EndTeardown, Unbind1
<1>7. CASE CheckUnboundTTL
  BY <1>7 DEF CheckUnboundTTL
<1>8. CASE ReconcileOffers
  BY <1>8 DEF ReconcileOffers
<1>9. CASE RestartLifecycle
  BY <1>9 DEF RestartLifecycle, NoLaunch, NoHolder
<1>10. ASSUME NEW u \in LcUsers, BindLaunched(u)
      PROVE  LocksAreBorn'
  BY <1>10 DEF BindLaunched, Bind, NoLaunch
<1>11. ASSUME NEW u \in LcUsers, OpenReopened(u)
      PROVE  LocksAreBorn'
  BY <1>11 DEF OpenReopened, NoLaunch
<1>12. ASSUME NEW t \in LcTopics, UserOpensTopic(t)
      PROVE  LocksAreBorn'
  BY <1>12 DEF UserOpensTopic
<1>13. ASSUME NEW t \in LcTopics, UserDeletesTopic(t)
      PROVE  LocksAreBorn'
  BY <1>13 DEF UserDeletesTopic
<1>14. ASSUME NEW t \in LcTopics, NEW kind \in TeardownKinds, StartTeardown(kind, t)
      PROVE  LocksAreBorn'
  BY <1>14 DEF StartTeardown, Judged
<1>15. ASSUME NEW t \in LcTopics, NEW kind \in {"new", "recover", "resume"},
             BeginLaunch(t, kind)
      PROVE  LocksAreBorn'
  BY <1>15 DEF BeginLaunch, Served, Unbind1
<1>16. ASSUME NEW w \in LcWindows, NEW t \in LcTopics, ProbeSameName(w, t)
      PROVE  LocksAreBorn'
  BY <1>16, HoldsEffect DEF ProbeSameName
<1>17. ASSUME NEW t \in LcTopics, NEW w \in LcWindows, NEW u \in LcUsers,
             PickWindow(t, w, u)
      PROVE  LocksAreBorn'
  BY <1>17 DEF PickWindow, Served, Bind
<1>18. ASSUME NEW t \in LcTopics, NEW w \in LcWindows, NEW u \in LcUsers,
             PickLive(t, w, u)
      PROVE  LocksAreBorn'
  BY <1>18 DEF PickLive, Served, Bind
<1>19. ASSUME NEW w \in LcWindows, SpawnWindow(w)
      PROVE  LocksAreBorn'
  BY <1>19 DEF SpawnWindow
<1>20. ASSUME NEW w \in LcWindows, GuardLapses(w)
      PROVE  LocksAreBorn'
  BY <1>20 DEF GuardLapses
<1>21. ASSUME NEW w \in LcWindows, Discover(w)
      PROVE  LocksAreBorn'
  BY <1>21, HoldsEffect DEF Discover, Live
<1>22. ASSUME NEW w \in LcWindows, ProbeAnswered(w)
      PROVE  LocksAreBorn'
  <2>1. disc[w].stage # "idle"
    BY <1>22 DEF ProbeAnswered
  <2>2. \A x \in LcWindows \ {w} : disc'[x] = disc[x]
    <3> HIDE DEF LcTypes, LocksAreBorn
    <3> QED
      BY <1>22, HoldsEffect, ReleaseEffect DEF ProbeAnswered
  <2>3. guards' \subseteq guards \cup {w} /\ UNCHANGED <<stuck, waiting, launch>>
    <3> HIDE DEF LcTypes, LocksAreBorn
    <3> QED
      BY <1>22 DEF ProbeAnswered
  <2> QED
    BY <2>1, <2>2, <2>3
<1>23. ASSUME NEW w \in LcWindows, RequestTopic(w)
      PROVE  LocksAreBorn'
  <2>1. disc[w].stage # "idle"
    BY <1>23 DEF RequestTopic
  <2>2. \A x \in LcWindows \ {w} : disc'[x] = disc[x]
    <3> HIDE DEF LcTypes, LocksAreBorn
    <3> QED
      BY <1>23, RequestEffect DEF RequestTopic
  <2>3. guards' \subseteq guards \cup {w} /\ UNCHANGED <<stuck, waiting, launch>>
    <3> HIDE DEF LcTypes, LocksAreBorn
    <3> QED
      BY <1>23, RequestEffect DEF RequestTopic
  <2> QED
    BY <2>1, <2>2, <2>3
<1>24. ASSUME NEW w \in LcWindows, TopicCreated(w)
      PROVE  LocksAreBorn'
  BY <1>24, ReleaseEffect DEF TopicCreated, CreationFailed, NoHolder
<1>25. ASSUME NEW w \in LcWindows, Announce(w)
      PROVE  LocksAreBorn'
  <2>1. disc[w].stage # "idle"
    BY <1>25 DEF Announce
  <2>2. \A x \in LcWindows \ {w} : disc'[x] = disc[x]
    <3> HIDE DEF LcTypes, LocksAreBorn
    <3> QED
      BY <1>25, ReleaseEffect DEF Announce
  <2>3. guards' \subseteq guards \cup {w} /\ UNCHANGED <<stuck, waiting, launch>>
    <3> HIDE DEF LcTypes, LocksAreBorn
    <3> QED
      BY <1>25 DEF Announce
  <2> QED
    BY <2>1, <2>2, <2>3
<1>26. ASSUME NEW w \in LcWindows, HideOffer(w)
      PROVE  LocksAreBorn'
  BY <1>26 DEF HideOffer, Served
<1>27. ASSUME NEW w \in LcWindows, UserOpensWindow(w)
      PROVE  LocksAreBorn'
  BY <1>27 DEF UserOpensWindow
<1>28. ASSUME NEW w \in LcWindows, WindowDies(w)
      PROVE  LocksAreBorn'
  BY <1>28 DEF WindowDies
<1>29. ASSUME NEW w \in LcWindows, SweepKill(w)
      PROVE  LocksAreBorn'
  BY <1>29 DEF SweepKill
<1>30. ASSUME NEW u \in LcUsers, NEW w \in LcWindows, PressOpen(u, w)
      PROVE  LocksAreBorn'
  BY <1>30 DEF PressOpen, Served, Live
<1>31. ASSUME NEW u \in LcUsers, NEW w \in LcWindows, OpenOffer(u, w)
      PROVE  LocksAreBorn'
  BY <1>31 DEF OpenOffer
<1>32. CASE UNCHANGED lcVars
  BY <1>32 DEF lcVars
<1> QED
  BY <1>1, <1>2, <1>3, <1>4, <1>5, <1>6, <1>7, <1>8, <1>9, <1>10, <1>11,
     <1>12, <1>13, <1>14, <1>15, <1>16, <1>17, <1>18, <1>19, <1>20, <1>21,
     <1>22, <1>23, <1>24, <1>25, <1>26, <1>27, <1>28, <1>29, <1>30, <1>31,
     <1>32, TeardownStarts DEF LifecycleNext

LEMMA BindingsStep ==
  ASSUME LcTypes, LcTypes', LocksAreBorn, BindingsAreBorn,
         [LifecycleNext]_lcVars, Older
  PROVE  BindingsAreBorn'
<1> USE LifecycleAssumption DEF LcTypes, LifecycleTypeOK, BindingsAreBorn, Born, Older, lcBind, LaunchTypeOK
<1>1. CASE BeginReopen
  BY <1>1 DEF BeginReopen, Served, NoLaunch
<1>2. CASE CreateFails
  BY <1>2 DEF CreateFails, NoLaunch
<1>3. CASE WindowCreated
  BY <1>3 DEF WindowCreated
<1>4. CASE LaunchRegistered
  BY <1>4 DEF LaunchRegistered, NoLaunch
<1>5. CASE LaunchFails
  <2>1. launch.t \in LcTopics
    BY <1>5 DEF LaunchFails
  <2>2. \A t \in LcTopics : bnd'[t] \in {bnd[t], NoWin}
    BY <1>5, <2>1, UnbindEffect DEF LaunchFails
  <2> QED
    BY <1>5, <2>2 DEF LaunchFails, NoLaunch
<1>6. CASE EndTeardown
  BY <1>6, UnbindEffect DEF EndTeardown, NoTeardown
<1>7. CASE CheckUnboundTTL
  BY <1>7 DEF CheckUnboundTTL
<1>8. CASE ReconcileOffers
  BY <1>8 DEF ReconcileOffers
<1>9. CASE RestartLifecycle
  BY <1>9 DEF RestartLifecycle, NoLaunch, NoTeardown
<1>10. ASSUME NEW u \in LcUsers, BindLaunched(u)
      PROVE  BindingsAreBorn'
  <2>1. launch.t \in LcTopics /\ launch.w \in LcWindows /\ Born(launch.w)
    BY <1>10 DEF BindLaunched, LocksAreBorn
  <2> QED
    BY <1>10, <2>1, BindEffect DEF BindLaunched, NoLaunch
<1>11. ASSUME NEW u \in LcUsers, OpenReopened(u)
      PROVE  BindingsAreBorn'
  BY <1>11 DEF OpenReopened, NoLaunch
<1>12. ASSUME NEW t \in LcTopics, UserOpensTopic(t)
      PROVE  BindingsAreBorn'
  BY <1>12 DEF UserOpensTopic
<1>13. ASSUME NEW t \in LcTopics, UserDeletesTopic(t)
      PROVE  BindingsAreBorn'
  BY <1>13 DEF UserDeletesTopic
<1>14. ASSUME NEW t \in LcTopics, NEW kind \in TeardownKinds, StartTeardown(kind, t)
      PROVE  BindingsAreBorn'
  BY <1>14 DEF StartTeardown, Judged
<1>15. ASSUME NEW t \in LcTopics, NEW kind \in {"new", "recover", "resume"},
             BeginLaunch(t, kind)
      PROVE  BindingsAreBorn'
  <2>1. \A s \in LcTopics : bnd'[s] \in {bnd[s], NoWin}
    BY <1>15, UnbindEffect DEF BeginLaunch
  <2>2. launch'.t = t /\ UNCHANGED <<win, top, down>>
    BY <1>15 DEF BeginLaunch
  <2> QED
    BY <1>15, <2>1, <2>2 DEF BeginLaunch
<1>16. ASSUME NEW w \in LcWindows, NEW t \in LcTopics, ProbeSameName(w, t)
      PROVE  BindingsAreBorn'
  BY <1>16 DEF ProbeSameName, Holds
<1>17. ASSUME NEW t \in LcTopics, NEW w \in LcWindows, NEW u \in LcUsers,
             PickWindow(t, w, u)
      PROVE  BindingsAreBorn'
  BY <1>17, BindEffect DEF PickWindow, Live
<1>18. ASSUME NEW t \in LcTopics, NEW w \in LcWindows, NEW u \in LcUsers,
             PickLive(t, w, u)
      PROVE  BindingsAreBorn'
  BY <1>18, BindEffect DEF PickLive, Live
<1>19. ASSUME NEW w \in LcWindows, SpawnWindow(w)
      PROVE  BindingsAreBorn'
  BY <1>19 DEF SpawnWindow
<1>20. ASSUME NEW w \in LcWindows, GuardLapses(w)
      PROVE  BindingsAreBorn'
  BY <1>20 DEF GuardLapses
<1>21. ASSUME NEW w \in LcWindows, Discover(w)
      PROVE  BindingsAreBorn'
  BY <1>21 DEF Discover, Holds
<1>22. ASSUME NEW w \in LcWindows, ProbeAnswered(w)
      PROVE  BindingsAreBorn'
  <2>1. Born(w)
    BY <1>22 DEF ProbeAnswered, LocksAreBorn
  <2>2. CASE disc[w].t \in LcTopics
    <3>1. UNCHANGED <<win, top, launch, down>>
      BY <1>22 DEF ProbeAnswered
    <3>2. ASSUME NEW t \in LcTopics, top[t] = "open", Bind(t, w, own[t])
          PROVE  BindingsAreBorn'
      <4>1. bnd'[t] = w /\ \A s \in LcTopics \ {t} : bnd'[s] \in {bnd[s], NoWin}
        BY <3>2, BindEffect
      <4>2. top'[t] # "new" /\ w # NoWin /\ Born(w)'
        BY <2>1, <3>1, <3>2
      <4> QED
        BY <3>1, <4>1, <4>2
    <3>3. CASE ~(top[disc[w].t] = "open" /\ Bind(disc[w].t, w, own[disc[w].t]))
      <4>1. \A s \in LcTopics : bnd'[s] \in {bnd[s], NoWin}
        BY <1>22, <2>2, <3>3, UnbindEffect DEF ProbeAnswered
      <4> QED
        BY <3>1, <4>1
    <3> QED
      BY <2>2, <3>2, <3>3
  <2>3. CASE disc[w].t \notin LcTopics
    BY <1>22, <2>1, <2>3 DEF ProbeAnswered, Bind, Unbind1
  <2> QED
    BY <2>2, <2>3
<1>23. ASSUME NEW w \in LcWindows, RequestTopic(w)
      PROVE  BindingsAreBorn'
  BY <1>23 DEF RequestTopic, Release
<1>24. ASSUME NEW w \in LcWindows, TopicCreated(w)
      PROVE  BindingsAreBorn'
  <2>1. Born(w)
    BY <1>24 DEF TopicCreated, LocksAreBorn
  <2>2. CASE UNCHANGED <<bnd, top>>
    BY <1>24, <2>2 DEF TopicCreated
  <2>3. ASSUME NEW t \in LcTopics, top' = [top EXCEPT ![t] = "open"],
               Bind(t, w, disc[w].u)
        PROVE  BindingsAreBorn'
    BY <1>24, <2>1, <2>3, BindEffect DEF TopicCreated
  <2> QED
    BY <1>24, <2>2, <2>3 DEF TopicCreated, CreationFailed
<1>25. ASSUME NEW w \in LcWindows, Announce(w)
      PROVE  BindingsAreBorn'
  BY <1>25 DEF Announce, Release
<1>26. ASSUME NEW w \in LcWindows, HideOffer(w)
      PROVE  BindingsAreBorn'
  BY <1>26 DEF HideOffer, Served
<1>27. ASSUME NEW w \in LcWindows, UserOpensWindow(w)
      PROVE  BindingsAreBorn'
  BY <1>27 DEF UserOpensWindow
<1>28. ASSUME NEW w \in LcWindows, WindowDies(w)
      PROVE  BindingsAreBorn'
  BY <1>28 DEF WindowDies
<1>29. ASSUME NEW w \in LcWindows, SweepKill(w)
      PROVE  BindingsAreBorn'
  BY <1>29 DEF SweepKill
<1>30. ASSUME NEW u \in LcUsers, NEW w \in LcWindows, PressOpen(u, w)
      PROVE  BindingsAreBorn'
  BY <1>30 DEF PressOpen, Served
<1>31. ASSUME NEW u \in LcUsers, NEW w \in LcWindows, OpenOffer(u, w)
      PROVE  BindingsAreBorn'
  BY <1>31 DEF OpenOffer
<1>32. CASE UNCHANGED lcVars
  BY <1>32 DEF lcVars
<1> QED
  BY <1>1, <1>2, <1>3, <1>4, <1>5, <1>6, <1>7, <1>8, <1>9, <1>10, <1>11,
     <1>12, <1>13, <1>14, <1>15, <1>16, <1>17, <1>18, <1>19, <1>20, <1>21,
     <1>22, <1>23, <1>24, <1>25, <1>26, <1>27, <1>28, <1>29, <1>30, <1>31,
     <1>32, TeardownStarts DEF LifecycleNext

(* A guard is owned, and that of a window under recovery not by the launch, *)
(* which will not release it                                               *)
RecoveryOwnsNone ==
  launch.kind = "recover" =>
    launch.w \notin guards \/ launch.w \in stuck \/ disc[launch.w].stage = "create"
OwnedInv == GuardsAreOwned /\ RecoveryOwnsNone

LEMMA OwnedStep ==
  ASSUME LcTypes, LcTypes', LocksAreBorn, OwnedInv, [LifecycleNext]_lcVars
  PROVE  OwnedInv'
<1> USE LifecycleAssumption DEF LcTypes, LifecycleTypeOK, LaunchTypeOK, OwnedInv,
        GuardsAreOwned, RecoveryOwnsNone
<1> HIDE DEF LcTypes
<1> NoWin \notin guards /\ guards \subseteq LcWindows
  BY DEF LcTypes, LifecycleTypeOK
<1>1. CASE BeginReopen
  BY <1>1 DEF BeginReopen, Served, Serving, NoLaunch
<1>2. CASE CreateFails
  BY <1>2 DEF CreateFails, NoLaunch, LcTypes
<1>3. CASE WindowCreated
  BY <1>3 DEF WindowCreated, LcTypes
<1>4. CASE LaunchRegistered
  BY <1>4 DEF LaunchRegistered, NoLaunch, LcTypes
<1>5. CASE LaunchFails
  BY <1>5 DEF LaunchFails, Unbind1, NoLaunch, LcTypes
<1>6. CASE EndTeardown
  BY <1>6 DEF EndTeardown, Unbind1
<1>7. CASE CheckUnboundTTL
  BY <1>7 DEF CheckUnboundTTL
<1>8. CASE ReconcileOffers
  BY <1>8 DEF ReconcileOffers
<1>9. CASE RestartLifecycle
  BY <1>9 DEF RestartLifecycle, NoLaunch
<1>10. ASSUME NEW u \in LcUsers, BindLaunched(u)
      PROVE  OwnedInv'
  BY <1>10 DEF BindLaunched, Bind, NoLaunch, LcTypes
<1>11. ASSUME NEW u \in LcUsers, OpenReopened(u)
      PROVE  OwnedInv'
  BY <1>11 DEF OpenReopened, NoLaunch, LcTypes
<1>12. ASSUME NEW t \in LcTopics, UserOpensTopic(t)
      PROVE  OwnedInv'
  BY <1>12 DEF UserOpensTopic
<1>13. ASSUME NEW t \in LcTopics, UserDeletesTopic(t)
      PROVE  OwnedInv'
  BY <1>13 DEF UserDeletesTopic
<1>14. ASSUME NEW t \in LcTopics, NEW kind \in TeardownKinds, StartTeardown(kind, t)
      PROVE  OwnedInv'
  BY <1>14 DEF StartTeardown, Judged
<1>15. ASSUME NEW t \in LcTopics, NEW kind \in {"new", "recover", "resume"},
             BeginLaunch(t, kind)
      PROVE  OwnedInv'
  BY <1>15 DEF BeginLaunch, Served, Serving, NoLaunch
<1>16. ASSUME NEW w \in LcWindows, NEW t \in LcTopics, ProbeSameName(w, t)
      PROVE  OwnedInv'
  <2>1. disc[w].stage # "create"
    BY <1>16 DEF ProbeSameName
  <2>2. \A x \in LcWindows \ {w} : disc'[x] = disc[x]
    BY <1>16, HoldsEffect DEF ProbeSameName
  <2>3. UNCHANGED <<guards, stuck, launch>>
    BY <1>16 DEF ProbeSameName
  <2> QED
    BY <2>1, <2>2, <2>3
<1>17. ASSUME NEW t \in LcTopics, NEW w \in LcWindows, NEW u \in LcUsers,
             PickWindow(t, w, u)
      PROVE  OwnedInv'
  BY <1>17 DEF PickWindow, Served, Bind
<1>18. ASSUME NEW t \in LcTopics, NEW w \in LcWindows, NEW u \in LcUsers,
             PickLive(t, w, u)
      PROVE  OwnedInv'
  BY <1>18 DEF PickLive, Served, Bind
<1>19. ASSUME NEW w \in LcWindows, SpawnWindow(w)
      PROVE  OwnedInv'
  <2>1. w \notin guards
    BY <1>19 DEF SpawnWindow, LocksAreBorn, Born
  <2> QED
    BY <1>19, <2>1 DEF SpawnWindow, LcTypes
<1>20. ASSUME NEW w \in LcWindows, GuardLapses(w)
      PROVE  OwnedInv'
  BY <1>20 DEF GuardLapses
<1>21. ASSUME NEW w \in LcWindows, Discover(w)
      PROVE  OwnedInv'
  <2>1. disc[w].stage # "create"
    BY <1>21 DEF Discover
  <2>2. \A x \in LcWindows \ {w} : disc'[x] = disc[x]
    BY <1>21, HoldsEffect DEF Discover
  <2>3. UNCHANGED <<guards, stuck, launch>>
    BY <1>21 DEF Discover
  <2> QED
    BY <2>1, <2>2, <2>3
<1>22. ASSUME NEW w \in LcWindows, ProbeAnswered(w)
      PROVE  OwnedInv'
  <2>1. disc[w].stage # "create"
    BY <1>22 DEF ProbeAnswered
  <2>2. \A x \in LcWindows \ {w} : disc'[x] = disc[x]
    BY <1>22, HoldsEffect, ReleaseEffect DEF ProbeAnswered
  <2>3. UNCHANGED <<guards, stuck, launch>>
    BY <1>22 DEF ProbeAnswered
  <2> QED
    BY <2>1, <2>2, <2>3
<1>23. ASSUME NEW w \in LcWindows, RequestTopic(w)
      PROVE  OwnedInv'
  <2>1. disc[w].stage # "create"
    BY <1>23 DEF RequestTopic
  <2>2. UNCHANGED <<launch, stuck>>
    BY <1>23 DEF RequestTopic
  <2> QED
    BY <2>1, <2>2, <1>23, RequestEffect DEF LcTypes
<1>24. ASSUME NEW w \in LcWindows, TopicCreated(w)
      PROVE  OwnedInv'
  <2>1. \A x \in LcWindows \ {w} : disc'[x] = disc[x]
    BY <1>24, ReleaseEffect DEF TopicCreated, CreationFailed
  <2>2. guards' = guards \ {w} /\ UNCHANGED <<launch, stuck>>
    BY <1>24 DEF TopicCreated, CreationFailed
  <2> QED
    BY <2>1, <2>2 DEF LcTypes
<1>25. ASSUME NEW w \in LcWindows, Announce(w)
      PROVE  OwnedInv'
  <2>1. disc[w].stage # "create"
    BY <1>25 DEF Announce
  <2>2. \A x \in LcWindows \ {w} : disc'[x] = disc[x]
    BY <1>25, ReleaseEffect DEF Announce
  <2>3. UNCHANGED <<guards, stuck, launch>>
    BY <1>25 DEF Announce
  <2> QED
    BY <2>1, <2>2, <2>3
<1>26. ASSUME NEW w \in LcWindows, HideOffer(w)
      PROVE  OwnedInv'
  BY <1>26 DEF HideOffer, Served
<1>27. ASSUME NEW w \in LcWindows, UserOpensWindow(w)
      PROVE  OwnedInv'
  BY <1>27 DEF UserOpensWindow
<1>28. ASSUME NEW w \in LcWindows, WindowDies(w)
      PROVE  OwnedInv'
  BY <1>28 DEF WindowDies
<1>29. ASSUME NEW w \in LcWindows, SweepKill(w)
      PROVE  OwnedInv'
  BY <1>29 DEF SweepKill
<1>30. ASSUME NEW u \in LcUsers, NEW w \in LcWindows, PressOpen(u, w)
      PROVE  OwnedInv'
  BY <1>30 DEF PressOpen, Served
<1>31. ASSUME NEW u \in LcUsers, NEW w \in LcWindows, OpenOffer(u, w)
      PROVE  OwnedInv'
  <2>1. disc[w].stage # "create"
    BY <1>31 DEF OpenOffer
  <2>2. \A x \in LcWindows \ {w} : disc'[x] = disc[x]
    BY <1>31 DEF OpenOffer, LcTypes
  <2>3. UNCHANGED <<guards, stuck, launch>>
    BY <1>31 DEF OpenOffer
  <2> QED
    BY <2>1, <2>2, <2>3
<1>32. CASE UNCHANGED lcVars
  BY <1>32 DEF lcVars
<1> QED
  BY <1>1, <1>2, <1>3, <1>4, <1>5, <1>6, <1>7, <1>8, <1>9, <1>10, <1>11,
     <1>12, <1>13, <1>14, <1>15, <1>16, <1>17, <1>18, <1>19, <1>20, <1>21,
     <1>22, <1>23, <1>24, <1>25, <1>26, <1>27, <1>28, <1>29, <1>30, <1>31,
     <1>32, TeardownStarts DEF LifecycleNext

LEMMA VerdictStep ==
  ASSUME LcTypes, LcTypes', BindingsAreBorn, VerdictHolds,
         [LifecycleNext]_lcVars, Older
  PROVE  VerdictHolds'
<1> USE LifecycleAssumption DEF VerdictHolds
<1>o. UNCHANGED down => VerdictHolds'
  BY DEF Older, LcTypes, LifecycleTypeOK, Condemns, NoTeardown
<1>1. CASE BeginReopen
  BY <1>1, <1>o DEF BeginReopen
<1>2. CASE CreateFails
  BY <1>2, <1>o DEF CreateFails
<1>3. CASE WindowCreated
  BY <1>3, <1>o DEF WindowCreated
<1>4. CASE LaunchRegistered
  BY <1>4, <1>o DEF LaunchRegistered
<1>5. CASE LaunchFails
  BY <1>5, <1>o DEF LaunchFails
<1>6. CASE EndTeardown
  BY <1>6 DEF EndTeardown, NoTeardown, Condemns
<1>7. CASE CheckUnboundTTL
  BY <1>7, <1>o DEF CheckUnboundTTL
<1>8. CASE ReconcileOffers
  BY <1>8, <1>o DEF ReconcileOffers
<1>9. CASE RestartLifecycle
  BY <1>9 DEF RestartLifecycle, NoTeardown, Condemns
<1>10. ASSUME NEW u \in LcUsers, BindLaunched(u)
      PROVE  VerdictHolds'
  BY <1>10, <1>o DEF BindLaunched
<1>11. ASSUME NEW u \in LcUsers, OpenReopened(u)
      PROVE  VerdictHolds'
  BY <1>11, <1>o DEF OpenReopened
<1>12. ASSUME NEW t \in LcTopics, UserOpensTopic(t)
      PROVE  VerdictHolds'
  BY <1>12, <1>o DEF UserOpensTopic
<1>13. ASSUME NEW t \in LcTopics, UserDeletesTopic(t)
      PROVE  VerdictHolds'
  BY <1>13, <1>o DEF UserDeletesTopic
<1>14. ASSUME NEW t \in LcTopics, NEW kind \in TeardownKinds, StartTeardown(kind, t)
      PROVE  VerdictHolds'
  <2>1. bnd[t] \in LcWindows /\ win[bnd[t]] # "unborn"
    BY <1>14 DEF StartTeardown, LcTypes, LifecycleTypeOK, BindingsAreBorn, Born
  <2>2. down'.kind = kind /\ down'.w = bnd[t] /\ Judged(kind, bnd[t])
    BY <1>14 DEF StartTeardown
  <2>3. kind \in Condemns => win'[bnd[t]] = "gone"
    BY <2>1, <2>2 DEF Judged, Live, LcTypes, LifecycleTypeOK
  <2> QED
    BY <2>2, <2>3
<1>15. ASSUME NEW t \in LcTopics, NEW kind \in {"new", "recover", "resume"},
             BeginLaunch(t, kind)
      PROVE  VerdictHolds'
  BY <1>15, <1>o DEF BeginLaunch
<1>16. ASSUME NEW w \in LcWindows, NEW t \in LcTopics, ProbeSameName(w, t)
      PROVE  VerdictHolds'
  BY <1>16, <1>o DEF ProbeSameName
<1>17. ASSUME NEW t \in LcTopics, NEW w \in LcWindows, NEW u \in LcUsers,
             PickWindow(t, w, u)
      PROVE  VerdictHolds'
  BY <1>17, <1>o DEF PickWindow
<1>18. ASSUME NEW t \in LcTopics, NEW w \in LcWindows, NEW u \in LcUsers,
             PickLive(t, w, u)
      PROVE  VerdictHolds'
  BY <1>18, <1>o DEF PickLive
<1>19. ASSUME NEW w \in LcWindows, SpawnWindow(w)
      PROVE  VerdictHolds'
  BY <1>19, <1>o DEF SpawnWindow
<1>20. ASSUME NEW w \in LcWindows, GuardLapses(w)
      PROVE  VerdictHolds'
  BY <1>20, <1>o DEF GuardLapses
<1>21. ASSUME NEW w \in LcWindows, Discover(w)
      PROVE  VerdictHolds'
  BY <1>21, <1>o DEF Discover
<1>22. ASSUME NEW w \in LcWindows, ProbeAnswered(w)
      PROVE  VerdictHolds'
  BY <1>22, <1>o DEF ProbeAnswered
<1>23. ASSUME NEW w \in LcWindows, RequestTopic(w)
      PROVE  VerdictHolds'
  BY <1>23, <1>o DEF RequestTopic
<1>24. ASSUME NEW w \in LcWindows, TopicCreated(w)
      PROVE  VerdictHolds'
  BY <1>24, <1>o DEF TopicCreated
<1>25. ASSUME NEW w \in LcWindows, Announce(w)
      PROVE  VerdictHolds'
  BY <1>25, <1>o DEF Announce
<1>26. ASSUME NEW w \in LcWindows, HideOffer(w)
      PROVE  VerdictHolds'
  BY <1>26, <1>o DEF HideOffer
<1>27. ASSUME NEW w \in LcWindows, UserOpensWindow(w)
      PROVE  VerdictHolds'
  BY <1>27, <1>o DEF UserOpensWindow
<1>28. ASSUME NEW w \in LcWindows, WindowDies(w)
      PROVE  VerdictHolds'
  BY <1>28, <1>o DEF WindowDies
<1>29. ASSUME NEW w \in LcWindows, SweepKill(w)
      PROVE  VerdictHolds'
  BY <1>29, <1>o DEF SweepKill
<1>30. ASSUME NEW u \in LcUsers, NEW w \in LcWindows, PressOpen(u, w)
      PROVE  VerdictHolds'
  BY <1>30, <1>o DEF PressOpen
<1>31. ASSUME NEW u \in LcUsers, NEW w \in LcWindows, OpenOffer(u, w)
      PROVE  VerdictHolds'
  BY <1>31, <1>o DEF OpenOffer
<1>32. CASE UNCHANGED lcVars
  BY <1>32 DEF lcVars
<1> QED
  BY <1>1, <1>2, <1>3, <1>4, <1>5, <1>6, <1>7, <1>8, <1>9, <1>10, <1>11,
     <1>12, <1>13, <1>14, <1>15, <1>16, <1>17, <1>18, <1>19, <1>20, <1>21,
     <1>22, <1>23, <1>24, <1>25, <1>26, <1>27, <1>28, <1>29, <1>30, <1>31,
     <1>32, TeardownStarts DEF LifecycleNext

(* The types, the owners of the guards and the verdict of a teardown hold  *)
(* in every state, whatever hazard happens: LifecycleInv.                  *)
LcCore == LcTypes /\ LocksAreBorn /\ BindingsAreBorn /\ OwnedInv /\ VerdictHolds
LEMMA CoreInvariant == LifecycleSpec => []LcCore
<1>1. LifecycleInit => LcCore
  <2> SUFFICES ASSUME LifecycleInit PROVE LcCore
    OBVIOUS
  <2>1. LcTypes
    BY TypesInit
  <2>2. LocksAreBorn /\ BindingsAreBorn
    BY DEF LifecycleInit, LocksAreBorn, BindingsAreBorn, NoLaunch, NoHolder
  <2>3. OwnedInv /\ VerdictHolds
    BY DEF LifecycleInit, OwnedInv, GuardsAreOwned, RecoveryOwnsNone, VerdictHolds,
       NoLaunch, NoTeardown, Condemns
  <2> QED
    BY <2>1, <2>2, <2>3 DEF LcCore
<1>2. LcCore /\ [LifecycleNext]_lcVars => LcCore'
  <2> SUFFICES ASSUME LcCore, [LifecycleNext]_lcVars PROVE LcCore'
    OBVIOUS
  <2> USE DEF LcCore
  <2>1. LcTypes'
    BY TypesStep
  <2>2. Older
    BY <2>1, OlderStep
  <2> QED
    BY <2>1, <2>2, LocksStep, BindingsStep, OwnedStep, VerdictStep
<1> QED
  BY <1>1, <1>2, PTL DEF LifecycleSpec

(* Guards are always owned, and a teardown that condemned a window keeps   *)
(* its reason, with the types, for all windows, topics, users and hazards  *)
(* (topic_orchestration.py, cleanup.py).                                   *)
THEOREM GuardsAndVerdicts == LifecycleSpec => []LifecycleInv
<1>1. LcCore => LifecycleInv
  BY DEF LcCore, LcTypes, OwnedInv, LifecycleInv
<1> QED
  BY <1>1, CoreInvariant, PTL

(* A window that is to be killed for its timer is shown by no topic *)
NotExpired == \A w \in sweep, t \in LcTopics : bnd[t] # w

LEMMA NotExpiredStep ==
  ASSUME "bindDuringSweep" \notin LcHazards, LcTypes, NotExpired,
         [LifecycleNext]_lcVars
  PROVE  NotExpired'
<1> USE LifecycleAssumption DEF NotExpired
<1>s. sweep \subseteq LcWindows
  BY DEF LcTypes, LifecycleTypeOK
<1>o. UNCHANGED <<bnd, sweep>> => NotExpired'
  OBVIOUS
<1>b. ASSUME NEW t, NEW w, NEW u, Bind(t, w, u), UNCHANGED sweep PROVE NotExpired'
  BY <1>s, <1>b DEF Bind, May
<1>u. ASSUME NEW t, Unbind1(t), UNCHANGED sweep PROVE NotExpired'
  BY <1>s, <1>u DEF Unbind1, LcTypes, LifecycleTypeOK
<1>1. CASE BeginReopen
  BY <1>1, <1>o DEF BeginReopen, lcBind, lcKill
<1>2. CASE CreateFails
  BY <1>2, <1>o DEF CreateFails, lcBind, lcKill
<1>3. CASE WindowCreated
  BY <1>3, <1>o DEF WindowCreated, lcBind, lcKill
<1>4. CASE LaunchRegistered
  BY <1>4, <1>o DEF LaunchRegistered, lcBind, lcKill
<1>5. CASE LaunchFails
  BY <1>5, <1>u, <1>o DEF LaunchFails, lcBind, lcKill
<1>6. CASE EndTeardown
  BY <1>6, <1>u DEF EndTeardown, lcKill
<1>7. CASE CheckUnboundTTL
  BY <1>7 DEF CheckUnboundTTL, lcBind, Bound, Topics
<1>8. CASE ReconcileOffers
  BY <1>8, <1>o DEF ReconcileOffers, lcBind, lcKill
<1>9. CASE RestartLifecycle
  BY <1>9 DEF RestartLifecycle
<1>10. ASSUME NEW u \in LcUsers, BindLaunched(u)
      PROVE  NotExpired'
  BY <1>10, <1>b DEF BindLaunched, lcKill
<1>11. ASSUME NEW u \in LcUsers, OpenReopened(u)
      PROVE  NotExpired'
  BY <1>11, <1>o DEF OpenReopened, lcBind, lcKill
<1>12. ASSUME NEW t \in LcTopics, UserOpensTopic(t)
      PROVE  NotExpired'
  BY <1>12, <1>o DEF UserOpensTopic, lcBind, lcKill
<1>13. ASSUME NEW t \in LcTopics, UserDeletesTopic(t)
      PROVE  NotExpired'
  BY <1>13, <1>o DEF UserDeletesTopic, lcBind, lcKill
<1>14. ASSUME NEW t \in LcTopics, NEW kind \in TeardownKinds, StartTeardown(kind, t)
      PROVE  NotExpired'
  BY <1>14, <1>o DEF StartTeardown, lcBind, lcKill
<1>15. ASSUME NEW t \in LcTopics, NEW kind \in {"new", "recover", "resume"},
             BeginLaunch(t, kind)
      PROVE  NotExpired'
  BY <1>15, <1>u DEF BeginLaunch, lcKill
<1>16. ASSUME NEW w \in LcWindows, NEW t \in LcTopics, ProbeSameName(w, t)
      PROVE  NotExpired'
  BY <1>16, <1>o DEF ProbeSameName, lcBind, lcKill
<1>17. ASSUME NEW t \in LcTopics, NEW w \in LcWindows, NEW u \in LcUsers,
             PickWindow(t, w, u)
      PROVE  NotExpired'
  BY <1>17, <1>b DEF PickWindow, lcKill
<1>18. ASSUME NEW t \in LcTopics, NEW w \in LcWindows, NEW u \in LcUsers,
             PickLive(t, w, u)
      PROVE  NotExpired'
  BY <1>18, <1>b DEF PickLive, lcKill
<1>19. ASSUME NEW w \in LcWindows, SpawnWindow(w)
      PROVE  NotExpired'
  BY <1>19, <1>o DEF SpawnWindow, lcBind, lcKill
<1>20. ASSUME NEW w \in LcWindows, GuardLapses(w)
      PROVE  NotExpired'
  BY <1>20, <1>o DEF GuardLapses, lcBind, lcKill
<1>21. ASSUME NEW w \in LcWindows, Discover(w)
      PROVE  NotExpired'
  BY <1>21, <1>o DEF Discover, lcBind, lcKill
<1>22. ASSUME NEW w \in LcWindows, ProbeAnswered(w)
      PROVE  NotExpired'
  BY <1>22, <1>b, <1>u, <1>o DEF ProbeAnswered, lcBind, lcKill
<1>23. ASSUME NEW w \in LcWindows, RequestTopic(w)
      PROVE  NotExpired'
  BY <1>23, <1>o DEF RequestTopic, lcBind, lcKill
<1>24. ASSUME NEW w \in LcWindows, TopicCreated(w)
      PROVE  NotExpired'
  BY <1>24, <1>b, <1>o DEF TopicCreated, CreationFailed, lcBind, lcKill
<1>25. ASSUME NEW w \in LcWindows, Announce(w)
      PROVE  NotExpired'
  BY <1>25, <1>o DEF Announce, lcBind, lcKill
<1>26. ASSUME NEW w \in LcWindows, HideOffer(w)
      PROVE  NotExpired'
  BY <1>26, <1>o DEF HideOffer, lcBind, lcKill
<1>27. ASSUME NEW w \in LcWindows, UserOpensWindow(w)
      PROVE  NotExpired'
  BY <1>27, <1>o DEF UserOpensWindow, lcBind, lcKill
<1>28. ASSUME NEW w \in LcWindows, WindowDies(w)
      PROVE  NotExpired'
  BY <1>28, <1>o DEF WindowDies, lcBind, lcKill
<1>29. ASSUME NEW w \in LcWindows, SweepKill(w)
      PROVE  NotExpired'
  BY <1>29 DEF SweepKill, lcBind
<1>30. ASSUME NEW u \in LcUsers, NEW w \in LcWindows, PressOpen(u, w)
      PROVE  NotExpired'
  BY <1>30, <1>o DEF PressOpen, lcBind, lcKill
<1>31. ASSUME NEW u \in LcUsers, NEW w \in LcWindows, OpenOffer(u, w)
      PROVE  NotExpired'
  BY <1>31, <1>o DEF OpenOffer, lcBind, lcKill
<1>32. CASE UNCHANGED lcVars
  BY <1>32 DEF lcVars, lcBind, lcKill
<1> QED
  BY <1>1, <1>2, <1>3, <1>4, <1>5, <1>6, <1>7, <1>8, <1>9, <1>10, <1>11,
     <1>12, <1>13, <1>14, <1>15, <1>16, <1>17, <1>18, <1>19, <1>20, <1>21,
     <1>22, <1>23, <1>24, <1>25, <1>26, <1>27, <1>28, <1>29, <1>30, <1>31,
     <1>32, TeardownStarts DEF LifecycleNext

(* The sweep of unbound windows kills none that a topic shows, unless a    *)
(* window can be bound in the moments before its kill (cleanup.py).        *)
THEOREM SweepKillsNoShownWindow ==
  ASSUME "bindDuringSweep" \notin LcHazards
  PROVE  LifecycleSpec => SweepSparesBound
<1>1. LifecycleInit => NotExpired
  BY DEF LifecycleInit, NotExpired
<1>2. LcCore /\ NotExpired /\ [LifecycleNext]_lcVars => NotExpired'
  BY NotExpiredStep DEF LcCore
<1>3. NotExpired => \A w \in sweep : ~Bound(w)
  BY DEF NotExpired, Bound, Topics
<1>4. NotExpired /\ [LifecycleNext]_lcVars
        => [\A w \in sweep \ sweep' : lcCrashes' = lcCrashes /\ Live(w) => ~Bound(w)]_lcVars
  BY <1>3
<1> QED
  BY <1>1, <1>2, <1>4, CoreInvariant, PTL DEF LifecycleSpec, SweepSparesBound

(* Nobody but its launch has to do with a window that is being launched:   *)
(* it is guarded as soon as the call that creates it has returned          *)
LaunchHeld ==
  /\ launch.w # NoWin => launch.w \notin stuck
  /\ launch.w # NoWin /\ launch.kind # "recover" => disc[launch.w].stage = "idle"
  /\ launch.stage \in {"wiring", "registering"} /\ launch.kind # "recover"
       => launch.w \in guards

LEMMA LaunchHeldStep ==
  ASSUME LcTypes, LcTypes', LocksAreBorn, LaunchHeld, [LifecycleNext]_lcVars
  PROVE  LaunchHeld'
<1> USE LifecycleAssumption DEF LaunchHeld
<1>t. /\ launch.w \in LcWindows \cup {NoWin}
      /\ launch.stage \in {"idle", "creating", "wiring", "registering"}
      /\ launch.stage = "idle" => launch.w = NoWin
      /\ launch.stage \in {"wiring", "registering"} => launch.w # NoWin
  BY DEF LcTypes, LifecycleTypeOK, LaunchTypeOK, NoLaunch
<1>i. launch'.w = NoWin /\ launch'.stage = "idle" => LaunchHeld'
  OBVIOUS
<1>o. ASSUME NEW w \in LcWindows, UNCHANGED <<launch, stuck>>,
             \A x \in LcWindows \ {w} : disc'[x] = disc[x],
             \A x \in guards : x # w => x \in guards',
             launch.kind = "recover" \/ launch.w # w
      PROVE  LaunchHeld'
  BY <1>o, <1>t
<1>1. CASE BeginReopen
  BY <1>1 DEF BeginReopen
<1>2. CASE CreateFails
  BY <1>2, <1>i DEF CreateFails, NoLaunch
<1>3. CASE WindowCreated
  <2>1. launch'.w = launch.w /\ launch'.kind = launch.kind
    BY <1>3 DEF WindowCreated, LcTypes, LifecycleTypeOK
  <2> QED
    BY <1>3, <2>1 DEF WindowCreated
<1>4. CASE LaunchRegistered
  BY <1>4, <1>i DEF LaunchRegistered, NoLaunch
<1>5. CASE LaunchFails
  BY <1>5, <1>i DEF LaunchFails, NoLaunch
<1>6. CASE EndTeardown
  BY <1>6 DEF EndTeardown
<1>7. CASE CheckUnboundTTL
  BY <1>7 DEF CheckUnboundTTL
<1>8. CASE ReconcileOffers
  BY <1>8 DEF ReconcileOffers
<1>9. CASE RestartLifecycle
  BY <1>9, <1>i DEF RestartLifecycle, NoLaunch
<1>10. ASSUME NEW u \in LcUsers, BindLaunched(u)
      PROVE  LaunchHeld'
  <2>1. CASE launch.kind = "new"
    <3>1. launch'.w = launch.w /\ launch'.kind = launch.kind
      BY <1>10, <2>1 DEF BindLaunched, LcTypes, LifecycleTypeOK
    <3> QED
      BY <1>10, <2>1, <3>1 DEF BindLaunched
  <2>2. CASE launch.kind # "new"
    BY <1>10, <2>2, <1>i DEF BindLaunched, NoLaunch
  <2> QED
    BY <2>1, <2>2
<1>11. ASSUME NEW u \in LcUsers, OpenReopened(u)
      PROVE  LaunchHeld'
  BY <1>11, <1>i DEF OpenReopened, NoLaunch
<1>12. ASSUME NEW t \in LcTopics, UserOpensTopic(t)
      PROVE  LaunchHeld'
  BY <1>12 DEF UserOpensTopic
<1>13. ASSUME NEW t \in LcTopics, UserDeletesTopic(t)
      PROVE  LaunchHeld'
  BY <1>13 DEF UserDeletesTopic
<1>14. ASSUME NEW t \in LcTopics, NEW kind \in TeardownKinds, StartTeardown(kind, t)
      PROVE  LaunchHeld'
  BY <1>14 DEF StartTeardown
<1>15. ASSUME NEW t \in LcTopics, NEW kind \in {"new", "recover", "resume"},
             BeginLaunch(t, kind)
      PROVE  LaunchHeld'
  BY <1>15 DEF BeginLaunch
<1>16. ASSUME NEW w \in LcWindows, NEW t \in LcTopics, ProbeSameName(w, t)
      PROVE  LaunchHeld'
  <2>1. launch.kind = "recover" \/ launch.w # w
    BY <1>16, <1>t DEF ProbeSameName
  <2>2. /\ \A x \in LcWindows \ {w} : disc'[x] = disc[x]
        /\ \A x \in guards : x # w => x \in guards'
    BY <1>16, HoldsEffect DEF ProbeSameName
  <2>3. UNCHANGED <<launch, stuck>>
    BY <1>16 DEF ProbeSameName
  <2> QED
    BY <2>1, <2>2, <2>3, <1>o
<1>17. ASSUME NEW t \in LcTopics, NEW w \in LcWindows, NEW u \in LcUsers,
             PickWindow(t, w, u)
      PROVE  LaunchHeld'
  BY <1>17 DEF PickWindow
<1>18. ASSUME NEW t \in LcTopics, NEW w \in LcWindows, NEW u \in LcUsers,
             PickLive(t, w, u)
      PROVE  LaunchHeld'
  BY <1>18 DEF PickLive
<1>19. ASSUME NEW w \in LcWindows, SpawnWindow(w)
      PROVE  LaunchHeld'
  <2>1. w \notin stuck /\ disc[w].stage = "idle"
    BY <1>19 DEF SpawnWindow, LocksAreBorn, Born
  <2>2. launch' = [launch EXCEPT !.w = w] /\ launch.stage = "creating"
        /\ UNCHANGED <<guards, disc, stuck>>
    BY <1>19 DEF SpawnWindow
  <2>3. launch'.w = w /\ launch'.stage = "creating"
    BY <2>2 DEF LcTypes, LifecycleTypeOK
  <2> QED
    BY <2>1, <2>2, <2>3
<1>20. ASSUME NEW w \in LcWindows, GuardLapses(w)
      PROVE  LaunchHeld'
  <2>1. guards' = guards \ {w} /\ launch.w # w /\ UNCHANGED <<launch, disc>>
        /\ stuck' \subseteq stuck
    BY <1>20 DEF GuardLapses
  <2> QED
    BY <2>1
<1>21. ASSUME NEW w \in LcWindows, Discover(w)
      PROVE  LaunchHeld'
  <2>1. launch.kind = "recover" \/ launch.w # w
    BY <1>21, <1>t DEF Discover, PendingCreation
  <2>2. /\ \A x \in LcWindows \ {w} : disc'[x] = disc[x]
        /\ \A x \in guards : x # w => x \in guards'
    BY <1>21, HoldsEffect DEF Discover
  <2>3. UNCHANGED <<launch, stuck>>
    BY <1>21 DEF Discover
  <2> QED
    BY <2>1, <2>2, <2>3, <1>o
<1>22. ASSUME NEW w \in LcWindows, ProbeAnswered(w)
      PROVE  LaunchHeld'
  <2>1. launch.kind = "recover" \/ launch.w # w
    BY <1>22, <1>t DEF ProbeAnswered
  <2>2. /\ \A x \in LcWindows \ {w} : disc'[x] = disc[x]
        /\ \A x \in guards : x # w => x \in guards'
    BY <1>22, HoldsEffect, ReleaseEffect DEF ProbeAnswered
  <2>3. UNCHANGED <<launch, stuck>>
    BY <1>22 DEF ProbeAnswered
  <2> QED
    BY <2>1, <2>2, <2>3, <1>o
<1>23. ASSUME NEW w \in LcWindows, RequestTopic(w)
      PROVE  LaunchHeld'
  <2>1. launch.kind = "recover" \/ launch.w # w
    BY <1>23, <1>t DEF RequestTopic
  <2>2. /\ \A x \in LcWindows \ {w} : disc'[x] = disc[x]
        /\ \A x \in guards : x # w => x \in guards'
    BY <1>23, RequestEffect DEF RequestTopic
  <2>3. UNCHANGED <<launch, stuck>>
    BY <1>23 DEF RequestTopic
  <2> QED
    BY <2>1, <2>2, <2>3, <1>o
<1>24. ASSUME NEW w \in LcWindows, TopicCreated(w)
      PROVE  LaunchHeld'
  <2>1. launch.kind = "recover" \/ launch.w # w
    BY <1>24, <1>t DEF TopicCreated, CreationFailed
  <2>2. /\ \A x \in LcWindows \ {w} : disc'[x] = disc[x]
        /\ \A x \in guards : x # w => x \in guards'
    BY <1>24, ReleaseEffect DEF TopicCreated, CreationFailed
  <2>3. UNCHANGED <<launch, stuck>>
    BY <1>24 DEF TopicCreated, CreationFailed
  <2> QED
    BY <2>1, <2>2, <2>3, <1>o
<1>25. ASSUME NEW w \in LcWindows, Announce(w)
      PROVE  LaunchHeld'
  <2>1. launch.kind = "recover" \/ launch.w # w
    BY <1>25, <1>t DEF Announce
  <2>2. /\ \A x \in LcWindows \ {w} : disc'[x] = disc[x]
        /\ \A x \in guards : x # w => x \in guards'
    BY <1>25, ReleaseEffect DEF Announce
  <2>3. UNCHANGED <<launch, stuck>>
    BY <1>25 DEF Announce
  <2> QED
    BY <2>1, <2>2, <2>3, <1>o
<1>26. ASSUME NEW w \in LcWindows, HideOffer(w)
      PROVE  LaunchHeld'
  BY <1>26 DEF HideOffer
<1>27. ASSUME NEW w \in LcWindows, UserOpensWindow(w)
      PROVE  LaunchHeld'
  BY <1>27 DEF UserOpensWindow
<1>28. ASSUME NEW w \in LcWindows, WindowDies(w)
      PROVE  LaunchHeld'
  BY <1>28 DEF WindowDies
<1>29. ASSUME NEW w \in LcWindows, SweepKill(w)
      PROVE  LaunchHeld'
  BY <1>29 DEF SweepKill
<1>30. ASSUME NEW u \in LcUsers, NEW w \in LcWindows, PressOpen(u, w)
      PROVE  LaunchHeld'
  BY <1>30 DEF PressOpen
<1>31. ASSUME NEW u \in LcUsers, NEW w \in LcWindows, OpenOffer(u, w)
      PROVE  LaunchHeld'
  <2>1. CASE PendingCreation(w)
    BY <1>31, <2>1 DEF OpenOffer
  <2>2. CASE ~PendingCreation(w)
    <3>1. launch.kind = "recover" \/ launch.w # w
      BY <1>31, <1>t, <2>2 DEF OpenOffer, PendingCreation
    <3>2. \A x \in LcWindows \ {w} : disc'[x] = disc[x]
      BY <1>31, <2>2 DEF OpenOffer, LcTypes, LifecycleTypeOK
    <3>3. UNCHANGED <<launch, stuck, guards>>
      BY <1>31 DEF OpenOffer
    <3> QED
      BY <3>1, <3>2, <3>3, <1>o
  <2> QED
    BY <2>1, <2>2
<1>32. CASE UNCHANGED lcVars
  BY <1>32 DEF lcVars
<1> QED
  BY <1>1, <1>2, <1>3, <1>4, <1>5, <1>6, <1>7, <1>8, <1>9, <1>10, <1>11,
     <1>12, <1>13, <1>14, <1>15, <1>16, <1>17, <1>18, <1>19, <1>20, <1>21,
     <1>22, <1>23, <1>24, <1>25, <1>26, <1>27, <1>28, <1>29, <1>30, <1>31,
     <1>32, TeardownStarts DEF LifecycleNext

(* A window whose launch failed and that could not be killed keeps its     *)
(* guard, and nobody holds its lock                                        *)
Quarantined == \A w \in stuck : w \in guards /\ disc[w].stage = "idle"

(* No step that binds or keeps a quarantined window takes its lock *)
LEMMA StuckUntouched ==
  ASSUME LcTypes, LaunchHeld, Quarantined, [LifecycleNext]_lcVars
  PROVE  \/ stuck' = {} /\ bnd' = bnd
         \/ \A x \in stuck : disc'[x] = disc[x]
<1> DEFINE Goal == \/ stuck' = {} /\ bnd' = bnd
                   \/ \A x \in stuck : disc'[x] = disc[x]
<1> SUFFICES Goal
  OBVIOUS
<1>t. stuck \subseteq LcWindows
  BY DEF LcTypes, LifecycleTypeOK
<1>o. UNCHANGED disc => Goal
  OBVIOUS
<1>w. ASSUME NEW w \in LcWindows, \A x \in LcWindows \ {w} : disc'[x] = disc[x],
             w \notin stuck
      PROVE  Goal
  BY <1>t, <1>w
<1>1. CASE BeginReopen
  BY <1>1, <1>o DEF BeginReopen
<1>2. CASE CreateFails
  BY <1>2, <1>o DEF CreateFails
<1>3. CASE WindowCreated
  BY <1>3, <1>o DEF WindowCreated
<1>4. CASE LaunchRegistered
  BY <1>4, <1>o DEF LaunchRegistered
<1>5. CASE LaunchFails
  BY <1>5, <1>o DEF LaunchFails
<1>6. CASE EndTeardown
  BY <1>6, <1>o DEF EndTeardown
<1>7. CASE CheckUnboundTTL
  BY <1>7, <1>o DEF CheckUnboundTTL
<1>8. CASE ReconcileOffers
  BY <1>8, <1>o DEF ReconcileOffers
<1>9. CASE RestartLifecycle
  BY <1>9 DEF RestartLifecycle, lcBind
<1>10. ASSUME NEW u \in LcUsers, BindLaunched(u)
      PROVE  Goal
  BY <1>10, <1>o DEF BindLaunched
<1>11. ASSUME NEW u \in LcUsers, OpenReopened(u)
      PROVE  Goal
  <2>1. launch.w \in LcWindows /\ launch.w \notin stuck
    BY <1>11 DEF OpenReopened, LaunchHeld, LcTypes, LifecycleTypeOK, LaunchTypeOK
  <2>2. \A x \in LcWindows \ {launch.w} : disc'[x] = disc[x]
    BY <1>11, <2>1 DEF OpenReopened, LcTypes, LifecycleTypeOK
  <2> QED
    BY <2>1, <2>2, <1>w
<1>12. ASSUME NEW t \in LcTopics, UserOpensTopic(t)
      PROVE  Goal
  BY <1>12, <1>o DEF UserOpensTopic
<1>13. ASSUME NEW t \in LcTopics, UserDeletesTopic(t)
      PROVE  Goal
  BY <1>13, <1>o DEF UserDeletesTopic
<1>14. ASSUME NEW t \in LcTopics, NEW kind \in TeardownKinds, StartTeardown(kind, t)
      PROVE  Goal
  BY <1>14, <1>o DEF StartTeardown
<1>15. ASSUME NEW t \in LcTopics, NEW kind \in {"new", "recover", "resume"},
             BeginLaunch(t, kind)
      PROVE  Goal
  BY <1>15, <1>o DEF BeginLaunch
<1>16. ASSUME NEW w \in LcWindows, NEW t \in LcTopics, ProbeSameName(w, t)
      PROVE  Goal
  <2>1. w \notin stuck
    BY <1>16 DEF ProbeSameName, Quarantined
  <2>2. \A x \in LcWindows \ {w} : disc'[x] = disc[x]
    BY <1>16, HoldsEffect DEF ProbeSameName
  <2> QED
    BY <2>1, <2>2, <1>w
<1>17. ASSUME NEW t \in LcTopics, NEW w \in LcWindows, NEW u \in LcUsers,
             PickWindow(t, w, u)
      PROVE  Goal
  BY <1>17, <1>o DEF PickWindow
<1>18. ASSUME NEW t \in LcTopics, NEW w \in LcWindows, NEW u \in LcUsers,
             PickLive(t, w, u)
      PROVE  Goal
  BY <1>18, <1>o DEF PickLive
<1>19. ASSUME NEW w \in LcWindows, SpawnWindow(w)
      PROVE  Goal
  BY <1>19, <1>o DEF SpawnWindow
<1>20. ASSUME NEW w \in LcWindows, GuardLapses(w)
      PROVE  Goal
  BY <1>20, <1>o DEF GuardLapses
<1>21. ASSUME NEW w \in LcWindows, Discover(w)
      PROVE  Goal
  <2>1. w \notin stuck
    BY <1>21 DEF Discover, Quarantined, PendingCreation
  <2>2. \A x \in LcWindows \ {w} : disc'[x] = disc[x]
    BY <1>21, HoldsEffect DEF Discover
  <2> QED
    BY <2>1, <2>2, <1>w
<1>22. ASSUME NEW w \in LcWindows, ProbeAnswered(w)
      PROVE  Goal
  <2>1. w \notin stuck
    BY <1>22 DEF ProbeAnswered, Quarantined
  <2>2. \A x \in LcWindows \ {w} : disc'[x] = disc[x]
    BY <1>22, HoldsEffect, ReleaseEffect DEF ProbeAnswered
  <2> QED
    BY <2>1, <2>2, <1>w
<1>23. ASSUME NEW w \in LcWindows, RequestTopic(w)
      PROVE  Goal
  <2>1. w \notin stuck
    BY <1>23 DEF RequestTopic, Quarantined
  <2>2. \A x \in LcWindows \ {w} : disc'[x] = disc[x]
    BY <1>23, RequestEffect DEF RequestTopic
  <2> QED
    BY <2>1, <2>2, <1>w
<1>24. ASSUME NEW w \in LcWindows, TopicCreated(w)
      PROVE  Goal
  <2>1. w \notin stuck
    BY <1>24 DEF TopicCreated, Quarantined
  <2>2. \A x \in LcWindows \ {w} : disc'[x] = disc[x]
    BY <1>24, ReleaseEffect DEF TopicCreated, CreationFailed
  <2> QED
    BY <2>1, <2>2, <1>w
<1>25. ASSUME NEW w \in LcWindows, Announce(w)
      PROVE  Goal
  <2>1. w \notin stuck
    BY <1>25 DEF Announce, Quarantined
  <2>2. \A x \in LcWindows \ {w} : disc'[x] = disc[x]
    BY <1>25, ReleaseEffect DEF Announce
  <2> QED
    BY <2>1, <2>2, <1>w
<1>26. ASSUME NEW w \in LcWindows, HideOffer(w)
      PROVE  Goal
  BY <1>26, <1>o DEF HideOffer
<1>27. ASSUME NEW w \in LcWindows, UserOpensWindow(w)
      PROVE  Goal
  BY <1>27, <1>o DEF UserOpensWindow
<1>28. ASSUME NEW w \in LcWindows, WindowDies(w)
      PROVE  Goal
  BY <1>28, <1>o DEF WindowDies
<1>29. ASSUME NEW w \in LcWindows, SweepKill(w)
      PROVE  Goal
  BY <1>29, <1>o DEF SweepKill
<1>30. ASSUME NEW u \in LcUsers, NEW w \in LcWindows, PressOpen(u, w)
      PROVE  Goal
  BY <1>30, <1>o DEF PressOpen
<1>31. ASSUME NEW u \in LcUsers, NEW w \in LcWindows, OpenOffer(u, w)
      PROVE  Goal
  <2>1. CASE PendingCreation(w)
    BY <1>31, <2>1, <1>o DEF OpenOffer
  <2>2. CASE ~PendingCreation(w)
    <3>1. w \notin stuck
      BY <2>2 DEF Quarantined, PendingCreation
    <3>2. \A x \in LcWindows \ {w} : disc'[x] = disc[x]
      BY <1>31, <2>2 DEF OpenOffer, LcTypes, LifecycleTypeOK
    <3> QED
      BY <3>1, <3>2, <1>w
  <2> QED
    BY <2>1, <2>2
<1>32. CASE UNCHANGED lcVars
  BY <1>32 DEF lcVars
<1> QED
  BY <1>1, <1>2, <1>3, <1>4, <1>5, <1>6, <1>7, <1>8, <1>9, <1>10, <1>11,
     <1>12, <1>13, <1>14, <1>15, <1>16, <1>17, <1>18, <1>19, <1>20, <1>21,
     <1>22, <1>23, <1>24, <1>25, <1>26, <1>27, <1>28, <1>29, <1>30, <1>31,
     <1>32, TeardownStarts DEF LifecycleNext

LEMMA QuarantinedStep ==
  ASSUME "lapsedQuarantine" \notin LcHazards,
         LcTypes, LaunchHeld, Quarantined, [LifecycleNext]_lcVars
  PROVE  Quarantined'
<1> DEFINE Untouched == \A x \in stuck : disc'[x] = disc[x]
<1>s. stuck' = {} \/ Untouched
  BY StuckUntouched
<1> SUFFICES ASSUME Untouched PROVE Quarantined'
  BY <1>s DEF Quarantined
<1> USE LifecycleAssumption
<1>o. stuck' \subseteq stuck /\ guards \subseteq guards' => Quarantined'
  BY DEF Quarantined
<1>g. ASSUME NEW w, guards \ {w} \subseteq guards', stuck' \subseteq stuck,
             w \notin stuck'
      PROVE  Quarantined'
  BY <1>g DEF Quarantined
<1>1. CASE BeginReopen
  BY <1>1, <1>o DEF BeginReopen
<1>2. CASE CreateFails
  BY <1>2, <1>o DEF CreateFails
<1>3. CASE WindowCreated
  BY <1>3, <1>o DEF WindowCreated
<1>4. CASE LaunchRegistered
  <2>1. launch.w \notin stuck
    BY <1>4 DEF LaunchRegistered, LaunchHeld, LcTypes, LaunchTypeOK
  <2> QED
    BY <1>4, <2>1, <1>g, <1>o DEF LaunchRegistered
<1>5. CASE LaunchFails
  <2>1. /\ launch.w \notin stuck /\ launch.w \in guards
        /\ disc[launch.w].stage = "idle" /\ UNCHANGED disc
    BY <1>5 DEF LaunchFails, LaunchHeld, LcTypes, LaunchTypeOK
  <2>2. CASE stuck' = stuck \cup {launch.w} /\ UNCHANGED guards
    BY <2>1, <2>2 DEF Quarantined
  <2>3. CASE guards' = guards \ {launch.w} /\ UNCHANGED stuck
    BY <2>1, <2>3, <1>g
  <2> QED
    BY <1>5, <2>2, <2>3 DEF LaunchFails
<1>6. CASE EndTeardown
  BY <1>6, <1>o DEF EndTeardown
<1>7. CASE CheckUnboundTTL
  BY <1>7, <1>o DEF CheckUnboundTTL
<1>8. CASE ReconcileOffers
  BY <1>8, <1>o DEF ReconcileOffers
<1>9. CASE RestartLifecycle
  BY <1>9 DEF RestartLifecycle, Quarantined
<1>10. ASSUME NEW u \in LcUsers, BindLaunched(u)
      PROVE  Quarantined'
  <2>1. launch.w \notin stuck
    BY <1>10 DEF BindLaunched, LaunchHeld, LcTypes, LaunchTypeOK
  <2> QED
    BY <1>10, <2>1, <1>g, <1>o DEF BindLaunched
<1>11. ASSUME NEW u \in LcUsers, OpenReopened(u)
      PROVE  Quarantined'
  <2>1. launch.w \notin stuck
    BY <1>11 DEF OpenReopened, LaunchHeld, LcTypes, LaunchTypeOK
  <2> QED
    BY <1>11, <2>1, <1>g, <1>o DEF OpenReopened
<1>12. ASSUME NEW t \in LcTopics, UserOpensTopic(t)
      PROVE  Quarantined'
  BY <1>12, <1>o DEF UserOpensTopic
<1>13. ASSUME NEW t \in LcTopics, UserDeletesTopic(t)
      PROVE  Quarantined'
  BY <1>13, <1>o DEF UserDeletesTopic
<1>14. ASSUME NEW t \in LcTopics, NEW kind \in TeardownKinds, StartTeardown(kind, t)
      PROVE  Quarantined'
  BY <1>14, <1>o DEF StartTeardown
<1>15. ASSUME NEW t \in LcTopics, NEW kind \in {"new", "recover", "resume"},
             BeginLaunch(t, kind)
      PROVE  Quarantined'
  BY <1>15, <1>o DEF BeginLaunch
<1>16. ASSUME NEW w \in LcWindows, NEW t \in LcTopics, ProbeSameName(w, t)
      PROVE  Quarantined'
  BY <1>16, <1>o DEF ProbeSameName
<1>17. ASSUME NEW t \in LcTopics, NEW w \in LcWindows, NEW u \in LcUsers,
             PickWindow(t, w, u)
      PROVE  Quarantined'
  BY <1>17, <1>o DEF PickWindow
<1>18. ASSUME NEW t \in LcTopics, NEW w \in LcWindows, NEW u \in LcUsers,
             PickLive(t, w, u)
      PROVE  Quarantined'
  BY <1>18, <1>o DEF PickLive
<1>19. ASSUME NEW w \in LcWindows, SpawnWindow(w)
      PROVE  Quarantined'
  BY <1>19, <1>o DEF SpawnWindow
<1>20. ASSUME NEW w \in LcWindows, GuardLapses(w)
      PROVE  Quarantined'
  <2>1. guards' = guards \ {w} /\ stuck' \subseteq stuck /\ w \notin stuck'
    BY <1>20 DEF GuardLapses, May
  <2> QED
    BY <2>1, <1>g
<1>21. ASSUME NEW w \in LcWindows, Discover(w)
      PROVE  Quarantined'
  BY <1>21, <1>o DEF Discover
<1>22. ASSUME NEW w \in LcWindows, ProbeAnswered(w)
      PROVE  Quarantined'
  BY <1>22, <1>o DEF ProbeAnswered
<1>23. ASSUME NEW w \in LcWindows, RequestTopic(w)
      PROVE  Quarantined'
  BY <1>23, <1>o, RequestEffect DEF RequestTopic
<1>24. ASSUME NEW w \in LcWindows, TopicCreated(w)
      PROVE  Quarantined'
  <2>1. w \notin stuck
    BY <1>24 DEF TopicCreated, Quarantined
  <2>2. guards' = guards \ {w} /\ UNCHANGED stuck
    BY <1>24 DEF TopicCreated, CreationFailed
  <2> QED
    BY <2>1, <2>2, <1>g
<1>25. ASSUME NEW w \in LcWindows, Announce(w)
      PROVE  Quarantined'
  BY <1>25, <1>o DEF Announce
<1>26. ASSUME NEW w \in LcWindows, HideOffer(w)
      PROVE  Quarantined'
  BY <1>26, <1>o DEF HideOffer
<1>27. ASSUME NEW w \in LcWindows, UserOpensWindow(w)
      PROVE  Quarantined'
  BY <1>27, <1>o DEF UserOpensWindow
<1>28. ASSUME NEW w \in LcWindows, WindowDies(w)
      PROVE  Quarantined'
  BY <1>28, <1>o DEF WindowDies
<1>29. ASSUME NEW w \in LcWindows, SweepKill(w)
      PROVE  Quarantined'
  BY <1>29, <1>o DEF SweepKill
<1>30. ASSUME NEW u \in LcUsers, NEW w \in LcWindows, PressOpen(u, w)
      PROVE  Quarantined'
  BY <1>30, <1>o DEF PressOpen
<1>31. ASSUME NEW u \in LcUsers, NEW w \in LcWindows, OpenOffer(u, w)
      PROVE  Quarantined'
  BY <1>31, <1>o DEF OpenOffer
<1>32. CASE UNCHANGED lcVars
  BY <1>32, <1>o DEF lcVars
<1> QED
  BY <1>1, <1>2, <1>3, <1>4, <1>5, <1>6, <1>7, <1>8, <1>9, <1>10, <1>11,
     <1>12, <1>13, <1>14, <1>15, <1>16, <1>17, <1>18, <1>19, <1>20, <1>21,
     <1>22, <1>23, <1>24, <1>25, <1>26, <1>27, <1>28, <1>29, <1>30, <1>31,
     <1>32, TeardownStarts DEF LifecycleNext

(* Discovery gives no topic to a window whose failed launch could not be   *)
(* cleaned up, unless the guard of that window can run into its time limit *)
(* (window_launch_service.py, topic_orchestration.py).                     *)
THEOREM QuarantineIsKept ==
  ASSUME "lapsedQuarantine" \notin LcHazards
  PROVE  LifecycleSpec => QuarantineNotAdopted
<1>1. LifecycleInit => LaunchHeld /\ Quarantined
  BY DEF LifecycleInit, LaunchHeld, Quarantined, NoLaunch
<1>2. LcCore /\ LcCore' /\ LaunchHeld /\ Quarantined /\ [LifecycleNext]_lcVars
        => LaunchHeld' /\ Quarantined'
  BY LaunchHeldStep, QuarantinedStep DEF LcCore
<1>3. LcCore /\ LaunchHeld /\ Quarantined /\ [LifecycleNext]_lcVars
        => [\A w \in stuck, t \in LcTopics :
              bnd'[t] = w /\ bnd[t] # w => disc'[w] = disc[w]]_lcVars
  BY StuckUntouched DEF LcCore
<1> QED
  BY <1>1, <1>2, <1>3, CoreInvariant, PTL DEF LifecycleSpec, QuarantineNotAdopted

(***************************************************************************)
(* The topic of a live window.                                             *)
(***************************************************************************)
Unshown(w) == \A t \in LcTopics : bnd[t] # w
Moved(t, w) == bnd'[t] = w /\ \A s \in LcTopics \ {t} : bnd'[s] = bnd[s]

(* A press of Open that waits is the only update being served, for a       *)
(* window that nobody shows and whose lock is free                         *)
WaitingAlone ==
  \A w \in LcWindows : waiting[w] # {} =>
    /\ launch = NoLaunch /\ \E u \in LcUsers : waiting[w] = {u}
    /\ Unshown(w) /\ disc[w].stage = "idle"
(* The holder of a lock has a window that nobody shows; the topic that it  *)
(* probes shows a window that is gone, and nobody else means that topic    *)
AdoptionAlone ==
  /\ \A w \in LcWindows : disc[w].stage # "idle" => Unshown(w)
  /\ \A w \in LcWindows : disc[w].stage = "probe" <=> disc[w].t # NoTopic
  /\ \A w \in LcWindows : disc[w].t # NoTopic =>
       /\ disc[w].t # launch.t /\ disc[w].t # down.t
       /\ bnd[disc[w].t] # NoWin /\ win[bnd[disc[w].t]] = "gone"
  /\ \A w, x \in LcWindows : disc[w].t # NoTopic /\ disc[x].t = disc[w].t => x = w
(* A launched window is shown by the topic of its launch at most, and that *)
(* topic shows no other; so does the topic of a teardown                   *)
LaunchAlone ==
  /\ launch.w # NoWin => disc[launch.w].stage = "idle"
  /\ launch.w # NoWin /\ launch.stage # "registering" => Unshown(launch.w)
  /\ launch.t # NoTopic => launch.t # down.t /\ bnd[launch.t] \in {NoWin, launch.w}
TeardownAlone == down # NoTeardown => bnd[down.t] \in {NoWin, down.w}
Alone == WaitingAlone /\ AdoptionAlone /\ LaunchAlone /\ TeardownAlone

Orderly ==
  LcHazards \cap {"openDuringAdopt", "takenOver", "unguardedRecovery",
                  "pickDuringAdopt", "changesHands"} = {}

LEMMA UnshownIsUnbound == \A w : Unshown(w) <=> ~Bound(w)
  BY DEF Unshown, Bound, Topics
LEMMA ServedAlone ==
  ASSUME Served
  PROVE  launch = NoLaunch /\ \A w \in LcWindows : waiting[w] = {}
  BY DEF Served, Serving
LEMMA BindMoves ==
  ASSUME LcTypes, NEW t \in LcTopics, NEW w \in LcWindows, NEW u, Bind(t, w, u),
         Unshown(w)
  PROVE  Moved(t, w)
  BY BindEffect DEF Moved, Unshown
LEMMA UnbindMoves ==
  ASSUME LcTypes, NEW t \in LcTopics, Unbind1(t)
  PROVE  Moved(t, NoWin)
  BY UnbindEffect DEF Moved

(* The steps that change what a topic shows, each with what it knows       *)
LEMMA BindingMoves ==
  ASSUME Orderly, LcTypes, BindingsAreBorn, Alone, [LifecycleNext]_lcVars
  PROVE  \/ bnd' = bnd
         \/ \E t \in LcTopics : /\ Moved(t, NoWin) /\ Served /\ launch'.t = t
                                /\ \A w \in LcWindows : disc[w].t # t
                                /\ t # down.t
         \/ /\ launch.t \in LcTopics /\ launch.w \in LcWindows
            /\ launch.stage \in {"wiring", "registering"}
            /\ \/ /\ Moved(launch.t, launch.w) /\ launch.stage = "wiring"
                  /\ launch'.stage # "wiring" /\ launch'.stage # "creating"
               \/ Moved(launch.t, NoWin) /\ launch' = NoLaunch
         \/ down.t \in LcTopics /\ down # NoTeardown /\ Moved(down.t, NoWin)
         \/ \E w \in LcWindows, t \in LcTopics :
              /\ (Moved(t, w) /\ disc'[w].stage = "idle") \/ Moved(t, NoWin)
              /\ disc[w].stage = "probe" /\ disc[w].t = t
              /\ disc'[w].t = NoTopic
         \/ \E w \in LcWindows, t \in LcTopics :
              /\ Moved(t, w) /\ top[t] = "new"
              /\ disc[w].stage = "create" /\ disc'[w].stage = "idle"
         \/ \E w \in LcWindows, t \in LcTopics :
              /\ Moved(t, w) /\ Served /\ t # down.t /\ disc[w].stage = "idle"
              /\ bnd[t] = NoWin \/ \A x \in LcWindows : disc[x].t # t
<1> DEFINE Goal ==
         \/ bnd' = bnd
         \/ \E t \in LcTopics : /\ Moved(t, NoWin) /\ Served /\ launch'.t = t
                                /\ \A w \in LcWindows : disc[w].t # t
                                /\ t # down.t
         \/ /\ launch.t \in LcTopics /\ launch.w \in LcWindows
            /\ launch.stage \in {"wiring", "registering"}
            /\ \/ /\ Moved(launch.t, launch.w) /\ launch.stage = "wiring"
                  /\ launch'.stage # "wiring" /\ launch'.stage # "creating"
               \/ Moved(launch.t, NoWin) /\ launch' = NoLaunch
         \/ down.t \in LcTopics /\ down # NoTeardown /\ Moved(down.t, NoWin)
         \/ \E w \in LcWindows, t \in LcTopics :
              /\ (Moved(t, w) /\ disc'[w].stage = "idle") \/ Moved(t, NoWin)
              /\ disc[w].stage = "probe" /\ disc[w].t = t
              /\ disc'[w].t = NoTopic
         \/ \E w \in LcWindows, t \in LcTopics :
              /\ Moved(t, w) /\ top[t] = "new"
              /\ disc[w].stage = "create" /\ disc'[w].stage = "idle"
         \/ \E w \in LcWindows, t \in LcTopics :
              /\ Moved(t, w) /\ Served /\ t # down.t /\ disc[w].stage = "idle"
              /\ bnd[t] = NoWin \/ \A x \in LcWindows : disc[x].t # t
<1> SUFFICES Goal
  OBVIOUS
<1> USE LifecycleAssumption DEF Alone
<1>o. bnd' = bnd => Goal
  OBVIOUS
<1>h. \A h, c : h \in {"openDuringAdopt", "takenOver", "unguardedRecovery",
                  "pickDuringAdopt", "changesHands"} /\ May(h, c) => c
  BY DEF Orderly, May
<1>1. CASE BeginReopen
  BY <1>1, <1>o DEF BeginReopen, lcBind
<1>2. CASE CreateFails
  BY <1>2, <1>o DEF CreateFails, lcBind
<1>3. CASE WindowCreated
  BY <1>3, <1>o DEF WindowCreated, lcBind
<1>4. CASE LaunchRegistered
  BY <1>4, <1>o DEF LaunchRegistered, lcBind
<1>5. CASE LaunchFails
  <2>1. /\ launch.t \in LcTopics /\ launch.w \in LcWindows
        /\ launch.stage \in {"wiring", "registering"} /\ launch' = NoLaunch
    BY <1>5 DEF LaunchFails, LcTypes, LifecycleTypeOK, LaunchTypeOK
  <2>2. bnd' = bnd \/ Unbind1(launch.t)
    BY <1>5 DEF LaunchFails, lcBind
  <2> QED
    BY <2>1, <2>2, UnbindMoves
<1>6. CASE EndTeardown
  <2>1. down.t \in LcTopics /\ down # NoTeardown /\ Unbind1(down.t)
    BY <1>6 DEF EndTeardown, LcTypes, LifecycleTypeOK
  <2> QED
    BY <2>1, UnbindMoves
<1>7. CASE CheckUnboundTTL
  BY <1>7, <1>o DEF CheckUnboundTTL, lcBind
<1>8. CASE ReconcileOffers
  BY <1>8, <1>o DEF ReconcileOffers, lcBind
<1>9. CASE RestartLifecycle
  BY <1>9, <1>o DEF RestartLifecycle, lcBind
<1>10. ASSUME NEW u \in LcUsers, BindLaunched(u)
      PROVE  Goal
  <2>1. launch.t \in LcTopics /\ launch.w \in LcWindows /\ launch.stage = "wiring"
    BY <1>10 DEF BindLaunched, LcTypes, LifecycleTypeOK, LaunchTypeOK
  <2>2. Unshown(launch.w)
    BY <2>1 DEF LaunchAlone
  <2>3. Moved(launch.t, launch.w)
    BY <1>10, <2>1, <2>2, BindMoves DEF BindLaunched
  <2>4. launch'.stage # "wiring" /\ launch'.stage # "creating"
    BY <1>10 DEF BindLaunched, NoLaunch, LcTypes, LifecycleTypeOK
  <2> QED
    BY <2>1, <2>3, <2>4
<1>11. ASSUME NEW u \in LcUsers, OpenReopened(u)
      PROVE  Goal
  BY <1>11, <1>o DEF OpenReopened, lcBind
<1>12. ASSUME NEW t \in LcTopics, UserOpensTopic(t)
      PROVE  Goal
  BY <1>12, <1>o DEF UserOpensTopic, lcBind
<1>13. ASSUME NEW t \in LcTopics, UserDeletesTopic(t)
      PROVE  Goal
  BY <1>13, <1>o DEF UserDeletesTopic, lcBind
<1>14. ASSUME NEW t \in LcTopics, NEW kind \in TeardownKinds, StartTeardown(kind, t)
      PROVE  Goal
  BY <1>14, <1>o DEF StartTeardown, lcBind
<1>15. ASSUME NEW t \in LcTopics, NEW kind \in {"new", "recover", "resume"},
             BeginLaunch(t, kind)
      PROVE  Goal
  <2>1. Moved(t, NoWin)
    BY <1>15, UnbindMoves DEF BeginLaunch
  <2>2. down.t # t /\ \A w \in LcWindows : disc[w].t # t
    BY <1>15, <1>h DEF BeginLaunch
  <2>3. Served /\ launch'.t = t
    BY <1>15 DEF BeginLaunch
  <2> QED
    BY <2>1, <2>2, <2>3
<1>16. ASSUME NEW w \in LcWindows, NEW t \in LcTopics, ProbeSameName(w, t)
      PROVE  Goal
  BY <1>16, <1>o DEF ProbeSameName, lcBind
<1>17. ASSUME NEW t \in LcTopics, NEW w \in LcWindows, NEW u \in LcUsers,
             PickWindow(t, w, u)
      PROVE  Goal
  <2>1. Unshown(w) /\ Served /\ t # down.t /\ disc[w].stage = "idle"
        /\ bnd[t] = NoWin
    BY <1>17, <1>h, UnshownIsUnbound DEF PickWindow
  <2>2. Moved(t, w)
    BY <1>17, <2>1, BindMoves DEF PickWindow
  <2> QED
    BY <2>1, <2>2
<1>18. ASSUME NEW t \in LcTopics, NEW w \in LcWindows, NEW u \in LcUsers,
             PickLive(t, w, u)
      PROVE  Goal
  <2>1. Unshown(w) /\ Served /\ t # down.t /\ disc[w].stage = "idle"
        /\ \A x \in LcWindows : disc[x].t # t
    BY <1>18, <1>h, UnshownIsUnbound DEF PickLive
  <2>2. Moved(t, w)
    BY <1>18, <2>1, BindMoves DEF PickLive
  <2> QED
    BY <2>1, <2>2
<1>19. ASSUME NEW w \in LcWindows, SpawnWindow(w)
      PROVE  Goal
  BY <1>19, <1>o DEF SpawnWindow, lcBind
<1>20. ASSUME NEW w \in LcWindows, GuardLapses(w)
      PROVE  Goal
  BY <1>20, <1>o DEF GuardLapses, lcBind
<1>21. ASSUME NEW w \in LcWindows, Discover(w)
      PROVE  Goal
  BY <1>21, <1>o DEF Discover, lcBind
<1>22. ASSUME NEW w \in LcWindows, ProbeAnswered(w)
      PROVE  Goal
  <2> DEFINE t == disc[w].t
  <2>1. t \in LcTopics /\ disc[w].stage = "probe" /\ Unshown(w)
    BY <1>22 DEF ProbeAnswered, AdoptionAlone, LcTypes, LifecycleTypeOK
  <2>2. disc'[w].t = NoTopic
    BY <1>22, HoldsEffect, ReleaseEffect DEF ProbeAnswered, NoHolder
  <2>3. bnd' = bnd \/ Bind(t, w, own[t]) \/ Unbind1(t)
    BY <1>22 DEF ProbeAnswered, lcBind
  <2>4. bnd' = bnd \/ Release(w) \/ Unbind1(t)
    BY <1>22 DEF ProbeAnswered, lcBind
  <2>5. Release(w) => disc'[w].stage = "idle"
    BY ReleaseEffect DEF NoHolder
  <2>6. \/ bnd' = bnd
        \/ (Moved(t, w) /\ disc'[w].stage = "idle") \/ Moved(t, NoWin)
    BY <2>1, <2>3, <2>4, <2>5, BindMoves, UnbindMoves
  <2> QED
    BY <2>1, <2>2, <2>6
<1>23. ASSUME NEW w \in LcWindows, RequestTopic(w)
      PROVE  Goal
  BY <1>23, <1>o DEF RequestTopic, lcBind
<1>24. ASSUME NEW w \in LcWindows, TopicCreated(w)
      PROVE  Goal
  <2>1. disc[w].stage = "create" /\ Unshown(w)
    BY <1>24 DEF TopicCreated, AdoptionAlone
  <2>2. \/ bnd' = bnd
        \/ \E t \in LcTopics : top[t] = "new" /\ Bind(t, w, disc[w].u)
    BY <1>24 DEF TopicCreated, CreationFailed, lcBind
  <2>3. ASSUME NEW t \in LcTopics, top[t] = "new", Bind(t, w, disc[w].u)
        PROVE  Goal
    <3>1. Moved(t, w)
      BY <2>1, <2>3, BindMoves
    <3>2. disc'[w].stage = "idle"
      BY <1>24, ReleaseEffect DEF TopicCreated, CreationFailed, NoHolder
    <3> QED
      BY <2>1, <2>3, <3>1, <3>2
  <2> QED
    BY <2>2, <2>3
<1>25. ASSUME NEW w \in LcWindows, Announce(w)
      PROVE  Goal
  BY <1>25, <1>o DEF Announce, lcBind
<1>26. ASSUME NEW w \in LcWindows, HideOffer(w)
      PROVE  Goal
  BY <1>26, <1>o DEF HideOffer, lcBind
<1>27. ASSUME NEW w \in LcWindows, UserOpensWindow(w)
      PROVE  Goal
  BY <1>27, <1>o DEF UserOpensWindow, lcBind
<1>28. ASSUME NEW w \in LcWindows, WindowDies(w)
      PROVE  Goal
  BY <1>28, <1>o DEF WindowDies, lcBind
<1>29. ASSUME NEW w \in LcWindows, SweepKill(w)
      PROVE  Goal
  BY <1>29, <1>o DEF SweepKill, lcBind
<1>30. ASSUME NEW u \in LcUsers, NEW w \in LcWindows, PressOpen(u, w)
      PROVE  Goal
  BY <1>30, <1>o DEF PressOpen, lcBind
<1>31. ASSUME NEW u \in LcUsers, NEW w \in LcWindows, OpenOffer(u, w)
      PROVE  Goal
  BY <1>31, <1>o DEF OpenOffer, lcBind
<1>32. CASE UNCHANGED lcVars
  BY <1>32, <1>o DEF lcVars, lcBind
<1> QED
  BY <1>1, <1>2, <1>3, <1>4, <1>5, <1>6, <1>7, <1>8, <1>9, <1>10, <1>11,
     <1>12, <1>13, <1>14, <1>15, <1>16, <1>17, <1>18, <1>19, <1>20, <1>21,
     <1>22, <1>23, <1>24, <1>25, <1>26, <1>27, <1>28, <1>29, <1>30, <1>31,
     <1>32, TeardownStarts DEF LifecycleNext

LEMMA WaitingStep ==
  ASSUME Orderly, LcTypes, LcTypes', BindingsAreBorn, Alone,
         [LifecycleNext]_lcVars
  PROVE  WaitingAlone'
<1> USE LifecycleAssumption
<1>h. \A h, c : h \in {"openDuringAdopt", "takenOver", "unguardedRecovery",
                  "pickDuringAdopt", "changesHands"} /\ May(h, c) => c
  BY DEF Orderly, May
<1>n. launch # NoLaunch => \A w \in LcWindows : waiting[w] = {}
  BY DEF Alone, WaitingAlone
<1>m. ASSUME NEW w \in LcWindows, waiting[w] # {} PROVE Unshown(w)'
  <2>1. launch = NoLaunch /\ Unshown(w) /\ disc[w].stage = "idle" /\ ~Served
    BY <1>m, ServedAlone DEF Alone, WaitingAlone
  <2>2. launch.stage \notin {"wiring", "registering"} /\ w # NoWin
    BY <2>1 DEF NoLaunch
  <2>3. ASSUME NEW t \in LcTopics, NEW x, Moved(t, x), x # w PROVE Unshown(w)'
    BY <2>1, <2>3 DEF Moved, Unshown
  <2>4. bnd' = bnd => Unshown(w)'
    BY <2>1 DEF Unshown
  <2> QED
    BY <2>1, <2>2, <2>3, <2>4, BindingMoves
<1>z. (\A w \in LcWindows : waiting'[w] = {}) => WaitingAlone'
  BY DEF WaitingAlone
<1>o. ASSUME UNCHANGED <<launch, waiting>>,
             \A w \in LcWindows : waiting[w] = {} \/ disc[w].stage # "idle"
                                                  \/ disc'[w] = disc[w]
      PROVE  WaitingAlone'
  BY <1>m, <1>o DEF Alone, WaitingAlone
<1> HIDE DEF Served
<1>1. CASE BeginReopen
  BY <1>1, <1>z, ServedAlone DEF BeginReopen, lcOffer
<1>2. CASE CreateFails
  BY <1>2, <1>n, <1>z DEF CreateFails, NoLaunch, lcOffer
<1>3. CASE WindowCreated
  BY <1>3, <1>n, <1>z DEF WindowCreated, NoLaunch, lcOffer
<1>4. CASE LaunchRegistered
  BY <1>4, <1>n, <1>z DEF LaunchRegistered, NoLaunch, lcOffer
<1>5. CASE LaunchFails
  BY <1>5, <1>n, <1>z DEF LaunchFails, NoLaunch, lcOffer
<1>6. CASE EndTeardown
  BY <1>6, <1>o DEF EndTeardown, lcOffer
<1>7. CASE CheckUnboundTTL
  BY <1>7, <1>o DEF CheckUnboundTTL, lcOffer
<1>8. CASE ReconcileOffers
  BY <1>8, <1>o DEF ReconcileOffers, lcOffer
<1>9. CASE RestartLifecycle
  BY <1>9, <1>z DEF RestartLifecycle
<1>10. ASSUME NEW u \in LcUsers, BindLaunched(u)
      PROVE  WaitingAlone'
  BY <1>10, <1>n, <1>z DEF BindLaunched, NoLaunch, lcOffer
<1>11. ASSUME NEW u \in LcUsers, OpenReopened(u)
      PROVE  WaitingAlone'
  BY <1>11, <1>n, <1>z DEF OpenReopened, NoLaunch, lcOffer
<1>12. ASSUME NEW t \in LcTopics, UserOpensTopic(t)
      PROVE  WaitingAlone'
  BY <1>12, <1>o DEF UserOpensTopic, lcOffer
<1>13. ASSUME NEW t \in LcTopics, UserDeletesTopic(t)
      PROVE  WaitingAlone'
  BY <1>13, <1>o DEF UserDeletesTopic, lcOffer
<1>14. ASSUME NEW t \in LcTopics, NEW kind \in TeardownKinds, StartTeardown(kind, t)
      PROVE  WaitingAlone'
  BY <1>14, <1>o DEF StartTeardown, lcOffer
<1>15. ASSUME NEW t \in LcTopics, NEW kind \in {"new", "recover", "resume"},
             BeginLaunch(t, kind)
      PROVE  WaitingAlone'
  BY <1>15, <1>z, ServedAlone DEF BeginLaunch, lcOffer
<1>16. ASSUME NEW w \in LcWindows, NEW t \in LcTopics, ProbeSameName(w, t)
      PROVE  WaitingAlone'
  <2>1. \A x \in LcWindows \ {w} : disc'[x] = disc[x]
    BY <1>16, HoldsEffect DEF ProbeSameName
  <2>2. waiting[w] = {} \/ disc[w].stage # "idle"
    BY <1>16 DEF ProbeSameName
  <2>3. UNCHANGED <<launch, waiting>>
    BY <1>16 DEF ProbeSameName, lcOffer
  <2> QED
    BY <2>1, <2>2, <2>3, <1>o
<1>17. ASSUME NEW t \in LcTopics, NEW w \in LcWindows, NEW u \in LcUsers,
             PickWindow(t, w, u)
      PROVE  WaitingAlone'
  BY <1>17, <1>z, ServedAlone DEF PickWindow, lcOffer
<1>18. ASSUME NEW t \in LcTopics, NEW w \in LcWindows, NEW u \in LcUsers,
             PickLive(t, w, u)
      PROVE  WaitingAlone'
  BY <1>18, <1>z, ServedAlone DEF PickLive, lcOffer
<1>19. ASSUME NEW w \in LcWindows, SpawnWindow(w)
      PROVE  WaitingAlone'
  BY <1>19, <1>n, <1>z DEF SpawnWindow, NoLaunch, lcOffer
<1>20. ASSUME NEW w \in LcWindows, GuardLapses(w)
      PROVE  WaitingAlone'
  BY <1>20, <1>o DEF GuardLapses, lcOffer
<1>21. ASSUME NEW w \in LcWindows, Discover(w)
      PROVE  WaitingAlone'
  <2>1. \A x \in LcWindows \ {w} : disc'[x] = disc[x]
    BY <1>21, HoldsEffect DEF Discover
  <2>2. waiting[w] = {} \/ disc[w].stage # "idle"
    BY <1>21, <1>h DEF Discover
  <2>3. UNCHANGED <<launch, waiting>>
    BY <1>21 DEF Discover, lcOffer
  <2> QED
    BY <2>1, <2>2, <2>3, <1>o
<1>22. ASSUME NEW w \in LcWindows, ProbeAnswered(w)
      PROVE  WaitingAlone'
  <2>1. \A x \in LcWindows \ {w} : disc'[x] = disc[x]
    BY <1>22, HoldsEffect, ReleaseEffect DEF ProbeAnswered
  <2>2. waiting[w] = {} \/ disc[w].stage # "idle"
    BY <1>22 DEF ProbeAnswered
  <2>3. UNCHANGED <<launch, waiting>>
    BY <1>22 DEF ProbeAnswered, lcOffer
  <2> QED
    BY <2>1, <2>2, <2>3, <1>o
<1>23. ASSUME NEW w \in LcWindows, RequestTopic(w)
      PROVE  WaitingAlone'
  <2>1. \A x \in LcWindows \ {w} : disc'[x] = disc[x]
    BY <1>23, RequestEffect DEF RequestTopic
  <2>2. waiting[w] = {} \/ disc[w].stage # "idle"
    BY <1>23 DEF RequestTopic
  <2>3. UNCHANGED <<launch, waiting>>
    BY <1>23 DEF RequestTopic, lcOffer
  <2> QED
    BY <2>1, <2>2, <2>3, <1>o
<1>24. ASSUME NEW w \in LcWindows, TopicCreated(w)
      PROVE  WaitingAlone'
  <2>1. \A x \in LcWindows \ {w} : disc'[x] = disc[x]
    BY <1>24, ReleaseEffect DEF TopicCreated, CreationFailed
  <2>2. waiting[w] = {} \/ disc[w].stage # "idle"
    BY <1>24 DEF TopicCreated
  <2>3. UNCHANGED <<launch, waiting>>
    BY <1>24 DEF TopicCreated, lcOffer
  <2> QED
    BY <2>1, <2>2, <2>3, <1>o
<1>25. ASSUME NEW w \in LcWindows, Announce(w)
      PROVE  WaitingAlone'
  <2>1. \A x \in LcWindows \ {w} : disc'[x] = disc[x]
    BY <1>25, ReleaseEffect DEF Announce
  <2>2. waiting[w] = {} \/ disc[w].stage # "idle"
    BY <1>25 DEF Announce
  <2>3. UNCHANGED <<launch, waiting>>
    BY <1>25 DEF Announce, lcOffer
  <2> QED
    BY <2>1, <2>2, <2>3, <1>o
<1>26. ASSUME NEW w \in LcWindows, HideOffer(w)
      PROVE  WaitingAlone'
  BY <1>26, <1>z, ServedAlone DEF HideOffer, lcOffer
<1>27. ASSUME NEW w \in LcWindows, UserOpensWindow(w)
      PROVE  WaitingAlone'
  BY <1>27, <1>o DEF UserOpensWindow, lcOffer
<1>28. ASSUME NEW w \in LcWindows, WindowDies(w)
      PROVE  WaitingAlone'
  BY <1>28, <1>o DEF WindowDies, lcOffer
<1>29. ASSUME NEW w \in LcWindows, SweepKill(w)
      PROVE  WaitingAlone'
  BY <1>29, <1>o DEF SweepKill, lcOffer
<1>30. ASSUME NEW u \in LcUsers, NEW w \in LcWindows, PressOpen(u, w)
      PROVE  WaitingAlone'
  <2>1. /\ launch = NoLaunch /\ \A x \in LcWindows : waiting[x] = {}
        /\ launch' = launch
    BY <1>30, ServedAlone DEF PressOpen
  <2>2. CASE waiting' = waiting
    BY <2>1, <2>2, <1>z
  <2>3. CASE waiting' # waiting
    <3>1. /\ Unshown(w) /\ disc[w].stage = "idle" /\ UNCHANGED <<bnd, disc>>
          /\ waiting' = [waiting EXCEPT ![w] = waiting[w] \cup {u}]
      BY <1>30, <2>3, <1>h, UnshownIsUnbound DEF PressOpen, lcBind
    <3>2. waiting'[w] = {u} /\ \A x \in LcWindows \ {w} : waiting'[x] = {}
      BY <2>1, <3>1 DEF LcTypes, LifecycleTypeOK
    <3> QED
      BY <2>1, <3>1, <3>2 DEF WaitingAlone, Unshown
  <2> QED
    BY <2>2, <2>3
<1>31. ASSUME NEW u \in LcUsers, NEW w \in LcWindows, OpenOffer(u, w)
      PROVE  WaitingAlone'
  <2>1. /\ UNCHANGED <<launch, bnd>> /\ waiting[w] = {u}
        /\ waiting' = [waiting EXCEPT ![w] = waiting[w] \ {u}]
    BY <1>31 DEF OpenOffer, lcBind, Alone, WaitingAlone
  <2>2. waiting'[w] = {} /\ \A x \in LcWindows \ {w} : waiting'[x] = waiting[x]
    BY <2>1 DEF LcTypes, LifecycleTypeOK
  <2>3. \A x \in LcWindows \ {w} : disc'[x] = disc[x]
    BY <1>31 DEF OpenOffer, LcTypes, LifecycleTypeOK
  <2> QED
    BY <2>1, <2>2, <2>3, <1>m DEF Alone, WaitingAlone
<1>32. CASE UNCHANGED lcVars
  BY <1>32, <1>o DEF lcVars, lcOffer
<1> QED
  BY <1>1, <1>2, <1>3, <1>4, <1>5, <1>6, <1>7, <1>8, <1>9, <1>10, <1>11,
     <1>12, <1>13, <1>14, <1>15, <1>16, <1>17, <1>18, <1>19, <1>20, <1>21,
     <1>22, <1>23, <1>24, <1>25, <1>26, <1>27, <1>28, <1>29, <1>30, <1>31,
     <1>32, TeardownStarts DEF LifecycleNext

LEMMA AdoptionStep ==
  ASSUME Orderly, LcTypes, LcTypes', LocksAreBorn, BindingsAreBorn, Alone,
         [LifecycleNext]_lcVars, Older
  PROVE  AdoptionAlone'
<1> USE LifecycleAssumption
<1>h. \A h, c : h \in {"openDuringAdopt", "takenOver", "unguardedRecovery",
                  "pickDuringAdopt", "changesHands"} /\ May(h, c) => c
  BY DEF Orderly, May
<1>a. ASSUME NEW w \in LcWindows, disc[w].stage # "idle", disc'[w].stage # "idle"
      PROVE  Unshown(w)'
  <2>1. Unshown(w) /\ w # NoWin
    BY <1>a DEF Alone, AdoptionAlone
  <2>2. ASSUME NEW t \in LcTopics, NEW x, Moved(t, x), x # w PROVE Unshown(w)'
    BY <2>1, <2>2 DEF Moved, Unshown
  <2>3. bnd' = bnd => Unshown(w)'
    BY <2>1 DEF Unshown
  <2>4. launch.w \in LcWindows => launch.w # w
    BY <1>a DEF Alone, LaunchAlone
  <2> QED
    BY <1>a, <2>1, <2>2, <2>3, <2>4, BindingMoves
<1>c. ASSUME NEW w \in LcWindows, disc[w].t # NoTopic, disc'[w].t # NoTopic
      PROVE  bnd'[disc[w].t] # NoWin /\ win'[bnd'[disc[w].t]] = "gone"
  <2> DEFINE p == disc[w].t
  <2>1. /\ p \in LcTopics /\ p # launch.t /\ p # down.t
        /\ bnd[p] \in LcWindows /\ win[bnd[p]] = "gone" /\ top[p] # "new"
    BY <1>c DEF Alone, AdoptionAlone, LcTypes, LifecycleTypeOK, BindingsAreBorn
  <2>2. ASSUME NEW t \in LcTopics, NEW x, Moved(t, x), t # p PROVE bnd'[p] = bnd[p]
    BY <2>1, <2>2 DEF Moved
  <2>3. \A x \in LcWindows : disc[x].t = p => x = w
    BY <1>c DEF Alone, AdoptionAlone
  <2>4. ASSUME NEW t \in LcTopics, \A x \in LcWindows : disc[x].t # t PROVE t # p
    BY <2>4
  <2>5. bnd'[p] = bnd[p]
    BY <1>c, <2>1, <2>2, <2>3, <2>4, BindingMoves
  <2> QED
    BY <2>1, <2>5 DEF Older
<1>o. ASSUME launch'.t \in {launch.t, NoTopic}, down'.t \in {down.t, NoTopic},
             \A w \in LcWindows :
               \/ disc'[w] = disc[w]
               \/ /\ disc'[w].t = NoTopic /\ disc'[w].stage # "probe"
                  /\ disc[w].stage # "idle" \/ disc'[w].stage = "idle" \/ Unshown(w)'
      PROVE  AdoptionAlone'
  BY <1>o, <1>a, <1>c DEF Alone, AdoptionAlone
<1> HIDE DEF Served
<1>1. CASE BeginReopen
  BY <1>1, <1>o DEF BeginReopen, NoLaunch, NoTeardown, LcTypes, LifecycleTypeOK
<1>2. CASE CreateFails
  BY <1>2, <1>o DEF CreateFails, NoLaunch, NoTeardown, LcTypes, LifecycleTypeOK
<1>3. CASE WindowCreated
  BY <1>3, <1>o DEF WindowCreated, NoLaunch, NoTeardown, LcTypes, LifecycleTypeOK
<1>4. CASE LaunchRegistered
  BY <1>4, <1>o DEF LaunchRegistered, NoLaunch, NoTeardown, LcTypes, LifecycleTypeOK
<1>5. CASE LaunchFails
  BY <1>5, <1>o DEF LaunchFails, NoLaunch, NoTeardown, LcTypes, LifecycleTypeOK
<1>6. CASE EndTeardown
  BY <1>6, <1>o DEF EndTeardown, NoLaunch, NoTeardown, LcTypes, LifecycleTypeOK
<1>7. CASE CheckUnboundTTL
  BY <1>7, <1>o DEF CheckUnboundTTL, NoLaunch, NoTeardown, LcTypes, LifecycleTypeOK
<1>8. CASE ReconcileOffers
  BY <1>8, <1>o DEF ReconcileOffers, NoLaunch, NoTeardown, LcTypes, LifecycleTypeOK
<1>9. CASE RestartLifecycle
  <2>1. launch'.t = NoTopic /\ down'.t = NoTopic
    BY <1>9 DEF RestartLifecycle, NoLaunch, NoTeardown
  <2>2. \A w \in LcWindows : disc'[w].t = NoTopic /\ disc'[w].stage = "idle"
    BY <1>9 DEF RestartLifecycle, NoHolder
  <2> QED
    BY <2>1, <2>2, <1>o
<1>10. ASSUME NEW u \in LcUsers, BindLaunched(u)
      PROVE  AdoptionAlone'
  BY <1>10, <1>o DEF BindLaunched, NoLaunch, NoTeardown, LcTypes, LifecycleTypeOK
<1>11. ASSUME NEW u \in LcUsers, OpenReopened(u)
      PROVE  AdoptionAlone'
  <2>1. /\ UNCHANGED <<down, bnd>> /\ launch'.t = NoTopic
        /\ launch.w \in LcWindows /\ launch.stage = "wiring"
    BY <1>11 DEF OpenReopened, NoLaunch, lcBind, LcTypes, LifecycleTypeOK, LaunchTypeOK
  <2>2. \A t \in LcTopics : bnd'[t] # launch.w
    BY <2>1 DEF Alone, LaunchAlone, Unshown
  <2>3. /\ \A x \in LcWindows \ {launch.w} : disc'[x] = disc[x]
        /\ disc'[launch.w].stage = "detect" /\ disc'[launch.w].t = NoTopic
    BY <1>11, <2>1 DEF OpenReopened, LcTypes, LifecycleTypeOK
  <2> QED
    BY <2>1, <2>2, <2>3, <1>o DEF Unshown
<1>12. ASSUME NEW t \in LcTopics, UserOpensTopic(t)
      PROVE  AdoptionAlone'
  BY <1>12, <1>o DEF UserOpensTopic, NoLaunch, NoTeardown, LcTypes, LifecycleTypeOK
<1>13. ASSUME NEW t \in LcTopics, UserDeletesTopic(t)
      PROVE  AdoptionAlone'
  BY <1>13, <1>o DEF UserDeletesTopic, NoLaunch, NoTeardown, LcTypes, LifecycleTypeOK
<1>14. ASSUME NEW t \in LcTopics, NEW kind \in TeardownKinds, StartTeardown(kind, t)
      PROVE  AdoptionAlone'
  <2>1. down'.t = t /\ UNCHANGED <<disc, launch>>
        /\ \A w \in LcWindows : disc[w].t # t
    BY <1>14, <1>h DEF StartTeardown
  <2> QED
    BY <2>1, <1>a, <1>c DEF Alone, AdoptionAlone
<1>15. ASSUME NEW t \in LcTopics, NEW kind \in {"new", "recover", "resume"},
             BeginLaunch(t, kind)
      PROVE  AdoptionAlone'
  <2>1. launch'.t = t /\ UNCHANGED <<disc, down>>
        /\ \A w \in LcWindows : disc[w].t # t
    BY <1>15, <1>h DEF BeginLaunch
  <2> QED
    BY <2>1, <1>a, <1>c DEF Alone, AdoptionAlone
<1>16. ASSUME NEW w \in LcWindows, NEW t \in LcTopics, ProbeSameName(w, t)
      PROVE  AdoptionAlone'
  <2>1. /\ UNCHANGED <<bnd, win, launch, down>> /\ disc[w].stage = "detect"
        /\ bnd[t] # NoWin /\ win[bnd[t]] = "gone"
    BY <1>16 DEF ProbeSameName, lcBind
  <2>2. t # launch.t /\ t # down.t /\ \A x \in LcWindows : disc[x].t # t
    BY <1>16, <1>h DEF ProbeSameName
  <2>3. /\ disc'[w].stage = "probe" /\ disc'[w].t = t /\ t # NoTopic
        /\ \A x \in LcWindows \ {w} : disc'[x] = disc[x]
    BY <1>16, HoldsEffect DEF ProbeSameName
  <2>4. \A x \in LcWindows : disc'[x].stage # "idle" => Unshown(x)'
    BY <2>1, <2>3, <1>a
  <2>5. \A x \in LcWindows : disc'[x].stage = "probe" <=> disc'[x].t # NoTopic
    BY <2>3 DEF Alone, AdoptionAlone
  <2>6. \A x \in LcWindows : disc'[x].t # NoTopic =>
          /\ disc'[x].t # launch'.t /\ disc'[x].t # down'.t
          /\ bnd'[disc'[x].t] # NoWin /\ win'[bnd'[disc'[x].t]] = "gone"
    BY <2>1, <2>2, <2>3 DEF Alone, AdoptionAlone
  <2>7. \A y, x \in LcWindows :
          disc'[y].t # NoTopic /\ disc'[x].t = disc'[y].t => x = y
    BY <2>2, <2>3 DEF Alone, AdoptionAlone
  <2> QED
    BY <2>4, <2>5, <2>6, <2>7 DEF AdoptionAlone
<1>17. ASSUME NEW t \in LcTopics, NEW w \in LcWindows, NEW u \in LcUsers,
             PickWindow(t, w, u)
      PROVE  AdoptionAlone'
  BY <1>17, <1>o DEF PickWindow, NoLaunch, NoTeardown, LcTypes, LifecycleTypeOK
<1>18. ASSUME NEW t \in LcTopics, NEW w \in LcWindows, NEW u \in LcUsers,
             PickLive(t, w, u)
      PROVE  AdoptionAlone'
  BY <1>18, <1>o DEF PickLive, NoLaunch, NoTeardown, LcTypes, LifecycleTypeOK
<1>19. ASSUME NEW w \in LcWindows, SpawnWindow(w)
      PROVE  AdoptionAlone'
  BY <1>19, <1>o DEF SpawnWindow, NoLaunch, NoTeardown, LcTypes, LifecycleTypeOK
<1>20. ASSUME NEW w \in LcWindows, GuardLapses(w)
      PROVE  AdoptionAlone'
  BY <1>20, <1>o DEF GuardLapses, NoLaunch, NoTeardown, LcTypes, LifecycleTypeOK
<1>21. ASSUME NEW w \in LcWindows, Discover(w)
      PROVE  AdoptionAlone'
  <2>1. /\ disc'[w].stage = "detect" /\ disc'[w].t = NoTopic
        /\ \A x \in LcWindows \ {w} : disc'[x] = disc[x]
    BY <1>21, HoldsEffect DEF Discover
  <2>2. UNCHANGED <<launch, down>> /\ Unshown(w)'
    BY <1>21, UnshownIsUnbound DEF Discover, lcBind, Unshown
  <2> QED
    BY <2>1, <2>2, <1>o
<1>22. ASSUME NEW w \in LcWindows, ProbeAnswered(w)
      PROVE  AdoptionAlone'
  <2>1. /\ \A x \in LcWindows \ {w} : disc'[x] = disc[x]
        /\ disc'[w].t = NoTopic /\ disc'[w].stage # "probe"
    BY <1>22, HoldsEffect, ReleaseEffect DEF ProbeAnswered, NoHolder
  <2>2. disc[w].stage # "idle" /\ UNCHANGED <<launch, down>>
    BY <1>22 DEF ProbeAnswered
  <2> QED
    BY <2>1, <2>2, <1>o
<1>23. ASSUME NEW w \in LcWindows, RequestTopic(w)
      PROVE  AdoptionAlone'
  <2>1. /\ \A x \in LcWindows \ {w} : disc'[x] = disc[x]
        /\ disc'[w].t = NoTopic /\ disc'[w].stage # "probe"
    BY <1>23, RequestEffect DEF RequestTopic, NoHolder
  <2>2. disc[w].stage # "idle" /\ UNCHANGED <<launch, down>>
    BY <1>23 DEF RequestTopic
  <2> QED
    BY <2>1, <2>2, <1>o
<1>24. ASSUME NEW w \in LcWindows, TopicCreated(w)
      PROVE  AdoptionAlone'
  <2>1. /\ \A x \in LcWindows \ {w} : disc'[x] = disc[x]
        /\ disc'[w].t = NoTopic /\ disc'[w].stage # "probe"
    BY <1>24, ReleaseEffect DEF TopicCreated, CreationFailed, NoHolder
  <2>2. disc[w].stage # "idle" /\ UNCHANGED <<launch, down>>
    BY <1>24 DEF TopicCreated
  <2> QED
    BY <2>1, <2>2, <1>o
<1>25. ASSUME NEW w \in LcWindows, Announce(w)
      PROVE  AdoptionAlone'
  <2>1. /\ \A x \in LcWindows \ {w} : disc'[x] = disc[x]
        /\ disc'[w].t = NoTopic /\ disc'[w].stage # "probe"
    BY <1>25, ReleaseEffect DEF Announce, NoHolder
  <2>2. disc[w].stage # "idle" /\ UNCHANGED <<launch, down>>
    BY <1>25 DEF Announce
  <2> QED
    BY <2>1, <2>2, <1>o
<1>26. ASSUME NEW w \in LcWindows, HideOffer(w)
      PROVE  AdoptionAlone'
  BY <1>26, <1>o DEF HideOffer, NoLaunch, NoTeardown, LcTypes, LifecycleTypeOK
<1>27. ASSUME NEW w \in LcWindows, UserOpensWindow(w)
      PROVE  AdoptionAlone'
  BY <1>27, <1>o DEF UserOpensWindow, NoLaunch, NoTeardown, LcTypes, LifecycleTypeOK
<1>28. ASSUME NEW w \in LcWindows, WindowDies(w)
      PROVE  AdoptionAlone'
  BY <1>28, <1>o DEF WindowDies, NoLaunch, NoTeardown, LcTypes, LifecycleTypeOK
<1>29. ASSUME NEW w \in LcWindows, SweepKill(w)
      PROVE  AdoptionAlone'
  BY <1>29, <1>o DEF SweepKill, NoLaunch, NoTeardown, LcTypes, LifecycleTypeOK
<1>30. ASSUME NEW u \in LcUsers, NEW w \in LcWindows, PressOpen(u, w)
      PROVE  AdoptionAlone'
  BY <1>30, <1>o DEF PressOpen, NoLaunch, NoTeardown, LcTypes, LifecycleTypeOK
<1>31. ASSUME NEW u \in LcUsers, NEW w \in LcWindows, OpenOffer(u, w)
      PROVE  AdoptionAlone'
  <2>1. UNCHANGED <<launch, down, bnd>> /\ Unshown(w)
    BY <1>31 DEF OpenOffer, lcBind, Alone, WaitingAlone
  <2>2. /\ \A x \in LcWindows \ {w} : disc'[x] = disc[x]
        /\ disc'[w] = disc[w] \/ (disc'[w].stage = "detect" /\ disc'[w].t = NoTopic)
    BY <1>31 DEF OpenOffer, LcTypes, LifecycleTypeOK
  <2>3. Unshown(w)'
    BY <2>1 DEF Unshown
  <2> QED
    BY <2>1, <2>2, <2>3, <1>o
<1>32. CASE UNCHANGED lcVars
  BY <1>32, <1>o DEF lcVars
<1> QED
  BY <1>1, <1>2, <1>3, <1>4, <1>5, <1>6, <1>7, <1>8, <1>9, <1>10, <1>11,
     <1>12, <1>13, <1>14, <1>15, <1>16, <1>17, <1>18, <1>19, <1>20, <1>21,
     <1>22, <1>23, <1>24, <1>25, <1>26, <1>27, <1>28, <1>29, <1>30, <1>31,
     <1>32, TeardownStarts DEF LifecycleNext

LEMMA LaunchStep ==
  ASSUME Orderly, LcTypes, LcTypes', LocksAreBorn, BindingsAreBorn, LaunchHeld,
         Alone, [LifecycleNext]_lcVars
  PROVE  LaunchAlone'
<1> USE LifecycleAssumption
<1>h. \A h, c : h \in {"openDuringAdopt", "takenOver", "unguardedRecovery",
                  "pickDuringAdopt", "changesHands"} /\ May(h, c) => c
  BY DEF Orderly, May
<1>n. launch # NoLaunch => ~Served /\ \A w \in LcWindows : waiting[w] = {}
  BY ServedAlone DEF Alone, WaitingAlone
<1>i. launch'.w = NoWin /\ launch'.t = NoTopic => LaunchAlone'
  BY DEF LaunchAlone
<1>m. ASSUME launch.w # NoWin, launch.stage # "registering",
             launch'.stage \in {"creating", "wiring"}
      PROVE  \A t \in LcTopics : bnd'[t] # launch.w
  <2>1. /\ launch # NoLaunch /\ launch' # NoLaunch /\ disc[launch.w].stage = "idle"
        /\ Unshown(launch.w)
    BY <1>m DEF NoLaunch, Alone, LaunchAlone
  <2>2. ASSUME NEW s \in LcTopics, NEW x, Moved(s, x), x # launch.w
        PROVE  \A t \in LcTopics : bnd'[t] # launch.w
    BY <2>1, <2>2 DEF Moved, Unshown
  <2>3. bnd' = bnd => \A t \in LcTopics : bnd'[t] # launch.w
    BY <2>1 DEF Unshown
  <2> QED
    BY <1>m, <1>n, <2>1, <2>2, <2>3, BindingMoves
<1>t. ASSUME launch.t # NoTopic PROVE bnd'[launch.t] \in {NoWin, launch.w}
  <2> DEFINE p == launch.t
  <2>1. /\ p \in LcTopics /\ p # down.t /\ bnd[p] \in {NoWin, launch.w}
        /\ top[p] # "new" /\ launch # NoLaunch
        /\ \A w \in LcWindows : disc[w].t # p
    BY <1>t DEF Alone, LaunchAlone, AdoptionAlone, LcTypes, LifecycleTypeOK,
       BindingsAreBorn, NoLaunch
  <2>2. ASSUME NEW t \in LcTopics, NEW x, Moved(t, x), t # p \/ x \in {NoWin, launch.w}
        PROVE  bnd'[p] \in {NoWin, launch.w}
    BY <2>1, <2>2 DEF Moved
  <2> QED
    BY <1>n, <2>1, <2>2, BindingMoves
<1>o. ASSUME UNCHANGED launch, down'.t \in {down.t, NoTopic},
             launch.w # NoWin => disc'[launch.w].stage = "idle"
      PROVE  LaunchAlone'
  <2>1. launch.w # NoWin => launch.stage # "idle"
    BY DEF LcTypes, LaunchTypeOK, NoLaunch
  <2>2. launch.w # NoWin /\ launch.stage # "registering" => Unshown(launch.w)'
    BY <1>o, <1>m, <2>1 DEF Unshown, LcTypes, LifecycleTypeOK
  <2>3. launch.t # NoTopic => launch.t # down'.t
    BY <1>o DEF Alone, LaunchAlone
  <2> QED
    BY <1>o, <1>t, <2>2, <2>3 DEF LaunchAlone
<1>w. ASSUME NEW w \in LcWindows, \A x \in LcWindows \ {w} : disc'[x] = disc[x],
             UNCHANGED <<launch, down>>, launch.w # w
      PROVE  LaunchAlone'
  <2>1. launch.w # NoWin => disc'[launch.w].stage = "idle"
    BY <1>w DEF Alone, LaunchAlone, LcTypes, LifecycleTypeOK
  <2> QED
    BY <1>w, <2>1, <1>o
<1>d. UNCHANGED <<launch, down, disc>> => LaunchAlone'
  <2>1. launch.w # NoWin => disc[launch.w].stage = "idle"
    BY DEF Alone, LaunchAlone
  <2> QED
    BY <2>1, <1>o
<1> HIDE DEF Served
<1>1. CASE BeginReopen
  BY <1>1, <1>i DEF BeginReopen, NoLaunch
<1>2. CASE CreateFails
  BY <1>2, <1>i DEF CreateFails, NoLaunch
<1>3. CASE WindowCreated
  <2>1. UNCHANGED <<down, disc, bnd>> /\ launch.stage = "creating"
    BY <1>3 DEF WindowCreated, lcBind
  <2>2. launch'.w = launch.w /\ launch'.t = launch.t
    BY <1>3 DEF WindowCreated, LcTypes, LifecycleTypeOK
  <2> QED
    BY <2>1, <2>2 DEF Alone, LaunchAlone, Unshown
<1>4. CASE LaunchRegistered
  BY <1>4, <1>i DEF LaunchRegistered, NoLaunch
<1>5. CASE LaunchFails
  BY <1>5, <1>i DEF LaunchFails, NoLaunch
<1>6. CASE EndTeardown
  <2>1. down'.t = NoTopic /\ UNCHANGED <<launch, disc>>
    BY <1>6 DEF EndTeardown, NoTeardown
  <2>2. launch.w # NoWin => disc'[launch.w].stage = "idle"
    BY <2>1 DEF Alone, LaunchAlone
  <2> QED
    BY <2>1, <2>2, <1>o
<1>7. CASE CheckUnboundTTL
  BY <1>7, <1>d DEF CheckUnboundTTL
<1>8. CASE ReconcileOffers
  BY <1>8, <1>d DEF ReconcileOffers
<1>9. CASE RestartLifecycle
  BY <1>9, <1>i DEF RestartLifecycle, NoLaunch
<1>10. ASSUME NEW u \in LcUsers, BindLaunched(u)
      PROVE  LaunchAlone'
  <2>1. CASE launch.kind = "new"
    <3>1. /\ launch'.w = launch.w /\ launch'.t = launch.t
          /\ launch'.stage = "registering"
      BY <1>10, <2>1 DEF BindLaunched, LcTypes, LifecycleTypeOK
    <3>2. UNCHANGED <<down, disc>>
      BY <1>10 DEF BindLaunched
    <3> QED
      BY <3>1, <3>2, <1>t DEF Alone, LaunchAlone
  <2>2. CASE launch.kind # "new"
    BY <1>10, <2>2, <1>i DEF BindLaunched, NoLaunch
  <2> QED
    BY <2>1, <2>2
<1>11. ASSUME NEW u \in LcUsers, OpenReopened(u)
      PROVE  LaunchAlone'
  BY <1>11, <1>i DEF OpenReopened, NoLaunch
<1>12. ASSUME NEW t \in LcTopics, UserOpensTopic(t)
      PROVE  LaunchAlone'
  BY <1>12, <1>d DEF UserOpensTopic
<1>13. ASSUME NEW t \in LcTopics, UserDeletesTopic(t)
      PROVE  LaunchAlone'
  BY <1>13, <1>d DEF UserDeletesTopic
<1>14. ASSUME NEW t \in LcTopics, NEW kind \in TeardownKinds, StartTeardown(kind, t)
      PROVE  LaunchAlone'
  <2>1. down'.t = t /\ launch.t # t /\ UNCHANGED <<launch, disc, bnd>>
    BY <1>14 DEF StartTeardown, lcBind
  <2> QED
    BY <2>1 DEF Alone, LaunchAlone, Unshown
<1>15. ASSUME NEW t \in LcTopics, NEW kind \in {"new", "recover", "resume"},
             BeginLaunch(t, kind)
      PROVE  LaunchAlone'
  <2>1. Moved(t, NoWin)
    BY <1>15, UnbindMoves DEF BeginLaunch
  <2>2. launch'.t = t /\ launch'.w = NoWin /\ down' = down /\ down.t # t
    BY <1>15, <1>h DEF BeginLaunch
  <2> QED
    BY <2>1, <2>2 DEF LaunchAlone, Moved
<1>16. ASSUME NEW w \in LcWindows, NEW t \in LcTopics, ProbeSameName(w, t)
      PROVE  LaunchAlone'
  <2>1. \A x \in LcWindows \ {w} : disc'[x] = disc[x]
    BY <1>16, HoldsEffect DEF ProbeSameName
  <2>2. UNCHANGED <<launch, down>> /\ launch.w # w
    BY <1>16 DEF ProbeSameName, Alone, LaunchAlone
  <2> QED
    BY <2>1, <2>2, <1>w
<1>17. ASSUME NEW t \in LcTopics, NEW w \in LcWindows, NEW u \in LcUsers,
             PickWindow(t, w, u)
      PROVE  LaunchAlone'
  BY <1>17, <1>d DEF PickWindow
<1>18. ASSUME NEW t \in LcTopics, NEW w \in LcWindows, NEW u \in LcUsers,
             PickLive(t, w, u)
      PROVE  LaunchAlone'
  BY <1>18, <1>d DEF PickLive
<1>19. ASSUME NEW w \in LcWindows, SpawnWindow(w)
      PROVE  LaunchAlone'
  <2>1. /\ UNCHANGED <<down, disc, bnd>> /\ win[w] = "unborn"
        /\ launch.w = NoWin /\ launch.stage = "creating"
    BY <1>19 DEF SpawnWindow, lcBind
  <2>2. launch'.w = w /\ launch'.t = launch.t
    BY <1>19 DEF SpawnWindow, LcTypes, LifecycleTypeOK
  <2>3. disc[w].stage = "idle" /\ Unshown(w)
    BY <2>1 DEF LocksAreBorn, BindingsAreBorn, Born, Unshown
  <2>4. launch.t # NoTopic => launch.t # down.t /\ bnd[launch.t] = NoWin
    BY <2>1 DEF Alone, LaunchAlone
  <2> QED
    BY <2>1, <2>2, <2>3, <2>4 DEF LaunchAlone, Unshown
<1>20. ASSUME NEW w \in LcWindows, GuardLapses(w)
      PROVE  LaunchAlone'
  BY <1>20, <1>d DEF GuardLapses
<1>21. ASSUME NEW w \in LcWindows, Discover(w)
      PROVE  LaunchAlone'
  <2>1. \A x \in LcWindows \ {w} : disc'[x] = disc[x]
    BY <1>21, HoldsEffect DEF Discover
  <2>2. UNCHANGED <<launch, down>> /\ ~PendingCreation(w)
        /\ (launch.w # w \/ launch.kind # "recover")
    BY <1>21, <1>h DEF Discover
  <2>3. launch.w # w
    BY <2>2 DEF PendingCreation, LaunchHeld, LcTypes, LifecycleTypeOK,
       LaunchTypeOK, NoLaunch
  <2> QED
    BY <2>1, <2>2, <2>3, <1>w
<1>22. ASSUME NEW w \in LcWindows, ProbeAnswered(w)
      PROVE  LaunchAlone'
  <2>1. \A x \in LcWindows \ {w} : disc'[x] = disc[x]
    BY <1>22, HoldsEffect, ReleaseEffect DEF ProbeAnswered
  <2>2. UNCHANGED <<launch, down>> /\ launch.w # w
    BY <1>22 DEF ProbeAnswered, Alone, LaunchAlone
  <2> QED
    BY <2>1, <2>2, <1>w
<1>23. ASSUME NEW w \in LcWindows, RequestTopic(w)
      PROVE  LaunchAlone'
  <2>1. \A x \in LcWindows \ {w} : disc'[x] = disc[x]
    BY <1>23, RequestEffect DEF RequestTopic
  <2>2. UNCHANGED <<launch, down>> /\ launch.w # w
    BY <1>23 DEF RequestTopic, Alone, LaunchAlone
  <2> QED
    BY <2>1, <2>2, <1>w
<1>24. ASSUME NEW w \in LcWindows, TopicCreated(w)
      PROVE  LaunchAlone'
  <2>1. \A x \in LcWindows \ {w} : disc'[x] = disc[x]
    BY <1>24, ReleaseEffect DEF TopicCreated, CreationFailed
  <2>2. UNCHANGED <<launch, down>> /\ launch.w # w
    BY <1>24 DEF TopicCreated, Alone, LaunchAlone
  <2> QED
    BY <2>1, <2>2, <1>w
<1>25. ASSUME NEW w \in LcWindows, Announce(w)
      PROVE  LaunchAlone'
  <2>1. \A x \in LcWindows \ {w} : disc'[x] = disc[x]
    BY <1>25, ReleaseEffect DEF Announce
  <2>2. UNCHANGED <<launch, down>> /\ launch.w # w
    BY <1>25 DEF Announce, Alone, LaunchAlone
  <2> QED
    BY <2>1, <2>2, <1>w
<1>26. ASSUME NEW w \in LcWindows, HideOffer(w)
      PROVE  LaunchAlone'
  BY <1>26, <1>d DEF HideOffer
<1>27. ASSUME NEW w \in LcWindows, UserOpensWindow(w)
      PROVE  LaunchAlone'
  BY <1>27, <1>d DEF UserOpensWindow
<1>28. ASSUME NEW w \in LcWindows, WindowDies(w)
      PROVE  LaunchAlone'
  BY <1>28, <1>d DEF WindowDies
<1>29. ASSUME NEW w \in LcWindows, SweepKill(w)
      PROVE  LaunchAlone'
  BY <1>29, <1>d DEF SweepKill
<1>30. ASSUME NEW u \in LcUsers, NEW w \in LcWindows, PressOpen(u, w)
      PROVE  LaunchAlone'
  BY <1>30, <1>d DEF PressOpen
<1>31. ASSUME NEW u \in LcUsers, NEW w \in LcWindows, OpenOffer(u, w)
      PROVE  LaunchAlone'
  <2>1. \A x \in LcWindows \ {w} : disc'[x] = disc[x]
    BY <1>31 DEF OpenOffer, LcTypes, LifecycleTypeOK
  <2>2. UNCHANGED <<launch, down>> /\ launch = NoLaunch
    BY <1>31, <1>n DEF OpenOffer
  <2> QED
    BY <2>1, <2>2, <1>w DEF NoLaunch
<1>32. CASE UNCHANGED lcVars
  BY <1>32, <1>d DEF lcVars
<1> QED
  BY <1>1, <1>2, <1>3, <1>4, <1>5, <1>6, <1>7, <1>8, <1>9, <1>10, <1>11,
     <1>12, <1>13, <1>14, <1>15, <1>16, <1>17, <1>18, <1>19, <1>20, <1>21,
     <1>22, <1>23, <1>24, <1>25, <1>26, <1>27, <1>28, <1>29, <1>30, <1>31,
     <1>32, TeardownStarts DEF LifecycleNext

LEMMA TeardownStep ==
  ASSUME Orderly, LcTypes, LcTypes', BindingsAreBorn, Alone,
         [LifecycleNext]_lcVars
  PROVE  TeardownAlone'
<1> USE LifecycleAssumption
<1>o. ASSUME down' = down, down # NoTeardown PROVE bnd'[down.t] \in {NoWin, down.w}
  <2> DEFINE p == down.t
  <2>1. /\ p \in LcTopics /\ bnd[p] \in {NoWin, down.w} /\ top[p] # "new"
        /\ p # NoTopic /\ launch.t # p /\ \A w \in LcWindows : disc[w].t # p
    BY <1>o DEF Alone, LaunchAlone, AdoptionAlone, TeardownAlone, LcTypes,
       LifecycleTypeOK, BindingsAreBorn
  <2>2. ASSUME NEW t \in LcTopics, NEW x, Moved(t, x), t # p \/ x = NoWin
        PROVE  bnd'[p] \in {NoWin, down.w}
    BY <2>1, <2>2 DEF Moved
  <2>3. bnd' = bnd => bnd'[p] \in {NoWin, down.w}
    BY <2>1
  <2> QED
    BY <2>1, <2>2, <2>3, BindingMoves
<1>u. down' = down => TeardownAlone'
  BY <1>o DEF TeardownAlone
<1>z. down' = NoTeardown => TeardownAlone'
  BY DEF TeardownAlone
<1>1. CASE BeginReopen
  BY <1>1, <1>u DEF BeginReopen
<1>2. CASE CreateFails
  BY <1>2, <1>u DEF CreateFails
<1>3. CASE WindowCreated
  BY <1>3, <1>u DEF WindowCreated
<1>4. CASE LaunchRegistered
  BY <1>4, <1>u DEF LaunchRegistered
<1>5. CASE LaunchFails
  BY <1>5, <1>u DEF LaunchFails
<1>6. CASE EndTeardown
  BY <1>6, <1>z DEF EndTeardown
<1>7. CASE CheckUnboundTTL
  BY <1>7, <1>u DEF CheckUnboundTTL
<1>8. CASE ReconcileOffers
  BY <1>8, <1>u DEF ReconcileOffers
<1>9. CASE RestartLifecycle
  BY <1>9, <1>z DEF RestartLifecycle
<1>10. ASSUME NEW u \in LcUsers, BindLaunched(u)
      PROVE  TeardownAlone'
  BY <1>10, <1>u DEF BindLaunched
<1>11. ASSUME NEW u \in LcUsers, OpenReopened(u)
      PROVE  TeardownAlone'
  BY <1>11, <1>u DEF OpenReopened
<1>12. ASSUME NEW t \in LcTopics, UserOpensTopic(t)
      PROVE  TeardownAlone'
  BY <1>12, <1>u DEF UserOpensTopic
<1>13. ASSUME NEW t \in LcTopics, UserDeletesTopic(t)
      PROVE  TeardownAlone'
  BY <1>13, <1>u DEF UserDeletesTopic
<1>14. ASSUME NEW t \in LcTopics, NEW kind \in TeardownKinds, StartTeardown(kind, t)
      PROVE  TeardownAlone'
  <2>1. down'.t = t /\ down'.w = bnd[t] /\ bnd' = bnd
    BY <1>14 DEF StartTeardown, lcBind
  <2> QED
    BY <2>1 DEF TeardownAlone
<1>15. ASSUME NEW t \in LcTopics, NEW kind \in {"new", "recover", "resume"},
             BeginLaunch(t, kind)
      PROVE  TeardownAlone'
  BY <1>15, <1>u DEF BeginLaunch
<1>16. ASSUME NEW w \in LcWindows, NEW t \in LcTopics, ProbeSameName(w, t)
      PROVE  TeardownAlone'
  BY <1>16, <1>u DEF ProbeSameName
<1>17. ASSUME NEW t \in LcTopics, NEW w \in LcWindows, NEW u \in LcUsers,
             PickWindow(t, w, u)
      PROVE  TeardownAlone'
  BY <1>17, <1>u DEF PickWindow
<1>18. ASSUME NEW t \in LcTopics, NEW w \in LcWindows, NEW u \in LcUsers,
             PickLive(t, w, u)
      PROVE  TeardownAlone'
  BY <1>18, <1>u DEF PickLive
<1>19. ASSUME NEW w \in LcWindows, SpawnWindow(w)
      PROVE  TeardownAlone'
  BY <1>19, <1>u DEF SpawnWindow
<1>20. ASSUME NEW w \in LcWindows, GuardLapses(w)
      PROVE  TeardownAlone'
  BY <1>20, <1>u DEF GuardLapses
<1>21. ASSUME NEW w \in LcWindows, Discover(w)
      PROVE  TeardownAlone'
  BY <1>21, <1>u DEF Discover
<1>22. ASSUME NEW w \in LcWindows, ProbeAnswered(w)
      PROVE  TeardownAlone'
  BY <1>22, <1>u DEF ProbeAnswered
<1>23. ASSUME NEW w \in LcWindows, RequestTopic(w)
      PROVE  TeardownAlone'
  BY <1>23, <1>u DEF RequestTopic
<1>24. ASSUME NEW w \in LcWindows, TopicCreated(w)
      PROVE  TeardownAlone'
  BY <1>24, <1>u DEF TopicCreated
<1>25. ASSUME NEW w \in LcWindows, Announce(w)
      PROVE  TeardownAlone'
  BY <1>25, <1>u DEF Announce
<1>26. ASSUME NEW w \in LcWindows, HideOffer(w)
      PROVE  TeardownAlone'
  BY <1>26, <1>u DEF HideOffer
<1>27. ASSUME NEW w \in LcWindows, UserOpensWindow(w)
      PROVE  TeardownAlone'
  BY <1>27, <1>u DEF UserOpensWindow
<1>28. ASSUME NEW w \in LcWindows, WindowDies(w)
      PROVE  TeardownAlone'
  BY <1>28, <1>u DEF WindowDies
<1>29. ASSUME NEW w \in LcWindows, SweepKill(w)
      PROVE  TeardownAlone'
  BY <1>29, <1>u DEF SweepKill
<1>30. ASSUME NEW u \in LcUsers, NEW w \in LcWindows, PressOpen(u, w)
      PROVE  TeardownAlone'
  BY <1>30, <1>u DEF PressOpen
<1>31. ASSUME NEW u \in LcUsers, NEW w \in LcWindows, OpenOffer(u, w)
      PROVE  TeardownAlone'
  BY <1>31, <1>u DEF OpenOffer
<1>32. CASE UNCHANGED lcVars
  BY <1>32, <1>u DEF lcVars
<1> QED
  BY <1>1, <1>2, <1>3, <1>4, <1>5, <1>6, <1>7, <1>8, <1>9, <1>10, <1>11,
     <1>12, <1>13, <1>14, <1>15, <1>16, <1>17, <1>18, <1>19, <1>20, <1>21,
     <1>22, <1>23, <1>24, <1>25, <1>26, <1>27, <1>28, <1>29, <1>30, <1>31,
     <1>32, TeardownStarts DEF LifecycleNext

(* The moves of the users are counted *)
LEMMA MovesStep == moves \in Nat /\ [LifecycleNext]_lcVars => moves' \in Nat
<1> SUFFICES ASSUME moves \in Nat, [LifecycleNext]_lcVars PROVE moves' \in Nat
  OBVIOUS
<1>m. Move => moves' \in Nat
  BY DEF Move
<1>s. Still => moves' \in Nat
  BY DEF Still
<1>1. CASE BeginReopen
  BY <1>1, <1>m DEF BeginReopen, Served
<1>2. CASE CreateFails
  BY <1>2, <1>s DEF CreateFails
<1>3. CASE WindowCreated
  BY <1>3, <1>s DEF WindowCreated
<1>4. CASE LaunchRegistered
  BY <1>4, <1>s DEF LaunchRegistered
<1>5. CASE LaunchFails
  BY <1>5, <1>s DEF LaunchFails
<1>6. CASE EndTeardown
  BY <1>6, <1>s DEF EndTeardown
<1>7. CASE CheckUnboundTTL
  BY <1>7, <1>s DEF CheckUnboundTTL
<1>8. CASE ReconcileOffers
  BY <1>8, <1>s DEF ReconcileOffers
<1>9. CASE RestartLifecycle
  BY <1>9 DEF RestartLifecycle
<1>10. ASSUME NEW u \in LcUsers, BindLaunched(u) PROVE moves' \in Nat
  BY <1>10, <1>s DEF BindLaunched
<1>11. ASSUME NEW u \in LcUsers, OpenReopened(u) PROVE moves' \in Nat
  BY <1>11, <1>s DEF OpenReopened
<1>12. ASSUME NEW t \in LcTopics, UserOpensTopic(t) PROVE moves' \in Nat
  BY <1>12, <1>m DEF UserOpensTopic
<1>13. ASSUME NEW t \in LcTopics, UserDeletesTopic(t) PROVE moves' \in Nat
  BY <1>13, <1>m DEF UserDeletesTopic
<1>14. ASSUME NEW t \in LcTopics, CommandTeardown(t) PROVE moves' \in Nat
  BY <1>14, <1>m DEF CommandTeardown, Served
<1>15. ASSUME NEW t \in LcTopics, ExpireTopic(t) PROVE moves' \in Nat
  BY <1>15, <1>s DEF ExpireTopic
<1>16. ASSUME NEW t \in LcTopics, ProbeDeleted(t) PROVE moves' \in Nat
  BY <1>16, <1>s DEF ProbeDeleted
<1>17. ASSUME NEW t \in LcTopics, RepairGhost(t) PROVE moves' \in Nat
  BY <1>17, <1>s DEF RepairGhost
<1>18. ASSUME NEW t \in LcTopics, NEW kind \in {"new", "recover", "resume"},
             BeginLaunch(t, kind)
      PROVE  moves' \in Nat
  BY <1>18, <1>m DEF BeginLaunch, Served
<1>19. ASSUME NEW w \in LcWindows, NEW t \in LcTopics,
             ProbeSameName(w, t)
      PROVE  moves' \in Nat
  BY <1>19, <1>s DEF ProbeSameName
<1>20. ASSUME NEW t \in LcTopics, NEW w \in LcWindows, NEW u \in LcUsers,
             PickWindow(t, w, u)
      PROVE  moves' \in Nat
  BY <1>20, <1>m DEF PickWindow, Served
<1>21. ASSUME NEW t \in LcTopics, NEW w \in LcWindows, NEW u \in LcUsers,
             PickLive(t, w, u)
      PROVE  moves' \in Nat
  BY <1>21, <1>m DEF PickLive, Served
<1>22. ASSUME NEW w \in LcWindows, SpawnWindow(w) PROVE moves' \in Nat
  BY <1>22, <1>s DEF SpawnWindow
<1>23. ASSUME NEW w \in LcWindows, GuardLapses(w) PROVE moves' \in Nat
  BY <1>23, <1>s DEF GuardLapses
<1>24. ASSUME NEW w \in LcWindows, Discover(w) PROVE moves' \in Nat
  BY <1>24, <1>s DEF Discover
<1>25. ASSUME NEW w \in LcWindows, ProbeAnswered(w) PROVE moves' \in Nat
  BY <1>25, <1>s DEF ProbeAnswered
<1>26. ASSUME NEW w \in LcWindows, RequestTopic(w) PROVE moves' \in Nat
  BY <1>26, <1>s DEF RequestTopic
<1>27. ASSUME NEW w \in LcWindows, TopicCreated(w) PROVE moves' \in Nat
  BY <1>27, <1>s DEF TopicCreated
<1>28. ASSUME NEW w \in LcWindows, Announce(w) PROVE moves' \in Nat
  BY <1>28, <1>s DEF Announce
<1>29. ASSUME NEW w \in LcWindows, HideOffer(w) PROVE moves' \in Nat
  BY <1>29, <1>m DEF HideOffer, Served
<1>30. ASSUME NEW w \in LcWindows, UserOpensWindow(w) PROVE moves' \in Nat
  BY <1>30, <1>m DEF UserOpensWindow
<1>31. ASSUME NEW w \in LcWindows, WindowDies(w) PROVE moves' \in Nat
  BY <1>31, <1>m DEF WindowDies
<1>32. ASSUME NEW w \in LcWindows, SweepKill(w) PROVE moves' \in Nat
  BY <1>32, <1>s DEF SweepKill
<1>33. ASSUME NEW u \in LcUsers, NEW w \in LcWindows,
             PressOpen(u, w)
      PROVE  moves' \in Nat
  BY <1>33, <1>m DEF PressOpen, Served
<1>34. ASSUME NEW u \in LcUsers, NEW w \in LcWindows,
             OpenOffer(u, w)
      PROVE  moves' \in Nat
  BY <1>34, <1>s DEF OpenOffer
<1>35. CASE UNCHANGED lcVars
  BY <1>35 DEF lcVars
<1> QED
  BY <1>1, <1>2, <1>3, <1>4, <1>5, <1>6, <1>7, <1>8, <1>9, <1>10, <1>11,
     <1>12, <1>13, <1>14, <1>15, <1>16, <1>17, <1>18, <1>19, <1>20, <1>21,
     <1>22, <1>23, <1>24, <1>25, <1>26, <1>27, <1>28, <1>29, <1>30, <1>31,
     <1>32, <1>33, <1>34, <1>35 DEF LifecycleNext

(* What a step may do to the topic of a live window *)
LiveTopicStep ==
  \A t \in LcTopics :
    bnd[t] # NoWin /\ Live(bnd[t]) /\ bnd'[t] # bnd[t]
      => \/ lcCrashes' # lcCrashes
         \/ moves' # moves /\ (launch'.t = t \/ bnd'[t] # NoWin)
         \/ down.t = t /\ down.w = bnd[t]
         \/ launch.t = t /\ launch.w = bnd[t] /\ launch.stage # "creating"
LEMMA LiveStep ==
  ASSUME Orderly, LcTypes, BindingsAreBorn, Alone, moves \in Nat,
         [LifecycleNext]_lcVars
  PROVE  LiveTopicStep
<1> SUFFICES ASSUME NEW t \in LcTopics, bnd[t] # NoWin, Live(bnd[t]),
                    bnd'[t] # bnd[t]
             PROVE  \/ moves' # moves /\ (launch'.t = t \/ bnd'[t] # NoWin)
                    \/ down.t = t /\ down.w = bnd[t]
                    \/ launch.t = t /\ launch.w = bnd[t] /\ launch.stage # "creating"
  BY DEF LiveTopicStep
<1> USE LifecycleAssumption
<1>s. Served => moves' # moves
  BY DEF Served, Move
<1>m. \A s \in LcTopics : \A x : Moved(s, x) => s = t /\ bnd'[t] = x
  BY DEF Moved
<1>1. CASE \E s \in LcTopics : Moved(s, NoWin) /\ Served /\ launch'.t = s
  BY <1>1, <1>s, <1>m
<1>2. CASE /\ launch.t \in LcTopics /\ launch.w \in LcWindows
           /\ launch.stage \in {"wiring", "registering"}
           /\ \/ Moved(launch.t, launch.w) /\ launch.stage = "wiring"
              \/ Moved(launch.t, NoWin)
  <2>1. launch.t = t
    BY <1>2, <1>m
  <2>2. bnd[t] = launch.w
    BY <1>2, <2>1 DEF Alone, LaunchAlone
  <2> QED
    BY <1>2, <2>1, <2>2
<1>3. CASE down.t \in LcTopics /\ down # NoTeardown /\ Moved(down.t, NoWin)
  BY <1>3, <1>m DEF Alone, TeardownAlone
<1>4. CASE \E w \in LcWindows, s \in LcTopics :
             (Moved(s, w) \/ Moved(s, NoWin)) /\ disc[w].t = s
  <2>1. \E w \in LcWindows : disc[w].t = t
    BY <1>4, <1>m
  <2> QED
    BY <2>1 DEF Alone, AdoptionAlone, Live
<1>5. CASE \E w \in LcWindows, s \in LcTopics : Moved(s, w) /\ top[s] = "new"
  BY <1>5, <1>m DEF BindingsAreBorn
<1>6. CASE \E w \in LcWindows, s \in LcTopics : Moved(s, w) /\ Served
  BY <1>6, <1>s, <1>m
<1> QED
  BY <1>1, <1>2, <1>3, <1>4, <1>5, <1>6, BindingMoves

(* A topic that shows a live window goes on showing it until its own       *)
(* window is torn down, its own launch fails, or a user asks for another   *)
(* session in it, however launches, discovery, offers, teardowns and       *)
(* restarts interleave, as long as none of the five hazards of Orderly     *)
(* happens (topic_orchestration.py, window_launch_service.py, cleanup.py). *)
THEOREM LiveTopicsAreKept ==
  ASSUME Orderly
  PROVE  LifecycleSpec => LiveTopicKept
<1> DEFINE Inv == LaunchHeld /\ Alone /\ moves \in Nat
<1>1. LifecycleInit => Inv
  BY DEF LifecycleInit, LaunchHeld, Alone, WaitingAlone, AdoptionAlone,
     LaunchAlone, TeardownAlone, NoLaunch, NoHolder, NoTeardown
<1>2. LcCore /\ LcCore' /\ Inv /\ [LifecycleNext]_lcVars => Inv'
  <2> SUFFICES ASSUME LcCore, LcCore', LaunchHeld, Alone, moves \in Nat,
                      [LifecycleNext]_lcVars
               PROVE  Inv'
    OBVIOUS
  <2> USE DEF LcCore
  <2>1. Older
    BY OlderStep
  <2>2. WaitingAlone' /\ AdoptionAlone'
    BY <2>1, WaitingStep, AdoptionStep
  <2>3. LaunchAlone' /\ TeardownAlone'
    BY LaunchStep, TeardownStep
  <2> QED
    BY <2>2, <2>3, LaunchHeldStep, MovesStep DEF Alone
<1>3. LcCore /\ Inv /\ [LifecycleNext]_lcVars
        => [\A t \in LcTopics :
              bnd[t] # NoWin /\ Live(bnd[t]) /\ bnd'[t] # bnd[t]
                => \/ lcCrashes' # lcCrashes
                   \/ moves' # moves /\ (launch'.t = t \/ bnd'[t] # NoWin)
                   \/ down.t = t /\ down.w = bnd[t]
                   \/ launch.t = t /\ launch.w = bnd[t]
                      /\ launch.stage # "creating"]_lcVars
  BY LiveStep DEF LcCore, LiveTopicStep
<1> HIDE DEF Inv
<1> QED
  BY <1>1, <1>2, <1>3, CoreInvariant, PTL
     DEF LifecycleSpec, LiveTopicKept
=============================================================================
