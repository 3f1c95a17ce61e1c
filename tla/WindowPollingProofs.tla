------------------------- MODULE WindowPollingProofs -------------------------
(***************************************************************************)
(* What holds of the status poll for every set of windows and topics and   *)
(* every number of moves and of pushed events.  Each theorem names the     *)
(* hazards it needs absent.  Three threads run through the module: a       *)
(* death that is still to be told has been counted (Told), a done timer    *)
(* of a working window is still to be cleared by this cycle's tick         *)
(* (TicksPending), and a window that may be announced Ready has worked     *)
(* since it last was (WorkedFirst).                                        *)
(***************************************************************************)
EXTENDS WindowPolling, TLAPS

Panes == {"unborn", "busy", "quiet", "prompt", "shell", "gone"}
Statuses == {"working", "blocked", "idle"}
Stages == {"idle", "periodic", "next", "marked", "timed", "read", "decide",
           "painted", "expiry"}
Seen == {"none", "busy", "prompt", "working", "active", "done", "ready", "idle",
         "starting"}
Flags == [seen : BOOLEAN, startup : {"none", "running", "expired"},
          settled : BOOLEAN, announced : BOOLEAN]
InTick == poll.stage \in {"marked", "timed", "read", "decide", "painted"}
InPush == push.stage # "idle"

(* The types, with those of the loop, the call and the events in flight *)
RestTyped ==
  /\ pane \in [PwWindows -> Panes] /\ listed \in [PwWindows -> Panes]
  /\ recent \subseteq PwWindows /\ shows \in [PwTopics -> PwWindows \cup {NoPane}]
  /\ cache \in [PwWindows -> Statuses \cup {"cold"}]
  /\ notified \subseteq PwTopics \X PwWindows
  /\ auto \in [PwTopics -> {"none", "done", "dead"}] /\ due \subseteq PwTopics
  /\ asks \in [PwTopics -> PwWindows \cup {NoPane}]
  /\ bubble \in [PwTopics -> {"none", "working", "ready"}]
  /\ steady \subseteq PwWindows /\ worked \subseteq PwWindows
  /\ native \in {"off", "gap", "authority"} /\ ps \in [PwWindows -> Flags]
  /\ ends \in [PwWindows -> Nat] /\ banners \in [PwWindows -> Nat]
LoopTyped ==
  /\ poll \in [stage : Stages, todo : SUBSET (PwTopics \X PwWindows),
               t : PwTopics \cup {NoPane}, w : PwWindows \cup {NoPane}, saw : Seen]
  /\ InTick => poll.t \in PwTopics /\ poll.w \in PwWindows
CallTyped ==
  /\ push \in [stage : {"idle", "marked", "timed"},
               t : PwTopics \cup {NoPane}, w : PwWindows \cup {NoPane}]
  /\ InPush => push.t \in PwTopics /\ push.w \in PwWindows
Events == PwWindows \X (Statuses \cup {"died"})
PollTypes == RestTyped /\ LoopTyped /\ CallTyped /\ stream \in Seq(Events)

----------------------------------------------------------------------------
(* The deaths of windows                                                   *)
Ended(w) == pane[w] = "gone" \/ Exited(w, pane[w])
InCycle == poll.stage \notin {"idle", "expiry"}
(* The calls under way that are to send a banner *)
PollCalls(w) == IF poll.stage \in {"marked", "timed"} /\ poll.w = w THEN 1 ELSE 0
PushCalls(w) == IF InPush /\ push.w = w THEN 1 ELSE 0
(* A topic shows the window and has no mark for it, and the window has     *)
(* ended, or the cycle holds a listing that condemns it                    *)
Untold(w) ==
  \E t \in PwTopics :
    /\ shows[t] = w /\ <<t, w>> \notin notified
    /\ Ended(w) \/ (InCycle /\ Condemned(w))
Calls(w) == PollCalls(w) + PushCalls(w)
Told(w) ==
  /\ banners[w] + Calls(w) <= ends[w]
  /\ Untold(w) => banners[w] + Calls(w) < ends[w]

(* A window has one topic, and had one when it began *)
OneShows ==
  \A s, t \in PwTopics : shows[s] = shows[t] /\ shows[s] # NoPane => s = t
ShownBegan == \A t \in PwTopics : shows[t] # NoPane => pane[shows[t]] # "unborn"
DiedAreGone ==
  /\ \A i \in 1..Len(stream) : stream[i][2] = "died" => pane[stream[i][1]] = "gone"
  /\ InPush => pane[push.w] = "gone"
(* What the cycle is still to tick is as it was when the ticks began; what *)
(* it is reading was left by nobody; what it calls dead is so for all      *)
Cycle ==
  /\ poll.todo # {} => InCycle /\ poll.stage # "periodic"
  /\ \A b \in poll.todo : shows[b[1]] = b[2]
  /\ poll.stage \in {"read", "decide", "painted"} => shows[poll.t] = poll.w
  /\ poll.stage \in {"marked", "timed"} =>
       /\ Condemned(poll.w)
       /\ \A t \in PwTopics : shows[t] = poll.w => <<t, poll.w>> \in notified
DeathsInOrder ==
  /\ PollTypes /\ OneShows /\ ShownBegan /\ DiedAreGone /\ Cycle
  /\ \A w \in PwWindows : Told(w)

----------------------------------------------------------------------------
(* The timers of working windows                                           *)
SteadyIsBusy == \A w \in steady : pane[w] = "busy" /\ listed[w] = "busy"
ReadIsWorking(w) ==
  /\ poll.w = w
  /\ \/ poll.stage = "read"
     \/ poll.stage = "decide" /\ poll.saw = "busy"
     \/ poll.stage = "painted" /\ poll.saw = "working"
TicksPending ==
  \A t \in PwTopics :
    auto[t] = "done" /\ shows[t] \in steady /\ poll.stage # "idle" =>
      \/ poll.stage = "periodic"
      \/ <<t, shows[t]>> \in poll.todo
      \/ poll.t = t /\ ReadIsWorking(shows[t])
DoneIsUnmarked ==
  \A t \in PwTopics :
    auto[t] = "done" /\ shows[t] # NoPane /\ <<t, shows[t]>> \in notified =>
      pane[shows[t]] = "gone" \/ (poll.stage = "marked" /\ poll.t = t)
ReadIsUnmarked ==
  poll.stage \in {"read", "decide", "painted"} /\ <<poll.t, poll.w>> \in notified
    => pane[poll.w] = "gone"
DoneIsShell == poll.stage = "painted" /\ poll.saw = "done" => listed[poll.w] = "shell"
DueIsTimed == \A t \in due : auto[t] # "none"
TimersInOrder ==
  /\ SteadyIsBusy /\ TicksPending /\ DoneIsUnmarked /\ ReadIsUnmarked
  /\ DoneIsShell /\ DueIsTimed

----------------------------------------------------------------------------
(* What has worked before it is announced Ready                            *)
BusyWorked == \A w \in PwWindows : pane[w] = "busy" => w \in recent /\ w \in worked
RecentWorked ==
  \A w \in recent \ worked :
    /\ pane[w] = "shell" /\ poll.w # w
    /\ \A t \in PwTopics : shows[t] # w /\ <<t, w>> \notin poll.todo
SawWorked == poll.stage = "decide" /\ poll.saw = "busy" => poll.w \in worked
Announceable(w) ==
  /\ w \notin HookWindows /\ ps[w].seen /\ ~ps[w].announced
  /\ pane[w] = "shell" \/ (poll.stage # "idle" /\ listed[w] = "shell")
WorkedFirst ==
  /\ BusyWorked /\ RecentWorked /\ SawWorked
  /\ \A w \in PwWindows : Announceable(w) => w \in worked

MovesTo == {"busy", "quiet", "prompt", "shell", "gone"}

(* What the steps are made of keeps the types of what it touches *)
LEMMA StreamTyped ==
  ASSUME stream \in Seq(Events),
         NEW w \in PwWindows, NEW p \in Panes, Streams(w, p)
  PROVE  stream' \in Seq(Events)
<1>1. Pushed(w, p) \in Events
  BY DEF Pushed, State, Statuses, Events
<1> QED
  BY <1>1 DEF Streams

LEMMA RecordedTyped ==
  ASSUME NEW s \in Flags, NEW w \in PwWindows, NEW d \in Seen
  PROVE  /\ Recorded(w, d, s) \in Flags
         /\ d \in {"working", "active", "done"} => Recorded(w, d, s).seen
         /\ d = "ready" => Recorded(w, d, s).announced
         /\ d \in {"idle", "starting"} =>
              /\ Recorded(w, d, s).seen = s.seen
              /\ Recorded(w, d, s).announced = s.announced
<1>1. CASE d = "ready"
  <2> DEFINE m == MarkSeen(s)
  <2>1. m \in Flags /\ m.seen
    BY DEF MarkSeen, Flags
  <2>2. Recorded(w, d, s) = [m EXCEPT !.announced = TRUE]
    BY <1>1 DEF Recorded
  <2> HIDE DEF m
  <2> QED
    BY <1>1, <2>1, <2>2 DEF Flags
<1>2. CASE d = "idle"
  BY <1>2 DEF Recorded, Flags
<1>3. CASE d \in {"working", "active", "done"}
  BY <1>3 DEF Recorded, Flags, MarkSeen
<1>4. CASE d \notin {"ready", "idle", "working", "active", "done"}
  BY <1>4 DEF Recorded, Flags
<1> QED
  BY <1>1, <1>2, <1>3, <1>4

LEMMA DecideTyped ==
  ASSUME NEW w \in PwWindows, NEW saw \in Seen, NEW s \in Flags
  PROVE  LET d == Decide(w, saw, s)
         IN /\ d \in {"working", "active", "done", "ready", "idle", "starting"}
            /\ (d = "working") <=> (saw = "busy")
            /\ d = "active" => w \in recent
            /\ d = "done" => listed[w] = "shell" /\ w \in HookWindows
            /\ d = "ready" => /\ w \notin recent /\ listed[w] = "shell"
                             /\ w \notin HookWindows /\ s.seen /\ ~s.announced
<1>1. Decide(w, saw, s) \in {"working", "active", "done", "ready", "idle", "starting"}
  BY DEF Decide
<1>2. (Decide(w, saw, s) = "working") <=> (saw = "busy")
  <2>1. CASE saw = "busy"
    BY <2>1 DEF Decide
  <2>2. CASE saw # "busy"
    <3>1. CASE w \in recent
      BY <2>2, <3>1 DEF Decide
    <3>2. CASE w \notin recent /\ listed[w] = "shell"
      BY <2>2, <3>2 DEF Decide
    <3>3. CASE w \notin recent /\ listed[w] # "shell"
      BY <2>2, <3>3 DEF Decide
    <3> QED
      BY <3>1, <3>2, <3>3
  <2> QED
    BY <2>1, <2>2
<1>4. /\ Decide(w, saw, s) = "active" => w \in recent
      /\ Decide(w, saw, s) = "done" => listed[w] = "shell" /\ w \in HookWindows
  BY DEF Decide
<1>3. Decide(w, saw, s) = "ready" =>
        /\ w \notin recent /\ listed[w] = "shell" /\ w \notin HookWindows
        /\ s.seen /\ ~s.announced
  BY DEF Decide
<1> QED
  BY <1>1, <1>2, <1>3, <1>4

LEMMA ResolvedTyped ==
  ASSUME NEW w \in PwWindows PROVE Resolved(w) \in Seen
<1>1. Scraped(w) \in Seen /\ Busy(w) \in Seen
  BY DEF Scraped, Busy, Seen
<1> QED
  BY <1>1 DEF Resolved, Seen

(* A busy window whose pushed status is its own, or none, is read as busy *)
LEMMA BusyResolved ==
  ASSUME PollTypes, NEW w \in PwWindows, pane[w] = "busy",
         cache[w] \in {"cold", State(pane[w])}
  PROVE  Resolved(w) = "busy"
<1>1. Reported(w) = "working" /\ Scraped(w) = "busy"
  BY DEF Reported, State, Scraped
<1> QED
  BY <1>1 DEF Resolved, PollTypes, RestTyped

LEMMA FreshTyped == Fresh \in Flags /\ ~Fresh.seen /\ ~Fresh.announced
  BY DEF Fresh, Flags

LEMMA RestingTyped ==
  Resting \in [stage : Stages, todo : SUBSET (PwTopics \X PwWindows),
               t : PwTopics \cup {NoPane}, w : PwWindows \cup {NoPane}, saw : Seen]
  BY DEF Resting, Stages, Seen

(* The loop goes on to the next binding *)
LEMMA NextTyped ==
  ASSUME PollTypes, NextBinding
  PROVE  /\ poll' \in [stage : Stages, todo : SUBSET (PwTopics \X PwWindows),
                       t : PwTopics \cup {NoPane}, w : PwWindows \cup {NoPane}, saw : Seen]
         /\ poll'.stage = "next" /\ poll'.todo = poll.todo /\ poll'.w = NoPane
  BY DEF NextBinding, Resting, PollTypes, LoopTyped, Stages, Seen

LEMMA CallDeadTyped ==
  ASSUME RestTyped, NEW t \in PwTopics, NEW w \in PwWindows, CallDead(t, w)
  PROVE  /\ notified' \subseteq PwTopics \X PwWindows
         /\ cache' \in [PwWindows -> Statuses \cup {"cold"}]
         /\ ps' \in [PwWindows -> Flags]
  BY FreshTyped DEF CallDead, MarkDead, RestTyped

LEMMA ForgetTyped ==
  ASSUME RestTyped, NEW t \in PwTopics, Forget(t)
  PROVE  /\ notified' \subseteq PwTopics \X PwWindows
         /\ auto' \in [PwTopics -> {"none", "done", "dead"}] /\ due' \subseteq PwTopics
         /\ asks' \in [PwTopics -> PwWindows \cup {NoPane}]
         /\ shows' \in [PwTopics -> PwWindows \cup {NoPane}]
  BY DEF Forget, ClearTimer, RestTyped

LEMMA ToldTyped ==
  ASSUME RestTyped, NEW t \in PwTopics, NEW w \in PwWindows,
         Banner(t, w) \/ TopicDeleted(t, w)
  PROVE  /\ notified' \subseteq PwTopics \X PwWindows
         /\ auto' \in [PwTopics -> {"none", "done", "dead"}] /\ due' \subseteq PwTopics
         /\ asks' \in [PwTopics -> PwWindows \cup {NoPane}]
         /\ shows' \in [PwTopics -> PwWindows \cup {NoPane}]
         /\ ps' \in [PwWindows -> Flags] /\ banners' \in [PwWindows -> Nat]
<1>1. CASE Banner(t, w)
  BY <1>1 DEF Banner, RestTyped, pwTimers
<1>2. CASE TopicDeleted(t, w)
  <2>1. ps' \in [PwWindows -> Flags] /\ banners' \in [PwWindows -> Nat]
    BY <1>2, FreshTyped DEF TopicDeleted, RestTyped
  <2> QED
    BY <1>2, <2>1, ForgetTyped DEF TopicDeleted
<1> QED
  BY <1>1, <1>2

LEMMA BindingsTyped ==
  ASSUME RestTyped
  PROVE  /\ Bindings \subseteq PwTopics \X PwWindows
         /\ \A b \in Bindings : shows[b[1]] = b[2]
         /\ \A t \in PwTopics : shows[t] # NoPane => <<t, shows[t]>> \in Bindings
  BY DEF Bindings, RestTyped

(* The event that the stream hands over *)
LEMMA HeadEvent ==
  ASSUME stream \in Seq(Events), stream # <<>>
  PROVE  /\ Head(stream)[1] \in PwWindows /\ Tail(stream) \in Seq(Events)
         /\ Head(stream)[2] \in Statuses \cup {"died"}
         /\ 1 \in 1..Len(stream) /\ stream[1] = Head(stream)
         /\ \A i \in 1..Len(Tail(stream)) :
              i + 1 \in 1..Len(stream) /\ Tail(stream)[i] = stream[i + 1]
<1>1. Head(stream) \in Events /\ Tail(stream) \in Seq(Events)
  OBVIOUS
<1>2. /\ 1 \in 1..Len(stream) /\ stream[1] = Head(stream)
      /\ \A i \in 1..Len(Tail(stream)) :
           i + 1 \in 1..Len(stream) /\ Tail(stream)[i] = stream[i + 1]
  OBVIOUS
<1> QED
  BY <1>1, <1>2 DEF Events

(* Every step keeps the types *)
LEMMA TypesKeep ==
  ASSUME PollTypes, [PollingNext]_pwVars
  PROVE  PollTypes'
<1>1. CASE ListWindows
  BY <1>1, PollingAssumption DEF ListWindows, PollTypes, RestTyped, LoopTyped,
     CallTyped, Stages, Seen, Flags, Statuses, InTick, InPush, Fresh,
     MarkSeen, Panes, pwPush, pwTimers, pwSeen
<1>2. CASE BeginTicks
  <2>0. RestTyped /\ LoopTyped /\ CallTyped /\ stream \in Seq(Events)
    BY DEF PollTypes
  <2>1. RestTyped'
    BY <1>2, <2>0 DEF BeginTicks, pwPush, pwTimers, pwSeen, RestTyped, Panes,
       Statuses
  <2>2. LoopTyped'
    BY <1>2, <2>0, BindingsTyped DEF BeginTicks, pwPush, pwTimers, pwSeen,
       LoopTyped, InTick, Stages, Seen, RestTyped
  <2>3. CallTyped'
    BY <1>2, <2>0 DEF BeginTicks, pwPush, pwTimers, pwSeen, CallTyped, InPush,
       RestTyped
  <2>4. (stream \in Seq(Events))'
    BY <1>2, <2>0 DEF BeginTicks, pwPush, pwTimers, pwSeen
  <2> QED
    BY <2>1, <2>2, <2>3, <2>4 DEF PollTypes
<1>3. CASE PollTimer
  BY <1>3, PollingAssumption DEF PollTimer, Goes, StartTimer, PollTypes,
     RestTyped, LoopTyped, CallTyped, Stages, Seen, Flags, Statuses, InTick,
     InPush, Fresh, MarkSeen, Panes, pwPush, pwTimers, pwSeen
<1>4. CASE PollBanner
  <2>0. RestTyped /\ LoopTyped /\ CallTyped /\ stream \in Seq(Events)
    BY DEF PollTypes
  <2>1. RestTyped'
    BY <1>4, <2>0, ToldTyped DEF PollBanner, LoopTyped, InTick, pwPush, pwTimers,
       pwSeen, RestTyped, Panes, Statuses
  <2>2. LoopTyped'
    BY <1>4, <2>0, NextTyped DEF PollBanner, pwPush, pwTimers, pwSeen, LoopTyped,
       InTick, Stages, Seen, RestTyped
  <2>3. CallTyped'
    BY <1>4, <2>0 DEF PollBanner, pwPush, pwTimers, pwSeen, CallTyped, InPush,
       RestTyped
  <2>4. (stream \in Seq(Events))'
    BY <1>4, <2>0, StreamTyped DEF PollBanner, RestTyped, LoopTyped, InTick,
       Panes, pwPush, pwTimers, pwSeen
  <2> QED
    BY <2>1, <2>2, <2>3, <2>4 DEF PollTypes
<1>5. CASE ReadPromptOnly
  BY <1>5, PollingAssumption DEF ReadPromptOnly, NextBinding, Resting,
     PollTypes, RestTyped, LoopTyped, CallTyped, Stages, Seen, Flags,
     Statuses, InTick, InPush, Fresh, MarkSeen, Panes, pwPush, pwTimers,
     pwSeen
<1>6. CASE ReadNothing
  BY <1>6, PollingAssumption DEF ReadNothing, NextBinding, Resting, PollTypes,
     RestTyped, LoopTyped, CallTyped, Stages, Seen, Flags, Statuses, InTick,
     InPush, Fresh, MarkSeen, Panes, pwPush, pwTimers, pwSeen
<1>7. CASE ReadStatus
  <2>0. RestTyped /\ LoopTyped /\ CallTyped /\ stream \in Seq(Events)
    BY DEF PollTypes
  <2>1. RestTyped'
    BY <1>7, <2>0 DEF ReadStatus, pwPush, pwTimers, pwSeen, RestTyped, Panes,
       Statuses
  <2>2. LoopTyped'
    BY <1>7, <2>0, ResolvedTyped DEF ReadStatus, pwPush, pwTimers, pwSeen,
       LoopTyped, InTick, Stages, Seen, RestTyped
  <2>3. CallTyped'
    BY <1>7, <2>0 DEF ReadStatus, pwPush, pwTimers, pwSeen, CallTyped, InPush,
       RestTyped
  <2>4. (stream \in Seq(Events))'
    BY <1>7, <2>0 DEF ReadStatus, pwPush, pwTimers, pwSeen
  <2> QED
    BY <2>1, <2>2, <2>3, <2>4 DEF PollTypes
<1>8. CASE ShowPrompt
  BY <1>8, PollingAssumption DEF ShowPrompt, NextBinding, Resting, PollTypes,
     RestTyped, LoopTyped, CallTyped, Stages, Seen, Flags, Statuses, InTick,
     InPush, Fresh, MarkSeen, Panes, pwPush, pwTimers, pwSeen
<1>9. CASE Transition
  <2> DEFINE d == Decide(poll.w, poll.saw, ps[poll.w])
             f == Recorded(poll.w, d, ps[poll.w])
  <2>0. RestTyped /\ LoopTyped /\ CallTyped /\ stream \in Seq(Events)
    BY DEF PollTypes
  <2>1. poll.w \in PwWindows /\ poll.saw \in Seen /\ ps[poll.w] \in Flags
        /\ poll.t \in PwTopics
    BY <1>9, <2>0 DEF Transition, LoopTyped, RestTyped, InTick
  <2>2. d \in {"working", "active", "done", "ready", "idle", "starting"}
    BY <2>1, DecideTyped
  <2>3. d \in Seen
    BY <2>2 DEF Seen
  <2>4. f \in Flags
    BY <2>1, <2>3, RecordedTyped
  <2>5. /\ ps' = [ps EXCEPT ![poll.w] = f]
        /\ poll' = [poll EXCEPT !.stage = "painted", !.saw = d]
        /\ bubble' = IF d = "working"
                     THEN [bubble EXCEPT ![poll.t] = "working"] ELSE bubble
        /\ worked' = IF d = "ready" THEN worked \ {poll.w} ELSE worked
        /\ asks' = [asks EXCEPT ![poll.t] = NoPane]
        /\ UNCHANGED <<pane, recent, shows, listed, pwPush, native, notified,
                       pwTimers, ends, banners, steady>>
    BY <1>9 DEF Transition
  <2> HIDE DEF d, f
  <2>6. RestTyped'
    BY <2>0, <2>1, <2>4, <2>5 DEF RestTyped, pwPush, pwTimers
  <2>7. LoopTyped'
    BY <2>0, <2>1, <2>3, <2>5, <2>2 DEF LoopTyped, InTick, Stages
  <2>8. CallTyped' /\ stream' \in Seq(Events)
    BY <2>0, <2>5 DEF CallTyped, InPush, pwPush
  <2> QED
    BY <2>6, <2>7, <2>8 DEF PollTypes
<1>10. CASE Painted
  <2>0. RestTyped /\ LoopTyped /\ CallTyped /\ stream \in Seq(Events)
    BY DEF PollTypes
  <2>1. RestTyped'
    BY <1>10, <2>0 DEF Painted, StartTimer, ClearTimer, pwPush, pwTimers, pwSeen,
       RestTyped, Panes, Statuses
  <2>2. LoopTyped'
    BY <1>10, <2>0, NextTyped DEF Painted, pwPush, pwTimers, pwSeen, LoopTyped,
       InTick, Stages, Seen, RestTyped
  <2>3. CallTyped'
    BY <1>10, <2>0 DEF Painted, pwPush, pwTimers, pwSeen, CallTyped, InPush,
       RestTyped
  <2>4. (stream \in Seq(Events))'
    BY <1>10, <2>0 DEF Painted, pwPush, pwTimers, pwSeen
  <2> QED
    BY <2>1, <2>2, <2>3, <2>4 DEF PollTypes
<1>11. CASE EndTicks
  BY <1>11, PollingAssumption DEF EndTicks, Resting, PollTypes, RestTyped,
     LoopTyped, CallTyped, Stages, Seen, Flags, Statuses, InTick, InPush,
     Fresh, MarkSeen, Panes, pwPush, pwTimers, pwSeen
<1>12. CASE EndCycle
  BY <1>12, PollingAssumption DEF EndCycle, Resting, PollTypes, RestTyped,
     LoopTyped, CallTyped, Stages, Seen, Flags, Statuses, InTick, InPush,
     Fresh, MarkSeen, Panes, pwPush, pwTimers, pwSeen
<1>13. CASE Subscribe
  <2>0. RestTyped /\ LoopTyped /\ CallTyped
    BY DEF PollTypes
  <2>1. PICK w \in PwWindows : stream' = <<Pushed(w, pane[w])>>
    BY <1>13 DEF Subscribe
  <2>2. Pushed(w, pane[w]) \in Events
    BY <2>1 DEF Pushed, State, Events, Statuses
  <2>3. stream' \in Seq(Events)
    BY <2>1, <2>2
  <2> QED
    BY <1>13, <2>0, <2>3 DEF Subscribe, PollTypes, RestTyped, LoopTyped, CallTyped,
       InTick, InPush, pwTimers, pwSeen
<1>14. CASE StreamEnds
  BY <1>14, PollingAssumption DEF StreamEnds, PollTypes, RestTyped, LoopTyped,
     CallTyped, Stages, Seen, Flags, Statuses, InTick, InPush, Fresh,
     MarkSeen, Panes, pwPush, pwTimers, pwSeen
<1>15. CASE Receive
  <2> DEFINE w == Head(stream)[1]
             s == Head(stream)[2]
             T == {t \in PwTopics : shows[t] = w /\ <<t, w>> \notin notified}
  <2>0. RestTyped /\ LoopTyped /\ CallTyped /\ stream \in Seq(Events)
    BY DEF PollTypes
  <2>1. w \in PwWindows /\ s \in Statuses \cup {"died"} /\ Tail(stream) \in Seq(Events)
    BY <1>15, <2>0, HeadEvent DEF Receive
  <2>2. /\ \/ s # "died" /\ cache' = [cache EXCEPT ![w] = s] /\ UNCHANGED <<push, ps, notified>>
           \/ cache' = [cache EXCEPT ![w] = "cold"] /\ UNCHANGED <<push, ps, notified>>
           \/ \E t \in T : push' = [stage |-> "marked", t |-> t, w |-> w] /\ CallDead(t, w)
        /\ stream' = Tail(stream)
        /\ UNCHANGED <<pane, recent, shows, listed, poll, linked, native, pwTimers,
                       asks, bubble, pwSeen, paneMoves>>
    BY <1>15 DEF Receive
  <2> HIDE DEF w, s
  <2>3. RestTyped' /\ CallTyped'
    <3>1. CASE cache' = [cache EXCEPT ![w] = "cold"] /\ UNCHANGED <<push, ps, notified>>
      BY <2>0, <2>1, <2>2, <3>1 DEF RestTyped, CallTyped, InPush, pwTimers, pwSeen
    <3>2. CASE s # "died" /\ cache' = [cache EXCEPT ![w] = s] /\ UNCHANGED <<push, ps, notified>>
      BY <2>0, <2>1, <2>2, <3>2 DEF RestTyped, CallTyped, InPush, pwTimers, pwSeen
    <3>3. ASSUME NEW t \in T, push' = [stage |-> "marked", t |-> t, w |-> w], CallDead(t, w)
          PROVE  RestTyped' /\ CallTyped'
      BY <2>0, <2>1, <2>2, <3>3, CallDeadTyped DEF RestTyped, CallTyped, InPush, pwTimers, pwSeen
    <3> QED
      BY <2>2, <3>1, <3>2, <3>3
  <2>4. LoopTyped' /\ stream' \in Seq(Events)
    BY <2>0, <2>1, <2>2 DEF LoopTyped, InTick
  <2> QED
    BY <2>3, <2>4 DEF PollTypes
<1>16. CASE PushTimer
  BY <1>16, PollingAssumption DEF PushTimer, StartTimer, PollTypes, RestTyped,
     LoopTyped, CallTyped, Stages, Seen, Flags, Statuses, InTick, InPush,
     Fresh, MarkSeen, Panes, pwPush, pwTimers, pwSeen
<1>17. CASE PushBanner
  <2>0. RestTyped /\ LoopTyped /\ CallTyped /\ stream \in Seq(Events)
    BY DEF PollTypes
  <2>1. RestTyped'
    BY <1>17, <2>0, ToldTyped DEF PushBanner, CallTyped, InPush, pwPush, pwTimers,
       pwSeen, RestTyped, Panes, Statuses
  <2>2. LoopTyped'
    BY <1>17, <2>0 DEF PushBanner, pwPush, pwTimers, pwSeen, LoopTyped, InTick,
       Stages, Seen, RestTyped
  <2>3. CallTyped'
    BY <1>17, <2>0 DEF PushBanner, NoCall, pwPush, pwTimers, pwSeen, CallTyped,
       InPush, RestTyped
  <2>4. (stream \in Seq(Events))'
    BY <1>17, <2>0 DEF PushBanner, pwPush, pwTimers, pwSeen
  <2> QED
    BY <2>1, <2>2, <2>3, <2>4 DEF PollTypes
<1>18. CASE RestartPolling
  BY <1>18, PollingAssumption DEF RestartPolling, Resting, NoCall, PollTypes,
     RestTyped, LoopTyped, CallTyped, Stages, Seen, Flags, Statuses, InTick,
     InPush, Fresh, MarkSeen, Panes, pwPush, pwTimers, pwSeen
<1>19. ASSUME NEW w \in PwWindows, ActivityAges(w)
      PROVE  PollTypes'
  BY <1>19, PollingAssumption DEF ActivityAges, PollTypes, RestTyped,
     LoopTyped, CallTyped, Stages, Seen, Flags, Statuses, InTick, InPush,
     Fresh, MarkSeen, Panes, pwPush, pwTimers, pwSeen
<1>20. ASSUME NEW w \in PwWindows, StartupExpires(w)
      PROVE  PollTypes'
  <2>0. RestTyped /\ LoopTyped /\ CallTyped /\ stream \in Seq(Events)
    BY DEF PollTypes
  <2>1. RestTyped'
    BY <1>20, <2>0 DEF StartupExpires, Flags, pwPush, pwTimers, pwSeen, RestTyped,
       Panes, Statuses
  <2>2. LoopTyped'
    BY <1>20, <2>0 DEF StartupExpires, pwPush, pwTimers, pwSeen, LoopTyped,
       InTick, Stages, Seen, RestTyped
  <2>3. CallTyped'
    BY <1>20, <2>0 DEF StartupExpires, pwPush, pwTimers, pwSeen, CallTyped,
       InPush, RestTyped
  <2>4. (stream \in Seq(Events))'
    BY <1>20, <2>0 DEF StartupExpires, pwPush, pwTimers, pwSeen
  <2> QED
    BY <2>1, <2>2, <2>3, <2>4 DEF PollTypes
<1>21. ASSUME NEW w \in PwWindows, ResetPolling(w)
      PROVE  PollTypes'
  BY <1>21, PollingAssumption DEF ResetPolling, PollTypes, RestTyped,
     LoopTyped, CallTyped, Stages, Seen, Flags, Statuses, InTick, InPush,
     Fresh, MarkSeen, Panes, pwPush, pwTimers, pwSeen
<1>22. ASSUME NEW w \in PwWindows, NEW p \in MovesTo, AgentMoves(w, p)
      PROVE  PollTypes'
  <2>0. RestTyped /\ LoopTyped /\ CallTyped /\ stream \in Seq(Events)
    BY DEF PollTypes
  <2>1. RestTyped'
    BY <1>22, <2>0 DEF AgentMoves, Turns, MovesTo, pwPush, pwTimers, pwSeen, RestTyped,
       Panes, Statuses
  <2>2. LoopTyped'
    BY <1>22, <2>0 DEF AgentMoves, pwPush, pwTimers, pwSeen, LoopTyped, InTick,
       Stages, Seen, RestTyped
  <2>3. CallTyped'
    BY <1>22, <2>0 DEF AgentMoves, pwPush, pwTimers, pwSeen, CallTyped, InPush,
       RestTyped
  <2>4. (stream \in Seq(Events))'
    BY <1>22, <2>0, StreamTyped DEF AgentMoves, Turns, MovesTo, Panes, pwPush,
       pwTimers, pwSeen
  <2> QED
    BY <2>1, <2>2, <2>3, <2>4 DEF PollTypes
<1>23. ASSUME NEW t \in PwTopics, NEW w \in PwWindows, Tick(t, w)
      PROVE  PollTypes'
  <2>0. RestTyped /\ LoopTyped /\ CallTyped /\ stream \in Seq(Events)
    BY DEF PollTypes
  <2>1. RestTyped'
    <3>1. CASE UNCHANGED <<notified, cache, ps>>
      BY <1>23, <2>0, <3>1 DEF Tick, RestTyped, pwTimers, pwSeen
    <3>2. CASE CallDead(t, w)
      BY <1>23, <2>0, <3>2, CallDeadTyped DEF Tick, RestTyped, pwTimers, pwSeen
    <3> QED
      BY <1>23, <3>1, <3>2 DEF Tick
  <2>2. LoopTyped'
    <3>1. poll.todo \ {<<t, w>>} \in SUBSET (PwTopics \X PwWindows)
      BY <2>0 DEF LoopTyped
    <3> DEFINE rest == poll.todo \ {<<t, w>>}
    <3>2. /\ poll.stage = "next"
          /\ \/ poll' = [poll EXCEPT !.todo = rest]
             \/ \E s \in {"marked", "read"} :
                  poll' = [stage |-> s, todo |-> rest, t |-> t, w |-> w, saw |-> "none"]
      BY <1>23 DEF Tick
    <3> HIDE DEF rest
    <3>3. rest \in SUBSET (PwTopics \X PwWindows)
      BY <3>1 DEF rest
    <3> QED
      BY <2>0, <3>2, <3>3 DEF LoopTyped, InTick, Stages, Seen
  <2>3. CallTyped' /\ stream' \in Seq(Events)
    BY <1>23, <2>0 DEF Tick, CallTyped, InPush
  <2> QED
    BY <2>1, <2>2, <2>3 DEF PollTypes
<1>24. ASSUME NEW t \in PwTopics, NEW w \in PwWindows, BindTopic(t, w)
      PROVE  PollTypes'
  BY <1>24, PollingAssumption DEF BindTopic, PollTypes, RestTyped, LoopTyped,
     CallTyped, Stages, Seen, Flags, Statuses, InTick, InPush, Fresh,
     MarkSeen, Panes, pwPush, pwTimers, pwSeen
<1>25. ASSUME NEW t \in PwTopics, CloseExpired(t)
      PROVE  PollTypes'
  <2>0. RestTyped /\ LoopTyped /\ CallTyped /\ stream \in Seq(Events)
    BY DEF PollTypes
  <2>1. RestTyped'
    BY <1>25, <2>0, FreshTyped, ForgetTyped DEF CloseExpired, ClearTimer, pwPush,
       pwTimers, pwSeen, RestTyped, Panes, Statuses
  <2>2. LoopTyped'
    BY <1>25, <2>0 DEF CloseExpired, pwPush, pwTimers, pwSeen, LoopTyped, InTick,
       Stages, Seen, RestTyped
  <2>3. CallTyped'
    BY <1>25, <2>0 DEF CloseExpired, pwPush, pwTimers, pwSeen, CallTyped, InPush,
       RestTyped
  <2>4. (stream \in Seq(Events))'
    BY <1>25, <2>0 DEF CloseExpired, pwPush, pwTimers, pwSeen
  <2> QED
    BY <2>1, <2>2, <2>3, <2>4 DEF PollTypes
<1>26. ASSUME NEW t \in PwTopics, TimerRunsOut(t)
      PROVE  PollTypes'
  BY <1>26, PollingAssumption DEF TimerRunsOut, PollTypes, RestTyped,
     LoopTyped, CallTyped, Stages, Seen, Flags, Statuses, InTick, InPush,
     Fresh, MarkSeen, Panes, pwPush, pwTimers, pwSeen
<1>27. ASSUME NEW t \in PwTopics, Recover(t)
      PROVE  PollTypes'
  BY <1>27, PollingAssumption DEF Recover, PollTypes, RestTyped, LoopTyped,
     CallTyped, Stages, Seen, Flags, Statuses, InTick, InPush, Fresh,
     MarkSeen, Panes, pwPush, pwTimers, pwSeen
<1>28. ASSUME NEW t \in PwTopics, TextArrives(t)
      PROVE  PollTypes'
  BY <1>28, PollingAssumption DEF TextArrives, ClearTimer, PollTypes,
     RestTyped, LoopTyped, CallTyped, Stages, Seen, Flags, Statuses, InTick,
     InPush, Fresh, MarkSeen, Panes, pwPush, pwTimers, pwSeen
<1>29. ASSUME NEW t \in PwTopics, UnbindTopic(t)
      PROVE  PollTypes'
  BY <1>29, PollingAssumption DEF UnbindTopic, Forget, ClearTimer, PollTypes,
     RestTyped, LoopTyped, CallTyped, Stages, Seen, Flags, Statuses, InTick,
     InPush, Fresh, MarkSeen, Panes, pwPush, pwTimers, pwSeen
<1>30. CASE UNCHANGED pwVars
  BY <1>30 DEF pwVars, pwPush, pwTimers, pwSeen, PollTypes, RestTyped,
     LoopTyped, CallTyped, Stages, Seen, Flags, Statuses, InTick, InPush,
     Fresh, MarkSeen, Panes, pwPush, pwTimers, pwSeen
<1> QED
  BY <1>1, <1>2, <1>3, <1>4, <1>5, <1>6, <1>7, <1>8, <1>9, <1>10, <1>11,
     <1>12, <1>13, <1>14, <1>15, <1>16, <1>17, <1>18, <1>19, <1>20, <1>21,
     <1>22, <1>23, <1>24, <1>25, <1>26, <1>27, <1>28, <1>29, <1>30 DEF
     PollingNext, MovesTo

(* How the windows' panes, the topics' windows and the events change *)
LEMMA PaneStep ==
  ASSUME PollTypes, [PollingNext]_pwVars
  PROVE  \A v \in PwWindows :
           /\ pane[v] = "gone" => pane'[v] = "gone"
           /\ pane[v] # "unborn" => pane'[v] # "unborn"
<1>1. CASE ListWindows
  BY <1>1 DEF ListWindows, PollTypes, RestTyped, LoopTyped, InTick, Panes
<1>2. CASE BeginTicks
  BY <1>2 DEF BeginTicks, Bindings, PollTypes, RestTyped, LoopTyped, InTick,
     Panes
<1>3. CASE PollTimer
  BY <1>3 DEF PollTimer, Goes, StartTimer, PollTypes, RestTyped, LoopTyped,
     InTick, Panes
<1>4. CASE PollBanner
  BY <1>4 DEF PollBanner, NextBinding, Banner, TopicDeleted, Forget,
     ClearTimer, Streams, Pushed, State, Resting, PollTypes, RestTyped,
     LoopTyped, InTick, Panes
<1>5. CASE ReadPromptOnly
  BY <1>5 DEF ReadPromptOnly, NextBinding, Resting, PollTypes, RestTyped,
     LoopTyped, InTick, Panes
<1>6. CASE ReadNothing
  BY <1>6 DEF ReadNothing, NextBinding, Resting, PollTypes, RestTyped,
     LoopTyped, InTick, Panes
<1>7. CASE ReadStatus
  BY <1>7 DEF ReadStatus, PollTypes, RestTyped, LoopTyped, InTick, Panes
<1>8. CASE ShowPrompt
  BY <1>8 DEF ShowPrompt, NextBinding, Resting, PollTypes, RestTyped,
     LoopTyped, InTick, Panes
<1>9. CASE Transition
  BY <1>9 DEF Transition, PollTypes, RestTyped, LoopTyped, InTick, Panes
<1>10. CASE Painted
  BY <1>10 DEF Painted, NextBinding, Resting, StartTimer, ClearTimer,
     PollTypes, RestTyped, LoopTyped, InTick, Panes
<1>11. CASE EndTicks
  BY <1>11 DEF EndTicks, Resting, PollTypes, RestTyped, LoopTyped, InTick,
     Panes
<1>12. CASE EndCycle
  BY <1>12 DEF EndCycle, Resting, PollTypes, RestTyped, LoopTyped, InTick,
     Panes
<1>13. CASE Subscribe
  BY <1>13 DEF Subscribe, Pushed, State, PollTypes, RestTyped, LoopTyped,
     InTick, Panes
<1>14. CASE StreamEnds
  BY <1>14 DEF StreamEnds, PollTypes, RestTyped, LoopTyped, InTick, Panes
<1>15. CASE Receive
  BY <1>15 DEF Receive, CallDead, MarkDead, PollTypes, RestTyped, LoopTyped,
     InTick, Panes
<1>16. CASE PushTimer
  BY <1>16 DEF PushTimer, StartTimer, PollTypes, RestTyped, LoopTyped, InTick,
     Panes
<1>17. CASE PushBanner
  BY <1>17 DEF PushBanner, NoCall, Banner, TopicDeleted, Forget, ClearTimer,
     PollTypes, RestTyped, LoopTyped, InTick, Panes
<1>18. CASE RestartPolling
  BY <1>18 DEF RestartPolling, Resting, NoCall, PollTypes, RestTyped,
     LoopTyped, InTick, Panes
<1>19. ASSUME NEW w \in PwWindows, ActivityAges(w)
      PROVE  \A v \in PwWindows :
                /\ pane[v] = "gone" => pane'[v] = "gone"
                /\ pane[v] # "unborn" => pane'[v] # "unborn"
  BY <1>19 DEF ActivityAges, PollTypes, RestTyped, LoopTyped, InTick, Panes
<1>20. ASSUME NEW w \in PwWindows, StartupExpires(w)
      PROVE  \A v \in PwWindows :
                /\ pane[v] = "gone" => pane'[v] = "gone"
                /\ pane[v] # "unborn" => pane'[v] # "unborn"
  BY <1>20 DEF StartupExpires, PollTypes, RestTyped, LoopTyped, InTick, Panes
<1>21. ASSUME NEW w \in PwWindows, ResetPolling(w)
      PROVE  \A v \in PwWindows :
                /\ pane[v] = "gone" => pane'[v] = "gone"
                /\ pane[v] # "unborn" => pane'[v] # "unborn"
  BY <1>21 DEF ResetPolling, PollTypes, RestTyped, LoopTyped, InTick, Panes
<1>22. ASSUME NEW w \in PwWindows, NEW p \in MovesTo, AgentMoves(w, p)
      PROVE  \A v \in PwWindows :
                /\ pane[v] = "gone" => pane'[v] = "gone"
                /\ pane[v] # "unborn" => pane'[v] # "unborn"
  BY <1>22 DEF AgentMoves, Turns, Alive, PollTypes, RestTyped, MovesTo
<1>23. ASSUME NEW t \in PwTopics, NEW w \in PwWindows, Tick(t, w)
      PROVE  \A v \in PwWindows :
                /\ pane[v] = "gone" => pane'[v] = "gone"
                /\ pane[v] # "unborn" => pane'[v] # "unborn"
  BY <1>23 DEF Tick, CallDead, MarkDead, PollTypes, RestTyped, LoopTyped,
     InTick, Panes
<1>24. ASSUME NEW t \in PwTopics, NEW w \in PwWindows, BindTopic(t, w)
      PROVE  \A v \in PwWindows :
                /\ pane[v] = "gone" => pane'[v] = "gone"
                /\ pane[v] # "unborn" => pane'[v] # "unborn"
  BY <1>24 DEF BindTopic, PollTypes, RestTyped, LoopTyped, InTick, Panes
<1>25. ASSUME NEW t \in PwTopics, CloseExpired(t)
      PROVE  \A v \in PwWindows :
                /\ pane[v] = "gone" => pane'[v] = "gone"
                /\ pane[v] # "unborn" => pane'[v] # "unborn"
  BY <1>25 DEF CloseExpired, ClearTimer, Forget, PollTypes, RestTyped,
     LoopTyped, InTick, Panes
<1>26. ASSUME NEW t \in PwTopics, TimerRunsOut(t)
      PROVE  \A v \in PwWindows :
                /\ pane[v] = "gone" => pane'[v] = "gone"
                /\ pane[v] # "unborn" => pane'[v] # "unborn"
  BY <1>26 DEF TimerRunsOut, PollTypes, RestTyped, LoopTyped, InTick, Panes
<1>27. ASSUME NEW t \in PwTopics, Recover(t)
      PROVE  \A v \in PwWindows :
                /\ pane[v] = "gone" => pane'[v] = "gone"
                /\ pane[v] # "unborn" => pane'[v] # "unborn"
  BY <1>27 DEF Recover, PollTypes, RestTyped, LoopTyped, InTick, Panes
<1>28. ASSUME NEW t \in PwTopics, TextArrives(t)
      PROVE  \A v \in PwWindows :
                /\ pane[v] = "gone" => pane'[v] = "gone"
                /\ pane[v] # "unborn" => pane'[v] # "unborn"
  BY <1>28 DEF TextArrives, ClearTimer, PollTypes, RestTyped, LoopTyped,
     InTick, Panes
<1>29. ASSUME NEW t \in PwTopics, UnbindTopic(t)
      PROVE  \A v \in PwWindows :
                /\ pane[v] = "gone" => pane'[v] = "gone"
                /\ pane[v] # "unborn" => pane'[v] # "unborn"
  BY <1>29 DEF UnbindTopic, Forget, ClearTimer, PollTypes, RestTyped,
     LoopTyped, InTick, Panes
<1>30. CASE UNCHANGED pwVars
  BY <1>30 DEF pwVars, pwPush, pwTimers, pwSeen, PollTypes, RestTyped,
     LoopTyped, InTick, Panes
<1> QED
  BY <1>1, <1>2, <1>3, <1>4, <1>5, <1>6, <1>7, <1>8, <1>9, <1>10, <1>11,
     <1>12, <1>13, <1>14, <1>15, <1>16, <1>17, <1>18, <1>19, <1>20, <1>21,
     <1>22, <1>23, <1>24, <1>25, <1>26, <1>27, <1>28, <1>29, <1>30 DEF
     PollingNext, MovesTo

(* Who may stop to show its window, and when *)
Freed(t) == poll.stage = "expiry" \/ Leaves(t)
LEMMA ShowsStep ==
  ASSUME PollTypes, [PollingNext]_pwVars
  PROVE  \/ shows' = shows
         \/ \E t \in PwTopics : shows' = [shows EXCEPT ![t] = NoPane] /\ Freed(t)
         \/ \E t \in PwTopics, w \in PwWindows : BindTopic(t, w)
<1>1. CASE ListWindows
  BY <1>1 DEF ListWindows, PollTypes, Freed
<1>2. CASE BeginTicks
  BY <1>2 DEF BeginTicks, Bindings, PollTypes, Freed
<1>3. CASE PollTimer
  BY <1>3 DEF PollTimer, Goes, StartTimer, PollTypes, Freed
<1>4. CASE PollBanner
  BY <1>4 DEF PollBanner, Forget, Banner, TopicDeleted, PollTypes, LoopTyped, CallTyped, InTick, InPush, Freed
<1>5. CASE ReadPromptOnly
  BY <1>5 DEF ReadPromptOnly, NextBinding, Resting, PollTypes, Freed
<1>6. CASE ReadNothing
  BY <1>6 DEF ReadNothing, NextBinding, Resting, PollTypes, Freed
<1>7. CASE ReadStatus
  BY <1>7 DEF ReadStatus, PollTypes, Freed
<1>8. CASE ShowPrompt
  BY <1>8 DEF ShowPrompt, NextBinding, Resting, PollTypes, Freed
<1>9. CASE Transition
  BY <1>9 DEF Transition, PollTypes, Freed
<1>10. CASE Painted
  BY <1>10 DEF Painted, NextBinding, Resting, StartTimer, ClearTimer,
     PollTypes, Freed
<1>11. CASE EndTicks
  BY <1>11 DEF EndTicks, Resting, PollTypes, Freed
<1>12. CASE EndCycle
  BY <1>12 DEF EndCycle, Resting, PollTypes, Freed
<1>13. CASE Subscribe
  BY <1>13 DEF Subscribe, Pushed, State, PollTypes, Freed
<1>14. CASE StreamEnds
  BY <1>14 DEF StreamEnds, PollTypes, Freed
<1>15. CASE Receive
  BY <1>15 DEF Receive, CallDead, MarkDead, PollTypes, Freed
<1>16. CASE PushTimer
  BY <1>16 DEF PushTimer, StartTimer, PollTypes, Freed
<1>17. CASE PushBanner
  BY <1>17 DEF PushBanner, Forget, Banner, TopicDeleted, PollTypes, LoopTyped, CallTyped, InTick, InPush, Freed
<1>18. CASE RestartPolling
  BY <1>18 DEF RestartPolling, Resting, NoCall, PollTypes, Freed
<1>19. ASSUME NEW w \in PwWindows, ActivityAges(w)
      PROVE  \/ shows' = shows
             \/ \E s \in PwTopics : shows' = [shows EXCEPT ![s] = NoPane] /\ Freed(s)
             \/ \E s \in PwTopics, v \in PwWindows : BindTopic(s, v)
  BY <1>19 DEF ActivityAges, PollTypes, Freed
<1>20. ASSUME NEW w \in PwWindows, StartupExpires(w)
      PROVE  \/ shows' = shows
             \/ \E s \in PwTopics : shows' = [shows EXCEPT ![s] = NoPane] /\ Freed(s)
             \/ \E s \in PwTopics, v \in PwWindows : BindTopic(s, v)
  BY <1>20 DEF StartupExpires, PollTypes, Freed
<1>21. ASSUME NEW w \in PwWindows, ResetPolling(w)
      PROVE  \/ shows' = shows
             \/ \E s \in PwTopics : shows' = [shows EXCEPT ![s] = NoPane] /\ Freed(s)
             \/ \E s \in PwTopics, v \in PwWindows : BindTopic(s, v)
  BY <1>21 DEF ResetPolling, PollTypes, Freed
<1>22. ASSUME NEW w \in PwWindows, NEW p \in MovesTo, AgentMoves(w, p)
      PROVE  \/ shows' = shows
             \/ \E s \in PwTopics : shows' = [shows EXCEPT ![s] = NoPane] /\ Freed(s)
             \/ \E s \in PwTopics, v \in PwWindows : BindTopic(s, v)
  BY <1>22 DEF AgentMoves, Turns, Streams, Pushed, State, PollTypes, Freed
<1>23. ASSUME NEW t \in PwTopics, NEW w \in PwWindows, Tick(t, w)
      PROVE  \/ shows' = shows
             \/ \E s \in PwTopics : shows' = [shows EXCEPT ![s] = NoPane] /\ Freed(s)
             \/ \E s \in PwTopics, v \in PwWindows : BindTopic(s, v)
  BY <1>23 DEF Tick, CallDead, MarkDead, PollTypes, Freed
<1>24. ASSUME NEW t \in PwTopics, NEW w \in PwWindows, BindTopic(t, w)
      PROVE  \/ shows' = shows
             \/ \E s \in PwTopics : shows' = [shows EXCEPT ![s] = NoPane] /\ Freed(s)
             \/ \E s \in PwTopics, v \in PwWindows : BindTopic(s, v)
  BY <1>24
<1>25. ASSUME NEW t \in PwTopics, CloseExpired(t)
      PROVE  \/ shows' = shows
             \/ \E s \in PwTopics : shows' = [shows EXCEPT ![s] = NoPane] /\ Freed(s)
             \/ \E s \in PwTopics, v \in PwWindows : BindTopic(s, v)
  BY <1>25 DEF CloseExpired, Forget, Banner, TopicDeleted, PollTypes, LoopTyped, CallTyped, InTick, InPush, Freed
<1>26. ASSUME NEW t \in PwTopics, TimerRunsOut(t)
      PROVE  \/ shows' = shows
             \/ \E s \in PwTopics : shows' = [shows EXCEPT ![s] = NoPane] /\ Freed(s)
             \/ \E s \in PwTopics, v \in PwWindows : BindTopic(s, v)
  BY <1>26 DEF TimerRunsOut, PollTypes, Freed
<1>27. ASSUME NEW t \in PwTopics, Recover(t)
      PROVE  \/ shows' = shows
             \/ \E s \in PwTopics : shows' = [shows EXCEPT ![s] = NoPane] /\ Freed(s)
             \/ \E s \in PwTopics, v \in PwWindows : BindTopic(s, v)
  BY <1>27 DEF Recover, Forget, Banner, TopicDeleted, PollTypes, LoopTyped, CallTyped, InTick, InPush, Freed
<1>28. ASSUME NEW t \in PwTopics, TextArrives(t)
      PROVE  \/ shows' = shows
             \/ \E s \in PwTopics : shows' = [shows EXCEPT ![s] = NoPane] /\ Freed(s)
             \/ \E s \in PwTopics, v \in PwWindows : BindTopic(s, v)
  BY <1>28 DEF TextArrives, ClearTimer, PollTypes, Freed
<1>29. ASSUME NEW t \in PwTopics, UnbindTopic(t)
      PROVE  \/ shows' = shows
             \/ \E s \in PwTopics : shows' = [shows EXCEPT ![s] = NoPane] /\ Freed(s)
             \/ \E s \in PwTopics, v \in PwWindows : BindTopic(s, v)
  BY <1>29 DEF UnbindTopic, Forget, Banner, TopicDeleted, PollTypes, LoopTyped, CallTyped, InTick, InPush, Freed
<1>30. CASE UNCHANGED pwVars
  BY <1>30 DEF pwVars, pwPush, pwTimers, pwSeen, PollTypes, Freed
<1> QED
  BY <1>1, <1>2, <1>3, <1>4, <1>5, <1>6, <1>7, <1>8, <1>9, <1>10, <1>11,
     <1>12, <1>13, <1>14, <1>15, <1>16, <1>17, <1>18, <1>19, <1>20, <1>21,
     <1>22, <1>23, <1>24, <1>25, <1>26, <1>27, <1>28, <1>29, <1>30 DEF
     PollingNext, MovesTo

----------------------------------------------------------------------------
LEMMA ShownKeeps ==
  ASSUME PollTypes, OneShows, ShownBegan, [PollingNext]_pwVars
  PROVE  OneShows' /\ ShownBegan'
<1>0. \A t \in PwTopics : shows[t] # NoPane => shows[t] \in PwWindows
  BY DEF PollTypes, RestTyped
<1>1. CASE shows' = shows
  BY <1>0, <1>1, PaneStep DEF OneShows, ShownBegan
<1>2. ASSUME NEW t \in PwTopics, shows' = [shows EXCEPT ![t] = NoPane]
      PROVE  OneShows' /\ ShownBegan'
  <2>1. \A s \in PwTopics : shows'[s] # NoPane => shows[s] = shows'[s]
    BY <1>2 DEF PollTypes, RestTyped
  <2> QED
    BY <1>0, <2>1, PaneStep DEF OneShows, ShownBegan
<1>3. ASSUME NEW t \in PwTopics, NEW w \in PwWindows, BindTopic(t, w)
      PROVE  OneShows' /\ ShownBegan'
  <2>1. /\ shows'[t] = w /\ w # NoPane /\ pane'[w] # "unborn"
        /\ \A s \in PwTopics : s # t => shows'[s] = shows[s] /\ shows[s] # w
    BY <1>3, PollingAssumption DEF BindTopic, PollTypes, RestTyped, Panes
  <2> QED
    BY <1>0, <2>1, PaneStep DEF OneShows, ShownBegan
<1> QED
  BY <1>1, <1>2, <1>3, ShowsStep

(* An event is added for the window that moves, and taken from the head *)
LEMMA StreamKeepsDied ==
  ASSUME PollTypes, DiedAreGone, NEW w \in PwWindows, NEW p \in Panes, Streams(w, p),
         UNCHANGED push, p = "gone" => pane'[w] = "gone",
         \A v \in PwWindows : pane[v] = "gone" => pane'[v] = "gone"
  PROVE  DiedAreGone'
<1>0. /\ \A i \in 1..Len(stream) : stream[i] \in Events
      /\ InPush => push.w \in PwWindows /\ pane[push.w] = "gone"
  BY DEF PollTypes, CallTyped, DiedAreGone
<1>1. \A i \in 1..Len(stream) : stream[i][1] \in PwWindows
  BY <1>0 DEF Events
<1>2. CASE UNCHANGED stream
  BY <1>0, <1>1, <1>2 DEF DiedAreGone, InPush
<1>3. CASE stream' = Append(stream, Pushed(w, p))
  <2>1. Pushed(w, p)[1] = w /\ (Pushed(w, p)[2] = "died" => p = "gone")
    BY DEF Pushed, State
  <2>2. \A i \in 1..Len(stream') :
          (i \in 1..Len(stream) /\ stream'[i] = stream[i]) \/ stream'[i] = Pushed(w, p)
    BY <1>3 DEF PollTypes
  <2> QED
    BY <1>0, <1>1, <2>1, <2>2 DEF DiedAreGone, InPush
<1> QED
  BY <1>2, <1>3 DEF Streams

(* An event of a window that died makes a call for a topic that shows it *)
LEMMA ReceiveCases ==
  ASSUME Receive
  PROVE  \/ push' = push /\ notified' = notified
         \/ \E t \in PwTopics :
              /\ shows[t] = Head(stream)[1] /\ <<t, Head(stream)[1]>> \notin notified
              /\ Head(stream)[2] = "died"
              /\ push' = [stage |-> "marked", t |-> t, w |-> Head(stream)[1]]
              /\ notified' = notified \cup {<<t, Head(stream)[1]>>}
<1> DEFINE w == Head(stream)[1]
           s == Head(stream)[2]
           T == {t \in PwTopics : shows[t] = w /\ <<t, w>> \notin notified}
<1>1. \/ push' = push /\ notified' = notified
      \/ s = "died" /\ \E t \in T : /\ push' = [stage |-> "marked", t |-> t, w |-> w]
                                   /\ notified' = notified \cup {<<t, w>>}
  BY DEF Receive, CallDead, MarkDead
<1> QED
  BY <1>1

LEMMA DiedKeeps ==
  ASSUME PollTypes, DiedAreGone, [PollingNext]_pwVars
  PROVE  DiedAreGone'
<1>0. /\ \A v \in PwWindows : pane[v] = "gone" => pane'[v] = "gone"
      /\ \A i \in 1..Len(stream) : stream[i] \in Events
      /\ InPush => push.w \in PwWindows /\ pane[push.w] = "gone"
  BY PaneStep DEF PollTypes, CallTyped, DiedAreGone
<1>k. \A i \in 1..Len(stream) : stream[i][1] \in PwWindows
  BY <1>0 DEF Events
<1>1. CASE ListWindows
  BY <1>1, <1>0, <1>k DEF ListWindows, DiedAreGone, InPush, pwPush
<1>2. CASE BeginTicks
  BY <1>2, <1>0, <1>k DEF BeginTicks, Bindings, DiedAreGone, InPush, pwPush
<1>3. CASE PollTimer
  BY <1>3, <1>0, <1>k DEF PollTimer, Goes, StartTimer, DiedAreGone, InPush,
     pwPush
<1>4. CASE PollBanner
  <2>1. poll.w \in PwWindows
    BY <1>4 DEF PollBanner, PollTypes, LoopTyped, InTick
  <2>2. CASE UNCHANGED <<pane, stream, push>>
    BY <1>0, <1>k, <2>2 DEF DiedAreGone, InPush
  <2>3. CASE Streams(poll.w, "gone") /\ pane' = [pane EXCEPT ![poll.w] = "gone"] /\ UNCHANGED push
    BY <1>0, <2>1, <2>3, StreamKeepsDied DEF PollTypes, RestTyped, Panes
  <2> QED
    BY <1>4, <2>2, <2>3 DEF PollBanner
<1>5. CASE ReadPromptOnly
  BY <1>5, <1>0, <1>k DEF ReadPromptOnly, NextBinding, Resting, DiedAreGone,
     InPush, pwPush
<1>6. CASE ReadNothing
  BY <1>6, <1>0, <1>k DEF ReadNothing, NextBinding, Resting, DiedAreGone,
     InPush, pwPush
<1>7. CASE ReadStatus
  BY <1>7, <1>0, <1>k DEF ReadStatus, DiedAreGone, InPush, pwPush
<1>8. CASE ShowPrompt
  BY <1>8, <1>0, <1>k DEF ShowPrompt, NextBinding, Resting, DiedAreGone,
     InPush, pwPush
<1>9. CASE Transition
  BY <1>9, <1>0, <1>k DEF Transition, DiedAreGone, InPush, pwPush
<1>10. CASE Painted
  BY <1>10, <1>0, <1>k DEF Painted, NextBinding, Resting, StartTimer,
     ClearTimer, DiedAreGone, InPush, pwPush
<1>11. CASE EndTicks
  BY <1>11, <1>0, <1>k DEF EndTicks, Resting, DiedAreGone, InPush, pwPush
<1>12. CASE EndCycle
  BY <1>12, <1>0, <1>k DEF EndCycle, Resting, DiedAreGone, InPush, pwPush
<1>13. CASE Subscribe
  <2>1. PICK w \in PwWindows : Alive(w) /\ stream' = <<Pushed(w, pane[w])>>
    BY <1>13 DEF Subscribe
  <2>2. Pushed(w, pane[w])[2] # "died"
    BY <2>1 DEF Pushed, Alive, State
  <2>3. \A i \in 1..Len(stream') : stream'[i] = Pushed(w, pane[w])
    BY <2>1
  <2> QED
    BY <1>13, <1>0, <2>2, <2>3 DEF Subscribe, DiedAreGone, InPush
<1>14. CASE StreamEnds
  BY <1>14, <1>0, <1>k DEF StreamEnds, DiedAreGone, InPush, pwPush
<1>15. CASE Receive
  <2>1. /\ Head(stream)[2] = "died" => pane[Head(stream)[1]] = "gone"
        /\ \A i \in 1..Len(stream') :
             i + 1 \in 1..Len(stream) /\ stream'[i] = stream[i + 1]
    <3>1. stream # <<>> /\ stream' = Tail(stream) /\ stream \in Seq(Events)
      BY <1>15 DEF Receive, PollTypes
    <3> QED
      BY <3>1, HeadEvent DEF DiedAreGone
  <2>2. \A i \in 1..Len(stream') : stream'[i][2] = "died" => pane[stream'[i][1]] = "gone"
    BY <2>1 DEF DiedAreGone
  <2>3. pane' = pane /\ (InPush' => pane[push'.w] = "gone")
    <3>1. CASE push' = push
      BY <1>15, <1>0, <3>1 DEF Receive, InPush
    <3>2. CASE push' # push
      <4>1. push'.w = Head(stream)[1] /\ Head(stream)[2] = "died"
        <5>1. PICK t \in PwTopics :
                /\ Head(stream)[2] = "died"
                /\ push' = [stage |-> "marked", t |-> t, w |-> Head(stream)[1]]
          BY <1>15, <3>2, ReceiveCases
        <5> QED
          BY <5>1
      <4> QED
        BY <1>15, <2>1, <4>1 DEF Receive
    <3> QED
      BY <3>1, <3>2
  <2> QED
    BY <2>2, <2>3 DEF DiedAreGone
<1>16. CASE PushTimer
  BY <1>16, <1>0, <1>k DEF PushTimer, StartTimer, DiedAreGone, InPush, pwPush
<1>17. CASE PushBanner
  BY <1>17, <1>0, <1>k DEF PushBanner, NoCall, DiedAreGone, InPush
<1>18. CASE RestartPolling
  BY <1>18, <1>0, <1>k DEF RestartPolling, Resting, NoCall, DiedAreGone,
     InPush, pwPush
<1>19. ASSUME NEW w \in PwWindows, ActivityAges(w)
      PROVE  DiedAreGone'
  BY <1>19, <1>0, <1>k DEF ActivityAges, DiedAreGone, InPush, pwPush
<1>20. ASSUME NEW w \in PwWindows, StartupExpires(w)
      PROVE  DiedAreGone'
  BY <1>20, <1>0, <1>k DEF StartupExpires, DiedAreGone, InPush, pwPush
<1>21. ASSUME NEW w \in PwWindows, ResetPolling(w)
      PROVE  DiedAreGone'
  BY <1>21, <1>0, <1>k DEF ResetPolling, DiedAreGone, InPush, pwPush
<1>22. ASSUME NEW w \in PwWindows, NEW p \in MovesTo, AgentMoves(w, p)
      PROVE  DiedAreGone'
  <2>1. Streams(w, p) /\ pane'[w] = p /\ UNCHANGED push
    BY <1>22 DEF AgentMoves, Turns, PollTypes, RestTyped
  <2> QED
    BY <1>0, <2>1, StreamKeepsDied DEF MovesTo, Panes
<1>23. ASSUME NEW t \in PwTopics, NEW w \in PwWindows, Tick(t, w)
      PROVE  DiedAreGone'
  BY <1>23, <1>0, <1>k DEF Tick, CallDead, MarkDead, DiedAreGone, InPush,
     pwPush
<1>24. ASSUME NEW t \in PwTopics, NEW w \in PwWindows, BindTopic(t, w)
      PROVE  DiedAreGone'
  BY <1>24, <1>0, <1>k DEF BindTopic, DiedAreGone, InPush, pwPush
<1>25. ASSUME NEW t \in PwTopics, CloseExpired(t)
      PROVE  DiedAreGone'
  BY <1>25, <1>0, <1>k DEF CloseExpired, ClearTimer, Forget, DiedAreGone,
     InPush, pwPush
<1>26. ASSUME NEW t \in PwTopics, TimerRunsOut(t)
      PROVE  DiedAreGone'
  BY <1>26, <1>0, <1>k DEF TimerRunsOut, DiedAreGone, InPush, pwPush
<1>27. ASSUME NEW t \in PwTopics, Recover(t)
      PROVE  DiedAreGone'
  BY <1>27, <1>0, <1>k DEF Recover, DiedAreGone, InPush, pwPush
<1>28. ASSUME NEW t \in PwTopics, TextArrives(t)
      PROVE  DiedAreGone'
  BY <1>28, <1>0, <1>k DEF TextArrives, ClearTimer, DiedAreGone, InPush,
     pwPush
<1>29. ASSUME NEW t \in PwTopics, UnbindTopic(t)
      PROVE  DiedAreGone'
  BY <1>29, <1>0, <1>k DEF UnbindTopic, Forget, ClearTimer, DiedAreGone,
     InPush, pwPush
<1>30. CASE UNCHANGED pwVars
  BY <1>30 DEF pwVars, pwPush, pwTimers, pwSeen, DiedAreGone, InPush, pwPush
<1> QED
  BY <1>1, <1>2, <1>3, <1>4, <1>5, <1>6, <1>7, <1>8, <1>9, <1>10, <1>11,
     <1>12, <1>13, <1>14, <1>15, <1>16, <1>17, <1>18, <1>19, <1>20, <1>21,
     <1>22, <1>23, <1>24, <1>25, <1>26, <1>27, <1>28, <1>29, <1>30 DEF
     PollingNext, MovesTo

(* The cycle's bindings and the window it is calling dead stay as they are *)
LEMMA CycleKeeps ==
  ASSUME "staleCycle" \notin PwHazards, PollTypes, OneShows, Cycle,
         [PollingNext]_pwVars
  PROVE  Cycle'
<1>0. /\ poll.todo \subseteq PwTopics \X PwWindows
      /\ shows \in [PwTopics -> PwWindows \cup {NoPane}]
      /\ InTick => poll.t \in PwTopics /\ poll.w \in PwWindows
      /\ NoPane \notin PwWindows
      /\ notified \subseteq PwTopics \X PwWindows
      /\ poll \in [stage : Stages, todo : SUBSET (PwTopics \X PwWindows),
                   t : PwTopics \cup {NoPane}, w : PwWindows \cup {NoPane}, saw : Seen]
  BY PollingAssumption DEF PollTypes, RestTyped, LoopTyped
<1>1. CASE ListWindows
  BY <1>1, <1>0 DEF ListWindows, Cycle, InCycle, InTick, Condemned, Leaves,
     Allowed
<1>2. CASE BeginTicks
  BY <1>2, <1>0 DEF BeginTicks, Bindings, Cycle, InCycle, InTick, Condemned,
     Leaves, Allowed
<1>3. CASE PollTimer
  BY <1>3, <1>0 DEF PollTimer, Goes, StartTimer, Cycle, InCycle, InTick,
     Condemned, Leaves, Allowed
<1>4. CASE PollBanner
  BY <1>4, <1>0 DEF PollBanner, NextBinding, Banner, TopicDeleted, Forget,
     ClearTimer, Streams, Pushed, State, Resting, Cycle, InCycle, InTick,
     Condemned, Leaves, Allowed
<1>5. CASE ReadPromptOnly
  BY <1>5, <1>0 DEF ReadPromptOnly, NextBinding, Resting, Cycle, InCycle,
     InTick, Condemned, Leaves, Allowed
<1>6. CASE ReadNothing
  BY <1>6, <1>0 DEF ReadNothing, NextBinding, Resting, Cycle, InCycle, InTick,
     Condemned, Leaves, Allowed
<1>7. CASE ReadStatus
  BY <1>7, <1>0 DEF ReadStatus, Cycle, InCycle, InTick, Condemned, Leaves,
     Allowed
<1>8. CASE ShowPrompt
  BY <1>8, <1>0 DEF ShowPrompt, NextBinding, Resting, Cycle, InCycle, InTick,
     Condemned, Leaves, Allowed
<1>9. CASE Transition
  BY <1>9, <1>0 DEF Transition, Cycle, InCycle, InTick, Condemned, Leaves,
     Allowed
<1>10. CASE Painted
  BY <1>10, <1>0 DEF Painted, NextBinding, Resting, StartTimer, ClearTimer,
     Cycle, InCycle, InTick, Condemned, Leaves, Allowed
<1>11. CASE EndTicks
  BY <1>11, <1>0 DEF EndTicks, Resting, Cycle, InCycle, InTick, Condemned,
     Leaves, Allowed
<1>12. CASE EndCycle
  BY <1>12, <1>0 DEF EndCycle, Resting, Cycle, InCycle, InTick, Condemned,
     Leaves, Allowed
<1>13. CASE Subscribe
  BY <1>13, <1>0 DEF Subscribe, Pushed, State, Cycle, InCycle, InTick,
     Condemned, Leaves, Allowed
<1>14. CASE StreamEnds
  BY <1>14, <1>0 DEF StreamEnds, Cycle, InCycle, InTick, Condemned, Leaves,
     Allowed
<1>15. CASE Receive
  BY <1>15, <1>0 DEF Receive, CallDead, MarkDead, Cycle, InCycle, InTick,
     Condemned, Leaves, Allowed
<1>16. CASE PushTimer
  BY <1>16, <1>0 DEF PushTimer, StartTimer, Cycle, InCycle, InTick, Condemned,
     Leaves, Allowed
<1>17. CASE PushBanner
  BY <1>17, <1>0 DEF PushBanner, NoCall, Banner, TopicDeleted, Forget,
     ClearTimer, Cycle, InCycle, InTick, Condemned, Leaves, Allowed
<1>18. CASE RestartPolling
  BY <1>18, <1>0 DEF RestartPolling, Resting, NoCall, Cycle, InCycle, InTick,
     Condemned, Leaves, Allowed
<1>19. ASSUME NEW w \in PwWindows, ActivityAges(w)
      PROVE  Cycle'
  BY <1>19, <1>0 DEF ActivityAges, Cycle, InCycle, InTick, Condemned, Leaves,
     Allowed
<1>20. ASSUME NEW w \in PwWindows, StartupExpires(w)
      PROVE  Cycle'
  BY <1>20, <1>0 DEF StartupExpires, Cycle, InCycle, InTick, Condemned,
     Leaves, Allowed
<1>21. ASSUME NEW w \in PwWindows, ResetPolling(w)
      PROVE  Cycle'
  BY <1>21, <1>0 DEF ResetPolling, Cycle, InCycle, InTick, Condemned, Leaves,
     Allowed
<1>22. ASSUME NEW w \in PwWindows, NEW p \in MovesTo, AgentMoves(w, p)
      PROVE  Cycle'
  BY <1>22, <1>0 DEF AgentMoves, Turns, Streams, Pushed, State, Cycle,
     InCycle, InTick, Condemned, Leaves, Allowed
<1>23. ASSUME NEW t \in PwTopics, NEW w \in PwWindows, Tick(t, w)
      PROVE  Cycle'
  <2> DEFINE rest == poll.todo \ {<<t, w>>}
  <2>5. \/ poll' = [poll EXCEPT !.todo = rest]
        \/ ~Condemned(w) /\ poll' = [stage |-> "read", todo |-> rest,
                                     t |-> t, w |-> w, saw |-> "none"]
        \/ /\ Condemned(w) /\ notified' = notified \cup {<<t, w>>}
           /\ poll' = [stage |-> "marked", todo |-> rest,
                       t |-> t, w |-> w, saw |-> "none"]
    BY <1>23 DEF Tick, CallDead, MarkDead
  <2>6. rest = poll.todo \ {<<t, w>>}
    OBVIOUS
  <2> HIDE DEF rest
  <2>1. /\ <<t, w>> \in poll.todo /\ shows[t] = w /\ poll.stage = "next"
        /\ UNCHANGED <<shows, listed>>
    BY <1>23, <1>0 DEF Tick, Cycle
  <2>2. CASE poll' = [poll EXCEPT !.todo = rest]
    <3>1. poll'.stage = "next" /\ poll'.todo = rest
      BY <1>0, <2>1, <2>2
    <3> QED
      BY <1>0, <2>1, <2>6, <3>1 DEF Cycle, InCycle
  <2>3. CASE ~Condemned(w) /\ poll' = [stage |-> "read", todo |-> rest,
                                       t |-> t, w |-> w, saw |-> "none"]
    BY <1>0, <2>1, <2>6, <2>3 DEF Cycle, InCycle
  <2>4. CASE /\ Condemned(w) /\ notified' = notified \cup {<<t, w>>}
             /\ poll' = [stage |-> "marked", todo |-> rest,
                         t |-> t, w |-> w, saw |-> "none"]
    <3>1. poll'.stage = "marked" /\ poll'.w = w /\ poll'.todo = rest
      BY <2>4
    <3>2. \A s \in PwTopics : shows'[s] = w => <<s, w>> \in notified'
      BY <1>0, <2>1, <2>4 DEF OneShows
    <3>3. Condemned(w)'
      BY <2>1, <2>4 DEF Condemned
    <3> QED
      BY <1>0, <2>1, <2>6, <3>1, <3>2, <3>3 DEF Cycle, InCycle
  <2> QED
    BY <2>2, <2>3, <2>4, <2>5
<1>24. ASSUME NEW t \in PwTopics, NEW w \in PwWindows, BindTopic(t, w)
      PROVE  Cycle'
  <2>1. /\ shows[t] = NoPane /\ ~Stale(w)
        /\ shows' = [shows EXCEPT ![t] = w]
        /\ UNCHANGED <<listed, poll, notified>>
    BY <1>24 DEF BindTopic, Allowed
  <2>2. \A b \in poll.todo : shows'[b[1]] = b[2]
    <3>1. \A b \in poll.todo : b[1] \in PwTopics /\ b[2] \in PwWindows
      BY <1>0
    <3> QED
      BY <1>0, <2>1, <3>1 DEF Cycle
  <2>3. poll.stage \in {"read", "decide", "painted"} => shows'[poll.t] = poll.w
    BY <1>0, <2>1 DEF Cycle, InTick
  <2>4. poll.stage \in {"marked", "timed"} => w # poll.w
    BY <2>1 DEF Stale, Cycle
  <2>5. poll.stage \in {"marked", "timed"} =>
          /\ Condemned(poll.w)'
          /\ \A s \in PwTopics : shows'[s] = poll.w => <<s, poll.w>> \in notified
    BY <1>0, <2>1, <2>4 DEF Cycle, Condemned
  <2> QED
    BY <2>1, <2>2, <2>3, <2>5 DEF Cycle, InCycle
<1>25. ASSUME NEW t \in PwTopics, CloseExpired(t)
      PROVE  Cycle'
  BY <1>25, <1>0 DEF CloseExpired, ClearTimer, Forget, Cycle, InCycle, InTick,
     Condemned, Leaves, Allowed
<1>26. ASSUME NEW t \in PwTopics, TimerRunsOut(t)
      PROVE  Cycle'
  BY <1>26, <1>0 DEF TimerRunsOut, Cycle, InCycle, InTick, Condemned, Leaves,
     Allowed
<1>27. ASSUME NEW t \in PwTopics, Recover(t)
      PROVE  Cycle'
  BY <1>27, <1>0 DEF Recover, Cycle, InCycle, InTick, Condemned, Leaves,
     Allowed
<1>28. ASSUME NEW t \in PwTopics, TextArrives(t)
      PROVE  Cycle'
  <2>1. /\ shows[t] # NoPane /\ ~Stale(shows[t])
        /\ UNCHANGED <<shows, listed, poll>>
        /\ notified' = {n \in notified : n[1] # t}
    BY <1>28 DEF TextArrives, Allowed
  <2>2. poll.stage \in {"marked", "timed"} => shows[t] # poll.w
    BY <2>1 DEF Stale, Cycle
  <2>3. poll.stage \in {"marked", "timed"} =>
          /\ Condemned(poll.w)'
          /\ \A s \in PwTopics : shows[s] = poll.w => <<s, poll.w>> \in notified'
    BY <1>0, <2>1, <2>2 DEF Cycle, Condemned
  <2> QED
    BY <2>1, <2>3 DEF Cycle, InCycle
<1>29. ASSUME NEW t \in PwTopics, UnbindTopic(t)
      PROVE  Cycle'
  BY <1>29, <1>0 DEF UnbindTopic, Forget, ClearTimer, Cycle, InCycle, InTick,
     Condemned, Leaves, Allowed
<1>30. CASE UNCHANGED pwVars
  BY <1>30 DEF pwVars, pwPush, pwTimers, pwSeen, Cycle, InCycle, InTick,
     Condemned, Leaves, Allowed
<1> QED
  BY <1>1, <1>2, <1>3, <1>4, <1>5, <1>6, <1>7, <1>8, <1>9, <1>10, <1>11,
     <1>12, <1>13, <1>14, <1>15, <1>16, <1>17, <1>18, <1>19, <1>20, <1>21,
     <1>22, <1>23, <1>24, <1>25, <1>26, <1>27, <1>28, <1>29, <1>30 DEF
     PollingNext, MovesTo

LEMMA CallsTyped ==
  ASSUME NEW v \in PwWindows
  PROVE  PollCalls(v) \in Nat /\ PushCalls(v) \in Nat
  BY DEF PollCalls, PushCalls

(* Nothing is called, and nothing becomes untold *)
LEMMA ToldStays ==
  ASSUME NEW v \in PwWindows, Told(v),
         ends[v] \in Nat, ends'[v] \in Nat, banners[v] \in Nat,
         ends'[v] >= ends[v], banners'[v] = banners[v], Calls(v)' = Calls(v),
         \A s \in PwTopics :
           shows'[s] = v /\ <<s, v>> \notin notified'
               /\ (Ended(v)' \/ (InCycle /\ Condemned(v))') =>
             shows[s] = v /\ <<s, v>> \notin notified
               /\ (Ended(v) \/ (InCycle /\ Condemned(v)))
  PROVE  Told(v)'
<1>1. Calls(v) \in Nat
  BY CallsTyped DEF Calls
<1>2. Untold(v)' => Untold(v)
  BY DEF Untold
<1> QED
  BY <1>1, <1>2 DEF Told

LEMMA QuietTells ==
  ASSUME NEW v \in PwWindows, Told(v), ends[v] \in Nat, banners[v] \in Nat,
         pane' = pane, shows' = shows, listed' = listed, notified' = notified,
         ends' = ends, banners' = banners, InCycle' => InCycle, Calls(v)' = Calls(v)
  PROVE  Told(v)'
  BY ToldStays DEF Ended, Condemned

(* No death is told twice: a call is made for one that is still untold *)
LEMMA ToldKeeps ==
  ASSUME "staleCycle" \notin PwHazards, DeathsInOrder, PollTypes',
         [PollingNext]_pwVars, NEW v \in PwWindows
  PROVE  Told(v)'
<1>0. /\ poll.todo \subseteq PwTopics \X PwWindows
      /\ shows \in [PwTopics -> PwWindows \cup {NoPane}]
      /\ pane \in [PwWindows -> Panes]
      /\ InTick => poll.t \in PwTopics /\ poll.w \in PwWindows
      /\ InPush => push.t \in PwTopics /\ push.w \in PwWindows
      /\ NoPane \notin PwWindows
      /\ notified \subseteq PwTopics \X PwWindows
      /\ poll \in [stage : Stages, todo : SUBSET (PwTopics \X PwWindows),
                   t : PwTopics \cup {NoPane}, w : PwWindows \cup {NoPane}, saw : Seen]
      /\ push \in [stage : {"idle", "marked", "timed"},
                   t : PwTopics \cup {NoPane}, w : PwWindows \cup {NoPane}]
      /\ ends \in [PwWindows -> Nat] /\ banners \in [PwWindows -> Nat]
      /\ ends' \in [PwWindows -> Nat]
  BY PollingAssumption DEF PollTypes, RestTyped, LoopTyped, CallTyped, DeathsInOrder
<1>c. Calls(v) \in Nat
  BY CallsTyped DEF Calls
<1>i. OneShows /\ ShownBegan /\ Cycle /\ Told(v)
  BY DEF DeathsInOrder
<1>1. CASE ListWindows
  <2>1. /\ ends' = ends /\ banners' = banners /\ pane' = pane /\ Calls(v)' = Calls(v)
        /\ shows' = shows /\ notified' = notified /\ listed' = pane
    BY <1>1, <1>0 DEF ListWindows, Calls, PollCalls, PushCalls, InPush, pwPush
  <2>2. \A s \in PwTopics : shows[s] = v /\ Condemned(v)' => Ended(v)
    BY <1>i, <2>1, <1>0 DEF Condemned, Exited, Ended, ShownBegan
  <2> QED
    BY <1>0, <1>i, <2>1, <2>2, ToldStays DEF Ended
<1>2. CASE BeginTicks
  BY <1>2, <1>0, <1>i, QuietTells DEF BeginTicks, Calls, PollCalls, PushCalls,
     InPush, InCycle, pwPush, pwSeen
<1>3. CASE PollTimer
  BY <1>3, <1>0, <1>i, QuietTells DEF PollTimer, Goes, Calls, PollCalls,
     PushCalls, InPush, InCycle, pwPush, pwSeen
<1>4. CASE PollBanner
  <2> DEFINE w == poll.w
  <2>1. /\ w \in PwWindows /\ poll.t \in PwTopics /\ poll.stage = "timed" /\ poll'.stage = "next"
        /\ Condemned(w) /\ InCycle /\ InCycle' /\ Condemned(v)' = Condemned(v)
        /\ ends' = ends /\ push' = push
        /\ \A s \in PwTopics : shows[s] = w => <<s, w>> \in notified
        /\ v # w => pane'[v] = pane[v]
    BY <1>4, <1>0, <1>i DEF PollBanner, NextBinding, InTick, InCycle, Cycle, Condemned
  <2>2. /\ Calls(v)' = PushCalls(v) /\ Calls(v) = PushCalls(v) + (IF v = w THEN 1 ELSE 0)
    BY <2>1, CallsTyped DEF Calls, PollCalls, PushCalls, InPush
  <2>3. /\ \A s \in PwTopics : shows'[s] = v /\ <<s, v>> \notin notified' =>
             shows[s] = v /\ <<s, v>> \notin notified
        /\ banners'[v] \in {banners[v], banners[v] + (IF v = w THEN 1 ELSE 0)}
    BY <1>4, <1>0 DEF PollBanner, Banner, TopicDeleted, Forget
  <2>4. v = w => ~Untold(v)'
    BY <2>1, <2>3 DEF Untold
  <2>5. v # w => (Untold(v)' => Untold(v))
    BY <2>1, <2>3 DEF Untold, Ended
  <2> QED
    BY <1>0, <1>i, <2>1, <2>2, <2>3, <2>4, <2>5, CallsTyped DEF Told
<1>5. CASE ReadPromptOnly
  BY <1>5, <1>0, <1>i, QuietTells DEF ReadPromptOnly, NextBinding, Resting,
     Calls, PollCalls, PushCalls, InPush, InCycle, pwPush, pwSeen
<1>6. CASE ReadNothing
  BY <1>6, <1>0, <1>i, QuietTells DEF ReadNothing, NextBinding, Resting, Calls,
     PollCalls, PushCalls, InPush, InCycle, pwPush, pwSeen
<1>7. CASE ReadStatus
  BY <1>7, <1>0, <1>i, QuietTells DEF ReadStatus, Calls, PollCalls, PushCalls,
     InPush, InCycle, pwPush, pwSeen
<1>8. CASE ShowPrompt
  BY <1>8, <1>0, <1>i, QuietTells DEF ShowPrompt, NextBinding, Resting, Calls,
     PollCalls, PushCalls, InPush, InCycle, pwPush, pwSeen
<1>9. CASE Transition
  BY <1>9, <1>0, <1>i, QuietTells DEF Transition, Calls, PollCalls, PushCalls,
     InPush, InCycle, pwPush, pwSeen
<1>10. CASE Painted
  BY <1>10, <1>0, <1>i, QuietTells DEF Painted, NextBinding, Resting, Calls,
     PollCalls, PushCalls, InPush, InCycle, pwPush, pwSeen
<1>11. CASE EndTicks
  BY <1>11, <1>0, <1>i, QuietTells DEF EndTicks, Resting, Calls, PollCalls,
     PushCalls, InPush, InCycle, pwPush, pwSeen
<1>12. CASE EndCycle
  BY <1>12, <1>0, <1>i, QuietTells DEF EndCycle, Resting, Calls, PollCalls,
     PushCalls, InPush, InCycle, pwPush, pwSeen
<1>13. CASE Subscribe
  BY <1>13, <1>0, <1>i, QuietTells DEF Subscribe, Calls, PollCalls, PushCalls,
     InPush, InCycle, pwPush, pwSeen
<1>14. CASE StreamEnds
  BY <1>14, <1>0, <1>i, QuietTells DEF StreamEnds, Calls, PollCalls, PushCalls,
     InPush, InCycle, pwPush, pwSeen
<1>15. CASE Receive
  <2> DEFINE w == Head(stream)[1]
  <2>1. /\ UNCHANGED <<shows, listed, pane, ends, banners, poll>> /\ push.stage = "idle"
        /\ PushCalls(v) = 0 /\ PollCalls(v)' = PollCalls(v) /\ Condemned(v)' = Condemned(v)
        /\ InCycle' = InCycle
    BY <1>15, <1>0 DEF Receive, InCycle, PollCalls, PushCalls, InPush, Condemned, pwSeen
  <2>2. w \in PwWindows /\ (Head(stream)[2] = "died" => pane[w] = "gone")
    <3>1. stream # <<>> /\ stream \in Seq(Events)
      BY <1>15 DEF Receive, DeathsInOrder, PollTypes
    <3> QED
      BY <3>1, HeadEvent DEF DeathsInOrder, DiedAreGone
  <2>3. CASE push' = push /\ notified' = notified
    <3>1. Calls(v)' = Calls(v)
      BY <2>1, <2>3 DEF Calls, PushCalls, InPush
    <3> QED
      BY <1>0, <1>i, <2>1, <2>3, <3>1, ToldStays DEF Ended
  <2>4. ASSUME NEW t \in PwTopics, shows[t] = w, <<t, w>> \notin notified, pane[w] = "gone",
               push' = [stage |-> "marked", t |-> t, w |-> w],
               notified' = notified \cup {<<t, w>>}
        PROVE  Told(v)'
    <3> HIDE DEF w
    <3>0. push'.stage = "marked" /\ push'.w = w
      BY <2>4
    <3>1. CASE v = w
      <4>1. Untold(v) /\ ~Untold(v)'
        BY <1>0, <1>i, <2>1, <2>4, <3>1 DEF Untold, OneShows, Ended
      <4>2. Calls(v)' = Calls(v) + 1
        BY <2>1, <3>0, <3>1, CallsTyped DEF Calls, PushCalls, InPush
      <4> QED
        BY <1>0, <1>i, <1>c, <2>1, <4>1, <4>2 DEF Told
    <3>2. CASE v # w
      <4>1. Calls(v)' = Calls(v)
        BY <2>1, <3>0, <3>2 DEF Calls, PushCalls, InPush
      <4> QED
        BY <1>0, <1>i, <2>1, <2>4, <3>2, <4>1, ToldStays DEF Ended
    <3> QED
      BY <3>1, <3>2
  <2> QED
    BY <1>15, <2>2, <2>3, <2>4, ReceiveCases
<1>16. CASE PushTimer
  BY <1>16, <1>0, <1>i, QuietTells DEF PushTimer, Calls, PollCalls, PushCalls,
     InPush, InCycle, pwPush, pwSeen
<1>17. CASE PushBanner
  <2> DEFINE w == push.w
  <2>1. /\ w \in PwWindows /\ push.t \in PwTopics /\ push.stage = "timed" /\ push'.stage = "idle"
        /\ InCycle' = InCycle /\ Condemned(v)' = Condemned(v)
        /\ ends' = ends /\ poll' = poll /\ pane' = pane
    BY <1>17, <1>0 DEF PushBanner, NoCall, InPush, InCycle, Condemned
  <2>2. /\ Calls(v)' = PollCalls(v) /\ Calls(v) = PollCalls(v) + (IF v = w THEN 1 ELSE 0)
    BY <2>1, CallsTyped DEF Calls, PollCalls, PushCalls, InPush
  <2>3. /\ \A s \in PwTopics : shows'[s] = v /\ <<s, v>> \notin notified' =>
             shows[s] = v /\ <<s, v>> \notin notified
        /\ banners'[v] \in {banners[v], banners[v] + (IF v = w THEN 1 ELSE 0)}
    BY <1>17, <1>0, <2>1 DEF PushBanner, Banner, TopicDeleted, Forget
  <2>4. Untold(v)' => Untold(v)
    BY <2>1, <2>3 DEF Untold, Ended
  <2> QED
    BY <1>0, <1>i, <2>1, <2>2, <2>3, <2>4, CallsTyped DEF Told
<1>18. CASE RestartPolling
  <2>1. /\ banners'[v] = 0 /\ Calls(v)' = 0 /\ ~InCycle'
        /\ ends'[v] = (IF Ended(v) THEN 1 ELSE 0) /\ pane' = pane
    BY <1>18, <1>0 DEF RestartPolling, Resting, NoCall, Calls, PollCalls, PushCalls, InPush,
       InCycle, Ended
  <2> QED
    <3>1. Untold(v)' => Ended(v)
      BY <2>1 DEF Untold, Ended
    <3> QED
      BY <2>1, <3>1 DEF Told
<1>19. ASSUME NEW w \in PwWindows, ActivityAges(w)
      PROVE  Told(v)'
  BY <1>19, <1>0, <1>i, QuietTells DEF ActivityAges, Calls, PollCalls, PushCalls,
     InPush, InCycle, pwPush, pwSeen
<1>20. ASSUME NEW w \in PwWindows, StartupExpires(w)
      PROVE  Told(v)'
  BY <1>20, <1>0, <1>i, QuietTells DEF StartupExpires, Calls, PollCalls,
     PushCalls, InPush, InCycle, pwPush, pwSeen
<1>21. ASSUME NEW w \in PwWindows, ResetPolling(w)
      PROVE  Told(v)'
  BY <1>21, <1>0, <1>i, QuietTells DEF ResetPolling, Calls, PollCalls, PushCalls,
     InPush, InCycle, pwPush, pwSeen
<1>22. ASSUME NEW w \in PwWindows, NEW p \in MovesTo, AgentMoves(w, p)
      PROVE  Told(v)'
  <2>1. /\ banners' = banners /\ Calls(v)' = Calls(v)
        /\ InCycle' = InCycle /\ Condemned(v)' = Condemned(v)
        /\ shows' = shows /\ notified' = notified
        /\ v # w => pane'[v] = pane[v] /\ ends'[v] = ends[v]
    BY <1>22, <1>0 DEF AgentMoves, Turns, Calls, PollCalls, PushCalls, InPush, InCycle, Condemned
  <2>2. CASE Ended(v)' => Ended(v)
    <3>1. ends'[v] >= ends[v]
      BY <1>22, <1>0 DEF AgentMoves, Turns
    <3> QED
      BY <1>0, <1>i, <2>1, <2>2, <3>1, ToldStays
  <2>3. CASE ~Ended(v) /\ Ended(v)'
    <3>1. v = w /\ ~Exited(w, pane[w]) /\ pane'[w] = p
      BY <1>22, <1>0, <2>1, <2>3 DEF Ended, AgentMoves, Turns
    <3>2. (\E t \in PwTopics : shows[t] = v) => ends'[v] = ends[v] + 1
      BY <1>22, <1>0, <2>3, <3>1 DEF AgentMoves, Turns, Ended
    <3>3. ends'[v] >= ends[v]
      BY <1>22, <1>0 DEF AgentMoves, Turns
    <3> QED
      <4>1. Untold(v)' => ends'[v] = ends[v] + 1
        BY <2>1, <3>2 DEF Untold
      <4> QED
        BY <1>0, <1>i, <1>c, <2>1, <3>3, <4>1 DEF Told
  <2> QED
    BY <2>2, <2>3
<1>23. ASSUME NEW t \in PwTopics, NEW w \in PwWindows, Tick(t, w)
      PROVE  Told(v)'
  <2>1. /\ <<t, w>> \in poll.todo /\ shows[t] = w /\ poll.stage = "next" /\ InCycle
        /\ UNCHANGED <<shows, listed, pane, ends, banners, push>>
        /\ PollCalls(v) = 0 /\ PushCalls(v)' = PushCalls(v) /\ Condemned(v)' = Condemned(v)
    BY <1>23, <1>0, <1>i DEF Tick, Cycle, InCycle, PollCalls, PushCalls, InPush, Condemned, pwSeen
  <2>2. \/ poll'.stage \in {"next", "read"} /\ notified' = notified
        \/ /\ Condemned(w) /\ <<t, w>> \notin notified /\ notified' = notified \cup {<<t, w>>}
           /\ poll'.stage = "marked" /\ poll'.w = w
    BY <1>23, <1>0, <2>1 DEF Tick, CallDead, MarkDead
  <2>3. CASE poll'.stage \in {"next", "read"} /\ notified' = notified
    <3>1. Calls(v)' = Calls(v)
      BY <2>1, <2>3 DEF Calls, PollCalls
    <3> QED
      BY <1>0, <1>i, <2>1, <2>3, <3>1, ToldStays DEF Ended
  <2>4. CASE /\ Condemned(w) /\ <<t, w>> \notin notified /\ notified' = notified \cup {<<t, w>>}
             /\ poll'.stage = "marked" /\ poll'.w = w
    <3>1. CASE v = w
      <4>1. Untold(v) /\ ~Untold(v)'
        BY <1>0, <1>i, <2>1, <2>4, <3>1 DEF Untold, OneShows
      <4>2. Calls(v)' = Calls(v) + 1
        BY <2>1, <2>4, <3>1, CallsTyped DEF Calls, PollCalls
      <4> QED
        BY <1>0, <1>i, <1>c, <2>1, <4>1, <4>2 DEF Told
    <3>2. CASE v # w
      <4>1. Calls(v)' = Calls(v)
        BY <2>1, <2>4, <3>2 DEF Calls, PollCalls
      <4> QED
        BY <1>0, <1>i, <2>1, <2>4, <3>2, <4>1, ToldStays DEF Ended
    <3> QED
      BY <3>1, <3>2
  <2> QED
    BY <2>2, <2>3, <2>4
<1>24. ASSUME NEW t \in PwTopics, NEW w \in PwWindows, BindTopic(t, w)
      PROVE  Told(v)'
  <2>1. /\ ends' = ends /\ banners' = banners /\ Calls(v)' = Calls(v)
        /\ InCycle' = InCycle /\ Condemned(v)' = Condemned(v) /\ notified' = notified
        /\ \A s \in PwTopics \ {t} : shows'[s] = shows[s]
        /\ shows'[t] = w /\ pane'[w] \notin {"gone", "shell"}
        /\ v # w => pane'[v] = pane[v]
        /\ ~(InCycle /\ Condemned(w))
    BY <1>24, <1>0 DEF BindTopic, Calls, PollCalls, PushCalls, InPush, InCycle, Condemned,
       pwPush, pwSeen, Stale, Allowed
  <2>2. v = w => ~Ended(v)'
    BY <2>1 DEF Ended, Exited
  <2>3. v # w => (Ended(v)' => Ended(v))
    BY <2>1 DEF Ended
  <2> QED
    BY <1>0, <1>i, <2>1, <2>2, <2>3, ToldStays
<1>25. ASSUME NEW t \in PwTopics, CloseExpired(t)
      PROVE  Told(v)'
  <2>1. /\ ends' = ends /\ banners' = banners /\ pane' = pane /\ Calls(v)' = Calls(v)
        /\ InCycle' = InCycle /\ Condemned(v)' = Condemned(v)
    BY <1>25 DEF CloseExpired, Calls, PollCalls, PushCalls, InPush, InCycle, Condemned, pwPush, pwSeen
  <2>2. \A s \in PwTopics : shows'[s] = v /\ <<s, v>> \notin notified' =>
          shows[s] = v /\ <<s, v>> \notin notified
    BY <1>25, <1>0 DEF CloseExpired, Forget
  <2> QED
    BY <1>0, <1>i, <2>1, <2>2, ToldStays DEF Ended
<1>26. ASSUME NEW t \in PwTopics, TimerRunsOut(t)
      PROVE  Told(v)'
  BY <1>26, <1>0, <1>i, QuietTells DEF TimerRunsOut, Calls, PollCalls, PushCalls,
     InPush, InCycle, pwPush, pwSeen
<1>27. ASSUME NEW t \in PwTopics, Recover(t)
      PROVE  Told(v)'
  <2>1. /\ ends' = ends /\ banners' = banners /\ pane' = pane /\ Calls(v)' = Calls(v)
        /\ InCycle' = InCycle /\ Condemned(v)' = Condemned(v)
    BY <1>27 DEF Recover, Calls, PollCalls, PushCalls, InPush, InCycle, Condemned, pwPush, pwSeen
  <2>2. \A s \in PwTopics : shows'[s] = v /\ <<s, v>> \notin notified' =>
          shows[s] = v /\ <<s, v>> \notin notified
    BY <1>27, <1>0 DEF Recover
  <2> QED
    BY <1>0, <1>i, <2>1, <2>2, ToldStays DEF Ended
<1>28. ASSUME NEW t \in PwTopics, TextArrives(t)
      PROVE  Told(v)'
  <2>1. /\ ends' = ends /\ banners' = banners /\ pane' = pane /\ Calls(v)' = Calls(v)
        /\ InCycle' = InCycle /\ Condemned(v)' = Condemned(v) /\ shows' = shows
    BY <1>28 DEF TextArrives, Calls, PollCalls, PushCalls, InPush, InCycle, Condemned,
       pwPush, pwSeen
  <2>2. \A s \in PwTopics \ {t} : <<s, v>> \notin notified' => <<s, v>> \notin notified
    BY <1>28, <1>0 DEF TextArrives
  <2>3. shows[t] = v => ~Ended(v) /\ ~(InCycle /\ Condemned(v))
    BY <1>28 DEF TextArrives, Alive, Allowed, Stale, InCycle, Ended, Exited
  <2> QED
    BY <1>0, <1>i, <2>1, <2>2, <2>3, ToldStays DEF Ended
<1>29. ASSUME NEW t \in PwTopics, UnbindTopic(t)
      PROVE  Told(v)'
  <2>1. /\ ends' = ends /\ banners' = banners /\ pane' = pane /\ Calls(v)' = Calls(v)
        /\ InCycle' = InCycle /\ Condemned(v)' = Condemned(v)
    BY <1>29 DEF UnbindTopic, Calls, PollCalls, PushCalls, InPush, InCycle, Condemned, pwPush, pwSeen
  <2>2. \A s \in PwTopics : shows'[s] = v /\ <<s, v>> \notin notified' =>
          shows[s] = v /\ <<s, v>> \notin notified
    BY <1>29, <1>0 DEF UnbindTopic, Forget
  <2> QED
    BY <1>0, <1>i, <2>1, <2>2, ToldStays DEF Ended
<1>30. CASE UNCHANGED pwVars
  BY <1>30, <1>0, <1>i, QuietTells DEF Calls, PollCalls, PushCalls, InPush, InCycle,
     pwVars, pwPush, pwSeen
<1> QED
  BY <1>1, <1>2, <1>3, <1>4, <1>5, <1>6, <1>7, <1>8, <1>9, <1>10, <1>11,
     <1>12, <1>13, <1>14, <1>15, <1>16, <1>17, <1>18, <1>19, <1>20, <1>21,
     <1>22, <1>23, <1>24, <1>25, <1>26, <1>27, <1>28, <1>29, <1>30 DEF
     PollingNext, MovesTo

(* A window busy since the listing was listed so *)
LEMMA SteadyKeeps ==
  ASSUME PollTypes, Cycle, SteadyIsBusy, [PollingNext]_pwVars
  PROVE  SteadyIsBusy'
<1>0. /\ poll.todo \subseteq PwTopics \X PwWindows
      /\ shows \in [PwTopics -> PwWindows \cup {NoPane}]
      /\ pane \in [PwWindows -> Panes] /\ listed \in [PwWindows -> Panes]
      /\ auto \in [PwTopics -> {"none", "done", "dead"}] /\ due \subseteq PwTopics
      /\ InTick => poll.t \in PwTopics /\ poll.w \in PwWindows
      /\ InPush => push.t \in PwTopics /\ push.w \in PwWindows
      /\ NoPane \notin PwWindows /\ steady \subseteq PwWindows
      /\ notified \subseteq PwTopics \X PwWindows
      /\ poll \in [stage : Stages, todo : SUBSET (PwTopics \X PwWindows),
                   t : PwTopics \cup {NoPane}, w : PwWindows \cup {NoPane}, saw : Seen]
      /\ push \in [stage : {"idle", "marked", "timed"},
                   t : PwTopics \cup {NoPane}, w : PwWindows \cup {NoPane}]
  BY PollingAssumption DEF PollTypes, RestTyped, LoopTyped, CallTyped
<1>1. CASE ListWindows
  BY <1>1, <1>0 DEF ListWindows, SteadyIsBusy, Cycle, Condemned, Exited,
     InTick, pwSeen
<1>2. CASE BeginTicks
  BY <1>2, <1>0 DEF BeginTicks, Bindings, SteadyIsBusy, Cycle, Condemned,
     Exited, InTick, pwSeen
<1>3. CASE PollTimer
  BY <1>3, <1>0 DEF PollTimer, Goes, StartTimer, SteadyIsBusy, Cycle,
     Condemned, Exited, InTick, pwSeen
<1>4. CASE PollBanner
  BY <1>4, <1>0 DEF PollBanner, NextBinding, Banner, TopicDeleted, Forget,
     ClearTimer, Streams, Pushed, State, Resting, SteadyIsBusy, Cycle,
     Condemned, Exited, InTick, pwSeen
<1>5. CASE ReadPromptOnly
  BY <1>5, <1>0 DEF ReadPromptOnly, NextBinding, Resting, SteadyIsBusy, Cycle,
     Condemned, Exited, InTick, pwSeen
<1>6. CASE ReadNothing
  BY <1>6, <1>0 DEF ReadNothing, NextBinding, Resting, SteadyIsBusy, Cycle,
     Condemned, Exited, InTick, pwSeen
<1>7. CASE ReadStatus
  BY <1>7, <1>0 DEF ReadStatus, SteadyIsBusy, Cycle, Condemned, Exited,
     InTick, pwSeen
<1>8. CASE ShowPrompt
  BY <1>8, <1>0 DEF ShowPrompt, NextBinding, Resting, SteadyIsBusy, Cycle,
     Condemned, Exited, InTick, pwSeen
<1>9. CASE Transition
  BY <1>9, <1>0 DEF Transition, SteadyIsBusy, Cycle, Condemned, Exited,
     InTick, pwSeen
<1>10. CASE Painted
  BY <1>10, <1>0 DEF Painted, NextBinding, Resting, StartTimer, ClearTimer,
     SteadyIsBusy, Cycle, Condemned, Exited, InTick, pwSeen
<1>11. CASE EndTicks
  BY <1>11, <1>0 DEF EndTicks, Resting, SteadyIsBusy, Cycle, Condemned,
     Exited, InTick, pwSeen
<1>12. CASE EndCycle
  BY <1>12, <1>0 DEF EndCycle, Resting, SteadyIsBusy, Cycle, Condemned,
     Exited, InTick, pwSeen
<1>13. CASE Subscribe
  BY <1>13, <1>0 DEF Subscribe, Pushed, State, SteadyIsBusy, Cycle, Condemned,
     Exited, InTick, pwSeen
<1>14. CASE StreamEnds
  BY <1>14, <1>0 DEF StreamEnds, SteadyIsBusy, Cycle, Condemned, Exited,
     InTick, pwSeen
<1>15. CASE Receive
  BY <1>15, <1>0 DEF Receive, CallDead, MarkDead, SteadyIsBusy, Cycle,
     Condemned, Exited, InTick, pwSeen
<1>16. CASE PushTimer
  BY <1>16, <1>0 DEF PushTimer, StartTimer, SteadyIsBusy, Cycle, Condemned,
     Exited, InTick, pwSeen
<1>17. CASE PushBanner
  BY <1>17, <1>0 DEF PushBanner, NoCall, Banner, TopicDeleted, Forget,
     ClearTimer, SteadyIsBusy, Cycle, Condemned, Exited, InTick, pwSeen
<1>18. CASE RestartPolling
  BY <1>18, <1>0 DEF RestartPolling, Resting, NoCall, SteadyIsBusy, Cycle,
     Condemned, Exited, InTick, pwSeen
<1>19. ASSUME NEW w \in PwWindows, ActivityAges(w)
      PROVE  SteadyIsBusy'
  BY <1>19, <1>0 DEF ActivityAges, SteadyIsBusy, Cycle, Condemned, Exited,
     InTick, pwSeen
<1>20. ASSUME NEW w \in PwWindows, StartupExpires(w)
      PROVE  SteadyIsBusy'
  BY <1>20, <1>0 DEF StartupExpires, SteadyIsBusy, Cycle, Condemned, Exited,
     InTick, pwSeen
<1>21. ASSUME NEW w \in PwWindows, ResetPolling(w)
      PROVE  SteadyIsBusy'
  BY <1>21, <1>0 DEF ResetPolling, SteadyIsBusy, Cycle, Condemned, Exited,
     InTick, pwSeen
<1>22. ASSUME NEW w \in PwWindows, NEW p \in MovesTo, AgentMoves(w, p)
      PROVE  SteadyIsBusy'
  BY <1>22, <1>0 DEF AgentMoves, Turns, Streams, Pushed, State, SteadyIsBusy,
     Cycle, Condemned, Exited, InTick, pwSeen
<1>23. ASSUME NEW t \in PwTopics, NEW w \in PwWindows, Tick(t, w)
      PROVE  SteadyIsBusy'
  BY <1>23, <1>0 DEF Tick, CallDead, MarkDead, SteadyIsBusy, Cycle, Condemned,
     Exited, InTick, pwSeen
<1>24. ASSUME NEW t \in PwTopics, NEW w \in PwWindows, BindTopic(t, w)
      PROVE  SteadyIsBusy'
  BY <1>24, <1>0 DEF BindTopic, SteadyIsBusy, Cycle, Condemned, Exited,
     InTick, pwSeen
<1>25. ASSUME NEW t \in PwTopics, CloseExpired(t)
      PROVE  SteadyIsBusy'
  BY <1>25, <1>0 DEF CloseExpired, ClearTimer, Forget, SteadyIsBusy, Cycle,
     Condemned, Exited, InTick, pwSeen
<1>26. ASSUME NEW t \in PwTopics, TimerRunsOut(t)
      PROVE  SteadyIsBusy'
  BY <1>26, <1>0 DEF TimerRunsOut, SteadyIsBusy, Cycle, Condemned, Exited,
     InTick, pwSeen
<1>27. ASSUME NEW t \in PwTopics, Recover(t)
      PROVE  SteadyIsBusy'
  BY <1>27, <1>0 DEF Recover, SteadyIsBusy, Cycle, Condemned, Exited, InTick,
     pwSeen
<1>28. ASSUME NEW t \in PwTopics, TextArrives(t)
      PROVE  SteadyIsBusy'
  BY <1>28, <1>0 DEF TextArrives, ClearTimer, SteadyIsBusy, Cycle, Condemned,
     Exited, InTick, pwSeen
<1>29. ASSUME NEW t \in PwTopics, UnbindTopic(t)
      PROVE  SteadyIsBusy'
  BY <1>29, <1>0 DEF UnbindTopic, Forget, ClearTimer, SteadyIsBusy, Cycle,
     Condemned, Exited, InTick, pwSeen
<1>30. CASE UNCHANGED pwVars
  BY <1>30 DEF pwVars, pwPush, pwTimers, pwSeen, SteadyIsBusy, Cycle,
     Condemned, Exited, InTick, pwSeen
<1> QED
  BY <1>1, <1>2, <1>3, <1>4, <1>5, <1>6, <1>7, <1>8, <1>9, <1>10, <1>11,
     <1>12, <1>13, <1>14, <1>15, <1>16, <1>17, <1>18, <1>19, <1>20, <1>21,
     <1>22, <1>23, <1>24, <1>25, <1>26, <1>27, <1>28, <1>29, <1>30 DEF
     PollingNext, MovesTo

(* A timer that is set off is not yet due *)
LEMMA DueKeeps ==
  ASSUME PollTypes, DueIsTimed, [PollingNext]_pwVars
  PROVE  DueIsTimed'
<1>0. /\ poll.todo \subseteq PwTopics \X PwWindows
      /\ shows \in [PwTopics -> PwWindows \cup {NoPane}]
      /\ pane \in [PwWindows -> Panes] /\ listed \in [PwWindows -> Panes]
      /\ auto \in [PwTopics -> {"none", "done", "dead"}] /\ due \subseteq PwTopics
      /\ InTick => poll.t \in PwTopics /\ poll.w \in PwWindows
      /\ InPush => push.t \in PwTopics /\ push.w \in PwWindows
      /\ NoPane \notin PwWindows /\ steady \subseteq PwWindows
      /\ notified \subseteq PwTopics \X PwWindows
      /\ poll \in [stage : Stages, todo : SUBSET (PwTopics \X PwWindows),
                   t : PwTopics \cup {NoPane}, w : PwWindows \cup {NoPane}, saw : Seen]
      /\ push \in [stage : {"idle", "marked", "timed"},
                   t : PwTopics \cup {NoPane}, w : PwWindows \cup {NoPane}]
  BY PollingAssumption DEF PollTypes, RestTyped, LoopTyped, CallTyped
<1>1. CASE ListWindows
  BY <1>1, <1>0 DEF ListWindows, DueIsTimed, pwTimers, InTick, InPush
<1>2. CASE BeginTicks
  BY <1>2, <1>0 DEF BeginTicks, Bindings, DueIsTimed, pwTimers, InTick, InPush
<1>3. CASE PollTimer
  BY <1>3, <1>0 DEF PollTimer, Goes, StartTimer, DueIsTimed, pwTimers, InTick,
     InPush
<1>4. CASE PollBanner
  BY <1>4, <1>0 DEF PollBanner, NextBinding, Banner, TopicDeleted, Forget,
     ClearTimer, Streams, Pushed, State, Resting, DueIsTimed, pwTimers,
     InTick, InPush
<1>5. CASE ReadPromptOnly
  BY <1>5, <1>0 DEF ReadPromptOnly, NextBinding, Resting, DueIsTimed,
     pwTimers, InTick, InPush
<1>6. CASE ReadNothing
  BY <1>6, <1>0 DEF ReadNothing, NextBinding, Resting, DueIsTimed, pwTimers,
     InTick, InPush
<1>7. CASE ReadStatus
  BY <1>7, <1>0 DEF ReadStatus, DueIsTimed, pwTimers, InTick, InPush
<1>8. CASE ShowPrompt
  BY <1>8, <1>0 DEF ShowPrompt, NextBinding, Resting, DueIsTimed, pwTimers,
     InTick, InPush
<1>9. CASE Transition
  BY <1>9, <1>0 DEF Transition, DueIsTimed, pwTimers, InTick, InPush
<1>10. CASE Painted
  BY <1>10, <1>0 DEF Painted, NextBinding, Resting, StartTimer, ClearTimer,
     DueIsTimed, pwTimers, InTick, InPush
<1>11. CASE EndTicks
  BY <1>11, <1>0 DEF EndTicks, Resting, DueIsTimed, pwTimers, InTick, InPush
<1>12. CASE EndCycle
  BY <1>12, <1>0 DEF EndCycle, Resting, DueIsTimed, pwTimers, InTick, InPush
<1>13. CASE Subscribe
  BY <1>13, <1>0 DEF Subscribe, Pushed, State, DueIsTimed, pwTimers, InTick,
     InPush
<1>14. CASE StreamEnds
  BY <1>14, <1>0 DEF StreamEnds, DueIsTimed, pwTimers, InTick, InPush
<1>15. CASE Receive
  BY <1>15, <1>0 DEF Receive, CallDead, MarkDead, DueIsTimed, pwTimers,
     InTick, InPush
<1>16. CASE PushTimer
  BY <1>16, <1>0 DEF PushTimer, StartTimer, DueIsTimed, pwTimers, InTick,
     InPush
<1>17. CASE PushBanner
  BY <1>17, <1>0 DEF PushBanner, NoCall, Banner, TopicDeleted, Forget,
     ClearTimer, DueIsTimed, pwTimers, InTick, InPush
<1>18. CASE RestartPolling
  BY <1>18, <1>0 DEF RestartPolling, Resting, NoCall, DueIsTimed, pwTimers,
     InTick, InPush
<1>19. ASSUME NEW w \in PwWindows, ActivityAges(w)
      PROVE  DueIsTimed'
  BY <1>19, <1>0 DEF ActivityAges, DueIsTimed, pwTimers, InTick, InPush
<1>20. ASSUME NEW w \in PwWindows, StartupExpires(w)
      PROVE  DueIsTimed'
  BY <1>20, <1>0 DEF StartupExpires, DueIsTimed, pwTimers, InTick, InPush
<1>21. ASSUME NEW w \in PwWindows, ResetPolling(w)
      PROVE  DueIsTimed'
  BY <1>21, <1>0 DEF ResetPolling, DueIsTimed, pwTimers, InTick, InPush
<1>22. ASSUME NEW w \in PwWindows, NEW p \in MovesTo, AgentMoves(w, p)
      PROVE  DueIsTimed'
  BY <1>22, <1>0 DEF AgentMoves, Turns, Streams, Pushed, State, DueIsTimed,
     pwTimers, InTick, InPush
<1>23. ASSUME NEW t \in PwTopics, NEW w \in PwWindows, Tick(t, w)
      PROVE  DueIsTimed'
  BY <1>23, <1>0 DEF Tick, CallDead, MarkDead, DueIsTimed, pwTimers, InTick,
     InPush
<1>24. ASSUME NEW t \in PwTopics, NEW w \in PwWindows, BindTopic(t, w)
      PROVE  DueIsTimed'
  BY <1>24, <1>0 DEF BindTopic, DueIsTimed, pwTimers, InTick, InPush
<1>25. ASSUME NEW t \in PwTopics, CloseExpired(t)
      PROVE  DueIsTimed'
  BY <1>25, <1>0 DEF CloseExpired, ClearTimer, Forget, DueIsTimed, pwTimers,
     InTick, InPush
<1>26. ASSUME NEW t \in PwTopics, TimerRunsOut(t)
      PROVE  DueIsTimed'
  BY <1>26, <1>0 DEF TimerRunsOut, DueIsTimed, pwTimers, InTick, InPush
<1>27. ASSUME NEW t \in PwTopics, Recover(t)
      PROVE  DueIsTimed'
  BY <1>27, <1>0 DEF Recover, DueIsTimed, pwTimers, InTick, InPush
<1>28. ASSUME NEW t \in PwTopics, TextArrives(t)
      PROVE  DueIsTimed'
  BY <1>28, <1>0 DEF TextArrives, ClearTimer, DueIsTimed, pwTimers, InTick,
     InPush
<1>29. ASSUME NEW t \in PwTopics, UnbindTopic(t)
      PROVE  DueIsTimed'
  BY <1>29, <1>0 DEF UnbindTopic, Forget, ClearTimer, DueIsTimed, pwTimers,
     InTick, InPush
<1>30. CASE UNCHANGED pwVars
  BY <1>30 DEF pwVars, pwPush, pwTimers, pwSeen, DueIsTimed, pwTimers, InTick,
     InPush
<1> QED
  BY <1>1, <1>2, <1>3, <1>4, <1>5, <1>6, <1>7, <1>8, <1>9, <1>10, <1>11,
     <1>12, <1>13, <1>14, <1>15, <1>16, <1>17, <1>18, <1>19, <1>20, <1>21,
     <1>22, <1>23, <1>24, <1>25, <1>26, <1>27, <1>28, <1>29, <1>30 DEF
     PollingNext, MovesTo

(* Done is decided of a shell *)
LEMMA DoneKeeps ==
  ASSUME PollTypes, DoneIsShell, [PollingNext]_pwVars
  PROVE  DoneIsShell'
<1>0. /\ poll.todo \subseteq PwTopics \X PwWindows
      /\ shows \in [PwTopics -> PwWindows \cup {NoPane}]
      /\ pane \in [PwWindows -> Panes] /\ listed \in [PwWindows -> Panes]
      /\ auto \in [PwTopics -> {"none", "done", "dead"}] /\ due \subseteq PwTopics
      /\ InTick => poll.t \in PwTopics /\ poll.w \in PwWindows
      /\ InPush => push.t \in PwTopics /\ push.w \in PwWindows
      /\ NoPane \notin PwWindows /\ steady \subseteq PwWindows
      /\ notified \subseteq PwTopics \X PwWindows
      /\ poll \in [stage : Stages, todo : SUBSET (PwTopics \X PwWindows),
                   t : PwTopics \cup {NoPane}, w : PwWindows \cup {NoPane}, saw : Seen]
      /\ push \in [stage : {"idle", "marked", "timed"},
                   t : PwTopics \cup {NoPane}, w : PwWindows \cup {NoPane}]
  BY PollingAssumption DEF PollTypes, RestTyped, LoopTyped, CallTyped
<1>1. CASE ListWindows
  BY <1>1, <1>0 DEF ListWindows, DoneIsShell
<1>2. CASE BeginTicks
  BY <1>2, <1>0 DEF BeginTicks, Bindings, DoneIsShell
<1>3. CASE PollTimer
  BY <1>3, <1>0 DEF PollTimer, Goes, StartTimer, DoneIsShell
<1>4. CASE PollBanner
  BY <1>4, <1>0 DEF PollBanner, NextBinding, Banner, TopicDeleted, Forget,
     ClearTimer, Streams, Pushed, State, Resting, DoneIsShell
<1>5. CASE ReadPromptOnly
  BY <1>5, <1>0 DEF ReadPromptOnly, NextBinding, Resting, DoneIsShell
<1>6. CASE ReadNothing
  BY <1>6, <1>0 DEF ReadNothing, NextBinding, Resting, DoneIsShell
<1>7. CASE ReadStatus
  BY <1>7, <1>0 DEF ReadStatus, DoneIsShell
<1>8. CASE ShowPrompt
  BY <1>8, <1>0 DEF ShowPrompt, NextBinding, Resting, DoneIsShell
<1>9. CASE Transition
  <2> DEFINE d == Decide(poll.w, poll.saw, ps[poll.w])
  <2>1. poll' = [poll EXCEPT !.stage = "painted", !.saw = d] /\ listed' = listed
    BY <1>9 DEF Transition
  <2>2. poll.w \in PwWindows /\ poll.saw \in Seen /\ ps[poll.w] \in Flags
    BY <1>9, <1>0 DEF Transition, InTick, PollTypes, RestTyped
  <2>3. d = "done" => listed[poll.w] = "shell"
    BY <2>2, DecideTyped
  <2> HIDE DEF d
  <2> QED
    BY <1>0, <2>1, <2>3 DEF DoneIsShell
<1>10. CASE Painted
  BY <1>10, <1>0 DEF Painted, NextBinding, Resting, StartTimer, ClearTimer,
     DoneIsShell
<1>11. CASE EndTicks
  BY <1>11, <1>0 DEF EndTicks, Resting, DoneIsShell
<1>12. CASE EndCycle
  BY <1>12, <1>0 DEF EndCycle, Resting, DoneIsShell
<1>13. CASE Subscribe
  BY <1>13, <1>0 DEF Subscribe, Pushed, State, DoneIsShell
<1>14. CASE StreamEnds
  BY <1>14, <1>0 DEF StreamEnds, DoneIsShell
<1>15. CASE Receive
  BY <1>15, <1>0 DEF Receive, CallDead, MarkDead, DoneIsShell
<1>16. CASE PushTimer
  BY <1>16, <1>0 DEF PushTimer, StartTimer, DoneIsShell
<1>17. CASE PushBanner
  BY <1>17, <1>0 DEF PushBanner, NoCall, Banner, TopicDeleted, Forget,
     ClearTimer, DoneIsShell
<1>18. CASE RestartPolling
  BY <1>18, <1>0 DEF RestartPolling, Resting, NoCall, DoneIsShell
<1>19. ASSUME NEW w \in PwWindows, ActivityAges(w)
      PROVE  DoneIsShell'
  BY <1>19, <1>0 DEF ActivityAges, DoneIsShell
<1>20. ASSUME NEW w \in PwWindows, StartupExpires(w)
      PROVE  DoneIsShell'
  BY <1>20, <1>0 DEF StartupExpires, DoneIsShell
<1>21. ASSUME NEW w \in PwWindows, ResetPolling(w)
      PROVE  DoneIsShell'
  BY <1>21, <1>0 DEF ResetPolling, DoneIsShell
<1>22. ASSUME NEW w \in PwWindows, NEW p \in MovesTo, AgentMoves(w, p)
      PROVE  DoneIsShell'
  BY <1>22, <1>0 DEF AgentMoves, Turns, Streams, Pushed, State, DoneIsShell
<1>23. ASSUME NEW t \in PwTopics, NEW w \in PwWindows, Tick(t, w)
      PROVE  DoneIsShell'
  BY <1>23, <1>0 DEF Tick, CallDead, MarkDead, DoneIsShell
<1>24. ASSUME NEW t \in PwTopics, NEW w \in PwWindows, BindTopic(t, w)
      PROVE  DoneIsShell'
  BY <1>24, <1>0 DEF BindTopic, DoneIsShell
<1>25. ASSUME NEW t \in PwTopics, CloseExpired(t)
      PROVE  DoneIsShell'
  BY <1>25, <1>0 DEF CloseExpired, ClearTimer, Forget, DoneIsShell
<1>26. ASSUME NEW t \in PwTopics, TimerRunsOut(t)
      PROVE  DoneIsShell'
  BY <1>26, <1>0 DEF TimerRunsOut, DoneIsShell
<1>27. ASSUME NEW t \in PwTopics, Recover(t)
      PROVE  DoneIsShell'
  BY <1>27, <1>0 DEF Recover, DoneIsShell
<1>28. ASSUME NEW t \in PwTopics, TextArrives(t)
      PROVE  DoneIsShell'
  BY <1>28, <1>0 DEF TextArrives, ClearTimer, DoneIsShell
<1>29. ASSUME NEW t \in PwTopics, UnbindTopic(t)
      PROVE  DoneIsShell'
  BY <1>29, <1>0 DEF UnbindTopic, Forget, ClearTimer, DoneIsShell
<1>30. CASE UNCHANGED pwVars
  BY <1>30 DEF pwVars, pwPush, pwTimers, pwSeen, DoneIsShell
<1> QED
  BY <1>1, <1>2, <1>3, <1>4, <1>5, <1>6, <1>7, <1>8, <1>9, <1>10, <1>11,
     <1>12, <1>13, <1>14, <1>15, <1>16, <1>17, <1>18, <1>19, <1>20, <1>21,
     <1>22, <1>23, <1>24, <1>25, <1>26, <1>27, <1>28, <1>29, <1>30 DEF
     PollingNext, MovesTo

(* A window being read is marked by the death of its pane alone *)
LEMMA ReadKeeps ==
  ASSUME "staleCycle" \notin PwHazards, PollTypes, OneShows, DiedAreGone,
         Cycle, ReadIsUnmarked, [PollingNext]_pwVars
  PROVE  ReadIsUnmarked'
<1>0. /\ poll.todo \subseteq PwTopics \X PwWindows
      /\ shows \in [PwTopics -> PwWindows \cup {NoPane}]
      /\ pane \in [PwWindows -> Panes] /\ listed \in [PwWindows -> Panes]
      /\ auto \in [PwTopics -> {"none", "done", "dead"}] /\ due \subseteq PwTopics
      /\ InTick => poll.t \in PwTopics /\ poll.w \in PwWindows
      /\ InPush => push.t \in PwTopics /\ push.w \in PwWindows
      /\ NoPane \notin PwWindows /\ steady \subseteq PwWindows
      /\ notified \subseteq PwTopics \X PwWindows
      /\ poll \in [stage : Stages, todo : SUBSET (PwTopics \X PwWindows),
                   t : PwTopics \cup {NoPane}, w : PwWindows \cup {NoPane}, saw : Seen]
      /\ push \in [stage : {"idle", "marked", "timed"},
                   t : PwTopics \cup {NoPane}, w : PwWindows \cup {NoPane}]
  BY PollingAssumption DEF PollTypes, RestTyped, LoopTyped, CallTyped
<1>1. CASE ListWindows
  BY <1>1, <1>0 DEF ListWindows, ReadIsUnmarked, InPush, InTick, Cycle
<1>2. CASE BeginTicks
  BY <1>2, <1>0 DEF BeginTicks, Bindings, ReadIsUnmarked, InPush, InTick,
     Cycle
<1>3. CASE PollTimer
  BY <1>3, <1>0 DEF PollTimer, Goes, StartTimer, ReadIsUnmarked, InPush,
     InTick, Cycle
<1>4. CASE PollBanner
  BY <1>4, <1>0 DEF PollBanner, NextBinding, Banner, TopicDeleted, Forget,
     ClearTimer, Streams, Pushed, State, Resting, ReadIsUnmarked, InPush,
     InTick, Cycle
<1>5. CASE ReadPromptOnly
  BY <1>5, <1>0 DEF ReadPromptOnly, NextBinding, Resting, ReadIsUnmarked,
     InPush, InTick, Cycle
<1>6. CASE ReadNothing
  BY <1>6, <1>0 DEF ReadNothing, NextBinding, Resting, ReadIsUnmarked, InPush,
     InTick, Cycle
<1>7. CASE ReadStatus
  BY <1>7, <1>0 DEF ReadStatus, ReadIsUnmarked, InPush, InTick, Cycle
<1>8. CASE ShowPrompt
  BY <1>8, <1>0 DEF ShowPrompt, NextBinding, Resting, ReadIsUnmarked, InPush,
     InTick, Cycle
<1>9. CASE Transition
  BY <1>9, <1>0 DEF Transition, ReadIsUnmarked, InPush, InTick, Cycle
<1>10. CASE Painted
  BY <1>10, <1>0 DEF Painted, NextBinding, Resting, StartTimer, ClearTimer,
     ReadIsUnmarked, InPush, InTick, Cycle
<1>11. CASE EndTicks
  BY <1>11, <1>0 DEF EndTicks, Resting, ReadIsUnmarked, InPush, InTick, Cycle
<1>12. CASE EndCycle
  BY <1>12, <1>0 DEF EndCycle, Resting, ReadIsUnmarked, InPush, InTick, Cycle
<1>13. CASE Subscribe
  BY <1>13, <1>0 DEF Subscribe, Pushed, State, ReadIsUnmarked, InPush, InTick,
     Cycle
<1>14. CASE StreamEnds
  BY <1>14, <1>0 DEF StreamEnds, ReadIsUnmarked, InPush, InTick, Cycle
<1>15. CASE Receive
  <2>1. stream # <<>> /\ stream \in Seq(Events) /\ UNCHANGED <<poll, pane>>
    BY <1>15 DEF Receive, PollTypes
  <2>2. Head(stream)[2] = "died" => pane[Head(stream)[1]] = "gone"
    BY <2>1, HeadEvent DEF DiedAreGone
  <2>3. \A t \in PwTopics, w \in PwWindows :
          <<t, w>> \in notified' => <<t, w>> \in notified \/ pane[w] = "gone"
    <3> DEFINE v == Head(stream)[1]
    <3>1. \/ notified' = notified
          \/ \E s \in PwTopics : notified' = notified \cup {<<s, v>>} /\ pane[v] = "gone"
      BY <1>15, <2>2, ReceiveCases
    <3> HIDE DEF v
    <3> QED
      BY <3>1
  <2> QED
    BY <1>0, <2>1, <2>3 DEF ReadIsUnmarked, InTick
<1>16. CASE PushTimer
  BY <1>16, <1>0 DEF PushTimer, StartTimer, ReadIsUnmarked, InPush, InTick,
     Cycle
<1>17. CASE PushBanner
  <2>1. notified' \subseteq notified \cup {<<push.t, push.w>>} /\ UNCHANGED <<poll, pane>>
    BY <1>17 DEF PushBanner, Banner, TopicDeleted, Forget
  <2>2. pane[push.w] = "gone"
    BY <1>17 DEF PushBanner, DiedAreGone, InPush
  <2> QED
    BY <1>0, <2>1, <2>2 DEF ReadIsUnmarked, InTick
<1>18. CASE RestartPolling
  BY <1>18, <1>0 DEF RestartPolling, Resting, NoCall, ReadIsUnmarked, InPush,
     InTick, Cycle
<1>19. ASSUME NEW w \in PwWindows, ActivityAges(w)
      PROVE  ReadIsUnmarked'
  BY <1>19, <1>0 DEF ActivityAges, ReadIsUnmarked, InPush, InTick, Cycle
<1>20. ASSUME NEW w \in PwWindows, StartupExpires(w)
      PROVE  ReadIsUnmarked'
  BY <1>20, <1>0 DEF StartupExpires, ReadIsUnmarked, InPush, InTick, Cycle
<1>21. ASSUME NEW w \in PwWindows, ResetPolling(w)
      PROVE  ReadIsUnmarked'
  BY <1>21, <1>0 DEF ResetPolling, ReadIsUnmarked, InPush, InTick, Cycle
<1>22. ASSUME NEW w \in PwWindows, NEW p \in MovesTo, AgentMoves(w, p)
      PROVE  ReadIsUnmarked'
  <2>1. UNCHANGED <<poll, notified>>
    BY <1>22 DEF AgentMoves
  <2> QED
    BY <1>0, <2>1, PaneStep DEF ReadIsUnmarked, InTick
<1>23. ASSUME NEW t \in PwTopics, NEW w \in PwWindows, Tick(t, w)
      PROVE  ReadIsUnmarked'
  BY <1>23, <1>0 DEF Tick, CallDead, MarkDead, ReadIsUnmarked, InPush, InTick,
     Cycle
<1>24. ASSUME NEW t \in PwTopics, NEW w \in PwWindows, BindTopic(t, w)
      PROVE  ReadIsUnmarked'
  BY <1>24, <1>0 DEF BindTopic, ReadIsUnmarked, InPush, InTick, Cycle
<1>25. ASSUME NEW t \in PwTopics, CloseExpired(t)
      PROVE  ReadIsUnmarked'
  BY <1>25, <1>0 DEF CloseExpired, ClearTimer, Forget, ReadIsUnmarked, InPush,
     InTick, Cycle
<1>26. ASSUME NEW t \in PwTopics, TimerRunsOut(t)
      PROVE  ReadIsUnmarked'
  BY <1>26, <1>0 DEF TimerRunsOut, ReadIsUnmarked, InPush, InTick, Cycle
<1>27. ASSUME NEW t \in PwTopics, Recover(t)
      PROVE  ReadIsUnmarked'
  BY <1>27, <1>0 DEF Recover, ReadIsUnmarked, InPush, InTick, Cycle
<1>28. ASSUME NEW t \in PwTopics, TextArrives(t)
      PROVE  ReadIsUnmarked'
  BY <1>28, <1>0 DEF TextArrives, ClearTimer, ReadIsUnmarked, InPush, InTick,
     Cycle
<1>29. ASSUME NEW t \in PwTopics, UnbindTopic(t)
      PROVE  ReadIsUnmarked'
  BY <1>29, <1>0 DEF UnbindTopic, Forget, ClearTimer, ReadIsUnmarked, InPush,
     InTick, Cycle
<1>30. CASE UNCHANGED pwVars
  BY <1>30 DEF pwVars, pwPush, pwTimers, pwSeen, ReadIsUnmarked, InPush,
     InTick, Cycle
<1> QED
  BY <1>1, <1>2, <1>3, <1>4, <1>5, <1>6, <1>7, <1>8, <1>9, <1>10, <1>11,
     <1>12, <1>13, <1>14, <1>15, <1>16, <1>17, <1>18, <1>19, <1>20, <1>21,
     <1>22, <1>23, <1>24, <1>25, <1>26, <1>27, <1>28, <1>29, <1>30 DEF
     PollingNext, MovesTo

(* A done timer and a mark meet in a topic whose window died *)
LEMMA UnmarkedKeeps ==
  ASSUME "staleCycle" \notin PwHazards, "timedBind" \notin PwHazards, PollTypes,
         OneShows, DiedAreGone, Cycle, ReadIsUnmarked, DoneIsUnmarked,
         [PollingNext]_pwVars
  PROVE  DoneIsUnmarked'
<1>0. /\ poll.todo \subseteq PwTopics \X PwWindows
      /\ shows \in [PwTopics -> PwWindows \cup {NoPane}]
      /\ pane \in [PwWindows -> Panes] /\ listed \in [PwWindows -> Panes]
      /\ auto \in [PwTopics -> {"none", "done", "dead"}] /\ due \subseteq PwTopics
      /\ InTick => poll.t \in PwTopics /\ poll.w \in PwWindows
      /\ InPush => push.t \in PwTopics /\ push.w \in PwWindows
      /\ NoPane \notin PwWindows /\ steady \subseteq PwWindows
      /\ notified \subseteq PwTopics \X PwWindows
      /\ poll \in [stage : Stages, todo : SUBSET (PwTopics \X PwWindows),
                   t : PwTopics \cup {NoPane}, w : PwWindows \cup {NoPane}, saw : Seen]
      /\ push \in [stage : {"idle", "marked", "timed"},
                   t : PwTopics \cup {NoPane}, w : PwWindows \cup {NoPane}]
  BY PollingAssumption DEF PollTypes, RestTyped, LoopTyped, CallTyped
<1>1. CASE ListWindows
  BY <1>1, <1>0 DEF ListWindows, DoneIsUnmarked, ReadIsUnmarked, InPush,
     InTick, Cycle, Allowed, DiedAreGone, pwTimers
<1>2. CASE BeginTicks
  BY <1>2, <1>0 DEF BeginTicks, Bindings, DoneIsUnmarked, ReadIsUnmarked,
     InPush, InTick, Cycle, Allowed, DiedAreGone, pwTimers
<1>3. CASE PollTimer
  BY <1>3, <1>0 DEF PollTimer, Goes, StartTimer, DoneIsUnmarked,
     ReadIsUnmarked, InPush, InTick, Cycle, Allowed, DiedAreGone, pwTimers
<1>4. CASE PollBanner
  BY <1>4, <1>0 DEF PollBanner, NextBinding, Banner, TopicDeleted, Forget,
     ClearTimer, Streams, Pushed, State, Resting, DoneIsUnmarked,
     ReadIsUnmarked, InPush, InTick, Cycle, Allowed, DiedAreGone, pwTimers
<1>5. CASE ReadPromptOnly
  BY <1>5, <1>0 DEF ReadPromptOnly, NextBinding, Resting, DoneIsUnmarked,
     ReadIsUnmarked, InPush, InTick, Cycle, Allowed, DiedAreGone, pwTimers
<1>6. CASE ReadNothing
  BY <1>6, <1>0 DEF ReadNothing, NextBinding, Resting, DoneIsUnmarked,
     ReadIsUnmarked, InPush, InTick, Cycle, Allowed, DiedAreGone, pwTimers
<1>7. CASE ReadStatus
  BY <1>7, <1>0 DEF ReadStatus, DoneIsUnmarked, ReadIsUnmarked, InPush,
     InTick, Cycle, Allowed, DiedAreGone, pwTimers
<1>8. CASE ShowPrompt
  BY <1>8, <1>0 DEF ShowPrompt, NextBinding, Resting, DoneIsUnmarked,
     ReadIsUnmarked, InPush, InTick, Cycle, Allowed, DiedAreGone, pwTimers
<1>9. CASE Transition
  BY <1>9, <1>0 DEF Transition, DoneIsUnmarked, ReadIsUnmarked, InPush,
     InTick, Cycle, Allowed, DiedAreGone, pwTimers
<1>10. CASE Painted
  BY <1>10, <1>0 DEF Painted, NextBinding, Resting, StartTimer, ClearTimer,
     DoneIsUnmarked, ReadIsUnmarked, InPush, InTick, Cycle, Allowed,
     DiedAreGone, pwTimers
<1>11. CASE EndTicks
  BY <1>11, <1>0 DEF EndTicks, Resting, DoneIsUnmarked, ReadIsUnmarked,
     InPush, InTick, Cycle, Allowed, DiedAreGone, pwTimers
<1>12. CASE EndCycle
  BY <1>12, <1>0 DEF EndCycle, Resting, DoneIsUnmarked, ReadIsUnmarked,
     InPush, InTick, Cycle, Allowed, DiedAreGone, pwTimers
<1>13. CASE Subscribe
  BY <1>13, <1>0 DEF Subscribe, Pushed, State, DoneIsUnmarked, ReadIsUnmarked,
     InPush, InTick, Cycle, Allowed, DiedAreGone, pwTimers
<1>14. CASE StreamEnds
  BY <1>14, <1>0 DEF StreamEnds, DoneIsUnmarked, ReadIsUnmarked, InPush,
     InTick, Cycle, Allowed, DiedAreGone, pwTimers
<1>15. CASE Receive
  <2>1. stream # <<>> /\ stream \in Seq(Events) /\ UNCHANGED <<poll, pane, auto, shows>>
    BY <1>15 DEF Receive, PollTypes, pwTimers
  <2>2. Head(stream)[2] = "died" => pane[Head(stream)[1]] = "gone"
    BY <2>1, HeadEvent DEF DiedAreGone
  <2>3. \A t \in PwTopics, w \in PwWindows :
          <<t, w>> \in notified' => <<t, w>> \in notified \/ pane[w] = "gone"
    <3> DEFINE v == Head(stream)[1]
    <3>1. \/ notified' = notified
          \/ \E s \in PwTopics : notified' = notified \cup {<<s, v>>} /\ pane[v] = "gone"
      BY <1>15, <2>2, ReceiveCases
    <3> HIDE DEF v
    <3> QED
      BY <3>1
  <2> QED
    BY <1>0, <2>1, <2>3 DEF DoneIsUnmarked
<1>16. CASE PushTimer
  BY <1>16, <1>0 DEF PushTimer, StartTimer, DoneIsUnmarked, ReadIsUnmarked,
     InPush, InTick, Cycle, Allowed, DiedAreGone, pwTimers
<1>17. CASE PushBanner
  BY <1>17, <1>0 DEF PushBanner, NoCall, Banner, TopicDeleted, Forget,
     ClearTimer, DoneIsUnmarked, ReadIsUnmarked, InPush, InTick, Cycle,
     Allowed, DiedAreGone, pwTimers
<1>18. CASE RestartPolling
  BY <1>18, <1>0 DEF RestartPolling, Resting, NoCall, DoneIsUnmarked,
     ReadIsUnmarked, InPush, InTick, Cycle, Allowed, DiedAreGone, pwTimers
<1>19. ASSUME NEW w \in PwWindows, ActivityAges(w)
      PROVE  DoneIsUnmarked'
  BY <1>19, <1>0 DEF ActivityAges, DoneIsUnmarked, ReadIsUnmarked, InPush,
     InTick, Cycle, Allowed, DiedAreGone, pwTimers
<1>20. ASSUME NEW w \in PwWindows, StartupExpires(w)
      PROVE  DoneIsUnmarked'
  BY <1>20, <1>0 DEF StartupExpires, DoneIsUnmarked, ReadIsUnmarked, InPush,
     InTick, Cycle, Allowed, DiedAreGone, pwTimers
<1>21. ASSUME NEW w \in PwWindows, ResetPolling(w)
      PROVE  DoneIsUnmarked'
  BY <1>21, <1>0 DEF ResetPolling, DoneIsUnmarked, ReadIsUnmarked, InPush,
     InTick, Cycle, Allowed, DiedAreGone, pwTimers
<1>22. ASSUME NEW w \in PwWindows, NEW p \in MovesTo, AgentMoves(w, p)
      PROVE  DoneIsUnmarked'
  <2>1. UNCHANGED <<poll, notified, auto, shows>>
    BY <1>22 DEF AgentMoves, pwTimers
  <2> QED
    BY <1>0, <2>1, PaneStep DEF DoneIsUnmarked
<1>23. ASSUME NEW t \in PwTopics, NEW w \in PwWindows, Tick(t, w)
      PROVE  DoneIsUnmarked'
  BY <1>23, <1>0 DEF Tick, CallDead, MarkDead, DoneIsUnmarked, ReadIsUnmarked,
     InPush, InTick, Cycle, Allowed, DiedAreGone, pwTimers
<1>24. ASSUME NEW t \in PwTopics, NEW w \in PwWindows, BindTopic(t, w)
      PROVE  DoneIsUnmarked'
  BY <1>24, <1>0 DEF BindTopic, DoneIsUnmarked, ReadIsUnmarked, InPush,
     InTick, Cycle, Allowed, DiedAreGone, pwTimers
<1>25. ASSUME NEW t \in PwTopics, CloseExpired(t)
      PROVE  DoneIsUnmarked'
  BY <1>25, <1>0 DEF CloseExpired, ClearTimer, Forget, DoneIsUnmarked,
     ReadIsUnmarked, InPush, InTick, Cycle, Allowed, DiedAreGone, pwTimers
<1>26. ASSUME NEW t \in PwTopics, TimerRunsOut(t)
      PROVE  DoneIsUnmarked'
  BY <1>26, <1>0 DEF TimerRunsOut, DoneIsUnmarked, ReadIsUnmarked, InPush,
     InTick, Cycle, Allowed, DiedAreGone, pwTimers
<1>27. ASSUME NEW t \in PwTopics, Recover(t)
      PROVE  DoneIsUnmarked'
  BY <1>27, <1>0 DEF Recover, DoneIsUnmarked, ReadIsUnmarked, InPush, InTick,
     Cycle, Allowed, DiedAreGone, pwTimers
<1>28. ASSUME NEW t \in PwTopics, TextArrives(t)
      PROVE  DoneIsUnmarked'
  BY <1>28, <1>0 DEF TextArrives, ClearTimer, DoneIsUnmarked, ReadIsUnmarked,
     InPush, InTick, Cycle, Allowed, DiedAreGone, pwTimers
<1>29. ASSUME NEW t \in PwTopics, UnbindTopic(t)
      PROVE  DoneIsUnmarked'
  BY <1>29, <1>0 DEF UnbindTopic, Forget, ClearTimer, DoneIsUnmarked,
     ReadIsUnmarked, InPush, InTick, Cycle, Allowed, DiedAreGone, pwTimers
<1>30. CASE UNCHANGED pwVars
  BY <1>30 DEF pwVars, pwPush, pwTimers, pwSeen, DoneIsUnmarked,
     ReadIsUnmarked, InPush, InTick, Cycle, Allowed, DiedAreGone, pwTimers
<1> QED
  BY <1>1, <1>2, <1>3, <1>4, <1>5, <1>6, <1>7, <1>8, <1>9, <1>10, <1>11,
     <1>12, <1>13, <1>14, <1>15, <1>16, <1>17, <1>18, <1>19, <1>20, <1>21,
     <1>22, <1>23, <1>24, <1>25, <1>26, <1>27, <1>28, <1>29, <1>30 DEF
     PollingNext, MovesTo

(* What a done timer and a working window still wait for *)
LEMMA PendingKeeps ==
  ASSUME "staleCycle" \notin PwHazards, "timedBind" \notin PwHazards,
         "unreadTick" \notin PwHazards, "stalePush" \notin PwHazards,
         PollTypes, OneShows, Cycle, SteadyIsBusy, DoneIsShell, DoneIsUnmarked,
         TicksPending, [PollingNext]_pwVars
  PROVE  TicksPending'
<1>0. /\ poll.todo \subseteq PwTopics \X PwWindows
      /\ shows \in [PwTopics -> PwWindows \cup {NoPane}]
      /\ pane \in [PwWindows -> Panes] /\ listed \in [PwWindows -> Panes]
      /\ auto \in [PwTopics -> {"none", "done", "dead"}] /\ due \subseteq PwTopics
      /\ InTick => poll.t \in PwTopics /\ poll.w \in PwWindows
      /\ InPush => push.t \in PwTopics /\ push.w \in PwWindows
      /\ NoPane \notin PwWindows /\ steady \subseteq PwWindows
      /\ notified \subseteq PwTopics \X PwWindows
      /\ poll \in [stage : Stages, todo : SUBSET (PwTopics \X PwWindows),
                   t : PwTopics \cup {NoPane}, w : PwWindows \cup {NoPane}, saw : Seen]
      /\ push \in [stage : {"idle", "marked", "timed"},
                   t : PwTopics \cup {NoPane}, w : PwWindows \cup {NoPane}]
  BY PollingAssumption DEF PollTypes, RestTyped, LoopTyped, CallTyped
<1>1. CASE ListWindows
  BY <1>1, <1>0 DEF ListWindows, TicksPending, ReadIsWorking, SteadyIsBusy,
     InPush, InTick, Cycle, Allowed, Alive, pwTimers, pwSeen
<1>2. CASE BeginTicks
  BY <1>2, <1>0 DEF BeginTicks, Bindings, TicksPending, ReadIsWorking,
     SteadyIsBusy, InPush, InTick, Cycle, Allowed, Alive, pwTimers, pwSeen
<1>3. CASE PollTimer
  BY <1>3, <1>0 DEF PollTimer, Goes, StartTimer, TicksPending, ReadIsWorking,
     SteadyIsBusy, InPush, InTick, Cycle, Allowed, Alive, pwTimers, pwSeen
<1>4. CASE PollBanner
  BY <1>4, <1>0 DEF PollBanner, NextBinding, Banner, TopicDeleted, Forget,
     ClearTimer, Streams, Pushed, State, Resting, TicksPending, ReadIsWorking,
     SteadyIsBusy, InPush, InTick, Cycle, Allowed, Alive, pwTimers, pwSeen
<1>5. CASE ReadPromptOnly
  BY <1>5, <1>0 DEF ReadPromptOnly, NextBinding, Resting, TicksPending,
     ReadIsWorking, SteadyIsBusy, InPush, InTick, Cycle, Allowed, Alive,
     pwTimers, pwSeen
<1>6. CASE ReadNothing
  BY <1>6, <1>0 DEF ReadNothing, NextBinding, Resting, TicksPending,
     ReadIsWorking, SteadyIsBusy, InPush, InTick, Cycle, Allowed, Alive,
     pwTimers, pwSeen
<1>7. CASE ReadStatus
  <2>1. /\ UNCHANGED <<auto, shows, steady>> /\ poll.stage = "read"
        /\ poll' = [poll EXCEPT !.stage = "decide", !.saw = Resolved(poll.w)]
        /\ cache[poll.w] \in {"cold", State(pane[poll.w])}
        /\ poll.w \in PwWindows
    BY <1>7, <1>0 DEF ReadStatus, Allowed, InTick, pwTimers, pwSeen
  <2>2. poll.w \in steady => Resolved(poll.w) = "busy"
    BY <2>1, BusyResolved DEF SteadyIsBusy
  <2>3. /\ poll'.stage = "decide" /\ poll'.saw = Resolved(poll.w) /\ poll'.w = poll.w
        /\ poll'.t = poll.t /\ poll'.todo = poll.todo
    BY <1>0, <2>1
  <2> QED
    BY <1>0, <2>1, <2>2, <2>3 DEF TicksPending, ReadIsWorking
<1>8. CASE ShowPrompt
  BY <1>8, <1>0 DEF ShowPrompt, NextBinding, Resting, TicksPending,
     ReadIsWorking, SteadyIsBusy, InPush, InTick, Cycle, Allowed, Alive,
     pwTimers, pwSeen
<1>9. CASE Transition
  <2> DEFINE d == Decide(poll.w, poll.saw, ps[poll.w])
  <2>1. /\ UNCHANGED <<auto, shows, steady>> /\ poll.stage = "decide"
        /\ poll' = [poll EXCEPT !.stage = "painted", !.saw = d]
    BY <1>9 DEF Transition, pwTimers
  <2>2. poll.w \in PwWindows /\ poll.saw \in Seen /\ ps[poll.w] \in Flags
    BY <1>9, <1>0 DEF Transition, InTick, PollTypes, RestTyped
  <2>3. poll.saw = "busy" => d = "working"
    BY <2>2, DecideTyped
  <2> HIDE DEF d
  <2>4. /\ poll'.stage = "painted" /\ poll'.saw = d /\ poll'.w = poll.w
        /\ poll'.t = poll.t /\ poll'.todo = poll.todo
    BY <1>0, <2>1
  <2> QED
    BY <1>0, <2>1, <2>3, <2>4 DEF TicksPending, ReadIsWorking
<1>10. CASE Painted
  <2>1. /\ UNCHANGED <<shows, steady>> /\ poll.stage = "painted"
        /\ auto' = [auto EXCEPT ![poll.t] = IF poll.saw = "done" THEN "done" ELSE "none"]
        /\ poll'.stage = "next" /\ poll'.todo = poll.todo
    BY <1>10, <1>0 DEF Painted, NextBinding, Resting, StartTimer, ClearTimer, pwSeen
  <2>2. poll.t \in PwTopics /\ shows[poll.t] = poll.w
    BY <1>0, <2>1 DEF InTick, Cycle
  <2>3. poll.saw = "done" => poll.w \notin steady
    BY <2>1 DEF DoneIsShell, SteadyIsBusy
  <2> QED
    BY <1>0, <2>1, <2>2, <2>3 DEF TicksPending, ReadIsWorking
<1>11. CASE EndTicks
  BY <1>11, <1>0 DEF EndTicks, Resting, TicksPending, ReadIsWorking,
     SteadyIsBusy, InPush, InTick, Cycle, Allowed, Alive, pwTimers, pwSeen
<1>12. CASE EndCycle
  BY <1>12, <1>0 DEF EndCycle, Resting, TicksPending, ReadIsWorking,
     SteadyIsBusy, InPush, InTick, Cycle, Allowed, Alive, pwTimers, pwSeen
<1>13. CASE Subscribe
  BY <1>13, <1>0 DEF Subscribe, Pushed, State, TicksPending, ReadIsWorking,
     SteadyIsBusy, InPush, InTick, Cycle, Allowed, Alive, pwTimers, pwSeen
<1>14. CASE StreamEnds
  BY <1>14, <1>0 DEF StreamEnds, TicksPending, ReadIsWorking, SteadyIsBusy,
     InPush, InTick, Cycle, Allowed, Alive, pwTimers, pwSeen
<1>15. CASE Receive
  BY <1>15, <1>0 DEF Receive, CallDead, MarkDead, TicksPending, ReadIsWorking,
     SteadyIsBusy, InPush, InTick, Cycle, Allowed, Alive, pwTimers, pwSeen
<1>16. CASE PushTimer
  BY <1>16, <1>0 DEF PushTimer, StartTimer, TicksPending, ReadIsWorking,
     SteadyIsBusy, InPush, InTick, Cycle, Allowed, Alive, pwTimers, pwSeen
<1>17. CASE PushBanner
  BY <1>17, <1>0 DEF PushBanner, NoCall, Banner, TopicDeleted, Forget,
     ClearTimer, TicksPending, ReadIsWorking, SteadyIsBusy, InPush, InTick,
     Cycle, Allowed, Alive, pwTimers, pwSeen
<1>18. CASE RestartPolling
  BY <1>18, <1>0 DEF RestartPolling, Resting, NoCall, TicksPending,
     ReadIsWorking, SteadyIsBusy, InPush, InTick, Cycle, Allowed, Alive,
     pwTimers, pwSeen
<1>19. ASSUME NEW w \in PwWindows, ActivityAges(w)
      PROVE  TicksPending'
  BY <1>19, <1>0 DEF ActivityAges, TicksPending, ReadIsWorking, SteadyIsBusy,
     InPush, InTick, Cycle, Allowed, Alive, pwTimers, pwSeen
<1>20. ASSUME NEW w \in PwWindows, StartupExpires(w)
      PROVE  TicksPending'
  BY <1>20, <1>0 DEF StartupExpires, TicksPending, ReadIsWorking,
     SteadyIsBusy, InPush, InTick, Cycle, Allowed, Alive, pwTimers, pwSeen
<1>21. ASSUME NEW w \in PwWindows, ResetPolling(w)
      PROVE  TicksPending'
  BY <1>21, <1>0 DEF ResetPolling, TicksPending, ReadIsWorking, SteadyIsBusy,
     InPush, InTick, Cycle, Allowed, Alive, pwTimers, pwSeen
<1>22. ASSUME NEW w \in PwWindows, NEW p \in MovesTo, AgentMoves(w, p)
      PROVE  TicksPending'
  BY <1>22, <1>0 DEF AgentMoves, Turns, Streams, Pushed, State, TicksPending,
     ReadIsWorking, SteadyIsBusy, InPush, InTick, Cycle, Allowed, Alive,
     pwTimers, pwSeen
<1>23. ASSUME NEW t \in PwTopics, NEW w \in PwWindows, Tick(t, w)
      PROVE  TicksPending'
  <2> DEFINE rest == poll.todo \ {<<t, w>>}
  <2>1. /\ UNCHANGED <<shows, steady, auto>> /\ poll.stage = "next" /\ <<t, w>> \in poll.todo
        /\ \/ <<t, w>> \in notified /\ poll' = [poll EXCEPT !.todo = rest]
           \/ ~Condemned(w) /\ poll' = [stage |-> "read", todo |-> rest,
                                        t |-> t, w |-> w, saw |-> "none"]
           \/ Condemned(w) /\ poll' = [stage |-> "marked", todo |-> rest,
                                       t |-> t, w |-> w, saw |-> "none"]
    BY <1>23 DEF Tick, pwTimers, pwSeen
  <2>2. shows[t] = w /\ \A b \in rest : b \in poll.todo
    BY <1>0, <2>1 DEF Cycle
  <2>3. \A b \in poll.todo : b = <<t, w>> \/ b \in rest
    OBVIOUS
  <2> HIDE DEF rest
  <2>4. CASE <<t, w>> \in notified /\ poll' = [poll EXCEPT !.todo = rest]
    <3>1. poll'.stage = "next" /\ poll'.todo = rest
      BY <1>0, <2>1, <2>4
    <3>2. ~(auto[t] = "done" /\ w \in steady)
      BY <1>0, <2>1, <2>2, <2>4 DEF DoneIsUnmarked, SteadyIsBusy
    <3> QED
      BY <1>0, <2>1, <2>2, <2>3, <3>1, <3>2 DEF TicksPending, ReadIsWorking
  <2>5. CASE poll' = [stage |-> "read", todo |-> rest, t |-> t, w |-> w, saw |-> "none"]
    BY <1>0, <2>1, <2>2, <2>3, <2>5 DEF TicksPending, ReadIsWorking
  <2>6. CASE /\ Condemned(w)
             /\ poll' = [stage |-> "marked", todo |-> rest, t |-> t, w |-> w, saw |-> "none"]
    <3>1. w \notin steady
      BY <2>6 DEF Condemned, Exited, SteadyIsBusy
    <3> QED
      BY <1>0, <2>1, <2>2, <2>3, <2>6, <3>1 DEF TicksPending, ReadIsWorking
  <2> QED
    BY <2>1, <2>4, <2>5, <2>6
<1>24. ASSUME NEW t \in PwTopics, NEW w \in PwWindows, BindTopic(t, w)
      PROVE  TicksPending'
  BY <1>24, <1>0 DEF BindTopic, TicksPending, ReadIsWorking, SteadyIsBusy,
     InPush, InTick, Cycle, Allowed, Alive, pwTimers, pwSeen
<1>25. ASSUME NEW t \in PwTopics, CloseExpired(t)
      PROVE  TicksPending'
  BY <1>25, <1>0 DEF CloseExpired, ClearTimer, Forget, TicksPending,
     ReadIsWorking, SteadyIsBusy, InPush, InTick, Cycle, Allowed, Alive,
     pwTimers, pwSeen
<1>26. ASSUME NEW t \in PwTopics, TimerRunsOut(t)
      PROVE  TicksPending'
  BY <1>26, <1>0 DEF TimerRunsOut, TicksPending, ReadIsWorking, SteadyIsBusy,
     InPush, InTick, Cycle, Allowed, Alive, pwTimers, pwSeen
<1>27. ASSUME NEW t \in PwTopics, Recover(t)
      PROVE  TicksPending'
  BY <1>27, <1>0 DEF Recover, TicksPending, ReadIsWorking, SteadyIsBusy,
     InPush, InTick, Cycle, Allowed, Alive, pwTimers, pwSeen
<1>28. ASSUME NEW t \in PwTopics, TextArrives(t)
      PROVE  TicksPending'
  BY <1>28, <1>0 DEF TextArrives, ClearTimer, TicksPending, ReadIsWorking,
     SteadyIsBusy, InPush, InTick, Cycle, Allowed, Alive, pwTimers, pwSeen
<1>29. ASSUME NEW t \in PwTopics, UnbindTopic(t)
      PROVE  TicksPending'
  BY <1>29, <1>0 DEF UnbindTopic, Forget, ClearTimer, TicksPending,
     ReadIsWorking, SteadyIsBusy, InPush, InTick, Cycle, Allowed, Alive,
     pwTimers, pwSeen
<1>30. CASE UNCHANGED pwVars
  BY <1>30 DEF pwVars, pwPush, pwTimers, pwSeen, TicksPending, ReadIsWorking,
     SteadyIsBusy, InPush, InTick, Cycle, Allowed, Alive, pwTimers, pwSeen
<1> QED
  BY <1>1, <1>2, <1>3, <1>4, <1>5, <1>6, <1>7, <1>8, <1>9, <1>10, <1>11,
     <1>12, <1>13, <1>14, <1>15, <1>16, <1>17, <1>18, <1>19, <1>20, <1>21,
     <1>22, <1>23, <1>24, <1>25, <1>26, <1>27, <1>28, <1>29, <1>30 DEF
     PollingNext, MovesTo

(* What a busy reading tells of the pane, and what a tick decides and records *)
LEMMA ResolvedIsBusy ==
  ASSUME NEW w \in PwWindows, cache[w] \in {"cold", State(pane[w])}, PollTypes,
         Resolved(w) = "busy"
  PROVE  pane[w] = "busy"
<1>1. Reported(w) = State(pane[w])
  BY DEF Reported
<1>2. CASE pane[w] = "prompt"
  BY <1>1, <1>2 DEF Resolved, Scraped, State, PollTypes, RestTyped
<1>3. CASE pane[w] \notin {"busy", "prompt"}
  BY <1>1, <1>3 DEF Resolved, Scraped, Busy, State, PollTypes, RestTyped
<1> QED
  BY <1>2, <1>3

TransitionTo(d) ==
  LET w == poll.w IN
  /\ d \in {"working", "active", "done", "ready", "idle", "starting"}
  /\ poll.stage = "decide" /\ w \in PwWindows
  /\ poll'.stage = "painted" /\ poll'.saw = d /\ poll'.w = w /\ poll'.todo = poll.todo
  /\ UNCHANGED <<pane, recent, shows, listed>>
  /\ d = "working" => poll.saw = "busy"
  /\ d = "active" => w \in recent
  /\ d = "done" => w \in HookWindows
  /\ d = "ready" => /\ w \notin recent /\ listed[w] = "shell" /\ w \notin HookWindows
                   /\ ps[w].seen /\ ~ps[w].announced /\ ps'[w].announced
  /\ d \in {"idle", "starting"} =>
       ps'[w].seen = ps[w].seen /\ ps'[w].announced = ps[w].announced
  /\ \A v \in PwWindows : v # w => ps'[v] = ps[v]
  /\ worked' = IF d = "ready" THEN worked \ {w} ELSE worked

LEMMA TransitionEffect ==
  ASSUME PollTypes, Transition
  PROVE  \E d \in Seen : TransitionTo(d)
<1> DEFINE w == poll.w
           d == Decide(w, poll.saw, ps[w])
           f == Recorded(w, d, ps[w])
<1>1. /\ w \in PwWindows /\ poll.saw \in Seen /\ ps[w] \in Flags
      /\ poll \in [stage : Stages, todo : SUBSET (PwTopics \X PwWindows),
                   t : PwTopics \cup {NoPane}, w : PwWindows \cup {NoPane}, saw : Seen]
      /\ ps \in [PwWindows -> Flags]
  BY DEF Transition, PollTypes, RestTyped, LoopTyped, InTick
<1>2. /\ ps' = [ps EXCEPT ![w] = f] /\ poll.stage = "decide"
      /\ poll' = [poll EXCEPT !.stage = "painted", !.saw = d]
      /\ worked' = IF d = "ready" THEN worked \ {w} ELSE worked
      /\ UNCHANGED <<pane, recent, shows, listed>>
  BY DEF Transition
<1>3. /\ d \in {"working", "active", "done", "ready", "idle", "starting"}
      /\ d = "working" => poll.saw = "busy"
      /\ d = "active" => w \in recent
      /\ d = "done" => w \in HookWindows
      /\ d = "ready" => /\ w \notin recent /\ listed[w] = "shell"
                       /\ w \notin HookWindows /\ ps[w].seen /\ ~ps[w].announced
  BY <1>1, DecideTyped
<1>4. d \in Seen
  BY <1>3 DEF Seen
<1>5. /\ f \in Flags
      /\ d = "ready" => f.announced
      /\ d \in {"idle", "starting"} => f.seen = ps[w].seen /\ f.announced = ps[w].announced
  BY <1>1, <1>4, RecordedTyped
<1> HIDE DEF d, f
<1>6. /\ poll'.stage = "painted" /\ poll'.saw = d /\ poll'.w = w /\ poll'.todo = poll.todo
      /\ ps'[w] = f /\ \A v \in PwWindows : v # w => ps'[v] = ps[v]
  BY <1>1, <1>2
<1>7. TransitionTo(d)
  BY <1>1, <1>2, <1>3, <1>5, <1>6 DEF TransitionTo
<1> QED
  BY <1>4, <1>7

(* A window that runs has a fresh transcript, and has worked *)
LEMMA BusyKeeps ==
  ASSUME PollTypes, BusyWorked, [PollingNext]_pwVars
  PROVE  BusyWorked'
<1>0. /\ poll.todo \subseteq PwTopics \X PwWindows
      /\ shows \in [PwTopics -> PwWindows \cup {NoPane}]
      /\ pane \in [PwWindows -> Panes] /\ listed \in [PwWindows -> Panes]
      /\ auto \in [PwTopics -> {"none", "done", "dead"}] /\ due \subseteq PwTopics
      /\ InTick => poll.t \in PwTopics /\ poll.w \in PwWindows
      /\ InPush => push.t \in PwTopics /\ push.w \in PwWindows
      /\ NoPane \notin PwWindows /\ steady \subseteq PwWindows
      /\ notified \subseteq PwTopics \X PwWindows
      /\ poll \in [stage : Stages, todo : SUBSET (PwTopics \X PwWindows),
                   t : PwTopics \cup {NoPane}, w : PwWindows \cup {NoPane}, saw : Seen]
      /\ push \in [stage : {"idle", "marked", "timed"},
                   t : PwTopics \cup {NoPane}, w : PwWindows \cup {NoPane}]
      /\ recent \subseteq PwWindows /\ worked \subseteq PwWindows
      /\ ps \in [PwWindows -> Flags]
  BY PollingAssumption DEF PollTypes, RestTyped, LoopTyped, CallTyped
<1>1. CASE ListWindows
  BY <1>1, <1>0 DEF ListWindows, BusyWorked, pwSeen, InTick
<1>2. CASE BeginTicks
  BY <1>2, <1>0 DEF BeginTicks, Bindings, BusyWorked, pwSeen, InTick
<1>3. CASE PollTimer
  BY <1>3, <1>0 DEF PollTimer, Goes, StartTimer, BusyWorked, pwSeen, InTick
<1>4. CASE PollBanner
  BY <1>4, <1>0 DEF PollBanner, NextBinding, Banner, TopicDeleted, Forget,
     ClearTimer, Streams, Pushed, State, Resting, BusyWorked, pwSeen, InTick
<1>5. CASE ReadPromptOnly
  BY <1>5, <1>0 DEF ReadPromptOnly, NextBinding, Resting, BusyWorked, pwSeen,
     InTick
<1>6. CASE ReadNothing
  BY <1>6, <1>0 DEF ReadNothing, NextBinding, Resting, BusyWorked, pwSeen,
     InTick
<1>7. CASE ReadStatus
  BY <1>7, <1>0 DEF ReadStatus, BusyWorked, pwSeen, InTick
<1>8. CASE ShowPrompt
  BY <1>8, <1>0 DEF ShowPrompt, NextBinding, Resting, BusyWorked, pwSeen,
     InTick
<1>9. CASE Transition
  <2>1. PICK d \in Seen : TransitionTo(d)
    BY <1>9, TransitionEffect
  <2> QED
    BY <1>0, <2>1 DEF TransitionTo, BusyWorked
<1>10. CASE Painted
  BY <1>10, <1>0 DEF Painted, NextBinding, Resting, StartTimer, ClearTimer,
     BusyWorked, pwSeen, InTick
<1>11. CASE EndTicks
  BY <1>11, <1>0 DEF EndTicks, Resting, BusyWorked, pwSeen, InTick
<1>12. CASE EndCycle
  BY <1>12, <1>0 DEF EndCycle, Resting, BusyWorked, pwSeen, InTick
<1>13. CASE Subscribe
  BY <1>13, <1>0 DEF Subscribe, Pushed, State, BusyWorked, pwSeen, InTick
<1>14. CASE StreamEnds
  BY <1>14, <1>0 DEF StreamEnds, BusyWorked, pwSeen, InTick
<1>15. CASE Receive
  BY <1>15, <1>0 DEF Receive, CallDead, MarkDead, BusyWorked, pwSeen, InTick
<1>16. CASE PushTimer
  BY <1>16, <1>0 DEF PushTimer, StartTimer, BusyWorked, pwSeen, InTick
<1>17. CASE PushBanner
  BY <1>17, <1>0 DEF PushBanner, NoCall, Banner, TopicDeleted, Forget,
     ClearTimer, BusyWorked, pwSeen, InTick
<1>18. CASE RestartPolling
  BY <1>18, <1>0 DEF RestartPolling, Resting, NoCall, BusyWorked, pwSeen,
     InTick
<1>19. ASSUME NEW w \in PwWindows, ActivityAges(w)
      PROVE  BusyWorked'
  BY <1>19, <1>0 DEF ActivityAges, BusyWorked, pwSeen, InTick
<1>20. ASSUME NEW w \in PwWindows, StartupExpires(w)
      PROVE  BusyWorked'
  BY <1>20, <1>0 DEF StartupExpires, BusyWorked, pwSeen, InTick
<1>21. ASSUME NEW w \in PwWindows, ResetPolling(w)
      PROVE  BusyWorked'
  BY <1>21, <1>0 DEF ResetPolling, BusyWorked, pwSeen, InTick
<1>22. ASSUME NEW w \in PwWindows, NEW p \in MovesTo, AgentMoves(w, p)
      PROVE  BusyWorked'
  BY <1>22, <1>0 DEF AgentMoves, Turns, Streams, Pushed, State, BusyWorked,
     pwSeen, InTick
<1>23. ASSUME NEW t \in PwTopics, NEW w \in PwWindows, Tick(t, w)
      PROVE  BusyWorked'
  BY <1>23, <1>0 DEF Tick, CallDead, MarkDead, BusyWorked, pwSeen, InTick
<1>24. ASSUME NEW t \in PwTopics, NEW w \in PwWindows, BindTopic(t, w)
      PROVE  BusyWorked'
  BY <1>24, <1>0 DEF BindTopic, BusyWorked, pwSeen, InTick
<1>25. ASSUME NEW t \in PwTopics, CloseExpired(t)
      PROVE  BusyWorked'
  BY <1>25, <1>0 DEF CloseExpired, ClearTimer, Forget, BusyWorked, pwSeen,
     InTick
<1>26. ASSUME NEW t \in PwTopics, TimerRunsOut(t)
      PROVE  BusyWorked'
  BY <1>26, <1>0 DEF TimerRunsOut, BusyWorked, pwSeen, InTick
<1>27. ASSUME NEW t \in PwTopics, Recover(t)
      PROVE  BusyWorked'
  BY <1>27, <1>0 DEF Recover, BusyWorked, pwSeen, InTick
<1>28. ASSUME NEW t \in PwTopics, TextArrives(t)
      PROVE  BusyWorked'
  BY <1>28, <1>0 DEF TextArrives, ClearTimer, BusyWorked, pwSeen, InTick
<1>29. ASSUME NEW t \in PwTopics, UnbindTopic(t)
      PROVE  BusyWorked'
  BY <1>29, <1>0 DEF UnbindTopic, Forget, ClearTimer, BusyWorked, pwSeen,
     InTick
<1>30. CASE UNCHANGED pwVars
  BY <1>30 DEF pwVars, pwPush, pwTimers, pwSeen, BusyWorked, pwSeen, InTick
<1> QED
  BY <1>1, <1>2, <1>3, <1>4, <1>5, <1>6, <1>7, <1>8, <1>9, <1>10, <1>11,
     <1>12, <1>13, <1>14, <1>15, <1>16, <1>17, <1>18, <1>19, <1>20, <1>21,
     <1>22, <1>23, <1>24, <1>25, <1>26, <1>27, <1>28, <1>29, <1>30 DEF
     PollingNext, MovesTo

(* A transcript is fresh from work, or from a window that the bot lost sight of *)
LEMMA RecentKeeps ==
  ASSUME "shellRestart" \notin PwHazards, PollTypes, RecentWorked,
         [PollingNext]_pwVars
  PROVE  RecentWorked'
<1>0. /\ poll.todo \subseteq PwTopics \X PwWindows
      /\ shows \in [PwTopics -> PwWindows \cup {NoPane}]
      /\ pane \in [PwWindows -> Panes] /\ listed \in [PwWindows -> Panes]
      /\ auto \in [PwTopics -> {"none", "done", "dead"}] /\ due \subseteq PwTopics
      /\ InTick => poll.t \in PwTopics /\ poll.w \in PwWindows
      /\ InPush => push.t \in PwTopics /\ push.w \in PwWindows
      /\ NoPane \notin PwWindows /\ steady \subseteq PwWindows
      /\ notified \subseteq PwTopics \X PwWindows
      /\ poll \in [stage : Stages, todo : SUBSET (PwTopics \X PwWindows),
                   t : PwTopics \cup {NoPane}, w : PwWindows \cup {NoPane}, saw : Seen]
      /\ push \in [stage : {"idle", "marked", "timed"},
                   t : PwTopics \cup {NoPane}, w : PwWindows \cup {NoPane}]
      /\ recent \subseteq PwWindows /\ worked \subseteq PwWindows
      /\ ps \in [PwWindows -> Flags]
  BY PollingAssumption DEF PollTypes, RestTyped, LoopTyped, CallTyped
<1>1. CASE ListWindows
  BY <1>1, <1>0 DEF ListWindows, RecentWorked, Allowed, pwSeen, InTick
<1>2. CASE BeginTicks
  <2>1. /\ UNCHANGED <<recent, worked, pane, shows>> /\ poll'.todo = Bindings
        /\ poll'.w = poll.w
    BY <1>2, <1>0 DEF BeginTicks, pwSeen
  <2>2. \A w \in PwWindows, t \in PwTopics : <<t, w>> \in Bindings => shows[t] = w
    BY BindingsTyped DEF PollTypes
  <2>3. \A w \in PwWindows, t \in PwTopics : <<t, w>> \in poll'.todo => shows'[t] = w
    BY <2>1, <2>2
  <2> QED
    BY <1>0, <2>1, <2>3 DEF RecentWorked
<1>3. CASE PollTimer
  BY <1>3, <1>0 DEF PollTimer, Goes, StartTimer, RecentWorked, Allowed,
     pwSeen, InTick
<1>4. CASE PollBanner
  BY <1>4, <1>0 DEF PollBanner, NextBinding, Banner, TopicDeleted, Forget,
     ClearTimer, Streams, Pushed, State, Resting, RecentWorked, Allowed,
     pwSeen, InTick
<1>5. CASE ReadPromptOnly
  BY <1>5, <1>0 DEF ReadPromptOnly, NextBinding, Resting, RecentWorked,
     Allowed, pwSeen, InTick
<1>6. CASE ReadNothing
  BY <1>6, <1>0 DEF ReadNothing, NextBinding, Resting, RecentWorked, Allowed,
     pwSeen, InTick
<1>7. CASE ReadStatus
  BY <1>7, <1>0 DEF ReadStatus, RecentWorked, Allowed, pwSeen, InTick
<1>8. CASE ShowPrompt
  BY <1>8, <1>0 DEF ShowPrompt, NextBinding, Resting, RecentWorked, Allowed,
     pwSeen, InTick
<1>9. CASE Transition
  <2>1. PICK d \in Seen : TransitionTo(d)
    BY <1>9, TransitionEffect
  <2> QED
    BY <1>0, <2>1 DEF TransitionTo, RecentWorked
<1>10. CASE Painted
  BY <1>10, <1>0 DEF Painted, NextBinding, Resting, StartTimer, ClearTimer,
     RecentWorked, Allowed, pwSeen, InTick
<1>11. CASE EndTicks
  BY <1>11, <1>0 DEF EndTicks, Resting, RecentWorked, Allowed, pwSeen, InTick
<1>12. CASE EndCycle
  <2>1. UNCHANGED <<recent, worked, pane, shows>>
    BY <1>12 DEF EndCycle, pwSeen
  <2>2. poll'.w = NoPane /\ poll'.todo = {}
    BY <1>12 DEF EndCycle, Resting
  <2>3. /\ \A w \in PwWindows : poll'.w # w
        /\ \A w \in PwWindows, t \in PwTopics : <<t, w>> \notin poll'.todo
    BY <1>0, <2>2
  <2> QED
    BY <1>0, <2>1, <2>3 DEF RecentWorked
<1>13. CASE Subscribe
  BY <1>13, <1>0 DEF Subscribe, Pushed, State, RecentWorked, Allowed, pwSeen,
     InTick
<1>14. CASE StreamEnds
  BY <1>14, <1>0 DEF StreamEnds, RecentWorked, Allowed, pwSeen, InTick
<1>15. CASE Receive
  BY <1>15, <1>0 DEF Receive, CallDead, MarkDead, RecentWorked, Allowed,
     pwSeen, InTick
<1>16. CASE PushTimer
  BY <1>16, <1>0 DEF PushTimer, StartTimer, RecentWorked, Allowed, pwSeen,
     InTick
<1>17. CASE PushBanner
  BY <1>17, <1>0 DEF PushBanner, NoCall, Banner, TopicDeleted, Forget,
     ClearTimer, RecentWorked, Allowed, pwSeen, InTick
<1>18. CASE RestartPolling
  <2>1. /\ UNCHANGED <<recent, pane, shows>>
        /\ worked' = {w \in worked : pane[w] # "shell"}
    BY <1>18 DEF RestartPolling
  <2>2. poll'.w = NoPane /\ poll'.todo = {}
    BY <1>18 DEF RestartPolling, Resting
  <2>3. \A t \in PwTopics : shows[t] # NoPane => pane[shows[t]] # "shell"
    <3>1. \A b \in Bindings : pane[b[2]] # "shell"
      BY <1>18 DEF RestartPolling, Allowed
    <3> QED
      BY <3>1, BindingsTyped DEF PollTypes
  <2> QED
    BY <1>0, <2>1, <2>2, <2>3 DEF RecentWorked
<1>19. ASSUME NEW w \in PwWindows, ActivityAges(w)
      PROVE  RecentWorked'
  BY <1>19, <1>0 DEF ActivityAges, RecentWorked, Allowed, pwSeen, InTick
<1>20. ASSUME NEW w \in PwWindows, StartupExpires(w)
      PROVE  RecentWorked'
  BY <1>20, <1>0 DEF StartupExpires, RecentWorked, Allowed, pwSeen, InTick
<1>21. ASSUME NEW w \in PwWindows, ResetPolling(w)
      PROVE  RecentWorked'
  BY <1>21, <1>0 DEF ResetPolling, RecentWorked, Allowed, pwSeen, InTick
<1>22. ASSUME NEW w \in PwWindows, NEW p \in MovesTo, AgentMoves(w, p)
      PROVE  RecentWorked'
  BY <1>22, <1>0 DEF AgentMoves, Turns, Streams, Pushed, State, RecentWorked,
     Allowed, pwSeen, InTick
<1>23. ASSUME NEW t \in PwTopics, NEW w \in PwWindows, Tick(t, w)
      PROVE  RecentWorked'
  BY <1>23, <1>0 DEF Tick, CallDead, MarkDead, RecentWorked, Allowed, pwSeen,
     InTick
<1>24. ASSUME NEW t \in PwTopics, NEW w \in PwWindows, BindTopic(t, w)
      PROVE  RecentWorked'
  BY <1>24, <1>0 DEF BindTopic, RecentWorked, Allowed, pwSeen, InTick
<1>25. ASSUME NEW t \in PwTopics, CloseExpired(t)
      PROVE  RecentWorked'
  BY <1>25, <1>0 DEF CloseExpired, ClearTimer, Forget, RecentWorked, Allowed,
     pwSeen, InTick
<1>26. ASSUME NEW t \in PwTopics, TimerRunsOut(t)
      PROVE  RecentWorked'
  BY <1>26, <1>0 DEF TimerRunsOut, RecentWorked, Allowed, pwSeen, InTick
<1>27. ASSUME NEW t \in PwTopics, Recover(t)
      PROVE  RecentWorked'
  BY <1>27, <1>0 DEF Recover, RecentWorked, Allowed, pwSeen, InTick
<1>28. ASSUME NEW t \in PwTopics, TextArrives(t)
      PROVE  RecentWorked'
  BY <1>28, <1>0 DEF TextArrives, ClearTimer, RecentWorked, Allowed, pwSeen,
     InTick
<1>29. ASSUME NEW t \in PwTopics, UnbindTopic(t)
      PROVE  RecentWorked'
  BY <1>29, <1>0 DEF UnbindTopic, Forget, ClearTimer, RecentWorked, Allowed,
     pwSeen, InTick
<1>30. CASE UNCHANGED pwVars
  BY <1>30 DEF pwVars, pwPush, pwTimers, pwSeen, RecentWorked, Allowed,
     pwSeen, InTick
<1> QED
  BY <1>1, <1>2, <1>3, <1>4, <1>5, <1>6, <1>7, <1>8, <1>9, <1>10, <1>11,
     <1>12, <1>13, <1>14, <1>15, <1>16, <1>17, <1>18, <1>19, <1>20, <1>21,
     <1>22, <1>23, <1>24, <1>25, <1>26, <1>27, <1>28, <1>29, <1>30 DEF
     PollingNext, MovesTo

(* What is read as busy has worked *)
LEMMA SawKeeps ==
  ASSUME "stalePush" \notin PwHazards, PollTypes, BusyWorked, SawWorked,
         [PollingNext]_pwVars
  PROVE  SawWorked'
<1>0. /\ poll.todo \subseteq PwTopics \X PwWindows
      /\ shows \in [PwTopics -> PwWindows \cup {NoPane}]
      /\ pane \in [PwWindows -> Panes] /\ listed \in [PwWindows -> Panes]
      /\ auto \in [PwTopics -> {"none", "done", "dead"}] /\ due \subseteq PwTopics
      /\ InTick => poll.t \in PwTopics /\ poll.w \in PwWindows
      /\ InPush => push.t \in PwTopics /\ push.w \in PwWindows
      /\ NoPane \notin PwWindows /\ steady \subseteq PwWindows
      /\ notified \subseteq PwTopics \X PwWindows
      /\ poll \in [stage : Stages, todo : SUBSET (PwTopics \X PwWindows),
                   t : PwTopics \cup {NoPane}, w : PwWindows \cup {NoPane}, saw : Seen]
      /\ push \in [stage : {"idle", "marked", "timed"},
                   t : PwTopics \cup {NoPane}, w : PwWindows \cup {NoPane}]
      /\ recent \subseteq PwWindows /\ worked \subseteq PwWindows
      /\ ps \in [PwWindows -> Flags]
  BY PollingAssumption DEF PollTypes, RestTyped, LoopTyped, CallTyped
<1>1. CASE ListWindows
  BY <1>1, <1>0 DEF ListWindows, SawWorked, Allowed, pwSeen, InTick
<1>2. CASE BeginTicks
  BY <1>2, <1>0 DEF BeginTicks, Bindings, SawWorked, Allowed, pwSeen, InTick
<1>3. CASE PollTimer
  BY <1>3, <1>0 DEF PollTimer, Goes, StartTimer, SawWorked, Allowed, pwSeen,
     InTick
<1>4. CASE PollBanner
  BY <1>4, <1>0 DEF PollBanner, NextBinding, Banner, TopicDeleted, Forget,
     ClearTimer, Streams, Pushed, State, Resting, SawWorked, Allowed, pwSeen,
     InTick
<1>5. CASE ReadPromptOnly
  BY <1>5, <1>0 DEF ReadPromptOnly, NextBinding, Resting, SawWorked, Allowed,
     pwSeen, InTick
<1>6. CASE ReadNothing
  BY <1>6, <1>0 DEF ReadNothing, NextBinding, Resting, SawWorked, Allowed,
     pwSeen, InTick
<1>7. CASE ReadStatus
  <2>1. /\ worked' = worked /\ poll.w \in PwWindows
        /\ cache[poll.w] \in {"cold", State(pane[poll.w])}
        /\ poll' = [poll EXCEPT !.stage = "decide", !.saw = Resolved(poll.w)]
    BY <1>7, <1>0 DEF ReadStatus, Allowed, InTick, pwSeen
  <2>2. Resolved(poll.w) = "busy" => pane[poll.w] = "busy"
    BY <2>1, ResolvedIsBusy
  <2>3. poll'.saw = Resolved(poll.w) /\ poll'.w = poll.w
    BY <1>0, <2>1
  <2> QED
    BY <2>1, <2>2, <2>3 DEF SawWorked, BusyWorked
<1>8. CASE ShowPrompt
  BY <1>8, <1>0 DEF ShowPrompt, NextBinding, Resting, SawWorked, Allowed,
     pwSeen, InTick
<1>9. CASE Transition
  BY <1>9, <1>0 DEF Transition, SawWorked, Allowed, pwSeen, InTick
<1>10. CASE Painted
  BY <1>10, <1>0 DEF Painted, NextBinding, Resting, StartTimer, ClearTimer,
     SawWorked, Allowed, pwSeen, InTick
<1>11. CASE EndTicks
  BY <1>11, <1>0 DEF EndTicks, Resting, SawWorked, Allowed, pwSeen, InTick
<1>12. CASE EndCycle
  BY <1>12, <1>0 DEF EndCycle, Resting, SawWorked, Allowed, pwSeen, InTick
<1>13. CASE Subscribe
  BY <1>13, <1>0 DEF Subscribe, Pushed, State, SawWorked, Allowed, pwSeen,
     InTick
<1>14. CASE StreamEnds
  BY <1>14, <1>0 DEF StreamEnds, SawWorked, Allowed, pwSeen, InTick
<1>15. CASE Receive
  BY <1>15, <1>0 DEF Receive, CallDead, MarkDead, SawWorked, Allowed, pwSeen,
     InTick
<1>16. CASE PushTimer
  BY <1>16, <1>0 DEF PushTimer, StartTimer, SawWorked, Allowed, pwSeen, InTick
<1>17. CASE PushBanner
  BY <1>17, <1>0 DEF PushBanner, NoCall, Banner, TopicDeleted, Forget,
     ClearTimer, SawWorked, Allowed, pwSeen, InTick
<1>18. CASE RestartPolling
  BY <1>18, <1>0 DEF RestartPolling, Resting, NoCall, SawWorked, Allowed,
     pwSeen, InTick
<1>19. ASSUME NEW w \in PwWindows, ActivityAges(w)
      PROVE  SawWorked'
  BY <1>19, <1>0 DEF ActivityAges, SawWorked, Allowed, pwSeen, InTick
<1>20. ASSUME NEW w \in PwWindows, StartupExpires(w)
      PROVE  SawWorked'
  BY <1>20, <1>0 DEF StartupExpires, SawWorked, Allowed, pwSeen, InTick
<1>21. ASSUME NEW w \in PwWindows, ResetPolling(w)
      PROVE  SawWorked'
  BY <1>21, <1>0 DEF ResetPolling, SawWorked, Allowed, pwSeen, InTick
<1>22. ASSUME NEW w \in PwWindows, NEW p \in MovesTo, AgentMoves(w, p)
      PROVE  SawWorked'
  BY <1>22, <1>0 DEF AgentMoves, Turns, Streams, Pushed, State, SawWorked,
     Allowed, pwSeen, InTick
<1>23. ASSUME NEW t \in PwTopics, NEW w \in PwWindows, Tick(t, w)
      PROVE  SawWorked'
  BY <1>23, <1>0 DEF Tick, CallDead, MarkDead, SawWorked, Allowed, pwSeen,
     InTick
<1>24. ASSUME NEW t \in PwTopics, NEW w \in PwWindows, BindTopic(t, w)
      PROVE  SawWorked'
  BY <1>24, <1>0 DEF BindTopic, SawWorked, Allowed, pwSeen, InTick
<1>25. ASSUME NEW t \in PwTopics, CloseExpired(t)
      PROVE  SawWorked'
  BY <1>25, <1>0 DEF CloseExpired, ClearTimer, Forget, SawWorked, Allowed,
     pwSeen, InTick
<1>26. ASSUME NEW t \in PwTopics, TimerRunsOut(t)
      PROVE  SawWorked'
  BY <1>26, <1>0 DEF TimerRunsOut, SawWorked, Allowed, pwSeen, InTick
<1>27. ASSUME NEW t \in PwTopics, Recover(t)
      PROVE  SawWorked'
  BY <1>27, <1>0 DEF Recover, SawWorked, Allowed, pwSeen, InTick
<1>28. ASSUME NEW t \in PwTopics, TextArrives(t)
      PROVE  SawWorked'
  BY <1>28, <1>0 DEF TextArrives, ClearTimer, SawWorked, Allowed, pwSeen,
     InTick
<1>29. ASSUME NEW t \in PwTopics, UnbindTopic(t)
      PROVE  SawWorked'
  BY <1>29, <1>0 DEF UnbindTopic, Forget, ClearTimer, SawWorked, Allowed,
     pwSeen, InTick
<1>30. CASE UNCHANGED pwVars
  BY <1>30 DEF pwVars, pwPush, pwTimers, pwSeen, SawWorked, Allowed, pwSeen,
     InTick
<1> QED
  BY <1>1, <1>2, <1>3, <1>4, <1>5, <1>6, <1>7, <1>8, <1>9, <1>10, <1>11,
     <1>12, <1>13, <1>14, <1>15, <1>16, <1>17, <1>18, <1>19, <1>20, <1>21,
     <1>22, <1>23, <1>24, <1>25, <1>26, <1>27, <1>28, <1>29, <1>30 DEF
     PollingNext, MovesTo

(* A shell seen since it was last announced has worked *)
LEMMA ReadyKeeps ==
  ASSUME "shellRestart" \notin PwHazards, PollTypes, WorkedFirst, NEW v \in PwWindows,
         [PollingNext]_pwVars
  PROVE  (Announceable(v) => v \in worked)'
<1>0. /\ poll.todo \subseteq PwTopics \X PwWindows
      /\ shows \in [PwTopics -> PwWindows \cup {NoPane}]
      /\ pane \in [PwWindows -> Panes] /\ listed \in [PwWindows -> Panes]
      /\ auto \in [PwTopics -> {"none", "done", "dead"}] /\ due \subseteq PwTopics
      /\ InTick => poll.t \in PwTopics /\ poll.w \in PwWindows
      /\ InPush => push.t \in PwTopics /\ push.w \in PwWindows
      /\ NoPane \notin PwWindows /\ steady \subseteq PwWindows
      /\ notified \subseteq PwTopics \X PwWindows
      /\ poll \in [stage : Stages, todo : SUBSET (PwTopics \X PwWindows),
                   t : PwTopics \cup {NoPane}, w : PwWindows \cup {NoPane}, saw : Seen]
      /\ push \in [stage : {"idle", "marked", "timed"},
                   t : PwTopics \cup {NoPane}, w : PwWindows \cup {NoPane}]
      /\ recent \subseteq PwWindows /\ worked \subseteq PwWindows
      /\ ps \in [PwWindows -> Flags]
  BY PollingAssumption DEF PollTypes, RestTyped, LoopTyped, CallTyped
<1>1. CASE ListWindows
  BY <1>1, <1>0 DEF ListWindows, WorkedFirst, Announceable, Allowed, pwSeen,
     InTick
<1>2. CASE BeginTicks
  BY <1>2, <1>0 DEF BeginTicks, Bindings, WorkedFirst, Announceable, Allowed,
     pwSeen, InTick
<1>3. CASE PollTimer
  BY <1>3, <1>0 DEF PollTimer, Goes, StartTimer, WorkedFirst, Announceable,
     Allowed, pwSeen, InTick
<1>4. CASE PollBanner
  <2>1. /\ ps'[v] \in {ps[v], Fresh} /\ worked' = worked /\ listed' = listed
        /\ pane'[v] = "shell" => pane[v] = "shell"
        /\ poll'.stage # "idle" => poll.stage # "idle"
    BY <1>4, <1>0 DEF PollBanner, NextBinding, Banner, TopicDeleted, InTick, pwSeen
  <2> QED
    BY <1>0, <2>1, FreshTyped DEF WorkedFirst, Announceable
<1>5. CASE ReadPromptOnly
  BY <1>5, <1>0 DEF ReadPromptOnly, NextBinding, Resting, WorkedFirst,
     Announceable, Allowed, pwSeen, InTick
<1>6. CASE ReadNothing
  BY <1>6, <1>0 DEF ReadNothing, NextBinding, Resting, WorkedFirst,
     Announceable, Allowed, pwSeen, InTick
<1>7. CASE ReadStatus
  BY <1>7, <1>0 DEF ReadStatus, WorkedFirst, Announceable, Allowed, pwSeen,
     InTick
<1>8. CASE ShowPrompt
  BY <1>8, <1>0 DEF ShowPrompt, NextBinding, Resting, WorkedFirst,
     Announceable, Allowed, pwSeen, InTick
<1>9. CASE Transition
  <2>1. PICK d \in Seen : TransitionTo(d)
    BY <1>9, TransitionEffect
  <2>2. CASE v # poll.w
    BY <1>0, <2>1, <2>2 DEF TransitionTo, WorkedFirst, Announceable
  <2>3. CASE v = poll.w /\ d \in {"idle", "starting"}
    BY <1>0, <2>1, <2>3 DEF TransitionTo, WorkedFirst, Announceable
  <2>4. CASE v = poll.w /\ d \in {"done", "ready"}
    BY <1>0, <2>1, <2>4 DEF TransitionTo, WorkedFirst, Announceable
  <2>5. CASE v = poll.w /\ d \in {"working", "active"}
    <3>1. v \in worked
      BY <1>0, <2>1, <2>5 DEF TransitionTo, WorkedFirst, SawWorked, RecentWorked
    <3> QED
      BY <1>0, <2>1, <2>5, <3>1 DEF TransitionTo
  <2> QED
    BY <2>1, <2>2, <2>3, <2>4, <2>5 DEF TransitionTo
<1>10. CASE Painted
  BY <1>10, <1>0 DEF Painted, NextBinding, Resting, StartTimer, ClearTimer,
     WorkedFirst, Announceable, Allowed, pwSeen, InTick
<1>11. CASE EndTicks
  BY <1>11, <1>0 DEF EndTicks, Resting, WorkedFirst, Announceable, Allowed,
     pwSeen, InTick
<1>12. CASE EndCycle
  BY <1>12, <1>0 DEF EndCycle, Resting, WorkedFirst, Announceable, Allowed,
     pwSeen, InTick
<1>13. CASE Subscribe
  BY <1>13, <1>0 DEF Subscribe, Pushed, State, WorkedFirst, Announceable,
     Allowed, pwSeen, InTick
<1>14. CASE StreamEnds
  BY <1>14, <1>0 DEF StreamEnds, WorkedFirst, Announceable, Allowed, pwSeen,
     InTick
<1>15. CASE Receive
  <2>1. /\ ps'[v] \in {ps[v], Fresh} /\ worked' = worked /\ listed' = listed
        /\ pane'[v] = "shell" => pane[v] = "shell"
        /\ poll'.stage # "idle" => poll.stage # "idle"
    BY <1>15, <1>0 DEF Receive, CallDead, pwSeen
  <2> QED
    BY <1>0, <2>1, FreshTyped DEF WorkedFirst, Announceable
<1>16. CASE PushTimer
  BY <1>16, <1>0 DEF PushTimer, StartTimer, WorkedFirst, Announceable,
     Allowed, pwSeen, InTick
<1>17. CASE PushBanner
  <2>1. /\ ps'[v] \in {ps[v], Fresh} /\ worked' = worked /\ listed' = listed
        /\ pane'[v] = "shell" => pane[v] = "shell"
        /\ poll'.stage # "idle" => poll.stage # "idle"
    BY <1>17, <1>0 DEF PushBanner, Banner, TopicDeleted, InPush, pwSeen
  <2> QED
    BY <1>0, <2>1, FreshTyped DEF WorkedFirst, Announceable
<1>18. CASE RestartPolling
  <2>1. /\ ps'[v].seen => \E t \in PwTopics : shows[t] = v
        /\ pane' = pane /\ poll'.stage = "idle"
    <3>1. \/ ps'[v] = Fresh
          \/ \E t \in PwTopics : shows[t] = v
      BY <1>18 DEF RestartPolling
    <3>2. pane' = pane /\ poll'.stage = "idle"
      BY <1>18 DEF RestartPolling, Resting
    <3> QED
      BY <3>1, <3>2, FreshTyped
  <2>2. (\E t \in PwTopics : shows[t] = v) => pane[v] # "shell"
    <3>1. \A b \in Bindings : pane[b[2]] # "shell"
      BY <1>18 DEF RestartPolling, Allowed
    <3> SUFFICES ASSUME NEW t \in PwTopics, shows[t] = v PROVE pane[v] # "shell"
      OBVIOUS
    <3>2. <<t, v>> \in Bindings
      BY <1>0, BindingsTyped DEF PollTypes
    <3> QED
      BY <3>1, <3>2
  <2> QED
    BY <2>1, <2>2 DEF Announceable
<1>19. ASSUME NEW w \in PwWindows, ActivityAges(w)
      PROVE  (Announceable(v) => v \in worked)'
  BY <1>19, <1>0 DEF ActivityAges, WorkedFirst, Announceable, Allowed, pwSeen,
     InTick
<1>20. ASSUME NEW w \in PwWindows, StartupExpires(w)
      PROVE  (Announceable(v) => v \in worked)'
  BY <1>20, <1>0 DEF StartupExpires, WorkedFirst, Announceable, Allowed,
     pwSeen, InTick
<1>21. ASSUME NEW w \in PwWindows, ResetPolling(w)
      PROVE  (Announceable(v) => v \in worked)'
  <2>1. /\ ps'[v] \in {ps[v], Fresh} /\ worked' = worked /\ listed' = listed
        /\ pane'[v] = "shell" => pane[v] = "shell"
        /\ poll'.stage # "idle" => poll.stage # "idle"
    BY <1>21, <1>0 DEF ResetPolling, pwSeen
  <2> QED
    BY <1>0, <2>1, FreshTyped DEF WorkedFirst, Announceable
<1>22. ASSUME NEW w \in PwWindows, NEW p \in MovesTo, AgentMoves(w, p)
      PROVE  (Announceable(v) => v \in worked)'
  BY <1>22, <1>0 DEF AgentMoves, Turns, Streams, Pushed, State, WorkedFirst,
     Announceable, Allowed, pwSeen, InTick
<1>23. ASSUME NEW t \in PwTopics, NEW w \in PwWindows, Tick(t, w)
      PROVE  (Announceable(v) => v \in worked)'
  <2>1. /\ ps'[v] \in {ps[v], Fresh} /\ worked' = worked /\ listed' = listed
        /\ pane'[v] = "shell" => pane[v] = "shell"
        /\ poll'.stage # "idle" => poll.stage # "idle"
    BY <1>23, <1>0 DEF Tick, CallDead, pwSeen
  <2> QED
    BY <1>0, <2>1, FreshTyped DEF WorkedFirst, Announceable
<1>24. ASSUME NEW t \in PwTopics, NEW w \in PwWindows, BindTopic(t, w)
      PROVE  (Announceable(v) => v \in worked)'
  BY <1>24, <1>0 DEF BindTopic, WorkedFirst, Announceable, Allowed, pwSeen,
     InTick
<1>25. ASSUME NEW t \in PwTopics, CloseExpired(t)
      PROVE  (Announceable(v) => v \in worked)'
  <2>1. /\ ps'[v] \in {ps[v], Fresh} /\ worked' = worked /\ listed' = listed
        /\ pane'[v] = "shell" => pane[v] = "shell"
        /\ poll'.stage # "idle" => poll.stage # "idle"
    BY <1>25, <1>0 DEF CloseExpired, pwSeen
  <2> QED
    BY <1>0, <2>1, FreshTyped DEF WorkedFirst, Announceable
<1>26. ASSUME NEW t \in PwTopics, TimerRunsOut(t)
      PROVE  (Announceable(v) => v \in worked)'
  BY <1>26, <1>0 DEF TimerRunsOut, WorkedFirst, Announceable, Allowed, pwSeen,
     InTick
<1>27. ASSUME NEW t \in PwTopics, Recover(t)
      PROVE  (Announceable(v) => v \in worked)'
  BY <1>27, <1>0 DEF Recover, WorkedFirst, Announceable, Allowed, pwSeen,
     InTick
<1>28. ASSUME NEW t \in PwTopics, TextArrives(t)
      PROVE  (Announceable(v) => v \in worked)'
  BY <1>28, <1>0 DEF TextArrives, ClearTimer, WorkedFirst, Announceable,
     Allowed, pwSeen, InTick
<1>29. ASSUME NEW t \in PwTopics, UnbindTopic(t)
      PROVE  (Announceable(v) => v \in worked)'
  <2>1. /\ ps'[v] \in {ps[v], Fresh} /\ worked' = worked /\ listed' = listed
        /\ pane'[v] = "shell" => pane[v] = "shell"
        /\ poll'.stage # "idle" => poll.stage # "idle"
    BY <1>29, <1>0 DEF UnbindTopic, pwSeen
  <2> QED
    BY <1>0, <2>1, FreshTyped DEF WorkedFirst, Announceable
<1>30. CASE UNCHANGED pwVars
  BY <1>30 DEF pwVars, pwPush, pwTimers, pwSeen, WorkedFirst, Announceable,
     Allowed, pwSeen, InTick
<1> QED
  BY <1>1, <1>2, <1>3, <1>4, <1>5, <1>6, <1>7, <1>8, <1>9, <1>10, <1>11,
     <1>12, <1>13, <1>14, <1>15, <1>16, <1>17, <1>18, <1>19, <1>20, <1>21,
     <1>22, <1>23, <1>24, <1>25, <1>26, <1>27, <1>28, <1>29, <1>30 DEF
     PollingNext, MovesTo

----------------------------------------------------------------------------
(* The invariants hold at the start and in every step; the theorems follow *)
LEMMA PollingBegins ==
  PollingInit => PollTypes /\ DeathsInOrder /\ TimersInOrder /\ WorkedFirst
<1> SUFFICES ASSUME PollingInit
             PROVE  PollTypes /\ DeathsInOrder /\ TimersInOrder /\ WorkedFirst
  OBVIOUS
<1>1. /\ poll.stage = "idle" /\ poll.todo = {} /\ poll.w = NoPane /\ push.stage = "idle"
      /\ \A t \in PwTopics : shows[t] = NoPane /\ auto[t] = "none"
      /\ \A w \in PwWindows : pane[w] = "unborn" /\ ~ps[w].seen
                             /\ ends[w] = 0 /\ banners[w] = 0
      /\ stream = <<>> /\ recent = {} /\ worked = {} /\ steady = {} /\ due = {}
      /\ notified = {}
  BY FreshTyped DEF PollingInit, Resting, NoCall
<1>2. PollTypes
  <2>1. RestTyped
    BY PollingAssumption, FreshTyped DEF PollingInit, RestTyped, Panes, Statuses
  <2>2. LoopTyped
    BY <1>1, RestingTyped DEF PollingInit, LoopTyped, InTick
  <2>3. CallTyped
    BY <1>1 DEF PollingInit, NoCall, CallTyped, InPush
  <2>4. stream \in Seq(Events)
    BY <1>1
  <2> QED
    BY <2>1, <2>2, <2>3, <2>4 DEF PollTypes
<1>3. DeathsInOrder
  <2>1. OneShows /\ ShownBegan
    BY <1>1 DEF OneShows, ShownBegan
  <2>2. DiedAreGone
    BY <1>1 DEF DiedAreGone, InPush
  <2>3. Cycle
    BY <1>1 DEF Cycle
  <2>4. \A w \in PwWindows : Told(w)
    <3>1. \A w \in PwWindows : Calls(w) = 0 /\ banners[w] = 0 /\ ends[w] = 0
      BY <1>1 DEF Calls, PollCalls, PushCalls, InPush
    <3>2. \A w \in PwWindows : ~Untold(w)
      BY <1>1, PollingAssumption DEF Untold
    <3> QED
      BY <3>1, <3>2 DEF Told
  <2> QED
    BY <1>2, <2>1, <2>2, <2>3, <2>4 DEF DeathsInOrder
<1>4. TimersInOrder
  BY <1>1 DEF TimersInOrder, SteadyIsBusy, TicksPending, DoneIsUnmarked, ReadIsUnmarked,
     DoneIsShell, DueIsTimed
<1>5. WorkedFirst
  BY <1>1 DEF WorkedFirst, BusyWorked, RecentWorked, SawWorked, Announceable
<1> QED
  BY <1>2, <1>3, <1>4, <1>5

LEMMA TypesInvariant == PollingSpec => []PollTypes
<1>1. PollingInit => PollTypes
  BY PollingBegins
<1>2. PollTypes /\ [PollingNext]_pwVars => PollTypes'
  BY TypesKeep
<1> QED
  BY <1>1, <1>2, PTL DEF PollingSpec

LEMMA DeathsInvariant ==
  ASSUME "staleCycle" \notin PwHazards
  PROVE  PollingSpec => []DeathsInOrder
<1>1. PollingInit => DeathsInOrder
  BY PollingBegins
<1>2. DeathsInOrder /\ [PollingNext]_pwVars => DeathsInOrder'
  <2> SUFFICES ASSUME DeathsInOrder, [PollingNext]_pwVars PROVE DeathsInOrder'
    OBVIOUS
  <2>1. PollTypes /\ OneShows /\ ShownBegan /\ DiedAreGone /\ Cycle
    BY DEF DeathsInOrder
  <2>2. PollTypes'
    BY <2>1, TypesKeep
  <2>3. OneShows' /\ ShownBegan' /\ DiedAreGone' /\ Cycle'
    BY <2>1, ShownKeeps, DiedKeeps, CycleKeeps
  <2>4. \A w \in PwWindows : Told(w)'
    BY <2>2, ToldKeeps
  <2> QED
    BY <2>2, <2>3, <2>4 DEF DeathsInOrder
<1> QED
  BY <1>1, <1>2, PTL DEF PollingSpec

(* However the poll, the event stream and the user's answers interleave, a *)
(* window is called dead at most once for each time it really ended, for   *)
(* any windows, topics, moves and pushed events (apply.py,                 *)
(* event_stream_monitor.py), unless a topic takes up or leaves a window    *)
(* that the running cycle has listed otherwise.                            *)
THEOREM DeathsAreToldOnce ==
  ASSUME "staleCycle" \notin PwHazards
  PROVE  PollingSpec => []PollingInv
<1>1. DeathsInOrder => PollingInv
  <2> SUFFICES ASSUME DeathsInOrder PROVE PollingInv
    OBVIOUS
  <2>1. PollingTypeOK
    BY DEF DeathsInOrder, PollTypes, RestTyped, LoopTyped, CallTyped, PollingTypeOK,
       Panes, Statuses, Stages
  <2>2. DeadBannersAreTrue
    <3> SUFFICES ASSUME NEW w \in PwWindows PROVE banners[w] <= ends[w]
      BY DEF DeadBannersAreTrue
    <3>1. banners[w] + Calls(w) <= ends[w] /\ Calls(w) \in Nat
      BY CallsTyped DEF DeathsInOrder, Told, Calls
    <3>2. banners[w] \in Nat /\ ends[w] \in Nat
      BY DEF DeathsInOrder, PollTypes, RestTyped
    <3> QED
      BY <3>1, <3>2
  <2> QED
    BY <2>1, <2>2 DEF PollingInv
<1> QED
  BY <1>1, DeathsInvariant, PTL

(* An expired timer never closes the topic of a window that has been       *)
(* working since before the cycle that closes it, for any windows, topics  *)
(* and moves (polling_coordinator.py, apply.py), when every tick reads a   *)
(* status that is the window's own and no timer outlives its topic's       *)
(* window.                                                                 *)
THEOREM WorkingTopicsAreKept ==
  ASSUME PwHazards \subseteq {"shellRestart"}
  PROVE  PollingSpec => WorkingTopicKept
<1>1. PollingInit => TimersInOrder
  BY PollingBegins
<1>2. DeathsInOrder /\ TimersInOrder /\ [PollingNext]_pwVars => TimersInOrder'
  <2> SUFFICES ASSUME DeathsInOrder, TimersInOrder, [PollingNext]_pwVars
               PROVE  TimersInOrder'
    OBVIOUS
  <2>1. PollTypes /\ OneShows /\ DiedAreGone /\ Cycle
    BY DEF DeathsInOrder
  <2>2. SteadyIsBusy' /\ DueIsTimed' /\ DoneIsShell'
    BY <2>1, SteadyKeeps, DueKeeps, DoneKeeps DEF TimersInOrder
  <2>3. ReadIsUnmarked' /\ DoneIsUnmarked'
    BY <2>1, ReadKeeps, UnmarkedKeeps DEF TimersInOrder
  <2>4. TicksPending'
    BY <2>1, PendingKeeps DEF TimersInOrder
  <2> QED
    BY <2>2, <2>3, <2>4 DEF TimersInOrder
<1>3. DeathsInOrder /\ TimersInOrder /\ [PollingNext]_pwVars
        => [\A t \in PwTopics :
              CloseExpired(t) /\ shows'[t] = NoPane /\ shows[t] # NoPane
                => shows[t] \notin steady]_pwVars
  <2> SUFFICES ASSUME DeathsInOrder, TimersInOrder, NEW t \in PwTopics,
                      CloseExpired(t), shows'[t] = NoPane, shows[t] # NoPane,
                      shows[t] \in steady
               PROVE  FALSE
    OBVIOUS
  <2>1. /\ poll.stage = "expiry" /\ t \in due
        /\ ~(auto[t] = "dead" /\ shows[t] # NoPane /\ Alive(shows[t]))
    BY DEF CloseExpired
  <2>2. auto[t] = "done"
    BY <2>1 DEF TimersInOrder, SteadyIsBusy, DueIsTimed, Alive, DeathsInOrder, PollTypes,
       RestTyped
  <2>3. poll.todo = {}
    BY <2>1 DEF DeathsInOrder, Cycle, InCycle
  <2> QED
    BY <2>1, <2>2, <2>3 DEF TimersInOrder, TicksPending, ReadIsWorking
<1>4. PollingSpec => []DeathsInOrder
  BY DeathsInvariant
<1> QED
  BY <1>1, <1>2, <1>3, <1>4, PTL DEF PollingSpec, WorkingTopicKept

(* The poll decides on Ready only for a window whose agent ran since the   *)
(* last Ready, for any windows, topics and moves (apply.py,                *)
(* polling_state.py), unless the bot restarts over a shell or reads a      *)
(* pushed status that the window has left.                                 *)
THEOREM ReadyIsEarned ==
  ASSUME "shellRestart" \notin PwHazards, "stalePush" \notin PwHazards
  PROVE  PollingSpec => ReadyAfterWork
<1>1. PollingInit => WorkedFirst
  BY PollingBegins
<1>2. PollTypes /\ WorkedFirst /\ [PollingNext]_pwVars => WorkedFirst'
  <2> SUFFICES ASSUME PollTypes, WorkedFirst, [PollingNext]_pwVars PROVE WorkedFirst'
    OBVIOUS
  <2>1. BusyWorked' /\ RecentWorked' /\ SawWorked'
    BY BusyKeeps, RecentKeeps, SawKeeps DEF WorkedFirst
  <2>2. \A w \in PwWindows : (Announceable(w) => w \in worked)'
    BY ReadyKeeps
  <2> QED
    BY <2>1, <2>2 DEF WorkedFirst
<1>3. PollTypes /\ WorkedFirst /\ [PollingNext]_pwVars
        => [Transition /\ poll'.saw = "ready" => poll.w \in worked]_pwVars
  <2> SUFFICES ASSUME PollTypes, WorkedFirst, Transition, poll'.saw = "ready"
               PROVE  poll.w \in worked
    OBVIOUS
  <2>1. TransitionTo("ready")
    <3>1. PICK d \in Seen : TransitionTo(d)
      BY TransitionEffect
    <3>2. d = "ready"
      BY <3>1 DEF TransitionTo
    <3> QED
      BY <3>1, <3>2
  <2> QED
    BY <2>1 DEF TransitionTo, WorkedFirst, Announceable
<1> QED
  BY <1>1, <1>2, <1>3, TypesInvariant, PTL DEF PollingSpec, ReadyAfterWork
=============================================================================
