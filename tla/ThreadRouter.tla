---------------------------- MODULE ThreadRouter ----------------------------
(***************************************************************************)
(* The routing table of the bot (thread_router.py): which Telegram topic   *)
(* shows which window.  A binding is chat-scoped, or legacy when the row   *)
(* was written without a chat; two reverse indexes answer the opposite     *)
(* question, a bounded list remembers the topics that lost their binding,  *)
(* and the state_persistence.py timer writes the table to state.json.  The *)
(* /sync Fix loop that deletes or closes retired topics runs beside the    *)
(* bindings that discovery and the timers change, and every Telegram       *)
(* request of that loop is a suspension point.                             *)
(*                                                                         *)
(* RtHazards lets happen what the code does not exclude:                   *)
(*   "sharedTopic"  /sync looks up a retired topic that two other users    *)
(*                  have bound: the lookup finds no single window, and the *)
(*                  topic is deleted as one that nobody has bound          *)
(***************************************************************************)
EXTENDS Integers, FiniteSets, FiniteSetsExt, Functions

CONSTANTS
  RtUsers,        \* user ids, natural numbers
  RtChats,        \* forum chats
  RtThreads,      \* thread ids, positive numbers
  RtWindows,      \* window ids
  RetiredLimit,   \* _RETIRED_TOPIC_LIMIT
  MaxSeedRows,    \* rows of a state.json written by an older build
  MaxRouting,     \* bound on routing operations
  MaxSaveFaults,  \* bound on saves that fail
  RtHazards,      \* behaviours of the code that a passing run leaves out
  NoRoute

RtIdle == [todo |-> {}, stage |-> "idle"]

ASSUME RoutingAssumption ==
  /\ IsFiniteSet(RtUsers) /\ RtUsers \subseteq Nat
  /\ RtThreads \subseteq Nat \ {0}
  /\ NoRoute \notin RtChats \cup RtWindows \cup RtUsers \cup RtThreads
  /\ {RetiredLimit, MaxSeedRows, MaxRouting, MaxSaveFaults} \subseteq Nat
  /\ RtHazards \subseteq {"sharedTopic"}

VARIABLES
  legacy,     \* thread_bindings
  scoped,     \* chat_thread_bindings
  groups,     \* group_chat_ids
  names,      \* the windows that window_display_names knows
  retired,    \* _retired_topics, a list in order of sequence
  nextRetired,\* _next_retired_sequence
  idx,        \* _window_to_thread
  cidx,       \* _chat_window_to_thread
  stored,     \* what state.json holds of the five above
  dirty,      \* StatePersistence._dirty
  armed,      \* a save timer is pending
  fixing,     \* the /sync loop over retired topics
  rtOps, rtFaults
rtTable == <<legacy, scoped, groups, names, retired, nextRetired, idx, cidx>>
rtVars == <<rtTable, stored, dirty, armed, fixing, rtOps, rtFaults>>

Users2 == RtUsers \X RtThreads
Users3 == RtUsers \X RtChats \X RtThreads
Maybe(S) == S \cup {NoRoute}
RetiredTopic == [user : RtUsers, chat : RtChats, thread : RtThreads,
                 eligible : BOOLEAN, sequence : Nat]

(* The rows of the table, as one record: what to_dict writes.              *)
Rows == [legacy |-> legacy, scoped |-> scoped, groups |-> groups,
         names |-> names, retired |-> retired]
TopicOf(r) == <<r.chat, r.thread>>
Forgotten(rs, c, t) == {r \in rs : TopicOf(r) # <<c, t>>}
Oldest(rs) == CHOOSE r \in rs : \A q \in rs : r.sequence <= q.sequence

(*************************************************************************)
(* Loading (from_dict).                                                  *)
(*************************************************************************)
(* _rebuild_reverse_index                                                *)
IndexOf(leg) ==
  [p \in RtUsers \X RtWindows |->
     LET ts == {t \in RtThreads : leg[<<p[1], t>>] = p[2]}
     IN  IF ts = {} THEN NoRoute ELSE Max(ts)]
ChatIndexOf(sc) ==
  [p \in RtUsers \X RtChats \X RtWindows |->
     LET ts == {t \in RtThreads : sc[<<p[1], p[2], t>>] = p[3]}
     IN  IF ts = {} THEN NoRoute ELSE Max(ts)]

(* _normalize_group_backed_bindings: a scoped row wins over the legacy one *)
Promotable(d) ==
  {k \in Users2 : d.legacy[k] # NoRoute /\ d.groups[k] # NoRoute}
Normalized(d) ==
  [d EXCEPT
     !.legacy = [k \in Users2 |-> IF k \in Promotable(d) THEN NoRoute
                                  ELSE d.legacy[k]],
     !.groups = [k \in Users2 |-> IF k \in Promotable(d) THEN NoRoute
                                  ELSE d.groups[k]],
     !.scoped = [k \in Users3 |->
       LET row == <<k[1], k[3]>> IN
       IF /\ d.scoped[k] = NoRoute
          /\ row \in Promotable(d) /\ d.groups[row] = k[2]
       THEN d.legacy[row] ELSE d.scoped[k]]]

(* _dedup_thread_bindings, _dedup_chat_thread_bindings *)
Outranks(k, l) == k[3] > l[3] \/ (k[3] = l[3] /\ k[1] > l[1])
LegacyDuplicates(d) ==
  {k \in Users2 : d.legacy[k] # NoRoute
     /\ \E t \in RtThreads : t > k[2] /\ d.legacy[<<k[1], t>>] = d.legacy[k]}
ScopedDuplicates(d) ==
  {k \in Users3 : d.scoped[k] # NoRoute
     /\ \E l \in Users3 : /\ l[2] = k[2] /\ d.scoped[l] = d.scoped[k]
                          /\ Outranks(l, k)}
Deduped(d) ==
  [d EXCEPT
     !.legacy = [k \in Users2 |-> IF k \in LegacyDuplicates(d) THEN NoRoute
                                  ELSE d.legacy[k]],
     !.scoped = [k \in Users3 |-> IF k \in ScopedDuplicates(d) THEN NoRoute
                                  ELSE d.scoped[k]],
     !.groups = [k \in Users2 |->
       IF \E l \in ScopedDuplicates(d) : <<l[1], l[3]>> = k THEN NoRoute
       ELSE d.groups[k]]]

(* _restore_active_topic of every bound topic *)
Unbound(d) ==
  [d EXCEPT !.retired = {r \in @ :
     \A u \in RtUsers : d.scoped[<<u, r.chat, r.thread>>] = NoRoute}]
(* from_dict *)
Loaded(d) == Unbound(Deduped(Normalized(d)))
Repaired(d) == Deduped(Normalized(d)) # d

TakeRows(d) ==
  /\ legacy' = d.legacy /\ scoped' = d.scoped /\ groups' = d.groups
  /\ names' = d.names /\ retired' = d.retired
  /\ idx' = IndexOf(d.legacy) /\ cidx' = ChatIndexOf(d.scoped)

(*************************************************************************)
(* Persistence (state_persistence.py).                                   *)
(*************************************************************************)
(* schedule_save: the timer starts over                                  *)
ScheduleSave == dirty' = TRUE /\ armed' = TRUE /\ UNCHANGED stored
NoSave == UNCHANGED <<stored, dirty, armed>>

(* _do_save, when the timer fires; a failed write leaves the table dirty   *)
(* with no timer                                                           *)
SaveTimer ==
  /\ armed /\ armed' = FALSE
  /\ stored' = Rows /\ dirty' = FALSE
  /\ UNCHANGED <<rtTable, fixing, rtOps, rtFaults>>
SaveFails ==
  /\ armed /\ rtFaults < MaxSaveFaults
  /\ armed' = FALSE /\ rtFaults' = rtFaults + 1
  /\ UNCHANGED <<rtTable, stored, dirty, fixing, rtOps>>

(* The process stops and starts.  A clean stop flushes first; the load     *)
(* schedules one save when it repaired a persisted row.                    *)
Reload(d) ==
  /\ TakeRows(Loaded(d))
  /\ nextRetired' = 1 + Max({0} \cup {r.sequence : r \in d.retired})
  /\ stored' = d /\ dirty' = Repaired(d) /\ armed' = Repaired(d)
  /\ fixing' = RtIdle
RestartRouter ==
  /\ rtOps < MaxRouting /\ rtOps' = rtOps + 1 /\ UNCHANGED rtFaults
  /\ \/ Reload(stored)                              \* killed
     \/ Reload(IF dirty THEN Rows ELSE stored)      \* flush

(***************************************************************************)
(* Routing operations.                                                     *)
(***************************************************************************)
Routing == rtOps < MaxRouting /\ rtOps' = rtOps + 1
           /\ UNCHANGED <<fixing, rtFaults>>

(* _bind_chat_scoped: other topics of the chat that show the window lose   *)
(* it, and the routing metadata of every evicted topic goes with it        *)
Evicted(u, c, t, w) ==
  {k \in Users3 : k[2] = c /\ scoped[k] = w /\ k # <<u, c, t>>}
BindChatScoped(u, c, t, w) ==
  LET gone == Evicted(u, c, t, w) IN
  /\ scoped' = [k \in Users3 |->
       IF k = <<u, c, t>> THEN w ELSE IF k \in gone THEN NoRoute ELSE scoped[k]]
  /\ cidx' = [p \in DOMAIN cidx |->
       IF p = <<u, c, w>> THEN t
       ELSE IF p = <<u, c, scoped[<<u, c, t>>]>> THEN NoRoute
       ELSE IF p[3] = w /\ \E g \in gone : <<g[1], g[2]>> = <<p[1], p[2]>>
            THEN NoRoute ELSE cidx[p]]
  /\ groups' = [k \in Users2 |->
       IF k = <<u, t>> \/ \E g \in gone : <<g[1], g[3]>> = k THEN NoRoute
       ELSE groups[k]]
  /\ retired' = Forgotten(retired, c, t)

(* Nobody binds the topic whose delete request is in flight: handlers run  *)
(* one after another, and discovery binds topics it has just made or that  *)
(* still show a window                                                     *)
BindsFreely(c, t) ==
  ~(fixing.stage = "delete" /\ TopicOf(Oldest(fixing.todo)) = <<c, t>>)
(* bind_thread with a chat id *)
BindScoped(u, c, t, w) ==
  /\ Routing
  /\ BindsFreely(c, t)
  /\ BindChatScoped(u, c, t, w)
  /\ names' = names \cup {w}
  /\ ScheduleSave /\ UNCHANGED <<legacy, idx, nextRetired>>

(* bind_thread without a chat id: rollback of an archived legacy row *)
BindLegacy(u, t, w) ==
  /\ Routing /\ BindsFreely(groups[<<u, t>>], t)
  /\ legacy' = [k \in Users2 |->
       IF k = <<u, t>> THEN w
       ELSE IF k[1] = u /\ legacy[k] = w THEN NoRoute ELSE legacy[k]]
  /\ idx' = [p \in DOMAIN idx |->
       IF p = <<u, w>> THEN t
       ELSE IF p = <<u, legacy[<<u, t>>]>> THEN NoRoute ELSE idx[p]]
  /\ ScheduleSave
  /\ UNCHANGED <<scoped, cidx, groups, names, retired, nextRetired>>

(* set_group_chat_id, called for each message and callback of a topic      *)
SetGroupChatId(u, t, c) ==
  /\ Routing
  /\ \/ /\ legacy[<<u, t>>] # NoRoute /\ BindsFreely(c, t)
        /\ legacy' = [legacy EXCEPT ![<<u, t>>] = NoRoute]
        /\ idx' = [idx EXCEPT ![<<u, legacy[<<u, t>>]>>] = NoRoute]
        /\ BindChatScoped(u, c, t, legacy[<<u, t>>])
        /\ ScheduleSave /\ UNCHANGED <<names, nextRetired>>
     \/ /\ legacy[<<u, t>>] = NoRoute /\ groups[<<u, t>>] # c
        /\ groups' = [groups EXCEPT ![<<u, t>>] = c]
        /\ ScheduleSave
        /\ UNCHANGED <<legacy, scoped, names, retired, nextRetired, idx, cidx>>

(* _retire_topic: the list keeps its newest entries *)
Newest(rs) ==
  {r \in rs : Cardinality({q \in rs : q.sequence > r.sequence}) < RetiredLimit}
Retire(u, c, t, eligible) ==
  LET topic == [user |-> u, chat |-> c, thread |-> t, eligible |-> eligible,
                sequence |-> nextRetired]
  IN  /\ retired' = Newest(Forgotten(retired, c, t) \cup {topic})
      /\ nextRetired' = nextRetired + 1

(* The end of unbind_thread: the name goes with the last binding, unless   *)
(* the window still has state                                              *)
DropName(w) ==
  \/ UNCHANGED names
  \/ /\ w \notin Range(legacy') \cup Range(scoped')
     /\ names' = names \ {w}

(* [mutant] the reverse index keeps the row of the binding that went *)
UnbindScopedKept(u, c, t, eligible) ==
  /\ scoped[<<u, c, t>>] # NoRoute
  /\ scoped' = [scoped EXCEPT ![<<u, c, t>>] = NoRoute]
  /\ groups' = [groups EXCEPT ![<<u, t>>] = NoRoute]
  /\ Retire(u, c, t, eligible)
  /\ UNCHANGED <<legacy, idx, cidx>> /\ DropName(scoped[<<u, c, t>>])
(* The removal of one row, with its index row and metadata *)
UnbindScoped(u, c, t, eligible) ==
  /\ scoped[<<u, c, t>>] # NoRoute
  /\ scoped' = [scoped EXCEPT ![<<u, c, t>>] = NoRoute]
  /\ cidx' = [cidx EXCEPT ![<<u, c, scoped[<<u, c, t>>]>>] = NoRoute]
  /\ groups' = [groups EXCEPT ![<<u, t>>] = NoRoute]
  /\ Retire(u, c, t, eligible)
  /\ UNCHANGED <<legacy, idx>> /\ DropName(scoped[<<u, c, t>>])
UnbindLegacy(u, t, eligible) ==
  /\ legacy[<<u, t>>] # NoRoute
  /\ legacy' = [legacy EXCEPT ![<<u, t>>] = NoRoute]
  /\ idx' = [idx EXCEPT ![<<u, legacy[<<u, t>>]>>] = NoRoute]
  /\ groups' = [groups EXCEPT ![<<u, t>>] = NoRoute]
  /\ IF groups[<<u, t>>] = NoRoute THEN UNCHANGED <<retired, nextRetired>>
     ELSE Retire(u, groups[<<u, t>>], t, eligible)
  /\ UNCHANGED <<scoped, cidx>> /\ DropName(legacy[<<u, t>>])

(* unbind_thread, with the chat or without it: then the legacy row goes    *)
(* first, else the one scoped row of that thread                           *)
Unbind(u, c, t, eligible) ==
  Routing /\ ScheduleSave /\ UnbindScoped(u, c, t, eligible)
UnbindUnscoped(u, t, eligible) ==
  /\ Routing /\ ScheduleSave
  /\ IF legacy[<<u, t>>] # NoRoute THEN UnbindLegacy(u, t, eligible)
     ELSE LET chats == {c \in RtChats : scoped[<<u, c, t>>] # NoRoute}
          IN  /\ Cardinality(chats) = 1
              /\ UnbindScoped(u, CHOOSE c \in chats : TRUE, t, eligible)

(*************************************************************************)
(* /sync Fix over the retired topics (_cleanup_retired_topics).          *)
(*************************************************************************)
(* get_window_for_chat_thread                                            *)
ScopedOwners(c, t) == {u \in RtUsers : scoped[<<u, c, t>>] # NoRoute}
Unscoped(c, t) == {u \in RtUsers : legacy[<<u, t>>] # NoRoute /\ groups[<<u, t>>] = c}
WindowOfTopic(c, t) ==
  IF Cardinality(ScopedOwners(c, t)) = 1
  THEN scoped[<<CHOOSE u \in ScopedOwners(c, t) : TRUE, c, t>>]
  ELSE IF Unscoped(c, t) # {} THEN legacy[<<Min(Unscoped(c, t)), t>>]
  ELSE NoRoute

BeginCleanup ==
  /\ fixing.stage = "idle" /\ retired # {}
  /\ fixing' = [todo |-> retired, stage |-> "check"]
  /\ NoSave /\ UNCHANGED <<rtTable, rtOps, rtFaults>>
InHand == Oldest(fixing.todo)
Advanced ==
  LET rest == fixing.todo \ {InHand}
  IN  IF rest = {} THEN RtIdle ELSE [todo |-> rest, stage |-> "check"]

(* [mutant] the binding is not read again before the request *)
CheckTopicUnread ==
  /\ fixing.stage = "check"
  /\ fixing' = IF InHand.eligible
               THEN [fixing EXCEPT !.stage = "delete"] ELSE Advanced
  /\ NoSave /\ UNCHANGED <<rtTable, rtOps, rtFaults>>
(* An ineligible topic and one that is bound again are passed over; the    *)
(* others get a delete request                                             *)
CheckTopic ==
  /\ fixing.stage = "check"
  /\ \/ "sharedTopic" \in RtHazards
     \/ Cardinality(ScopedOwners(InHand.chat, InHand.thread)) <= 1
  /\ fixing' =
       IF InHand.eligible /\ WindowOfTopic(InHand.chat, InHand.thread) = NoRoute
       THEN [fixing EXCEPT !.stage = "delete"] ELSE Advanced
  /\ NoSave /\ UNCHANGED <<rtTable, rtOps, rtFaults>>
(* discard_retired_topic removes exactly the record of the snapshot *)
Discard ==
  /\ retired' = retired \ {InHand}
  /\ IF retired' = retired THEN NoSave ELSE ScheduleSave
  /\ fixing' = Advanced
  /\ UNCHANGED <<legacy, scoped, groups, names, nextRetired, idx, cidx>>
(* A delete that fails is followed by a close, with no new check *)
DeleteAnswered ==
  /\ fixing.stage = "delete" /\ UNCHANGED <<rtOps, rtFaults>>
  /\ \/ Discard
     \/ fixing' = [fixing EXCEPT !.stage = "close"] /\ NoSave
        /\ UNCHANGED rtTable
CloseAnswered ==
  /\ fixing.stage = "close" /\ UNCHANGED <<rtOps, rtFaults>>
  /\ \/ Discard
     \/ fixing' = Advanced /\ NoSave /\ UNCHANGED rtTable

(***************************************************************************)
NoRows == [legacy |-> [k \in Users2 |-> NoRoute],
           scoped |-> [k \in Users3 |-> NoRoute],
           groups |-> [k \in Users2 |-> NoRoute],
           names |-> {}, retired |-> {}]
(* A state.json of an older build: legacy rows, some with a chat id *)
SeedRows ==
  {d \in [legacy : [Users2 -> Maybe(RtWindows)], groups : [Users2 -> Maybe(RtChats)],
          scoped : {NoRows.scoped}, names : {{}}, retired : {{}}] :
     LET rows == {k \in Users2 : d.legacy[k] # NoRoute}
     IN  /\ Cardinality(rows) <= MaxSeedRows
         /\ \A k \in Users2 \ rows : d.groups[k] = NoRoute}

RoutingInit ==
  \E d \in SeedRows :
    LET on == Loaded(d) IN
    /\ stored = d /\ dirty = Repaired(d) /\ armed = Repaired(d)
    /\ legacy = on.legacy /\ scoped = on.scoped /\ groups = on.groups
    /\ names = on.names /\ retired = on.retired /\ nextRetired = 1
    /\ idx = IndexOf(on.legacy) /\ cidx = ChatIndexOf(on.scoped)
    /\ fixing = RtIdle /\ rtOps = 0 /\ rtFaults = 0

RoutingNext ==
  \/ SaveTimer \/ SaveFails \/ RestartRouter
  \/ BeginCleanup \/ CheckTopic \/ DeleteAnswered \/ CloseAnswered
  \/ \E u \in RtUsers, t \in RtThreads :
       \/ \E w \in RtWindows : BindLegacy(u, t, w)
       \/ \E c \in RtChats : SetGroupChatId(u, t, c)
       \/ \E c \in RtChats, w \in RtWindows : BindScoped(u, c, t, w)
       \/ \E c \in RtChats, e \in BOOLEAN : Unbind(u, c, t, e)
       \/ \E e \in BOOLEAN : UnbindUnscoped(u, t, e)

RoutingSpec == RoutingInit /\ [][RoutingNext]_rtVars

(***************************************************************************)
(* Properties.                                                             *)
(***************************************************************************)
(* The type of the routing state, with the retired list within its limit,  *)
(* each entry with a sequence of its own that is smaller than the next.    *)
RoutingTypeOK ==
  /\ legacy \in [Users2 -> Maybe(RtWindows)]
  /\ scoped \in [Users3 -> Maybe(RtWindows)]
  /\ groups \in [Users2 -> Maybe(RtChats)]
  /\ names \subseteq RtWindows
  /\ retired \subseteq RetiredTopic /\ Cardinality(retired) <= RetiredLimit
  /\ \A r, q \in retired : r.sequence = q.sequence => r = q
  /\ nextRetired \in Nat /\ \A r \in retired : r.sequence < nextRetired
  /\ idx \in [RtUsers \X RtWindows -> Maybe(RtThreads)]
  /\ cidx \in [RtUsers \X RtChats \X RtWindows -> Maybe(RtThreads)]
  /\ dirty \in BOOLEAN /\ armed \in BOOLEAN
  /\ fixing.stage \in {"idle", "check", "delete", "close"}

(* The reverse indexes, maintained by hand at each change, always equal    *)
(* the ones a rebuild would give: a window finds the topic that shows it.  *)
IndexesMirrorRows == idx = IndexOf(legacy) /\ cidx = ChatIndexOf(scoped)

(* In one chat a window is shown by one topic, and a legacy row of a user  *)
(* is the only one of that user for its window: output cannot be split.    *)
OneTopicPerWindow ==
  /\ \A k, l \in Users3 :
       (k[2] = l[2] /\ scoped[k] = scoped[l] /\ scoped[k] # NoRoute) => k = l
  /\ \A k, l \in Users2 :
       (k[1] = l[1] /\ legacy[k] = legacy[l] /\ legacy[k] # NoRoute) => k = l

(* A table that is not marked dirty survives a restart unchanged: what     *)
(* from_dict makes of state.json is what is in memory.  Rows that a load   *)
(* would promote (a legacy row whose chat became known) and retired topics *)
(* another user has bound are the exceptions the loader itself makes.      *)
CleanMeansReloadable ==
  (~dirty /\ Promotable(Rows) = {}) => Loaded(stored) = Unbound(Rows)

(* /sync sends a delete or close request only for a topic that no user has *)
(* bound when the request is sent (guides.md, "rechecks each known retired *)
(* topic immediately before the Bot API call").                            *)
CleanupSparesActive ==
  [][(fixing'.stage \in {"delete", "close"} /\ fixing' # fixing)
       => LET r == Oldest(fixing'.todo)
          IN  ScopedOwners(r.chat, r.thread) \cup Unscoped(r.chat, r.thread) = {}]_rtVars

(* The table is consistent with its indexes and with its file: the parts   *)
(* above, with the types (thread_router.py).                               *)
RoutingInv == RoutingTypeOK /\ IndexesMirrorRows /\ OneTopicPerWindow /\ CleanMeansReloadable
=============================================================================
