--------------------------- MODULE TopicMessages ---------------------------
(***************************************************************************)
(* What the worker of a queue leaves in one topic: the tool batch, which   *)
(* is one message edited as calls and results arrive, the status bubble,   *)
(* plain messages, and the status tasks with their de-duplication.         *)
(* (tool_batch.py, status_bubble.py, message_queue.py, message_sender.py,  *)
(* telegram_draft.py.)                                                     *)
(*                                                                         *)
(* Tool calls, texts and status texts are numbers; a call below BigTool    *)
(* fits in a batch.  An answer of Telegram covers one dispatch: "ok",      *)
(* "fail" (an error that is not flood control), "retry" (RetryAfter) or    *)
(* "stuck" (only the deletion of the old status message fails).  A message *)
(* stands for its sequence of entries, <<call, has a result>>.             *)
(***************************************************************************)
EXTENDS Integers, Sequences, FiniteSets, SequencesExt

CONSTANTS
    TopicWindows,     \* windows the topic is bound to in turn
    MaxTasks,         \* bound on tasks ever enqueued
    MaxQueued,        \* bound on tasks in the queue
    MaxFaults,        \* bound on answers other than "ok"
    BatchMaxEntries,  \* entries one batch holds
    BigTool,          \* the first tool call whose text alone exceeds a batch
    StreamedFlush,    \* TRUE: the final send of a flush may fail after its draft opened
    NoticeFlood       \* TRUE: flood control may hit a durable status notice

ASSUME TopicAssumption ==
    /\ {MaxTasks, MaxQueued, MaxFaults, BatchMaxEntries, BigTool} \subseteq Nat /\ BatchMaxEntries > 0
    /\ {StreamedFlush, NoticeFlood} \subseteq BOOLEAN

VARIABLES
    tmWin,        \* the window the topic is bound to
    tmQueue,      \* the queue of the user
    tmTask,       \* the task of the worker: "idle", "ready", "flushed", or "again" after flood control
    pendUpdates,  \* _pending_status_updates
    pendClears,   \* _pending_status_clears
    muted,        \* _status_suppressed_until lies ahead
    topic,        \* chat, batch, bubble (_status_msg_info) and ids (_tool_msg_ids)
    toolMode,     \* get_batch_mode: "batched", "ephemeral" or "single"
    tasksMade,    \* tasks enqueued so far
    faults,       \* answers other than "ok" so far
    floods,       \* of these, flood control
    acked,        \* entries a dispatch reported as delivered (ghost)
    absorbed      \* status texts dropped in favour of a later one (ghost)

tmVars == <<tmWin, tmQueue, tmTask, pendUpdates, pendClears, muted, topic, toolMode, tasksMade,
            faults, floods, acked, absorbed>>

NoBatch == [win |-> "none", entries |-> <<>>, msg |-> 0, draft |-> "none", shown |-> <<>>]
NoBubble == [msg |-> 0, win |-> "none", text |-> 0]
NoTask == [kind |-> "none", win |-> "none", n |-> 0]
IdleSlot == [pc |-> "idle", task |-> NoTask]

Statuses == {"notice", "poll"}
Key(t) == <<t.win, t.kind>>
EntriesOf(m) == ToSet(m.batch.entries)
Ids(s) == {e[1] : e \in s}

TmInit ==
    /\ tmWin = (CHOOSE w \in TopicWindows : TRUE)
    /\ tmQueue = <<>> /\ tmTask = IdleSlot /\ pendUpdates = {} /\ pendClears = {} /\ muted = FALSE
    /\ topic = [chat |-> <<>>, batch |-> NoBatch, bubble |-> NoBubble, ids |-> {}]
    /\ toolMode \in {"batched", "ephemeral", "single"}
    /\ tasksMade = 0 /\ faults = 0 /\ floods = 0 /\ acked = {} /\ absorbed = {}

-----------------------------------------------------------------------------
(* The producers.                                                          *)

\* The worker awaits nothing between taking a task and its first call.
Enqueue == tmTask.pc # "ready" /\ tasksMade < MaxTasks /\ Len(tmQueue) < MaxQueued /\ tasksMade' = tasksMade + 1

EnqueueContent ==
    /\ Enqueue
    /\ \E k \in {"use", "result", "text"} :
          LET w == tmWin
              used == {tmQueue[i].n : i \in {j \in DOMAIN tmQueue : tmQueue[j].kind = "use"}}
                          \cup Ids(EntriesOf(topic)) \cup {r[1] : r \in topic.ids}
          IN  \E n \in IF k = "result" THEN used \cup {0} ELSE {tasksMade'} :
                 tmQueue' = Append(tmQueue, [kind |-> k, win |-> w, n |-> n])
    /\ UNCHANGED <<tmWin, tmTask, pendUpdates, pendClears, muted, topic, toolMode, faults, floods, acked, absorbed>>

\* enqueue_status_update: muted polls, and statuses and clears that are
\* pending already, are not queued a second time.
EnqueueStatus ==
    /\ Enqueue
    /\ \E k \in Statuses \cup {"clear"} : LET w == tmWin IN
          /\ k = "poll" => ~muted /\ w \notin pendClears
          /\ IF k = "clear"
             THEN w \notin pendClears /\ pendClears' = pendClears \cup {w} /\ UNCHANGED pendUpdates
             ELSE /\ <<w, k>> \notin pendUpdates
                  /\ pendUpdates' = pendUpdates \cup {<<w, k>>} /\ UNCHANGED pendClears
          /\ tmQueue' = Append(tmQueue, [kind |-> k, win |-> w, n |-> tasksMade'])
    /\ UNCHANGED <<tmWin, tmTask, muted, topic, toolMode, faults, floods, acked, absorbed>>

\* The topic is bound to another window; tasks for the old one may wait.
RebindTopic ==
    /\ Enqueue /\ \E w \in TopicWindows \ {tmWin} : tmWin' = w
    /\ UNCHANGED <<tmQueue, tmTask, pendUpdates, pendClears, muted, topic, toolMode, faults, floods, acked, absorbed>>

Unmute ==
    /\ muted /\ muted' = FALSE
    /\ UNCHANGED <<tmWin, tmQueue, tmTask, pendUpdates, pendClears, topic, toolMode, tasksMade, faults, floods, acked, absorbed>>

\* The tool display of the windows is changed; an ephemeral batch is meant to vanish.
SetToolMode ==
    /\ tmTask.pc = "idle" /\ tasksMade < MaxTasks /\ tasksMade' = tasksMade + 1
    /\ \E d \in {"batched", "ephemeral", "single"} \ {toolMode} :
          toolMode' = d /\ acked' = IF d = "ephemeral" THEN {e \in acked : e[1] \notin Ids(EntriesOf(topic))} ELSE acked
    /\ UNCHANGED <<tmWin, tmQueue, tmTask, pendUpdates, pendClears, muted, topic, faults, floods, absorbed>>

-----------------------------------------------------------------------------
(* Telegram: what the calls do to the topic.                               *)

Post(m, kind, body) == [m EXCEPT !.chat = Append(@, [kind |-> kind, body |-> body])]
Erase(m, id, o) == IF id = 0 \/ o = "stuck" THEN m ELSE [m EXCEPT !.chat[id] = [kind |-> "gone", body |-> <<>>]]
EditMsg(m, id, kind, body) == [m EXCEPT !.chat[id].kind = kind, !.chat[id].body = body]
Done(m) == [m |-> m, out |-> "delivered"]
Failed(m) == [m |-> m, out |-> "failed"]
Flooded(m) == [m |-> m, out |-> "retry"]

\* clear_status_message forgets the bubble before it deletes it.
ClearStatus(m, o) == [Erase(m, m.bubble.msg, o) EXCEPT !.bubble = NoBubble]

\* flush_batch: finalise the open draft, or edit the message, or open a draft
\* and send it; a batch that could not be finalised stays.
FlushBatch(m, o) ==
    LET b == m.batch
        without(x) == [x EXCEPT !.batch = NoBatch]
        failed == o \in {"fail", "retry"}
    IN  IF b = NoBatch THEN m
        ELSE IF b.entries = <<>> THEN without(m)
        ELSE IF toolMode = "ephemeral" THEN without(Erase(m, b.msg, IF failed THEN "stuck" ELSE o))
        ELSE IF b.draft = "legacy"
        THEN IF failed THEN m ELSE without(EditMsg(m, b.msg, "tools", b.entries))
        ELSE IF b.draft = "none" /\ b.msg # 0
        THEN IF failed THEN without(m) ELSE without(EditMsg(m, b.msg, "tools", b.entries))
        ELSE IF o = "fail" THEN [m EXCEPT !.batch.draft = IF b.draft = "streaming" THEN @ ELSE "unset"]
        ELSE IF o = "retry"
        THEN [m EXCEPT !.batch.draft = IF StreamedFlush THEN "streaming" ELSE "unset"]
        ELSE without(Post(m, "tools", b.entries))

\* Mutant: entries added while an edit failed count as shown.
SendOrEditUnless(m, o) ==
    IF m.batch.msg # 0 THEN Done(m)
    ELSE IF o # "ok" THEN Failed(m)
    ELSE Done([Post(m, "tools", m.batch.entries) EXCEPT !.batch.msg = Len(m.chat) + 1])

\* _send_or_edit_batch.
SendOrEdit(m, o) ==
    LET b == m.batch
        clean == ClearStatus(m, o)
        sent(x, d) == [Post(x, "tools", b.entries) EXCEPT
                          !.batch.msg = Len(x.chat) + 1, !.batch.draft = d, !.batch.shown = b.entries]
        edited == [EditMsg(m, b.msg, "tools", b.entries) EXCEPT !.batch.shown = b.entries]
        eph == toolMode = "ephemeral"
    IN  IF b.shown = b.entries /\ (b.msg # 0 \/ b.draft # "none") THEN Done(m)
        ELSE IF eph /\ b.msg = 0
        THEN IF o = "retry" THEN Flooded(clean) ELSE IF o = "fail" THEN Failed(clean) ELSE Done(sent(clean, b.draft))
        ELSE IF ~eph /\ b.draft = "none"
        THEN IF o \in {"fail", "retry"} THEN Failed(clean) ELSE Done(sent(clean, "legacy"))
        ELSE IF ~eph /\ b.draft = "unset" THEN Failed(m)
        ELSE IF o = "retry" THEN Flooded(m)
        ELSE IF o = "fail" THEN Failed(m)
        ELSE IF ~eph /\ b.draft = "streaming" THEN Done([m EXCEPT !.batch.shown = b.entries])
        ELSE Done(edited)

\* _process_content_task: edit the message of the call, or turn the bubble into
\* the message, or send one; the id of a call's message is remembered.
Content(m, t, o) ==
    LET old == {r \in m.ids : r[1] = t.n}
        body == <<<<t.n, t.kind = "result">>>>
        remember(x, id) == IF t.kind = "use" THEN [x EXCEPT !.ids = @ \cup {<<t.n, id>>}] ELSE x
        bare == [m EXCEPT !.bubble = NoBubble]
        post(x) == remember(Post(x, t.kind, body), Len(x.chat) + 1)
    IN  IF t.kind = "result" /\ t.n # 0 /\ old # {}
        THEN LET x == ClearStatus(m, o)
                 gone == [x EXCEPT !.ids = @ \ old]
             IN  IF o = "retry" THEN Flooded(x)
                 ELSE IF o = "fail" THEN Done(Post(gone, t.kind, body))
                 ELSE Done(EditMsg(gone, (CHOOSE r \in old : TRUE)[2], t.kind, body))
        ELSE IF m.bubble.msg # 0 /\ m.bubble.win = t.win
        THEN IF o = "retry" THEN Flooded(bare)
             ELSE IF o = "fail" THEN Done(post(bare))
             ELSE Done(remember(EditMsg(bare, m.bubble.msg, t.kind, body), m.bubble.msg))
        ELSE LET x == IF m.bubble.msg # 0 THEN ClearStatus(m, o) ELSE m
             IN  IF o = "retry" THEN Flooded(x) ELSE IF o = "fail" THEN Failed(x) ELSE Done(post(x))

\* _handle_tool_use_event: another window flushes, a full batch is flushed and
\* replaced, an ephemeral one drops its oldest entry.
WithEntry(m, t, o) ==
    LET e == <<t.n, FALSE>>
        own == IF m.batch # NoBatch /\ m.batch.win # t.win THEN FlushBatch(m, o) ELSE m
        x == IF own.batch.win = t.win THEN own ELSE [own EXCEPT !.batch = [NoBatch EXCEPT !.win = t.win]]
        full == Len(x.batch.entries) >= BatchMaxEntries
    IN  IF toolMode = "ephemeral"
        THEN [x EXCEPT !.batch.entries = Append(IF full THEN Tail(@) ELSE @, e)]
        ELSE IF ~full /\ t.n < BigTool THEN [x EXCEPT !.batch.entries = Append(@, e)]
        ELSE [FlushBatch(x, o) EXCEPT !.batch = [NoBatch EXCEPT !.win = t.win, !.entries = <<e>>]]

\* process_tool_event and _handle_tool_result.
ToolEvent(m, t, o) ==
    IF t.kind = "use"
    THEN IF t.n >= BigTool /\ toolMode # "ephemeral"
         THEN Content([WithEntry(m, t, o) EXCEPT !.batch = NoBatch], t, o)
         ELSE SendOrEdit(WithEntry(m, t, o), o)
    ELSE LET at == {i \in DOMAIN m.batch.entries : m.batch.entries[i][1] = t.n}
         IN  IF m.batch = NoBatch \/ t.n = 0 THEN Content(m, t, o)
             ELSE IF at # {}
             THEN SendOrEdit([m EXCEPT !.batch.entries[CHOOSE i \in at : \A j \in at : i <= j][2] = TRUE], o)
             ELSE IF toolMode = "ephemeral" THEN [m |-> m, out |-> "dropped"]
             ELSE Content(FlushBatch(m, o), t, o)

\* send_status_text: edit the bubble of the window, else replace it.
StatusText(m, w, n, o) ==
    LET posted(x) == [Post(x, "status", <<>>) EXCEPT !.bubble = [msg |-> Len(x.chat) + 1, win |-> w, text |-> n]]
    IN  IF m.bubble.msg # 0 /\ m.bubble.win = w
        THEN IF m.bubble.text = n THEN Done(m)
             ELSE IF o = "retry" THEN Flooded(m)
             ELSE IF o = "ok" THEN Done([m EXCEPT !.bubble.text = n])
             ELSE Done(posted(ClearStatus(m, o)))
        ELSE LET x == ClearStatus(m, o)
             IN  IF o = "retry" THEN Flooded(x) ELSE IF o = "fail" THEN Done(x) ELSE Done(posted(x))

-----------------------------------------------------------------------------
(* The worker.                                                             *)

GetStatusOrContent ==
    /\ tmTask.pc = "idle" /\ tmQueue # <<>>
    /\ tmTask' = [pc |-> "ready", task |-> Head(tmQueue)] /\ tmQueue' = Tail(tmQueue)
    /\ pendUpdates' = pendUpdates \ {Key(Head(tmQueue))}
    /\ pendClears' = IF Head(tmQueue).kind = "clear" THEN pendClears \ {Head(tmQueue).win} ELSE pendClears
    /\ UNCHANGED <<tmWin, muted, topic, toolMode, tasksMade, faults, floods, acked, absorbed>>

Answer(o) ==
    /\ o # "ok" => faults < MaxFaults
    /\ faults' = IF o = "ok" THEN faults ELSE faults + 1
    /\ floods' = IF o = "retry" THEN floods + 1 ELSE floods

Answers == {"ok", "fail", "retry", "stuck"}

\* _dispatch_with_retry: flood control drops a transient status and mutes the
\* user, and repeats everything else from the start.
Settle(r, transient) ==
    /\ topic' = r.m
    /\ IF r.out = "retry" /\ ~transient
       THEN tmTask' = [tmTask EXCEPT !.pc = "again"] /\ UNCHANGED muted
       ELSE tmTask' = IdleSlot /\ muted' = (muted \/ r.out = "retry")

Begins == tmTask.pc \in {"ready", "again"}

DispatchContent ==
    /\ Begins /\ tmTask.task.kind \in {"use", "result", "text"}
    /\ \E o \in Answers :
          LET t == tmTask.task
              tool == t.kind # "text" /\ toolMode # "single"
              r == IF tool THEN ToolEvent(topic, t, o) ELSE Content(FlushBatch(topic, o), t, o)
          IN  /\ Answer(o) /\ Settle(r, FALSE)
              /\ acked' = IF r.out = "delivered" /\ t.kind # "text" /\ t.n # 0 /\ toolMode # "ephemeral"
                          THEN (acked \ (IF t.kind = "use" THEN {} ELSE {<<t.n, FALSE>>}))
                                 \cup {<<t.n, t.kind = "result">>}
                          ELSE acked
    /\ UNCHANGED <<tmWin, tmQueue, pendUpdates, pendClears, toolMode, tasksMade, absorbed>>

\* The batch owns the topic: status texts are dropped, and nothing is flushed.
Ephemeral == topic.batch # NoBatch /\ toolMode = "ephemeral"

\* The flush of a status task awaits Telegram: the producers go on meanwhile.
FlushForStatus ==
    /\ Begins /\ topic.batch # NoBatch
    /\ \/ tmTask.task.kind = "clear"
       \/ tmTask.task.kind \in Statuses /\ ~Ephemeral
    /\ tmTask' = [tmTask EXCEPT !.pc = "flushed"]
    /\ \E o \in {"ok", "fail", "retry"} : Answer(o) /\ topic' = FlushBatch(topic, o)
    /\ UNCHANGED <<tmWin, tmQueue, pendUpdates, pendClears, muted, toolMode, tasksMade, acked, absorbed>>

Flushed == tmTask.pc = "flushed" \/ (Begins /\ topic.batch = NoBatch)

\* _coalesce_status_updates, then the bubble; nothing while an ephemeral batch
\* owns the topic.
DispatchUpdate ==
    /\ tmTask.task.kind \in Statuses
    /\ Flushed \/ (Begins /\ Ephemeral)
    /\ LET t == tmTask.task
           same(x) == x.kind \in Statuses /\ Key(x) = Key(t)
           siblings == SelectSeq(tmQueue, same)
           last == IF siblings = <<>> THEN t ELSE Last(siblings)
       IN  /\ tmQueue' = SelectSeq(tmQueue, LAMBDA x : ~same(x))
           /\ pendUpdates' = pendUpdates \ {Key(x) : x \in ToSet(siblings)}
           /\ \E o \in Answers :
                 /\ Answer(o)
                 /\ o = "retry" => t.kind = "poll" \/ NoticeFlood \/ siblings = <<>>
                 /\ IF Ephemeral
                    THEN o = "ok" /\ tmTask' = IdleSlot /\ UNCHANGED <<topic, muted, absorbed>>
                    ELSE /\ Settle(StatusText(topic, t.win, last.n, o), t.kind = "poll")
                         /\ absorbed' = absorbed \cup {x.n : x \in ToSet(<<t>> \o siblings) \ {last}}
    /\ UNCHANGED <<tmWin, pendClears, toolMode, tasksMade, acked>>

\* process_status_clear: the bubble shows the task list of the agent, if it has one.
DispatchClear ==
    /\ Flushed /\ tmTask.task.kind = "clear"
    /\ \E o \in Answers, listed \in BOOLEAN :
          /\ Answer(o)
          /\ Settle(IF listed THEN StatusText(topic, tmTask.task.win, 0, o)
                    ELSE Done(ClearStatus(topic, IF o \in {"fail", "retry"} THEN "stuck" ELSE o)), TRUE)
    /\ UNCHANGED <<tmWin, tmQueue, pendUpdates, pendClears, toolMode, tasksMade, acked, absorbed>>

TmNext ==
    \/ EnqueueContent \/ EnqueueStatus \/ RebindTopic \/ Unmute \/ SetToolMode
    \/ GetStatusOrContent \/ DispatchContent \/ FlushForStatus \/ DispatchUpdate \/ DispatchClear

TmSpec == TmInit /\ [][TmNext]_tmVars

-----------------------------------------------------------------------------
TopicTypeOK ==
    /\ tmTask.pc \in {"idle", "ready", "flushed", "again"} /\ toolMode \in {"batched", "ephemeral", "single"}
    /\ pendUpdates \subseteq TopicWindows \X Statuses /\ pendClears \subseteq TopicWindows
    /\ topic.batch.msg \in 0..Len(topic.chat) /\ topic.bubble.msg \in 0..Len(topic.chat)
    /\ Len(topic.batch.entries) <= BatchMaxEntries
    /\ faults \in 0..MaxFaults /\ floods \in 0..faults

\* A tool call or a result whose task was settled as delivered can be read in a
\* message of the topic: a preview, or an entry a failed flush took away, is not
\* enough to let the watermark pass (tool_batch.py, _send_or_edit_batch).
AckedIsVisible ==
    \A e \in acked : \E i \in DOMAIN topic.chat :
       \E x \in ToSet(topic.chat[i].body) : x[1] = e[1] /\ (e[2] => x[2])

\* A status message the bot no longer tracks stays in the topic only for an
\* answer of Telegram that was an error (status_bubble.py).
OrphansAreFaults ==
    Cardinality({i \in DOMAIN topic.chat : /\ topic.chat[i].kind = "status"
                                           /\ i # topic.bubble.msg}) <= faults

\* A pending mark says that its task is in the queue; a mark left behind would
\* silence the status of the topic for good (message_queue.py, _coalesce_status_updates).
PendingIsQueued ==
    /\ pendUpdates = {Key(t) : t \in {x \in ToSet(tmQueue) : x.kind \in Statuses}}
    /\ pendClears = {t.win : t \in {x \in ToSet(tmQueue) : x.kind = "clear"}}

\* A call is listed twice in a batch only because flood control made the queue
\* repeat its task (tool_batch.py, _add_tool_use_entry).
ListedOnce == Len(topic.batch.entries) - Cardinality(Ids(EntriesOf(topic))) <= floods

\* Once a newer status has taken the place of an older one in the queue, the
\* older text is not shown (message_queue.py, _coalesce_status_updates).
LatestStatusWins ==
    topic.bubble.msg = 0 \/ topic.bubble.text \notin absorbed

\* What is in the topic is what the queue reported and asked for: the parts above,
\* with the types (message_queue.py, tool_batch.py, status_bubble.py).
TopicInv ==
    /\ TopicTypeOK /\ AckedIsVisible /\ OrphansAreFaults
    /\ PendingIsQueued /\ ListedOnce /\ LatestStatusWins
=============================================================================
