------------------------- MODULE TranscriptDelivery -------------------------
(***************************************************************************)
(* How transcript entries written by an agent become Telegram messages and *)
(* how far the durable delivered watermark may follow them.                *)
(*                                                                         *)
(* Actors: the agents that append to transcripts; the session monitor      *)
(* (session_monitor.py, transcript_reader.py, monitor_state.py), one       *)
(* asyncio task that polls; one queue worker per user (message_queue.py);  *)
(* the Telegram handler behind "Jump to live"; the multiplexer listing;    *)
(* topic rebinding; process crash, graceful shutdown and restart.          *)
(*                                                                         *)
(* asyncio runs one task at a time, so a step is the code between two real *)
(* suspension points.  Transcript offsets are entry counts.                *)
(***************************************************************************)
EXTENDS DeliveryContract, Sequences, FiniteSets

CONSTANTS
    Sessions,     \* agent sessions, one window each
    Users,        \* allowed Telegram users, one queue and one worker each
    Topics,       \* forum topics of a user's chat, one window each
    MaxLen,       \* entries every transcript may reach
    Transcript,   \* Transcript[s][i]: what entry i of session s is
    Budget,       \* how often each environment event may happen
    Unbound,      \* the window has no topic for this user
    NoSkip,       \* no backlog skip pending
    NoSession     \* the monitor is between sessions

Item == 1..MaxLen
Offset == 0..MaxLen

\* "text" comes from the agent and "echo" is what was typed to it, perhaps from
\* Telegram; either may be batched with its like.  "use" and "prompt" open a
\* tool call, "prompt" asks the user something; "result" closes the call opened
\* by entry `of`; "silent" yields no message.
Kinds == {"text", "echo", "silent", "use", "prompt", "result"}
Events == {"crash", "stop", "skip", "rebind", "gap", "save", "read", "send",
           "flood", "route"}

ASSUME ConstantsAssumption ==
    /\ MaxLen \in Nat
    /\ Sessions # {} /\ IsFiniteSet(Sessions)
    /\ Users # {} /\ IsFiniteSet(Users)
    /\ Transcript \in [Sessions -> [Item -> [kind : Kinds, of : Offset]]]
    /\ Budget \in [Events -> Nat]
    /\ Topics # {} /\ Unbound \notin Topics
    /\ NoSession \notin Sessions

Intent == [user : Users, topic : Topics, snap : Offset, purged : BOOLEAN]

ASSUME NoSkipAssumption == NoSkip \notin Intent

Receipt == [cp : Offset, left : SUBSET Users, closed : BOOLEAN, failed : BOOLEAN,
            awaiting : SUBSET Users]
\* items: the entries in the message; owed: those whose receipt still counts.
Task == [sess : Sessions, items : SUBSET Item, owed : SUBSET Item, cp : Offset,
         topic : Topics, notice : BOOLEAN]
Tracked == [wm : Offset, skip : Intent \cup {NoSkip}]
Worker == [st : {"idle", "ready", "sending"}, task : Task, batch : BOOLEAN]
NoticeState == {"none", "pending", "ready", "failed"}

VARIABLES
    \* environment
    written,      \* written[s]: entries in the transcript file
    bound,        \* bound[u][s]: topic u has bound to the window of s
    live,         \* windows the last confirmed listing showed
    budget,       \* environment events still allowed
    mode,         \* life of the bot process
    \* session monitor
    pc, todo, cur,
    parsed,       \* parsed[s]: TrackedSession.parsed_offset
    buf,          \* buf[s]: entries read whose receipt is not registered yet
    tools,        \* tools[s]: tool calls read and not answered (_pending_tools)
    regs, rcpt,   \* _delivery_receipts: the items with a receipt, the receipts
    notice,       \* _skip_notice_receipts[s]
    backoff,      \* sessions whose skip waits for its retry time (_skip_retry_at)
    mem, disk,    \* MonitorState in memory and in monitor_state.json
    \* queues
    queue, worker,
    \* what has happened, for the properties
    done,         \* done[u][s]: items shown to u or deliberately not shown
    skipped,      \* skipped[u][s]: items covered by a skip u asked for and that completed
    announced     \* announced[s]: the end of the widest range announced

envVars == <<written, bound, live, mode>>
monVars == <<pc, todo, cur>>
readVars == <<parsed, buf, tools>>
ackVars == <<regs, rcpt, notice, backoff>>
storeVars == <<mem, disk>>
queueVars == <<queue, worker>>
historyVars == <<done, skipped, announced>>
vars == <<envVars, budget, monVars, readVars, ackVars, storeVars, queueVars, historyVars>>

-----------------------------------------------------------------------------
Larger(a, b) == IF a >= b THEN a ELSE b

KindOf(s, i) == Transcript[s][i].kind
HasMessage(s, i) == KindOf(s, i) # "silent"
OpensTool(s, i) == KindOf(s, i) \in {"use", "prompt"}

Spend(e) == budget[e] > 0 /\ budget' = [budget EXCEPT ![e] = @ - 1]

\* Mutant: a failed save truncates the file.
TornSave(m) == \/ disk' = m /\ UNCHANGED budget
               \/ Spend("save") /\ disk' = [s \in Sessions |-> [wm |-> 0, skip |-> NoSkip]]

\* MonitorState.save writes the whole file or, on OSError, nothing.
Save(m) == \/ disk' = m /\ UNCHANGED budget
           \/ Spend("save") /\ UNCHANGED disk

NoReceipt == [cp |-> 0, left |-> {}, closed |-> FALSE, failed |-> FALSE, awaiting |-> {}]
IdleTask == [sess |-> CHOOSE s \in Sessions : TRUE, items |-> {}, owed |-> {}, cp |-> 0,
             topic |-> CHOOSE t \in Topics : TRUE, notice |-> FALSE]
IdleWorker == [st |-> "idle", task |-> IdleTask, batch |-> FALSE]

\* Receipts nobody reads any more: tasks that carry them settle without effect.
Detached(t, s) == IF t.sess = s THEN [t EXCEPT !.owed = {}] ELSE t
Detach(s) ==
    /\ queue' = [u \in Users |-> [k \in 1..Len(queue[u]) |-> Detached(queue[u][k], s)]]
    /\ worker' = [u \in Users |-> [worker[u] EXCEPT !.task = Detached(@, s)]]

\* Mutant: a fresh process starts reading at the end of the transcript.
FreshProcessAtEof(d) ==
    /\ mem' = d
    /\ parsed' = written
    /\ buf' = [s \in Sessions |-> {}]
    /\ tools' = [s \in Sessions |-> {}]
    /\ regs' = [s \in Sessions |-> {}]
    /\ rcpt' = [s \in Sessions |-> [i \in Item |-> NoReceipt]]
    /\ notice' = [s \in Sessions |-> "none"] /\ backoff' = {}
    /\ pc' = "idle" /\ todo' = {} /\ cur' = NoSession
    /\ queue' = [u \in Users |-> <<>>]
    /\ worker' = [u \in Users |-> IdleWorker]
    /\ live' = Sessions

\* Everything the process keeps only in memory, as a fresh process has it.
FreshProcess(d) ==
    /\ mem' = d
    /\ parsed' = [s \in Sessions |-> d[s].wm]
    /\ buf' = [s \in Sessions |-> {}]
    /\ tools' = [s \in Sessions |-> {}]
    /\ regs' = [s \in Sessions |-> {}]
    /\ rcpt' = [s \in Sessions |-> [i \in Item |-> NoReceipt]]
    /\ notice' = [s \in Sessions |-> "none"] /\ backoff' = {}
    /\ pc' = "idle" /\ todo' = {} /\ cur' = NoSession
    /\ queue' = [u \in Users |-> <<>>]
    /\ worker' = [u \in Users |-> IdleWorker]
    /\ live' = Sessions

\* What the topics of one user can show: a topic shows one window at most.
Bindings == {b \in [Sessions -> Topics \cup {Unbound}] :
                \A s, r \in Sessions : s # r /\ b[s] = b[r] => b[s] = Unbound}

Init ==
    /\ written = [s \in Sessions |-> 0]
    /\ bound \in [Users -> Bindings]
    /\ live = Sessions
    /\ budget = Budget
    /\ mode = "up"
    /\ pc = "idle" /\ todo = {} /\ cur = NoSession
    /\ parsed = [s \in Sessions |-> 0]
    /\ buf = [s \in Sessions |-> {}]
    /\ tools = [s \in Sessions |-> {}]
    /\ regs = [s \in Sessions |-> {}]
    /\ rcpt = [s \in Sessions |-> [i \in Item |-> NoReceipt]]
    /\ notice = [s \in Sessions |-> "none"] /\ backoff = {}
    /\ mem = [s \in Sessions |-> [wm |-> 0, skip |-> NoSkip]]
    /\ disk = mem
    /\ queue = [u \in Users |-> <<>>]
    /\ worker = [u \in Users |-> IdleWorker]
    /\ done = [u \in Users |-> [s \in Sessions |-> {}]]
    /\ skipped = [u \in Users |-> [s \in Sessions |-> {}]]
    /\ announced = [s \in Sessions |-> 0]

-----------------------------------------------------------------------------
(* Queue worker of user u (message_queue.py).                              *)

Running == mode \in {"up", "draining"}

\* Mutant: the first user to settle settles for all.
SettledForAll(r, u, outcome) ==
    [r EXCEPT !.awaiting = {}, !.failed = @ \/ outcome = "failed"]

\* DeliveryReceipt.settle, once per receipt of the task: u no longer owes it.
Settled(r, u, outcome) ==
    [r EXCEPT !.awaiting = @ \ {u}, !.failed = @ \/ outcome = "failed"]

\* Mutant: a notice that failed counts as acknowledged.
SettleAnyNotice(u, outcome) ==
    LET t == worker[u].task
        mine(s, i) == s = t.sess /\ i \in t.owed
    IN  /\ rcpt' = [s \in Sessions |-> [i \in Item |->
                       IF mine(s, i) THEN Settled(rcpt[s][i], u, outcome) ELSE rcpt[s][i]]]
        /\ notice' = IF t.notice THEN [notice EXCEPT ![t.sess] = "ready"] ELSE notice
        /\ done' = IF outcome = "failed" THEN done
                   ELSE [done EXCEPT ![u][t.sess] = @ \cup t.items]
        /\ announced' = IF t.notice /\ outcome = "delivered"
                        THEN [announced EXCEPT ![t.sess] = Larger(@, t.cp)]
                        ELSE announced
        /\ worker' = [worker EXCEPT ![u] = IdleWorker]
        /\ UNCHANGED <<envVars, monVars, readVars, regs, backoff, storeVars, skipped>>

\* The worker's finally block: settle every receipt of the task it holds.
Settle(u, outcome) ==
    LET t == worker[u].task
        mine(s, i) == s = t.sess /\ i \in t.owed
    IN  /\ rcpt' = [s \in Sessions |-> [i \in Item |->
                       IF mine(s, i) THEN Settled(rcpt[s][i], u, outcome) ELSE rcpt[s][i]]]
        /\ notice' = IF t.notice
                     THEN [notice EXCEPT ![t.sess] =
                              IF outcome = "failed" THEN "failed" ELSE "ready"]
                     ELSE notice
        /\ done' = IF outcome = "failed" THEN done
                   ELSE [done EXCEPT ![u][t.sess] = @ \cup t.items]
        /\ announced' = IF t.notice /\ outcome = "delivered"
                        THEN [announced EXCEPT ![t.sess] = Larger(@, t.cp)]
                        ELSE announced
        /\ worker' = [worker EXCEPT ![u] = IdleWorker]
        /\ UNCHANGED <<envVars, monVars, readVars, regs, backoff, storeVars, skipped>>

GetTask(u) ==
    /\ Running /\ worker[u].st = "idle" /\ queue[u] # <<>>
    /\ worker' = [worker EXCEPT ![u] =
                     [st |-> "ready", task |-> Head(queue[u]), batch |-> FALSE]]
    /\ queue' = [queue EXCEPT ![u] = Tail(@)]
    /\ UNCHANGED <<envVars, budget, monVars, readVars, ackVars, storeVars, historyVars>>

\* A dead target is dropped before every attempt, first or retried.
DropStale(u) ==
    /\ Running /\ worker[u].st = "ready"
    /\ worker[u].task.sess \notin live
    /\ Settle(u, "dropped")
    /\ UNCHANGED <<budget, queue>>

OnlyKind(t, kinds) == ~t.notice /\ \A i \in t.items : KindOf(t.sess, i) \in kinds

\* Tool calls hidden for the window, read at dispatch time.
DropHidden(u) ==
    /\ Running /\ worker[u].st = "ready"
    /\ worker[u].task.sess \in live
    /\ OnlyKind(worker[u].task, {"use", "prompt", "result"})
    /\ Settle(u, "dropped")
    /\ UNCHANGED <<budget, queue>>

CanMerge(a, b) ==
    /\ a.sess = b.sess /\ a.topic = b.topic
    /\ \E kind \in {"text", "echo"} : OnlyKind(a, {kind}) /\ OnlyKind(b, {kind})

LatestCheckpoint(t, q, k) ==
    LET cps == {t.cp} \cup {q[j].cp : j \in 1..k}
    IN  CHOOSE c \in cps : \A d \in cps : d <= c

\* Mutant: the checkpoints of merged tasks are added up.
MergedSum(t, q, k) ==
    [t EXCEPT !.items = @ \cup UNION {q[j].items : j \in 1..k},
              !.owed = @ \cup UNION {q[j].owed : j \in 1..k},
              !.cp = IF k = 0 THEN @ ELSE @ + q[k].cp]

\* Takes the first k queued tasks into the one in hand.  The code stops at the
\* length limit of one message, which may fall anywhere.
Merged(t, q, k) ==
    [t EXCEPT !.items = @ \cup UNION {q[j].items : j \in 1..k},
              !.owed = @ \cup UNION {q[j].owed : j \in 1..k},
              !.cp = LatestCheckpoint(t, q, k)]

BeginSend(u) ==
    LET t == worker[u].task
    IN  /\ Running /\ worker[u].st = "ready" /\ t.sess \in live
        /\ t.notice => bound[u][t.sess] = t.topic
        /\ \E k \in 0..Len(queue[u]) :
              /\ worker[u].batch => k = 0
              /\ \A j \in 1..k : CanMerge(t, queue[u][j])
              /\ worker' = [worker EXCEPT ![u] =
                     [st |-> "sending", task |-> Merged(t, queue[u], k),
                      batch |-> worker[u].batch \/ k > 0]]
              /\ queue' = [queue EXCEPT ![u] = SubSeq(@, k + 1, Len(@))]
        /\ UNCHANGED <<envVars, budget, monVars, readVars, ackVars, storeVars, historyVars>>

\* A notice whose topic now shows another window is refused.
RefuseNotice(u) ==
    LET t == worker[u].task
    IN  /\ Running /\ worker[u].st = "ready" /\ t.sess \in live
        /\ t.notice /\ bound[u][t.sess] # t.topic
        /\ Settle(u, "failed")
        /\ UNCHANGED <<budget, queue>>

Deliver(u) ==
    /\ Running /\ worker[u].st = "sending"
    /\ Settle(u, "delivered")
    /\ UNCHANGED <<budget, queue>>

\* The sender gave up, raised, or used up the five-minute flood budget.
FailSend(u) ==
    /\ Running /\ worker[u].st = "sending"
    /\ Spend("send")
    /\ Settle(u, "failed")
    /\ UNCHANGED queue

\* RetryAfter: the same, possibly merged, task starts over after a pause.
RetryAfter(u) ==
    /\ Running /\ worker[u].st = "sending"
    /\ Spend("flood")
    /\ worker' = [worker EXCEPT ![u].st = "ready"]
    /\ UNCHANGED <<envVars, monVars, readVars, ackVars, storeVars, queue, historyVars>>

-----------------------------------------------------------------------------
(* Backlog skip ("Jump to live").                                          *)

Current(s, n) == n # NoSkip /\ bound[n.user][s] = n.topic

\* Queued (never in-flight) tasks of the frozen range.
Purgeable(t, s, n) ==
    t.sess = s /\ ~t.notice /\ t.topic = n.topic /\ t.cp <= n.snap

\* The one sequence that is q without its purgeable tasks, order kept: place
\* maps the positions of the result to the positions kept.
Purged(q, s, n) ==
    LET kept == {k \in 1..Len(q) : ~Purgeable(q[k], s, n)}
        size == Cardinality(kept)
        places == {p \in [1..size -> kept] : \A j, k \in 1..size : j < k => p[j] < p[k]}
    IN  {[k \in 1..size |-> q[p[k]]] : p \in places}

\* Mutant: purged tasks leave their receipts waiting.
PurgedUnsettled(q, s, n) == {}

PurgedItems(q, s, n) == UNION {q[k].owed : k \in {j \in 1..Len(q) : Purgeable(q[j], s, n)}}

NoticeTask(s, n) == [sess |-> s, items |-> {}, owed |-> {}, cp |-> n.snap,
                     topic |-> n.topic, notice |-> TRUE]

\* One notice per session at a time; a window that is not live refuses it, and
\* the next attempt waits for the retry time.
Notify(s, n, q) ==
    \/ /\ notice[s] = "none" /\ s \in live
       /\ queue' = [queue EXCEPT ![n.user] = Append(q, NoticeTask(s, n))]
       /\ notice' = [notice EXCEPT ![s] = "pending"]
       /\ UNCHANGED backoff
    \/ /\ notice[s] # "none" \/ s \notin live
       /\ queue' = [queue EXCEPT ![n.user] = q]
       /\ backoff' = IF notice[s] = "none" THEN backoff \cup {s} ELSE backoff
       /\ UNCHANGED notice

WithSkip(m, s, n) == [m EXCEPT ![s].skip = n]

\* _prepare_pending_skip and _enqueue_pending_skip_notice for the barrier n,
\* which the file d already holds (b: the budget so far), when its retry time
\* has come: retire the queued range, save that, then queue the notice.  If the
\* save fails the purge is repeated in a later cycle.
PrepareSkip(s, n, m, d, b) ==
    IF n.purged
    THEN /\ Notify(s, n, queue[n.user])
         /\ mem' = m /\ disk' = d /\ budget' = b
         /\ UNCHANGED rcpt
    ELSE /\ rcpt' = [rcpt EXCEPT ![s] = [i \in Item |->
                IF i \in PurgedItems(queue[n.user], s, n)
                THEN Settled(rcpt[s][i], n.user, "dropped") ELSE rcpt[s][i]]]
         /\ \E q \in Purged(queue[n.user], s, n) :
               \/ /\ mem' = WithSkip(m, s, [n EXCEPT !.purged = TRUE])
                  /\ disk' = mem'
                  /\ Notify(s, n, q)
                  /\ budget' = b
               \/ /\ b["save"] > 0 /\ budget' = [b EXCEPT !["save"] = @ - 1]
                  /\ mem' = m /\ disk' = d
                  /\ queue' = [queue EXCEPT ![n.user] = q]
                  /\ backoff' = backoff \cup {s}
                  /\ UNCHANGED notice

\* Content of s for u that is queued or in flight.
Backlog(u, s) ==
    UNION {queue[u][k].items : k \in {j \in 1..Len(queue[u]) : queue[u][j].sess = s}}
    \cup (IF worker[u].task.sess = s THEN worker[u].task.items ELSE {})

\* Mutant: the barrier is saved only together with the purge.
RequestSkipUnsaved(u, s) ==
    /\ mode = "up" /\ budget["skip"] > 0
    /\ mem[s].skip = NoSkip
    /\ bound[u][s] # Unbound /\ Backlog(u, s) # {}
    /\ LET n == [user |-> u, topic |-> bound[u][s], snap |-> written[s], purged |-> FALSE]
           m == WithSkip(mem, s, n)
           b == [budget EXCEPT !["skip"] = @ - 1]
       IN  \/ /\ s \notin backoff
              /\ PrepareSkip(s, n, m, disk, b)
           \/ /\ s \in backoff
              /\ mem' = m /\ budget' = b
              /\ UNCHANGED <<disk, rcpt, notice, backoff, queue>>
    /\ UNCHANGED <<envVars, monVars, readVars, regs, worker, historyVars>>

\* The confirmed Telegram button.  The barrier is durable before any queued
\* work is retired; if it cannot be saved nothing happens.  While a retry time
\* left by an earlier skip is running the barrier is all there is.
RequestSkip(u, s) ==
    /\ mode = "up" /\ budget["skip"] > 0
    /\ mem[s].skip = NoSkip
    /\ bound[u][s] # Unbound /\ Backlog(u, s) # {}
    /\ LET n == [user |-> u, topic |-> bound[u][s], snap |-> written[s], purged |-> FALSE]
           m == WithSkip(mem, s, n)
           b == [budget EXCEPT !["skip"] = @ - 1]
       IN  \/ /\ s \notin backoff
              /\ PrepareSkip(s, n, m, m, b)
           \/ /\ s \in backoff
              /\ mem' = m /\ disk' = m /\ budget' = b
              /\ UNCHANGED <<rcpt, notice, backoff, queue>>
    /\ UNCHANGED <<envVars, monVars, readVars, regs, worker, historyVars>>

-----------------------------------------------------------------------------
(* The session monitor: one cycle of _monitor_loop.                        *)

\* A new confirmed listing starts the cycle.
NoteLive(L) ==
    /\ mode = "up" /\ pc = "idle"
    /\ IF live \subseteq L THEN UNCHANGED budget ELSE Spend("gap")
    /\ live' = L
    /\ pc' = "resume" /\ todo' = Sessions
    /\ UNCHANGED <<written, bound, mode, cur, readVars, ackVars, storeVars, queueVars, historyVars>>

\* _resume_pending_skip_notices for one session: drop a barrier whose topic
\* moved, else make sure its range is purged and its notice queued.
ResumeSkip(s) ==
    LET n == mem[s].skip
    IN  /\ pc = "resume" /\ s \in todo
        /\ todo' = todo \ {s}
        /\ \/ /\ n = NoSkip \/ s \in backoff
              /\ UNCHANGED <<budget, storeVars, rcpt, notice, backoff, queue>>
           \/ /\ n # NoSkip /\ s \notin backoff /\ ~Current(s, n)
              /\ mem' = WithSkip(mem, s, NoSkip)
              /\ Save(mem')
              /\ UNCHANGED <<rcpt, notice, backoff, queue>>
           \/ /\ Current(s, n) /\ s \notin backoff
              /\ PrepareSkip(s, n, mem, disk, budget)
        /\ UNCHANGED <<envVars, pc, cur, readVars, regs, worker, historyVars>>

\* The retry time of a failed skip step has come (_skip_retry_due).
RetryDue(s) ==
    /\ s \in backoff
    /\ backoff' = backoff \ {s}
    /\ UNCHANGED <<envVars, budget, monVars, readVars, regs, rcpt, notice, storeVars, queueVars, historyVars>>

EndResume ==
    /\ pc = "resume" /\ todo = {}
    /\ pc' = "settle" /\ todo' = Sessions
    /\ UNCHANGED <<envVars, budget, cur, readVars, ackVars, storeVars, queueVars, historyVars>>

\* Mutant: a completed or cancelled skip keeps the receipts of its session.
KeepReceipts(s) == UNCHANGED <<regs, rcpt, queueVars>>

DropReceipts(s) ==
    /\ regs' = [regs EXCEPT ![s] = {}]
    /\ rcpt' = [rcpt EXCEPT ![s] = [i \in Item |-> NoReceipt]]
    /\ Detach(s)

\* Mutants: the jump goes to the present end of the transcript; the barrier stays.
CompleteSkipAtEof(s) ==
    LET n == mem[s].skip
        target == Larger(mem[s].wm, written[s])
    IN  /\ mem' = [mem EXCEPT ![s] = [wm |-> target, skip |-> NoSkip]]
        /\ parsed' = [parsed EXCEPT ![s] = target]
        /\ skipped' = [skipped EXCEPT ![n.user][s] = @ \cup ((mem[s].wm + 1)..n.snap)]
CompleteSkipKept(s) ==
    LET n == mem[s].skip
        target == Larger(mem[s].wm, n.snap)
    IN  /\ mem' = [mem EXCEPT ![s].wm = target]
        /\ parsed' = [parsed EXCEPT ![s] = target]
        /\ skipped' = [skipped EXCEPT ![n.user][s] = @ \cup ((mem[s].wm + 1)..n.snap)]

\* complete_skip: both offsets jump to the snapshot.
CompleteSkip(s) ==
    LET n == mem[s].skip
        target == Larger(mem[s].wm, n.snap)
    IN  /\ mem' = [mem EXCEPT ![s] = [wm |-> target, skip |-> NoSkip]]
        /\ parsed' = [parsed EXCEPT ![s] = target]
        /\ skipped' = [skipped EXCEPT ![n.user][s] = @ \cup ((mem[s].wm + 1)..n.snap)]

\* _commit_pending_skips for one session, at the start of a cycle and again
\* just before the watermark commit.  The code settles all sessions in one
\* go; taking them one by one only adds interleavings.
SettleSkip(s) ==
    /\ pc \in {"settle", "resettle"} /\ s \in todo
    /\ todo' = todo \ {s}
    /\ \/ /\ notice[s] \in {"none", "pending"}
          /\ UNCHANGED <<budget, storeVars, ackVars, queueVars, parsed, skipped>>
       \/ /\ notice[s] = "failed"
          /\ notice' = [notice EXCEPT ![s] = "none"]
          /\ backoff' = backoff \cup {s}
          /\ UNCHANGED <<budget, storeVars, regs, rcpt, queueVars, parsed, skipped>>
       \/ /\ notice[s] = "ready"
          /\ notice' = [notice EXCEPT ![s] = "none"]
          /\ backoff' = backoff \ {s}
          /\ IF Current(s, mem[s].skip)
             THEN CompleteSkip(s)
             ELSE /\ mem' = WithSkip(mem, s, NoSkip)
                  /\ UNCHANGED <<parsed, skipped>>
          /\ Save(mem')
          /\ DropReceipts(s)
    /\ UNCHANGED <<envVars, pc, cur, buf, tools, done, announced>>

\* Windows in a confirmed listing are read; all of them when there was none.
BeginReads ==
    /\ pc = "settle" /\ todo = {}
    /\ pc' = "read" /\ todo' \in {live, Sessions}
    /\ UNCHANGED <<envVars, budget, cur, readVars, ackVars, storeVars, queueVars, historyVars>>

\* The barrier is looked at before the file is, and the read suspends.
BeginRead(s) ==
    /\ pc = "read" /\ cur = NoSession /\ s \in todo
    /\ todo' = todo \ {s}
    /\ cur' = IF mem[s].skip = NoSkip THEN s ELSE NoSession
    /\ UNCHANGED <<envVars, budget, pc, readVars, ackVars, storeVars, queueVars, historyVars>>

NewEntries(s) == (parsed[s] + 1)..written[s]

\* Complete lines up to EOF are parsed.  A fault after the file was read leaves
\* the parse position moved and the messages unmade.
FinishRead(s) ==
    LET new == NewEntries(s)
        opened == {i \in new : OpensTool(s, i)}
        answered == {Transcript[s][i].of : i \in {j \in new : KindOf(s, j) = "result"}}
    IN  /\ pc = "read" /\ cur = s
        /\ cur' = NoSession
        /\ parsed' = [parsed EXCEPT ![s] = Larger(@, written[s])]
        /\ \/ /\ buf' = [buf EXCEPT ![s] = @ \cup {i \in new : HasMessage(s, i)}]
              /\ tools' = [tools EXCEPT ![s] = (@ \cup opened) \ answered]
              /\ UNCHANGED budget
           \/ /\ new # {} /\ Spend("read")
              /\ UNCHANGED <<buf, tools>>
        /\ UNCHANGED <<envVars, pc, todo, ackVars, storeVars, queueVars, historyVars>>

\* The reads end by saving what is unsaved; then, before the next suspension,
\* _register_delivery_receipts gives every message a receipt with the parse
\* position of its session.
Register ==
    /\ pc = "read" /\ cur = NoSession /\ todo = {}
    /\ regs' = [s \in Sessions |-> regs[s] \cup buf[s]]
    /\ rcpt' = [s \in Sessions |-> [i \in Item |->
           IF i \in buf[s]
           THEN [NoReceipt EXCEPT !.cp = parsed[s], !.left = Users]
           ELSE rcpt[s][i]]]
    /\ buf' = [s \in Sessions |-> {}]
    /\ pc' = "dispatch"
    /\ Save(mem)
    /\ UNCHANGED <<envVars, todo, cur, parsed, tools, notice, backoff, mem, queueVars, historyVars>>

\* The message of s that is next in line: its receipt is the first one open.
Open(s) == {i \in regs[s] : ~rcpt[s][i].closed}
IsNext(s, i) == i \in Open(s) /\ \A j \in Open(s) : i <= j

ContentTask(u, s, i) ==
    [sess |-> s, items |-> {i}, owed |-> {i}, cp |-> rcpt[s][i].cp,
     topic |-> bound[u][s], notice |-> FALSE]

\* handle_new_message for one recipient.  A prompt first waits for the user's
\* queue to run dry and may be shown by the interactive view instead; an echo
\* the user sent from Telegram is suppressed; an unbound or dead window takes no
\* task.
Route(u, s, i) ==
    LET reached == [rcpt EXCEPT ![s][i].left = @ \ {u}]
    IN  /\ pc = "dispatch" /\ cur \in {NoSession, s} /\ IsNext(s, i)
        /\ u \in rcpt[s][i].left
        /\ cur' = s
        /\ bound[u][s] # Unbound /\ KindOf(s, i) = "prompt"
               => queue[u] = <<>> /\ worker[u].st = "idle"
        /\ \/ /\ bound[u][s] # Unbound /\ s \in live
              /\ queue' = [queue EXCEPT ![u] = Append(@, ContentTask(u, s, i))]
              /\ rcpt' = [reached EXCEPT ![s][i].awaiting = @ \cup {u}]
              /\ UNCHANGED done
           \/ /\ bound[u][s] = Unbound \/ s \notin live \/ KindOf(s, i) \in {"prompt", "echo"}
              /\ rcpt' = reached
              /\ done' = [done EXCEPT ![u][s] = @ \cup {i}]
              /\ UNCHANGED queue
        /\ UNCHANGED <<envVars, budget, pc, todo, readVars, regs, notice, backoff, storeVars, worker, skipped, announced>>

\* The callback returned: the receipt takes no more work.
CloseReceipt(s, i) ==
    /\ pc = "dispatch" /\ cur = s /\ IsNext(s, i)
    /\ rcpt[s][i].left = {}
    /\ rcpt' = [rcpt EXCEPT ![s][i].closed = TRUE]
    /\ cur' = NoSession
    /\ UNCHANGED <<envVars, budget, pc, todo, readVars, regs, notice, backoff, storeVars, queueVars, historyVars>>

\* The callback raised, or was cancelled, part way through the recipients.
Abandoned(r) == [r EXCEPT !.failed = TRUE, !.closed = TRUE]

RouteFails(s, i) ==
    /\ pc = "dispatch" /\ cur \in {NoSession, s} /\ IsNext(s, i)
    /\ Spend("route")
    /\ rcpt' = [rcpt EXCEPT ![s][i] = Abandoned(@)]
    /\ cur' = NoSession
    /\ UNCHANGED <<envVars, pc, todo, readVars, regs, notice, backoff, storeVars, queueVars, historyVars>>

EndDispatch ==
    /\ pc = "dispatch" /\ cur = NoSession /\ \A s \in Sessions : Open(s) = {}
    /\ pc' = "resettle" /\ todo' = Sessions
    /\ UNCHANGED <<envVars, budget, cur, readVars, ackVars, storeVars, queueVars, historyVars>>

\* _commit_watermark_prefixes: a session with an open tool call or a pending
\* skip keeps its receipts; every other session commits its settled run.
Blocked(s) == mem[s].skip # NoSkip \/ tools[s] # {}
CommitRun(s) == IF Blocked(s) THEN {} ELSE SettledPrefix(regs[s], rcpt[s])
CommitOffset(s) == IF Blocked(s) THEN {} ELSE SettledRunOffset(regs[s], rcpt[s])

NewMark(s) == IF CommitOffset(s) = {} THEN mem[s].wm ELSE CHOOSE n \in CommitOffset(s) : TRUE

CommitWatermarks ==
    /\ pc = "resettle" /\ todo = {}
    /\ mem' = [s \in Sessions |-> [mem[s] EXCEPT !.wm = NewMark(s)]]
    /\ IF mem' = mem THEN UNCHANGED <<budget, disk>> ELSE Save(mem')
    /\ regs' = [s \in Sessions |-> regs[s] \ CommitRun(s)]
    /\ rcpt' = [s \in Sessions |-> [i \in Item |->
                   IF i \in CommitRun(s) THEN NoReceipt ELSE rcpt[s][i]]]
    /\ pc' = IF mode = "up" THEN "idle" ELSE "off"
    /\ mode' = IF mode = "up" THEN "up" ELSE "down"
    /\ UNCHANGED <<written, bound, live, todo, cur, readVars, notice, backoff, queueVars, historyVars>>

-----------------------------------------------------------------------------
(* Agents, topics, process life (bootstrap.stop_delivery_runtime).         *)

Write(s) ==
    /\ written[s] < MaxLen
    /\ written' = [written EXCEPT ![s] = @ + 1]
    /\ UNCHANGED <<bound, live, mode, budget, monVars, readVars, ackVars, storeVars, queueVars, historyVars>>

\* bind_thread and unbind_thread: the topic lets go of the window it showed.
Rebind(u, s, t) ==
    /\ mode = "up" /\ t # bound[u][s]
    /\ Spend("rebind")
    /\ bound' = [bound EXCEPT ![u] = [r \in Sessions |->
                     IF r = s THEN t ELSE IF @[r] = t THEN Unbound ELSE @[r]]]
    /\ UNCHANGED <<written, live, mode, monVars, readVars, ackVars, storeVars, queueVars, historyVars>>

Crash ==
    /\ mode # "down"
    /\ Spend("crash")
    /\ mode' = "down"
    /\ FreshProcess(disk) /\ UNCHANGED disk
    /\ UNCHANGED <<written, bound, historyVars>>

Start ==
    /\ mode = "down"
    /\ mode' = "up"
    /\ FreshProcess(disk) /\ UNCHANGED disk
    /\ UNCHANGED <<written, bound, budget, historyVars>>

\* SessionMonitor.stop_and_wait: the state is saved, then the monitor task is
\* cancelled where it waits; the message being routed fails.
Stop ==
    /\ mode = "up"
    /\ budget["stop"] > 0
    /\ \/ disk' = mem /\ budget' = [budget EXCEPT !["stop"] = @ - 1]
       \/ /\ budget["save"] > 0 /\ UNCHANGED disk
          /\ budget' = [budget EXCEPT !["stop"] = @ - 1, !["save"] = @ - 1]
    /\ mode' = "draining"
    /\ rcpt' = [s \in Sessions |-> [i \in Item |->
                   IF pc = "dispatch" /\ cur = s /\ IsNext(s, i)
                   THEN Abandoned(rcpt[s][i]) ELSE rcpt[s][i]]]
    /\ buf' = [s \in Sessions |-> {}]
    /\ pc' = "off" /\ todo' = {} /\ cur' = NoSession
    /\ UNCHANGED <<written, bound, live, parsed, tools, regs, notice, backoff, mem, queueVars, historyVars>>

\* shutdown_workers: when the queues have drained, or after the timeout, the
\* workers are cancelled; a task in hand fails and queued ones are forgotten.
InHand(u, s, i) == worker[u].task.sess = s /\ i \in worker[u].task.owed

StopWorkers ==
    /\ mode = "draining"
    /\ mode' = "final"
    /\ rcpt' = [s \in Sessions |-> [i \in Item |->
                   IF \E u \in Users : InHand(u, s, i)
                   THEN [rcpt[s][i] EXCEPT
                            !.awaiting = @ \ {u \in Users : InHand(u, s, i)},
                            !.failed = TRUE]
                   ELSE rcpt[s][i]]]
    /\ notice' = [s \in Sessions |->
                     IF \E u \in Users : worker[u].task.notice /\ worker[u].task.sess = s
                     THEN "failed" ELSE notice[s]]
    /\ queue' = [u \in Users |-> <<>>]
    /\ worker' = [u \in Users |-> IdleWorker]
    /\ pc' = "resettle" /\ todo' = Sessions
    /\ UNCHANGED <<written, bound, live, budget, cur, readVars, regs, backoff, storeVars, historyVars>>

WorkerStep(u) ==
    \/ GetTask(u) \/ DropStale(u) \/ DropHidden(u) \/ BeginSend(u) \/ RefuseNotice(u)
    \/ Deliver(u) \/ FailSend(u) \/ RetryAfter(u)

MonitorStep ==
    \/ \E L \in SUBSET Sessions : NoteLive(L)
    \/ \E s \in Sessions : ResumeSkip(s) \/ SettleSkip(s) \/ BeginRead(s) \/ FinishRead(s)
    \/ EndResume \/ BeginReads \/ Register \/ EndDispatch \/ CommitWatermarks
    \/ \E s \in Sessions, i \in Item :
          (\E u \in Users : Route(u, s, i)) \/ CloseReceipt(s, i) \/ RouteFails(s, i)

Next ==
    \/ MonitorStep
    \/ \E u \in Users : WorkerStep(u)
    \/ \E u \in Users, s \in Sessions : RequestSkip(u, s)
    \/ \E s \in Sessions : RetryDue(s) \/ Write(s)
    \/ \E u \in Users, s \in Sessions, t \in Topics \cup {Unbound} : Rebind(u, s, t)
    \/ Crash \/ Start \/ Stop \/ StopWorkers

Spec == Init /\ [][Next]_vars

\* asyncio keeps running the monitor and the workers, and the supervisor brings
\* a stopped process back; nobody has to write, stop, skip or rebind.
FairSpec ==
    /\ Spec
    /\ WF_vars(MonitorStep)
    /\ \A u \in Users : WF_vars(WorkerStep(u))
    /\ \A s \in Sessions : WF_vars(RetryDue(s))
    /\ WF_vars(StopWorkers) /\ WF_vars(Start)

-----------------------------------------------------------------------------
(* Properties                                                              *)

\* Every variable keeps its type; offsets never leave the transcript.
TypeOK ==
    /\ written \in [Sessions -> Offset]
    /\ bound \in [Users -> [Sessions -> Topics \cup {Unbound}]]
    /\ live \in SUBSET Sessions
    /\ budget \in [Events -> Nat]
    /\ mode \in {"up", "draining", "final", "down"}
    /\ pc \in {"idle", "resume", "settle", "read", "dispatch", "resettle", "off"}
    /\ todo \in SUBSET Sessions
    /\ cur \in Sessions \cup {NoSession}
    /\ parsed \in [Sessions -> Offset]
    /\ buf \in [Sessions -> SUBSET Item]
    /\ tools \in [Sessions -> SUBSET Item]
    /\ regs \in [Sessions -> SUBSET Item]
    /\ rcpt \in [Sessions -> [Item -> Receipt]]
    /\ notice \in [Sessions -> NoticeState]
    /\ backoff \in SUBSET Sessions
    /\ mem \in [Sessions -> Tracked]
    /\ disk \in [Sessions -> Tracked]
    /\ queue \in [Users -> Seq(Task)]
    /\ worker \in [Users -> Worker]
    /\ done \in [Users -> [Sessions -> SUBSET Item]]
    /\ skipped \in [Users -> [Sessions -> SUBSET Item]]
    /\ announced \in [Sessions -> Offset]

\* Nothing more is due for entry i: it has no message, every user saw it or was
\* deliberately not shown it, or a completed skip covers it.
Handled(s, i) ==
    \/ ~HasMessage(s, i)
    \/ \E u \in Users : i \in skipped[u][s]
    \/ \A u \in Users : i \in done[u][s]

\* At-least-once: the watermark a restart resumes from never stands past an
\* entry that still has to be delivered, whatever is merged, retried, dropped,
\* purged, interrupted or crashed in between (delivery_contract.py).
NoLoss == \A s \in Sessions : \A i \in 1..disk[s].wm : Handled(s, i)

\* Every receipt is settled exactly once per task: u is owed for entry i while
\* exactly one task of u, queued or in hand, carries its receipt, through
\* merging, retries and purges (otherwise settle() raises or never reaches 0).
Owing(u, s, i) ==
    {k \in 1..Len(queue[u]) : queue[u][k].sess = s /\ i \in queue[u][k].owed}
    \cup (IF InHand(u, s, i) THEN {0} ELSE {})

ReceiptAccounting ==
    Running => \A u \in Users, s \in Sessions, i \in Item :
        Cardinality(Owing(u, s, i)) = IF u \in rcpt[s][i].awaiting THEN 1 ELSE 0

\* A range counts as skipped only after a notice reaching at least as far was
\* acknowledged (guides.md, "Confirmed jump semantics").
SkipAnnounced ==
    \A u \in Users, s \in Sessions : \A i \in skipped[u][s] : i <= announced[s]

\* The same promise made to each user: only a skip u confirmed may excuse u's
\* own messages.
NoLossPerUser ==
    \A s \in Sessions : \A i \in 1..disk[s].wm : HasMessage(s, i) =>
        \A u \in Users : i \in done[u][s] \cup skipped[u][s]

\* The durable watermark never moves back: no receipt outlives the skip or the
\* batch that made its checkpoint obsolete.
WatermarkMonotone == [][\A s \in Sessions : disk'[s].wm >= disk[s].wm]_disk

\* Work is retired unsent only behind a barrier that is already on disk.
RetiredBehindBarrier ==
    [][\A s \in Sessions, i \in Item, u \in Users :
          /\ u \in rcpt[s][i].awaiting /\ u \notin rcpt'[s][i].awaiting
          /\ i \in regs'[s] /\ ~rcpt'[s][i].failed /\ i \notin done'[u][s]
          => disk'[s].skip # NoSkip]_rcpt

\* Every message an agent writes is eventually handled, also across a crash or
\* a shutdown, when sends and routing do not fail.
EveryMessageHandled ==
    \A s \in Sessions, i \in Item : written[s] >= i ~> Handled(s, i)

\* With the transcript complete and every tool call answered the durable
\* watermark catches up with the last message.
ToolsAnswered(s) ==
    \A i \in Item : OpensTool(s, i) => \E j \in Item : KindOf(s, j) = "result" /\ Transcript[s][j].of = i
WatermarkCatchesUp ==
    \A s \in Sessions : ToolsAnswered(s) =>
        \A i \in Item : HasMessage(s, i) =>
            (written[s] = MaxLen ~> disk[s].wm >= i)

\* A barrier does not stand for ever.
SkipResolved == \A s \in Sessions : mem[s].skip # NoSkip ~> mem[s].skip = NoSkip

\* The whole component keeps the promise of AtLeastOnce: entries are handled
\* once and for all, and the mark on disk moves forward over handled ones only.
Promise == INSTANCE AtLeastOnce WITH
    handled <- [s \in Sessions |-> {i \in Item : Handled(s, i)}],
    mark <- [s \in Sessions |-> disk[s].wm]
\* The component implements that specification under this mapping.
KeepsPromise == Promise!Spec
=============================================================================
