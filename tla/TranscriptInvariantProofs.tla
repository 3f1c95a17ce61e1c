---------------------- MODULE TranscriptInvariantProofs ----------------------
(***************************************************************************)
(* What holds of TranscriptDelivery for any sessions, users, topics,       *)
(* transcripts and any number of environment events.  First the contract   *)
(* it rests on, for every list of receipts whose checkpoints ascend: the   *)
(* committed offset is safe, and no larger checkpoint of the list is.      *)
(* Then NoLoss, through any crashes, shutdowns, skips or rebindings,       *)
(* failed sends, failed saves and vanished windows: DeliveryInv is         *)
(* inductive.                                                              *)
(***************************************************************************)
EXTENDS TranscriptInvariant, FiniteSetTheorems, WellFoundedInduction, TLAPS

\* A non-empty set of naturals has a least element.
LEMMA LeastNatural ==
    ASSUME NEW S \in SUBSET Nat, S # {}
    PROVE  \E m \in S : \A k \in S : m <= k
<1> DEFINE Below == {ss \in Nat \X Nat : ss[1] < ss[2]}
<1>1. IsWellFoundedOn(Below, Nat)
  BY NatLessThanWellFounded DEF OpToRel
<1>2. PICK m \in S : \A k \in S : ~(<<k, m>> \in Below)
  BY <1>1, WFMin
<1>3. \A k \in S : m <= k
  <2> TAKE k \in S
  <2>1. <<k, m>> \in Nat \X Nat /\ <<k, m>>[1] = k /\ <<k, m>>[2] = m
    OBVIOUS
  <2>2. ~(<<k, m>> \in Below)
    BY <1>2
  <2>3. ~(k < m)
    BY <2>1, <2>2
  <2> QED BY <2>3
<1> QED BY <1>3

\* A non-empty set of naturals up to N has a greatest element.
LEMMA GreatestNatural ==
    ASSUME NEW N \in Nat, NEW S \in SUBSET (0..N), S # {}
    PROVE  \E m \in S : \A k \in S : k <= m
<1> DEFINE T == {N - k : k \in S}
<1>1. T \in SUBSET Nat /\ T # {}
  <2>1. \A k \in S : k \in 0..N
    OBVIOUS
  <2>2. \A k \in S : N - k \in Nat
    BY <2>1
  <2>3. PICK k \in S : TRUE
    OBVIOUS
  <2>4. N - k \in T
    BY <2>3
  <2> QED BY <2>2, <2>4
<1>2. PICK t \in T : \A k \in T : t <= k
  BY <1>1, LeastNatural
<1>3. PICK m \in S : t = N - m
  BY <1>2
<1>4. \A k \in S : N - m <= N - k
  BY <1>2, <1>3
<1>5. \A k \in S : k <= m
  BY <1>4
<1> QED BY <1>5

\* The fence exists as soon as some receipt is outside the settled prefix.
LEMMA FenceExists ==
    ASSUME NEW R \in SUBSET Nat, NEW rec, NEW j \in R, j \notin SettledPrefix(R, rec)
    PROVE  \E f \in Fence(R, rec) : f <= j
<1> DEFINE rest == R \ SettledPrefix(R, rec)
<1>1. rest \in SUBSET Nat /\ rest # {}
  OBVIOUS
<1>2. PICK f \in rest : \A k \in rest : f <= k
  BY <1>1, LeastNatural
<1> QED BY <1>2 DEF Fence

\* Committing is safe: every receipt at or below a committed offset is settled,
\* so a restart that resumes there loses nothing (settled_run_offset).
THEOREM CommitSafe ==
    ASSUME NEW R \in SUBSET Nat, NEW rec, \A i \in R : rec[i].cp \in Int,
           Ascending(R, rec), NEW n \in SettledRunOffset(R, rec)
    PROVE  Safe(n, R, rec)
<1>1. PICK k \in RunBelowFence(R, rec) : n = rec[k].cp
  BY DEF SettledRunOffset
<1>2. k \in R /\ \A f \in Fence(R, rec) : rec[k].cp < rec[f].cp
  BY <1>1 DEF RunBelowFence, SettledPrefix
<1>3. SUFFICES ASSUME NEW j \in R, rec[j].cp <= n, ~CommitReady(rec[j])
               PROVE  FALSE
  BY DEF Safe
<1>4. j \notin SettledPrefix(R, rec)
  BY <1>3 DEF SettledPrefix
<1>5. PICK f \in Fence(R, rec) : f <= j
  BY <1>4, FenceExists
<1>6. f \in R /\ rec[f].cp <= rec[j].cp
  BY <1>5 DEF Fence, Ascending
<1> QED BY <1>1, <1>2, <1>3, <1>5, <1>6

\* Committing is tight: a checkpoint that could be committed safely is not
\* above the committed offset, so the watermark lags by at most one batch.
THEOREM CommitTight ==
    ASSUME NEW N \in Nat, NEW R \in SUBSET (1..N), NEW rec, \A i \in R : rec[i].cp \in Int,
           Ascending(R, rec), NEW i \in R, Safe(rec[i].cp, R, rec)
    PROVE  \E n \in SettledRunOffset(R, rec) : rec[i].cp <= n
<1> DEFINE run == RunBelowFence(R, rec)
<1>1. i \in SettledPrefix(R, rec)
  BY DEF SettledPrefix, Ascending, Safe
<1>2. \A f \in Fence(R, rec) : rec[f].cp # NoCheckpoint /\ rec[i].cp < rec[f].cp
  <2> SUFFICES ASSUME NEW f \in Fence(R, rec)
               PROVE  rec[f].cp # NoCheckpoint /\ rec[i].cp < rec[f].cp
    OBVIOUS
  <2>1. f \in R /\ f \notin SettledPrefix(R, rec)
    BY DEF Fence
  <2>2. rec[f].cp # NoCheckpoint
    BY <2>1 DEF Ascending
  <2>3. PICK j \in R : j <= f /\ ~CommitReady(rec[j])
    BY <2>1 DEF SettledPrefix, Ascending
  <2>4. rec[j].cp <= rec[f].cp
    BY <2>1, <2>3 DEF Ascending
  <2>5. ~(rec[j].cp <= rec[i].cp)
    BY <2>3 DEF Safe
  <2> QED BY <2>1, <2>2, <2>3, <2>4, <2>5
<1>3. i \in run /\ run \in SUBSET (0..N)
  <2>1. i \in run
    BY <1>1, <1>2 DEF RunBelowFence
  <2>2. run \subseteq R
    BY DEF RunBelowFence, SettledPrefix
  <2>3. R \subseteq 0..N
    OBVIOUS
  <2> HIDE DEF run
  <2> QED BY <2>1, <2>2, <2>3
<1> HIDE DEF run
<1>4. PICK m \in run : \A k \in run : k <= m
  BY <1>3, GreatestNatural
<1>5. rec[m].cp \in SettledRunOffset(R, rec)
  BY <1>4 DEF SettledRunOffset, run
<1>6. rec[i].cp <= rec[m].cp
  BY <1>3, <1>4 DEF Ascending, run, RunBelowFence, SettledPrefix
<1> QED BY <1>5, <1>6

-----------------------------------------------------------------------------
(* Building blocks.                                                        *)

\* The task an idle worker remembers is a task.
LEMMA IdleWorkerType ==
    /\ IdleTask \in Task
    /\ IdleWorker \in Worker
BY ConstantsAssumption DEF IdleTask, IdleWorker, Worker, Task, Offset

\* Without a receipt there is still a well-formed empty one.
LEMMA NoReceiptType == NoReceipt \in Receipt
BY ConstantsAssumption DEF NoReceipt, Receipt, Offset

\* A purge of a queue yields a queue.
LEMMA PurgedType ==
    ASSUME NEW q \in Seq(Task), NEW s, NEW n, NEW r \in Purged(q, s, n)
    PROVE  r \in Seq(Task)
<1> DEFINE kept == {k \in 1..Len(q) : ~Purgeable(q[k], s, n)}
           size == Cardinality(kept)
<1>1. size \in Nat
  <2>1. IsFiniteSet(1..Len(q))
    BY FS_Interval
  <2>2. IsFiniteSet(kept)
    BY <2>1, FS_Subset
  <2> QED BY <2>2, FS_CardinalityType
<1>2. PICK p \in [1..size -> kept] : r = [k \in 1..size |-> q[p[k]]]
  BY DEF Purged
<1>3. \A k \in 1..size : q[p[k]] \in Task
  OBVIOUS
<1> HIDE DEF size
<1> QED BY <1>1, <1>2, <1>3

\* Detaching receipts leaves the shape of queues and workers alone.
LEMMA DetachType ==
    ASSUME NEW s \in Sessions, TypeOK, Detach(s)
    PROVE  /\ queue' \in [Users -> Seq(Task)]
           /\ worker' \in [Users -> Worker]
<1>1. \A t \in Task : Detached(t, s) \in Task
  BY DEF Detached, Task
<1>2. \A u \in Users : [k \in 1..Len(queue[u]) |-> Detached(queue[u][k], s)] \in Seq(Task)
  BY <1>1 DEF TypeOK
<1>3. queue' \in [Users -> Seq(Task)]
  BY <1>2 DEF Detach
<1>4. worker' \in [Users -> Worker]
  BY <1>1 DEF Detach, TypeOK, Worker
<1> QED BY <1>3, <1>4

-----------------------------------------------------------------------------
(* Type correctness.                                                       *)

\* Settling the task in hand keeps receipts, notices and workers well-formed.
LEMMA SettleType ==
    ASSUME NEW u \in Users, NEW outcome, TypeOK, Settle(u, outcome),
           queue' = queue, budget' \in [Events -> Nat]
    PROVE  TypeOK'
<1> DEFINE t == worker[u].task
<1>1. t \in Task
  BY DEF TypeOK, Worker
<1>2. \A r \in Receipt : Settled(r, u, outcome) \in Receipt
  BY DEF Settled, Receipt
<1>3. rcpt' \in [Sessions -> [Item -> Receipt]]
  BY <1>2 DEF Settle, TypeOK
<1>4. notice' \in [Sessions -> NoticeState]
  BY DEF Settle, TypeOK, NoticeState
<1>5. done' \in [Users -> [Sessions -> SUBSET Item]]
  BY <1>1 DEF Settle, TypeOK, Task
<1>6. announced' \in [Sessions -> Offset]
  BY <1>1 DEF Settle, TypeOK, Task, Larger
<1>7. worker' \in [Users -> Worker]
  BY IdleWorkerType DEF Settle, TypeOK
<1> QED
  BY <1>3, <1>4, <1>5, <1>6, <1>7
  DEF Settle, TypeOK, envVars, monVars, readVars, storeVars

\* A merged task is a task.
LEMMA MergedType ==
    ASSUME ConstantsAssumption, NEW t \in Task, NEW q \in Seq(Task), NEW k \in 0..Len(q)
    PROVE  Merged(t, q, k) \in Task
<1>1. \A j \in 1..k : q[j] \in Task
  OBVIOUS
<1>2. t.items \cup UNION {q[j].items : j \in 1..k} \in SUBSET Item
  BY <1>1 DEF Task
<1>3. t.owed \cup UNION {q[j].owed : j \in 1..k} \in SUBSET Item
  BY <1>1 DEF Task
<1>4. LatestCheckpoint(t, q, k) \in Offset
  <2> DEFINE cps == {t.cp} \cup {q[j].cp : j \in 1..k}
  <2>1. cps \in SUBSET (0..MaxLen) /\ cps # {}
    BY <1>1 DEF Task, Offset
  <2>2. \E c \in cps : \A d \in cps : d <= c
    BY <2>1, GreatestNatural
  <2> QED BY <2>1, <2>2 DEF LatestCheckpoint, Offset
<1> QED BY <1>2, <1>3, <1>4 DEF Merged, Task

\* A step of a queue worker.
LEMMA WorkerType ==
    ASSUME TypeOK, NEW u \in Users, WorkerStep(u)
    PROVE  TypeOK'
<1> USE ConstantsAssumption
<1>0. ASSUME NEW e \in Events, Spend(e) PROVE budget' \in [Events -> Nat]
  BY <1>0 DEF Spend, TypeOK
<1>1. CASE GetTask(u)
  <2>1. Head(queue[u]) \in Task /\ Tail(queue[u]) \in Seq(Task)
    BY <1>1 DEF GetTask, TypeOK
  <2>2. queue' \in [Users -> Seq(Task)]
    BY <1>1, <2>1 DEF GetTask, TypeOK
  <2>3. worker' \in [Users -> Worker]
    BY <1>1, <2>1 DEF GetTask, TypeOK, Worker
  <2> QED
    BY <1>1, <2>2, <2>3
    DEF GetTask, TypeOK, envVars, monVars, readVars, ackVars, storeVars, historyVars
<1>2. CASE DropStale(u)
  BY <1>2, SettleType DEF DropStale, TypeOK
<1>3. CASE DropHidden(u)
  BY <1>3, SettleType DEF DropHidden, TypeOK
<1>4. CASE BeginSend(u)
  <2>1. PICK k \in 0..Len(queue[u]) :
          /\ worker' = [worker EXCEPT ![u] =
                 [st |-> "sending", task |-> Merged(worker[u].task, queue[u], k),
                  batch |-> worker[u].batch \/ k > 0]]
          /\ queue' = [queue EXCEPT ![u] = SubSeq(@, k + 1, Len(@))]
    BY <1>4 DEF BeginSend
  <2>2. queue[u] \in Seq(Task) /\ worker[u].task \in Task
    BY DEF TypeOK, Worker
  <2>3. Merged(worker[u].task, queue[u], k) \in Task
    BY <2>2, MergedType
  <2>4. SubSeq(queue[u], k + 1, Len(queue[u])) \in Seq(Task)
    BY <2>2
  <2>5. queue' \in [Users -> Seq(Task)]
    BY <2>1, <2>4 DEF TypeOK
  <2>6. worker' \in [Users -> Worker]
    <3>1. (worker[u].batch \/ k > 0) \in BOOLEAN
      OBVIOUS
    <3> QED BY <2>1, <2>3, <3>1 DEF TypeOK, Worker
  <2> QED
    BY <1>4, <2>5, <2>6
    DEF BeginSend, TypeOK, envVars, monVars, readVars, ackVars, storeVars, historyVars
<1>5. CASE RefuseNotice(u)
  BY <1>5, SettleType DEF RefuseNotice, TypeOK
<1>6. CASE Deliver(u)
  BY <1>6, SettleType DEF Deliver, TypeOK
<1>7. CASE FailSend(u)
  BY <1>7, <1>0, SettleType DEF FailSend, Events
<1>8. CASE RetryAfter(u)
  <2>1. budget' \in [Events -> Nat]
    BY <1>8, <1>0 DEF RetryAfter, Events
  <2>2. worker' \in [Users -> Worker]
    <3>1. worker[u] \in Worker
      BY DEF TypeOK
    <3>2. [worker[u] EXCEPT !.st = "ready"] \in Worker
      BY <3>1 DEF Worker
    <3>3. worker' = [worker EXCEPT ![u].st = "ready"]
      BY <1>8 DEF RetryAfter
    <3> QED BY <3>2, <3>3 DEF TypeOK
  <2> QED
    BY <1>8, <2>1, <2>2
    DEF RetryAfter, TypeOK, envVars, monVars, readVars, ackVars, storeVars, historyVars
<1> QED
  BY <1>1, <1>2, <1>3, <1>4, <1>5, <1>6, <1>7, <1>8 DEF WorkerStep

\* Setting or clearing a barrier.
LEMMA WithSkipType ==
    ASSUME NEW m \in [Sessions -> Tracked], NEW s \in Sessions, NEW n \in Intent \cup {NoSkip}
    PROVE  WithSkip(m, s, n) \in [Sessions -> Tracked]
BY DEF WithSkip, Tracked

\* Preparing a skip, whoever asks for it.
LEMMA PrepareSkipType ==
    ASSUME TypeOK, NEW s \in Sessions, NEW n \in Intent, NEW m, NEW d, NEW b,
           m \in [Sessions -> Tracked],
           d \in [Sessions -> Tracked],
           b \in [Events -> Nat],
           PrepareSkip(s, n, m, d, b)
    PROVE  /\ rcpt' \in [Sessions -> [Item -> Receipt]]
           /\ mem' \in [Sessions -> Tracked]
           /\ disk' \in [Sessions -> Tracked]
           /\ budget' \in [Events -> Nat]
           /\ notice' \in [Sessions -> NoticeState]
           /\ backoff' \in SUBSET Sessions
           /\ queue' \in [Users -> Seq(Task)]
<1>1. n.user \in Users /\ queue[n.user] \in Seq(Task) /\ NoticeTask(s, n) \in Task
  BY DEF TypeOK, Intent, NoticeTask, Task
<1>2. ASSUME NEW q \in Seq(Task), Notify(s, n, q)
      PROVE  /\ queue' \in [Users -> Seq(Task)]
             /\ notice' \in [Sessions -> NoticeState]
             /\ backoff' \in SUBSET Sessions
  <2>1. Append(q, NoticeTask(s, n)) \in Seq(Task)
    BY <1>1
  <2>2. notice' \in [Sessions -> NoticeState] /\ backoff' \in SUBSET Sessions
    BY <1>2 DEF Notify, TypeOK, NoticeState
  <2>3. queue' \in [Users -> Seq(Task)]
    <3>1. \/ queue' = [queue EXCEPT ![n.user] = Append(q, NoticeTask(s, n))]
          \/ queue' = [queue EXCEPT ![n.user] = q]
      BY <1>2 DEF Notify
    <3> QED BY <1>1, <2>1, <3>1 DEF TypeOK
  <2> QED BY <2>2, <2>3
<1>3. CASE n.purged
  BY <1>1, <1>2, <1>3 DEF PrepareSkip, TypeOK
<1>4. CASE ~n.purged
  <2>1. \A r \in Receipt : Settled(r, n.user, "dropped") \in Receipt
    BY DEF Settled, Receipt
  <2>2. rcpt' \in [Sessions -> [Item -> Receipt]]
    <3>1. rcpt' = [rcpt EXCEPT ![s] = [i \in Item |->
             IF i \in PurgedItems(queue[n.user], s, n)
             THEN Settled(rcpt[s][i], n.user, "dropped") ELSE rcpt[s][i]]]
      BY <1>4 DEF PrepareSkip
    <3> QED BY <2>1, <3>1 DEF TypeOK
  <2>3. PICK q \in Purged(queue[n.user], s, n) :
          \/ /\ mem' = WithSkip(m, s, [n EXCEPT !.purged = TRUE])
             /\ disk' = mem'
             /\ Notify(s, n, q)
             /\ budget' = b
          \/ /\ b["save"] > 0 /\ budget' = [b EXCEPT !["save"] = @ - 1]
             /\ mem' = m /\ disk' = d
             /\ queue' = [queue EXCEPT ![n.user] = q]
             /\ backoff' = backoff \cup {s} /\ UNCHANGED notice
    BY <1>4 DEF PrepareSkip
  <2>4. q \in Seq(Task)
    BY <1>1, PurgedType
  <2>5. CASE /\ mem' = WithSkip(m, s, [n EXCEPT !.purged = TRUE])
             /\ disk' = mem'
             /\ Notify(s, n, q)
             /\ budget' = b
    <3>1. [n EXCEPT !.purged = TRUE] \in Intent
      BY DEF Intent
    <3>2. mem' \in [Sessions -> Tracked]
      BY <2>5, <3>1, WithSkipType
    <3> QED BY <1>2, <2>2, <2>4, <2>5, <3>2
  <2>6. CASE /\ b["save"] > 0 /\ budget' = [b EXCEPT !["save"] = @ - 1]
             /\ mem' = m /\ disk' = d
             /\ queue' = [queue EXCEPT ![n.user] = q]
             /\ backoff' = backoff \cup {s} /\ UNCHANGED notice
    <3>1. budget' \in [Events -> Nat]
      BY <2>6 DEF Events
    <3> QED BY <2>2, <2>4, <2>6, <3>1 DEF TypeOK
  <2> QED BY <2>3, <2>5, <2>6
<1> QED BY <1>3, <1>4

\* The mark a commit would record is an offset.
LEMMA NewMarkType ==
    ASSUME TypeOK, NEW s \in Sessions
    PROVE  NewMark(s) \in Offset
<1>1. CommitOffset(s) \subseteq Offset
  BY DEF CommitOffset, SettledRunOffset, RunBelowFence, SettledPrefix, TypeOK, Receipt
<1> QED BY <1>1 DEF NewMark, TypeOK, Tracked

\* A save records the memory it is given.
LEMMA SaveType ==
    ASSUME TypeOK, NEW m, m \in [Sessions -> Tracked],
           Save(m)
    PROVE  /\ disk' \in [Sessions -> Tracked]
           /\ budget' \in [Events -> Nat]
BY DEF Save, Spend, TypeOK, Events

\* The monitor's handling of pending skips.
LEMMA SkipStepsType ==
    ASSUME TypeOK, NEW s \in Sessions, ResumeSkip(s) \/ SettleSkip(s)
    PROVE  TypeOK'
<1>1. CASE ResumeSkip(s)
  <2> DEFINE n == mem[s].skip
  <2>1. n \in Intent \cup {NoSkip}
    BY DEF TypeOK, Tracked
  <2>2. todo' \in SUBSET Sessions
    BY <1>1 DEF ResumeSkip, TypeOK
  <2>3. CASE UNCHANGED <<budget, storeVars, rcpt, notice, backoff, queue>>
    BY <1>1, <2>2, <2>3 DEF ResumeSkip, TypeOK, envVars, readVars, storeVars, historyVars
  <2>4. CASE /\ mem' = WithSkip(mem, s, NoSkip) /\ Save(mem')
             /\ UNCHANGED <<rcpt, notice, backoff, queue>>
    <3>1. mem' \in [Sessions -> Tracked]
      BY <2>4, WithSkipType DEF TypeOK
    <3>2. /\ disk' \in [Sessions -> Tracked]
          /\ budget' \in [Events -> Nat]
      BY <2>4, <3>1, SaveType
    <3> QED
      BY <1>1, <2>2, <2>4, <3>1, <3>2 DEF ResumeSkip, TypeOK, envVars, readVars, historyVars
  <2>5. CASE Current(s, n) /\ PrepareSkip(s, n, mem, disk, budget)
    <3>1. n \in Intent
      BY <2>1, <2>5 DEF Current
    <3> HIDE DEF n
    <3>2. /\ mem \in [Sessions -> Tracked]
          /\ disk \in [Sessions -> Tracked]
          /\ budget \in [Events -> Nat]
      BY DEF TypeOK
    <3>3. /\ rcpt' \in [Sessions -> [Item -> Receipt]]
          /\ mem' \in [Sessions -> Tracked]
          /\ disk' \in [Sessions -> Tracked]
          /\ budget' \in [Events -> Nat]
          /\ notice' \in [Sessions -> NoticeState]
          /\ backoff' \in SUBSET Sessions
          /\ queue' \in [Users -> Seq(Task)]
      BY <2>5, <3>1, <3>2, PrepareSkipType
    <3> QED
      BY <1>1, <2>2, <3>3 DEF ResumeSkip, TypeOK, envVars, readVars, historyVars
  <2> QED BY <1>1, <2>3, <2>4, <2>5 DEF ResumeSkip
<1>2. CASE SettleSkip(s)
  <2>1. todo' \in SUBSET Sessions
    BY <1>2 DEF SettleSkip, TypeOK
  <2>2. CASE notice[s] \in {"none", "pending"}
    BY <1>2, <2>1, <2>2
    DEF SettleSkip, TypeOK, envVars, storeVars, ackVars, queueVars
  <2>3. CASE notice[s] = "failed"
    BY <1>2, <2>1, <2>3 DEF SettleSkip, TypeOK, NoticeState, envVars, storeVars, queueVars
  <2>4. CASE notice[s] = "ready"
    <3>1. /\ notice' = [notice EXCEPT ![s] = "none"] /\ backoff' = backoff \ {s}
          /\ IF Current(s, mem[s].skip)
             THEN CompleteSkip(s)
             ELSE mem' = WithSkip(mem, s, NoSkip) /\ UNCHANGED <<parsed, skipped>>
          /\ Save(mem') /\ DropReceipts(s)
          /\ UNCHANGED <<envVars, pc, cur, buf, tools, done, announced>>
      BY <1>2, <2>4 DEF SettleSkip
    <3>2. /\ mem' \in [Sessions -> Tracked]
          /\ parsed' \in [Sessions -> Offset]
          /\ skipped' \in [Users -> [Sessions -> SUBSET Item]]
      <4>1. CASE Current(s, mem[s].skip)
        <5>1. mem[s].skip \in Intent /\ mem[s].wm \in Offset
          BY <4>1 DEF Current, TypeOK, Tracked
        <5>2. Larger(mem[s].wm, mem[s].skip.snap) \in Offset /\ mem[s].skip.user \in Users
          BY <5>1 DEF Larger, Intent
        <5>3. (mem[s].wm + 1)..mem[s].skip.snap \subseteq Item
          BY <5>1, ConstantsAssumption, SMTT(30) DEF Intent, Item, Offset
        <5>0. CompleteSkip(s)
          BY <3>1, <4>1
        <5>4. mem' \in [Sessions -> Tracked]
          <6>1. [wm |-> Larger(mem[s].wm, mem[s].skip.snap), skip |-> NoSkip] \in Tracked
            BY <5>2 DEF Tracked
          <6> QED BY <5>0, <6>1 DEF CompleteSkip, TypeOK
        <5>5. parsed' \in [Sessions -> Offset]
          BY <5>0, <5>2 DEF CompleteSkip, TypeOK
        <5>6. skipped' \in [Users -> [Sessions -> SUBSET Item]]
          BY <5>0, <5>2, <5>3 DEF CompleteSkip, TypeOK
        <5> QED BY <5>4, <5>5, <5>6
      <4>2. CASE ~Current(s, mem[s].skip)
        <5>1. mem' = WithSkip(mem, s, NoSkip) /\ UNCHANGED <<parsed, skipped>>
          BY <3>1, <4>2
        <5>2. WithSkip(mem, s, NoSkip) \in [Sessions -> Tracked]
          BY WithSkipType DEF TypeOK
        <5> QED BY <5>1, <5>2 DEF TypeOK
      <4> QED BY <4>1, <4>2
    <3>3. /\ disk' \in [Sessions -> Tracked]
          /\ budget' \in [Events -> Nat]
      BY <3>1, <3>2, SaveType
    <3>4. /\ queue' \in [Users -> Seq(Task)]
          /\ worker' \in [Users -> Worker]
      BY <3>1, DetachType DEF DropReceipts
    <3>5. regs' \in [Sessions -> SUBSET Item] /\ rcpt' \in [Sessions -> [Item -> Receipt]]
      BY <3>1, NoReceiptType DEF DropReceipts, TypeOK
    <3> QED
      BY <2>1, <3>1, <3>2, <3>3, <3>4, <3>5 DEF TypeOK, NoticeState, envVars
  <2> QED BY <2>2, <2>3, <2>4 DEF TypeOK, NoticeState
<1> QED BY <1>1, <1>2

\* Reading a transcript.
LEMMA ReadStepsType ==
    ASSUME TypeOK, NEW s \in Sessions, BeginRead(s) \/ FinishRead(s)
    PROVE  TypeOK'
<1>0. ASSUME NEW e \in Events, Spend(e) PROVE budget' \in [Events -> Nat]
  BY <1>0 DEF Spend, TypeOK
<1>1. CASE BeginRead(s)
  BY <1>1
  DEF BeginRead, TypeOK, envVars, readVars, ackVars, storeVars, queueVars, historyVars
<1>2. CASE FinishRead(s)
  <2>1. parsed' \in [Sessions -> Offset]
    BY <1>2 DEF FinishRead, TypeOK, Larger
  <2>2. NewEntries(s) \subseteq Item
    <3>1. parsed[s] \in Offset /\ written[s] \in Offset
      BY DEF TypeOK
    <3> QED BY <3>1, ConstantsAssumption DEF NewEntries, Offset, Item
  <2>3. buf' \in [Sessions -> SUBSET Item] /\ tools' \in [Sessions -> SUBSET Item]
    <3>1. PICK made, opened, answered :
             /\ made \subseteq NewEntries(s) /\ opened \subseteq NewEntries(s)
             /\ \/ buf' = [buf EXCEPT ![s] = @ \cup made]
                \/ UNCHANGED buf
             /\ \/ tools' = [tools EXCEPT ![s] = (@ \cup opened) \ answered]
                \/ UNCHANGED tools
      <4>1. CASE UNCHANGED <<buf, tools>>
        BY <4>1
      <4>2. CASE ~UNCHANGED <<buf, tools>>
        <5> DEFINE new == NewEntries(s)
                   made == {j \in new : HasMessage(s, j)}
                   opened == {j \in new : OpensTool(s, j)}
                   answered == {Transcript[s][j].of : j \in {k \in new : KindOf(s, k) = "result"}}
        <5>1. /\ buf' = [buf EXCEPT ![s] = @ \cup made]
              /\ tools' = [tools EXCEPT ![s] = (@ \cup opened) \ answered]
          BY <1>2, <4>2 DEF FinishRead
        <5>2. made \subseteq new /\ opened \subseteq new
          OBVIOUS
        <5> HIDE DEF made, opened, answered
        <5> QED BY <5>1, <5>2
      <4> QED BY <4>1, <4>2
    <3>2. buf' \in [Sessions -> SUBSET Item]
      <4>1. buf[s] \cup made \in SUBSET Item
        BY <2>2, <3>1 DEF TypeOK
      <4>2. buf \in [Sessions -> SUBSET Item]
        BY DEF TypeOK
      <4> QED BY <3>1, <4>1, <4>2
    <3>3. tools' \in [Sessions -> SUBSET Item]
      <4>1. (tools[s] \cup opened) \ answered \in SUBSET Item
        BY <2>2, <3>1 DEF TypeOK
      <4>2. tools \in [Sessions -> SUBSET Item]
        BY DEF TypeOK
      <4> QED BY <3>1, <4>1, <4>2
    <3> QED BY <3>2, <3>3
  <2>4. budget' \in [Events -> Nat]
    BY <1>0, <1>2 DEF FinishRead, TypeOK, Events
  <2> QED
    BY <1>2, <2>1, <2>3, <2>4
    DEF FinishRead, TypeOK, envVars, ackVars, storeVars, queueVars, historyVars
<1> QED BY <1>1, <1>2

\* Routing the message of entry i.
LEMMA RouteStepsType ==
    ASSUME TypeOK, NEW s \in Sessions, NEW i \in Item,
           (\E u \in Users : Route(u, s, i)) \/ CloseReceipt(s, i) \/ RouteFails(s, i)
    PROVE  TypeOK'
<1>0. ASSUME NEW e \in Events, Spend(e) PROVE budget' \in [Events -> Nat]
  BY <1>0 DEF Spend, TypeOK
<1>1. CASE \E u \in Users : Route(u, s, i)
  <2>1. PICK u \in Users : Route(u, s, i)
    BY <1>1
  <2>2. \A r \in Receipt : /\ [r EXCEPT !.left = @ \ {u}] \in Receipt
                           /\ [r EXCEPT !.left = @ \ {u}, !.awaiting = @ \cup {u}] \in Receipt
    BY DEF Receipt
  <2>3. rcpt' \in [Sessions -> [Item -> Receipt]]
    <3>1. \/ rcpt' = [rcpt EXCEPT ![s][i].left = @ \ {u}]
          \/ rcpt' = [[rcpt EXCEPT ![s][i].left = @ \ {u}]
                         EXCEPT ![s][i].awaiting = @ \cup {u}]
      BY <2>1 DEF Route
    <3>2. CASE rcpt' = [rcpt EXCEPT ![s][i].left = @ \ {u}]
      BY <2>2, <3>2 DEF TypeOK
    <3>3. CASE rcpt' = [[rcpt EXCEPT ![s][i].left = @ \ {u}]
                           EXCEPT ![s][i].awaiting = @ \cup {u}]
      <4> DEFINE a == [rcpt EXCEPT ![s][i].left = @ \ {u}]
                 e == [a[s][i] EXCEPT !.awaiting = @ \cup {u}]
      <4>1. a \in [Sessions -> [Item -> Receipt]]
        BY <2>2 DEF TypeOK
      <4> HIDE DEF a
      <4>2. a[s][i] \in Receipt
        BY <4>1
      <4>3. e \in Receipt
        BY <4>2 DEF Receipt
      <4>4. rcpt' = [a EXCEPT ![s][i] = e]
        BY <3>3 DEF a
      <4> HIDE DEF e
      <4> QED BY <4>1, <4>3, <4>4
    <3> QED BY <3>1, <3>2, <3>3
  <2>4. queue' \in [Users -> Seq(Task)]
    <3>1. CASE bound[u][s] = Unbound \/ UNCHANGED queue
      BY <2>1, <3>1 DEF Route, TypeOK
    <3>2. CASE /\ bound[u][s] # Unbound
               /\ queue' = [queue EXCEPT ![u] = Append(@, ContentTask(u, s, i))]
      <4>1. ContentTask(u, s, i) \in Task
        BY <3>2 DEF ContentTask, Task, TypeOK, Receipt
      <4>2. Append(queue[u], ContentTask(u, s, i)) \in Seq(Task)
        BY <4>1 DEF TypeOK
      <4> QED BY <3>2, <4>2 DEF TypeOK
    <3> QED BY <2>1, <3>1, <3>2 DEF Route
  <2>5. done' \in [Users -> [Sessions -> SUBSET Item]]
    <3>1. UNCHANGED done \/ done' = [done EXCEPT ![u][s] = @ \cup {i}]
      BY <2>1 DEF Route
    <3>2. done[u] \in [Sessions -> SUBSET Item] /\ done[u][s] \cup {i} \in SUBSET Item
      BY DEF TypeOK
    <3>3. [done EXCEPT ![u][s] = @ \cup {i}] \in [Users -> [Sessions -> SUBSET Item]]
      BY <3>2 DEF TypeOK
    <3> QED BY <3>1, <3>3 DEF TypeOK
  <2> QED
    BY <2>1, <2>3, <2>4, <2>5
    DEF Route, TypeOK, envVars, readVars, storeVars
<1>2. CASE CloseReceipt(s, i)
  <2>1. \A r \in Receipt : [r EXCEPT !.closed = TRUE] \in Receipt
    BY DEF Receipt
  <2> QED
    BY <1>2, <2>1
    DEF CloseReceipt, TypeOK, envVars, readVars, storeVars, queueVars, historyVars
<1>3. CASE RouteFails(s, i)
  <2>1. \A r \in Receipt : Abandoned(r) \in Receipt
    BY DEF Receipt, Abandoned
  <2>2. budget' \in [Events -> Nat]
    BY <1>0, <1>3 DEF RouteFails, Events
  <2> QED
    BY <1>3, <2>1, <2>2
    DEF RouteFails, TypeOK, envVars, readVars, storeVars, queueVars, historyVars
<1> QED BY <1>1, <1>2, <1>3

\* The steps of a cycle that concern all sessions at once.
LEMMA CycleStepsType ==
    ASSUME TypeOK,
           \/ \E L \in SUBSET Sessions : NoteLive(L)
           \/ EndResume \/ BeginReads \/ Register \/ EndDispatch \/ CommitWatermarks
    PROVE  TypeOK'
<1>1. CASE \E L \in SUBSET Sessions : NoteLive(L)
  <2>1. PICK L \in SUBSET Sessions : NoteLive(L)
    BY <1>1
  <2>2. budget' \in [Events -> Nat]
    BY <2>1 DEF NoteLive, Spend, TypeOK, Events
  <2> QED
    BY <2>1, <2>2 DEF NoteLive, TypeOK, readVars, ackVars, storeVars, queueVars, historyVars
<1>2. CASE EndResume
  BY <1>2 DEF EndResume, TypeOK, envVars, readVars, ackVars, storeVars, queueVars, historyVars
<1>3. CASE BeginReads
  <2>1. todo' \in SUBSET Sessions
    BY <1>3 DEF BeginReads, TypeOK
  <2> QED
    BY <1>3, <2>1
    DEF BeginReads, TypeOK, envVars, readVars, ackVars, storeVars, queueVars, historyVars
<1>4. CASE Register
  <2>1. \A s \in Sessions : [NoReceipt EXCEPT !.cp = parsed[s], !.left = Users] \in Receipt
    BY NoReceiptType DEF Receipt, TypeOK
  <2>2. rcpt' \in [Sessions -> [Item -> Receipt]]
    BY <1>4, <2>1 DEF Register, TypeOK
  <2>3. regs' \in [Sessions -> SUBSET Item] /\ buf' \in [Sessions -> SUBSET Item]
    BY <1>4 DEF Register, TypeOK
  <2>4. disk' \in [Sessions -> Tracked] /\ budget' \in [Events -> Nat]
    BY <1>4, SaveType DEF Register, TypeOK
  <2> QED
    BY <1>4, <2>2, <2>3, <2>4 DEF Register, TypeOK, envVars, queueVars, historyVars
<1>5. CASE EndDispatch
  BY <1>5 DEF EndDispatch, TypeOK, envVars, readVars, ackVars, storeVars, queueVars, historyVars
<1>6. CASE CommitWatermarks
  <2>1. mem' \in [Sessions -> Tracked]
    <3>1. \A s \in Sessions : [mem[s] EXCEPT !.wm = NewMark(s)] \in Tracked
      <4> TAKE s \in Sessions
      <4>1. NewMark(s) \in Offset
        BY NewMarkType
      <4>2. mem[s] \in Tracked
        BY DEF TypeOK
      <4> QED BY <4>1, <4>2 DEF Tracked
    <3> QED BY <1>6, <3>1 DEF CommitWatermarks
  <2>2. disk' \in [Sessions -> Tracked] /\ budget' \in [Events -> Nat]
    <3>1. CASE UNCHANGED <<budget, disk>>
      BY <3>1 DEF TypeOK
    <3>2. CASE Save(mem')
      BY <2>1, <3>2, SaveType
    <3> QED BY <1>6, <3>1, <3>2 DEF CommitWatermarks
  <2>3. regs' \in [Sessions -> SUBSET Item]
    BY <1>6 DEF CommitWatermarks, TypeOK
  <2>4. rcpt' \in [Sessions -> [Item -> Receipt]]
    BY <1>6, NoReceiptType DEF CommitWatermarks, TypeOK
  <2>5. mode' \in {"up", "down"} /\ pc' \in {"idle", "off"}
    BY <1>6 DEF CommitWatermarks
  <2> QED
    BY <1>6, <2>1, <2>2, <2>3, <2>4, <2>5
    DEF CommitWatermarks, TypeOK, readVars, queueVars, historyVars
<1> QED BY <1>1, <1>2, <1>3, <1>4, <1>5, <1>6

\* A step of the monitor.
LEMMA MonitorType ==
    ASSUME TypeOK, MonitorStep
    PROVE  TypeOK'
BY SkipStepsType, ReadStepsType, RouteStepsType, CycleStepsType DEF MonitorStep

\* A fresh process, for the state file it starts from.
LEMMA FreshProcessType ==
    ASSUME TypeOK, FreshProcess(disk), UNCHANGED <<disk, written, bound, historyVars>>,
           budget' \in [Events -> Nat], mode' \in {"up", "draining", "final", "down"}
    PROVE  TypeOK'
<1>1. \A s \in Sessions : disk[s].wm \in Offset
  BY DEF TypeOK, Tracked
<1>2. parsed' \in [Sessions -> Offset]
  BY <1>1 DEF FreshProcess
<1>3. /\ rcpt' \in [Sessions -> [Item -> Receipt]]
      /\ regs' \in [Sessions -> SUBSET Item]
      /\ notice' \in [Sessions -> NoticeState]
  BY NoReceiptType DEF FreshProcess, NoticeState
<1>4. queue' \in [Users -> Seq(Task)] /\ worker' \in [Users -> Worker]
  BY IdleWorkerType DEF FreshProcess
<1>5. buf' \in [Sessions -> SUBSET Item] /\ tools' \in [Sessions -> SUBSET Item]
  BY DEF FreshProcess
<1> QED BY <1>2, <1>3, <1>4, <1>5 DEF FreshProcess, TypeOK, historyVars

\* Agents, topics and the life of the process.
LEMMA EnvironmentType ==
    ASSUME TypeOK,
           \/ \E u \in Users, s \in Sessions : RequestSkip(u, s)
           \/ \E s \in Sessions : RetryDue(s) \/ Write(s)
           \/ \E u \in Users, s \in Sessions, t \in Topics \cup {Unbound} : Rebind(u, s, t)
           \/ Crash \/ Start \/ Stop \/ StopWorkers
    PROVE  TypeOK'
<1>0. ASSUME NEW e \in Events, Spend(e) PROVE budget' \in [Events -> Nat]
  BY <1>0 DEF Spend, TypeOK
<1>1. CASE \E u \in Users, s \in Sessions : RequestSkip(u, s)
  <2>1. PICK u \in Users, s \in Sessions : RequestSkip(u, s)
    BY <1>1
  <2> DEFINE n == [user |-> u, topic |-> bound[u][s], snap |-> written[s], purged |-> FALSE]
             m == WithSkip(mem, s, n)
             b == [budget EXCEPT !["skip"] = @ - 1]
  <2>2. n \in Intent
    BY <2>1 DEF RequestSkip, Intent, TypeOK
  <2>3. m \in [Sessions -> Tracked]
    BY <2>2, WithSkipType DEF TypeOK
  <2>4. b \in [Events -> Nat]
    BY <2>1 DEF RequestSkip, TypeOK, Events
  <2>5. \/ PrepareSkip(s, n, m, m, b)
        \/ mem' = m /\ disk' = m /\ budget' = b /\ UNCHANGED <<rcpt, notice, backoff, queue>>
    BY <2>1 DEF RequestSkip
  <2> HIDE DEF n, m, b
  <2>6. /\ rcpt' \in [Sessions -> [Item -> Receipt]]
        /\ mem' \in [Sessions -> Tracked]
        /\ disk' \in [Sessions -> Tracked]
        /\ budget' \in [Events -> Nat]
        /\ notice' \in [Sessions -> NoticeState]
        /\ backoff' \in SUBSET Sessions
        /\ queue' \in [Users -> Seq(Task)]
    BY <2>2, <2>3, <2>4, <2>5, PrepareSkipType DEF TypeOK
  <2> QED
    BY <2>1, <2>6 DEF RequestSkip, TypeOK, envVars, monVars, readVars, historyVars
<1>2. CASE \E s \in Sessions : RetryDue(s)
  BY <1>2
  DEF RetryDue, TypeOK, envVars, monVars, readVars, storeVars, queueVars, historyVars
<1>3. CASE \E s \in Sessions : Write(s)
  <2>1. PICK s \in Sessions : Write(s)
    BY <1>3
  <2>2. written' \in [Sessions -> Offset]
    BY <2>1, ConstantsAssumption, SMTT(30) DEF Write, TypeOK, Offset
  <2> QED
    BY <2>1, <2>2
    DEF Write, TypeOK, monVars, readVars, ackVars, storeVars, queueVars, historyVars
<1>4. CASE \E u \in Users, s \in Sessions, t \in Topics \cup {Unbound} : Rebind(u, s, t)
  <2>1. PICK u \in Users, s \in Sessions, t \in Topics \cup {Unbound} : Rebind(u, s, t)
    BY <1>4
  <2>2. budget' \in [Events -> Nat]
    BY <2>1, <1>0 DEF Rebind, Events
  <2>3. bound' \in [Users -> [Sessions -> Topics \cup {Unbound}]]
    <3>1. bound[u] \in [Sessions -> Topics \cup {Unbound}]
      BY DEF TypeOK
    <3> QED BY <2>1, <3>1 DEF Rebind, TypeOK
  <2> QED
    BY <2>1, <2>2, <2>3
    DEF Rebind, TypeOK, monVars, readVars, ackVars, storeVars, queueVars, historyVars
<1>5. CASE Crash
  <2>1. budget' \in [Events -> Nat]
    BY <1>5, <1>0 DEF Crash, Events
  <2> QED BY <1>5, <2>1, FreshProcessType DEF Crash
<1>6. CASE Start
  <2>1. budget' \in [Events -> Nat]
    BY <1>6 DEF Start, TypeOK
  <2> QED BY <1>6, <2>1, FreshProcessType DEF Start
<1>7. CASE Stop
  <2>1. disk' \in [Sessions -> Tracked] /\ budget' \in [Events -> Nat]
    BY <1>7 DEF Stop, TypeOK, Events
  <2>2. \A r \in Receipt : Abandoned(r) \in Receipt
    BY DEF Receipt, Abandoned
  <2>3. rcpt' \in [Sessions -> [Item -> Receipt]]
    BY <1>7, <2>2 DEF Stop, TypeOK
  <2>4. buf' \in [Sessions -> SUBSET Item]
    BY <1>7 DEF Stop
  <2> QED
    BY <1>7, <2>1, <2>3, <2>4 DEF Stop, TypeOK, queueVars, historyVars
<1>8. CASE StopWorkers
  <2>1. rcpt' \in [Sessions -> [Item -> Receipt]]
    <3>1. \A r \in Receipt, W \in SUBSET Users :
            [r EXCEPT !.awaiting = @ \ W, !.failed = TRUE] \in Receipt
      BY DEF Receipt
    <3>2. \A s \in Sessions, i \in Item : {u \in Users : InHand(u, s, i)} \in SUBSET Users
      OBVIOUS
    <3>3. \A s \in Sessions, i \in Item : rcpt[s][i] \in Receipt
      BY DEF TypeOK
    <3>4. \A s \in Sessions, i \in Item :
            [rcpt[s][i] EXCEPT !.awaiting = @ \ {u \in Users : InHand(u, s, i)},
                               !.failed = TRUE] \in Receipt
      BY <3>1, <3>2, <3>3
    <3>5. \A s \in Sessions, i \in Item :
            (IF \E u \in Users : InHand(u, s, i)
             THEN [rcpt[s][i] EXCEPT !.awaiting = @ \ {u \in Users : InHand(u, s, i)},
                                     !.failed = TRUE]
             ELSE rcpt[s][i]) \in Receipt
      BY <3>3, <3>4
    <3>6. rcpt' = [s \in Sessions |-> [i \in Item |->
            IF \E u \in Users : InHand(u, s, i)
            THEN [rcpt[s][i] EXCEPT !.awaiting = @ \ {u \in Users : InHand(u, s, i)},
                                    !.failed = TRUE]
            ELSE rcpt[s][i]]]
      BY <1>8 DEF StopWorkers
    <3> QED BY <3>5, <3>6
  <2>2. notice' \in [Sessions -> NoticeState]
    BY <1>8 DEF StopWorkers, TypeOK, NoticeState
  <2>3. queue' \in [Users -> Seq(Task)] /\ worker' \in [Users -> Worker]
    <3>1. queue' = [u \in Users |-> <<>>] /\ worker' = [u \in Users |-> IdleWorker]
      BY <1>8 DEF StopWorkers
    <3> QED BY <3>1, IdleWorkerType
  <2>4. todo' \in SUBSET Sessions
    BY <1>8 DEF StopWorkers
  <2> QED
    BY <1>8, <2>1, <2>2, <2>3, <2>4 DEF StopWorkers, TypeOK, readVars, storeVars, historyVars
<1> QED BY <1>1, <1>2, <1>3, <1>4, <1>5, <1>6, <1>7, <1>8

\* Any step, a stuttering one included.
LEMMA NextType ==
    ASSUME TypeOK, [Next]_vars
    PROVE  TypeOK'
<1>1. CASE Next
  BY <1>1, MonitorType, WorkerType, EnvironmentType DEF Next
<1>2. CASE UNCHANGED vars
  BY <1>2
  DEF TypeOK, vars, envVars, monVars, readVars, ackVars, storeVars, queueVars, historyVars
<1> QED BY <1>1, <1>2

\* Every variable keeps its type, in particular every queue holds tasks, every
\* receipt awaits users only and no offset leaves the transcript.
THEOREM TypeCorrect == Spec => []TypeOK
<1>1. Init => TypeOK
  BY ConstantsAssumption, IdleWorkerType, NoReceiptType
  DEF Init, Bindings, TypeOK, Offset, NoticeState, Tracked
<1>2. TypeOK /\ [Next]_vars => TypeOK'
  BY NextType
<1> QED BY <1>1, <1>2, PTL DEF Spec

-----------------------------------------------------------------------------
(* Frames: what a step cannot disturb.                                     *)

\* Entries, checkpoints and offsets are natural numbers.
LEMMA NaturalNumbers ==
    ASSUME TypeOK, NEW s \in Sessions
    PROVE  /\ regs[s] \subseteq Item /\ buf[s] \subseteq Item
           /\ \A i \in Item : i \in Nat /\ rcpt[s][i].cp \in Nat
           /\ parsed[s] \in Nat /\ written[s] \in Nat
           /\ mem[s].wm \in Nat /\ disk[s].wm \in Nat
<1>1. regs[s] \subseteq Item /\ buf[s] \subseteq Item /\ rcpt[s] \in [Item -> Receipt]
  BY DEF TypeOK
<1>2. \A i \in Item : i \in Nat
  BY DEF Item
<1>3. \A i \in Item : rcpt[s][i].cp \in Nat
  BY <1>1 DEF Receipt, Offset
<1>4. /\ parsed[s] \in Nat /\ written[s] \in Nat
      /\ mem[s].wm \in Nat /\ disk[s].wm \in Nat
  BY DEF TypeOK, Offset, Tracked
<1> QED BY <1>1, <1>2, <1>3, <1>4

\* An entry once handled stays handled.
LEMMA HandledGrows ==
    ASSUME NEW s, NEW i, Handled(s, i),
           \A u \in Users : done[u][s] \subseteq done'[u][s],
           \A u \in Users : skipped[u][s] \subseteq skipped'[u][s]
    PROVE  Handled(s, i)'
BY DEF Handled, HasMessage, KindOf

\* No step gives an event back.
LEMMA BudgetShrinks ==
    ASSUME TypeOK, Next, NEW e \in Events
    PROVE  budget'[e] \in Nat /\ budget'[e] <= budget[e]
<1>0. budget \in [Events -> Nat] /\ budget[e] \in Nat
  BY DEF TypeOK
<1>1. TypeOK'
  BY NextType
<1>2. budget'[e] \in Nat
  BY <1>1 DEF TypeOK
<1> SUFFICES budget'[e] <= budget[e]
  BY <1>2
<1>3. ASSUME NEW f \in Events, UNCHANGED budget \/ budget' = [budget EXCEPT ![f] = @ - 1]
      PROVE  budget'[e] <= budget[e]
  BY <1>0, <1>3
<1>4. ASSUME NEW m, Save(m) PROVE budget'[e] <= budget[e]
  <2>1. UNCHANGED budget \/ budget' = [budget EXCEPT !["save"] = @ - 1]
    BY <1>4 DEF Save, Spend
  <2> QED BY <1>3, <2>1 DEF Events
<1>5. ASSUME NEW f \in Events, Spend(f) PROVE budget'[e] <= budget[e]
  BY <1>3, <1>5 DEF Spend
<1>6. "save" \in Events /\ "stop" \in Events /\ "skip" \in Events
  BY DEF Events
<1>7. CASE MonitorStep
  <2>1. CASE \E L \in SUBSET Sessions : NoteLive(L)
    BY <1>0, <1>5, <2>1 DEF NoteLive, Events
  <2>2. ASSUME NEW s \in Sessions, ResumeSkip(s) PROVE budget'[e] <= budget[e]
    <3>1. CASE UNCHANGED budget
      BY <1>0, <3>1
    <3>2. CASE Save(mem')
      BY <1>4, <3>2
    <3>3. CASE PrepareSkip(s, mem[s].skip, mem, disk, budget)
      <4>1. UNCHANGED budget \/ budget' = [budget EXCEPT !["save"] = @ - 1]
        BY <3>3 DEF PrepareSkip
      <4> QED BY <1>3, <1>6, <4>1
    <3> QED BY <2>2, <3>1, <3>2, <3>3 DEF ResumeSkip
  <2>3. ASSUME NEW s \in Sessions, SettleSkip(s) PROVE budget'[e] <= budget[e]
    <3>1. UNCHANGED budget \/ Save(mem')
      BY <2>3 DEF SettleSkip
    <3> QED BY <1>0, <1>4, <3>1
  <2>4. ASSUME NEW s \in Sessions, BeginRead(s) \/ FinishRead(s)
        PROVE  budget'[e] <= budget[e]
    BY <1>0, <1>5, <2>4 DEF BeginRead, FinishRead, Events
  <2>5. CASE Register \/ CommitWatermarks
    <3>1. UNCHANGED budget \/ Save(mem) \/ Save(mem')
      BY <2>5 DEF Register, CommitWatermarks
    <3> QED BY <1>0, <1>4, <3>1
  <2>6. CASE EndResume \/ BeginReads \/ EndDispatch
    BY <1>0, <2>6 DEF EndResume, BeginReads, EndDispatch
  <2>7. ASSUME NEW s \in Sessions, NEW i \in Item,
               (\E u \in Users : Route(u, s, i)) \/ CloseReceipt(s, i) \/ RouteFails(s, i)
        PROVE  budget'[e] <= budget[e]
    <3>1. CASE \E u \in Users : Route(u, s, i)
      BY <1>0, <3>1 DEF Route
    <3>2. CASE CloseReceipt(s, i) \/ RouteFails(s, i)
      BY <1>0, <1>5, <3>2 DEF CloseReceipt, RouteFails, Events
    <3> QED BY <2>7, <3>1, <3>2
  <2> QED BY <1>7, <2>1, <2>2, <2>3, <2>4, <2>5, <2>6, <2>7 DEF MonitorStep
<1>8. ASSUME NEW u \in Users, WorkerStep(u) PROVE budget'[e] <= budget[e]
  <2>1. UNCHANGED budget \/ Spend("send") \/ Spend("flood")
    BY <1>8 DEF WorkerStep, GetTask, DropStale, DropHidden, BeginSend, RefuseNotice,
                Deliver, FailSend, RetryAfter
  <2> QED BY <1>0, <1>5, <2>1 DEF Events
<1>9. ASSUME NEW u \in Users, NEW s \in Sessions, RequestSkip(u, s)
      PROVE  budget'[e] <= budget[e]
  <2> DEFINE b == [budget EXCEPT !["skip"] = @ - 1]
  <2>1. budget' = b \/ budget' = [b EXCEPT !["save"] = @ - 1]
    BY <1>9 DEF RequestSkip, PrepareSkip
  <2> QED BY <1>0, <1>6, <2>1
<1>10. CASE Stop
  <2>1. \/ budget' = [budget EXCEPT !["stop"] = @ - 1]
        \/ budget' = [budget EXCEPT !["stop"] = @ - 1, !["save"] = @ - 1]
    BY <1>10 DEF Stop
  <2> QED BY <1>0, <1>6, <2>1
<1>11. CASE \/ \E s \in Sessions : RetryDue(s) \/ Write(s)
            \/ \E u \in Users, s \in Sessions, t \in Topics \cup {Unbound} : Rebind(u, s, t)
            \/ Crash \/ Start \/ StopWorkers
  <2>1. UNCHANGED budget \/ Spend("rebind") \/ Spend("crash")
    BY <1>11 DEF RetryDue, Write, Rebind, Crash, Start, StopWorkers
  <2> QED BY <1>0, <1>5, <2>1 DEF Events
<1> QED BY <1>7, <1>8, <1>9, <1>10, <1>11 DEF Next

\* A barrier is only ever set by a skip somebody asked for.
LEMMA NoBarriersStay ==
    ASSUME TypeOK, NoBarriers, Next
    PROVE  NoBarriers'
<1>1. budget'["skip"] = 0
  <2>1. "skip" \in Events
    BY DEF Events
  <2>2. budget'["skip"] \in Nat /\ budget'["skip"] <= budget["skip"]
    BY <2>1, BudgetShrinks
  <2> QED BY <2>2 DEF NoBarriers
<1>2. /\ mem \in [Sessions -> Tracked] /\ disk \in [Sessions -> Tracked]
      /\ \A s \in Sessions : mem[s].skip = NoSkip /\ disk[s].skip = NoSkip
  BY DEF TypeOK, NoBarriers
<1>3. CASE UNCHANGED storeVars
  BY <1>1, <1>2, <1>3 DEF NoBarriers, storeVars
<1>4. CASE mem' = mem /\ (disk' = mem \/ disk' = disk)
  BY <1>1, <1>2, <1>4 DEF NoBarriers
<1>5. CASE mem' = disk /\ disk' = disk
  BY <1>1, <1>2, <1>5 DEF NoBarriers
<1>6. ASSUME NEW s \in Sessions, mem' = WithSkip(mem, s, NoSkip), Save(mem')
      PROVE  NoBarriers'
  <2>1. \A r \in Sessions : mem'[r].skip = NoSkip
    BY <1>2, <1>6 DEF WithSkip, Tracked
  <2> QED BY <1>1, <1>2, <1>6, <2>1 DEF NoBarriers, Save
<1>7. CASE CommitWatermarks
  <2>1. \A r \in Sessions : mem'[r].skip = NoSkip
    BY <1>2, <1>7 DEF CommitWatermarks, Tracked
  <2> QED BY <1>1, <1>2, <1>7, <2>1 DEF NoBarriers, CommitWatermarks, Save
<1>8. ASSUME NEW s \in Sessions, ResumeSkip(s) \/ SettleSkip(s)
      PROVE  NoBarriers'
  <2>1. ~Current(s, mem[s].skip)
    BY <1>2 DEF Current
  <2>2. UNCHANGED storeVars \/ (mem' = WithSkip(mem, s, NoSkip) /\ Save(mem'))
    BY <1>8, <2>1 DEF ResumeSkip, SettleSkip
  <2>3. mem' = WithSkip(mem, s, NoSkip) /\ Save(mem') => NoBarriers'
    BY <1>6
  <2> QED BY <1>3, <2>2, <2>3
<1>9. CASE MonitorStep
  <2>1. CASE Register
    BY <1>4, <2>1 DEF Register, Save
  <2>2. CASE \/ \E L \in SUBSET Sessions : NoteLive(L)
             \/ \E s \in Sessions : BeginRead(s) \/ FinishRead(s)
             \/ EndResume \/ BeginReads \/ EndDispatch
    BY <1>3, <2>2
    DEF NoteLive, BeginRead, FinishRead, EndResume, BeginReads, EndDispatch
  <2>3. ASSUME NEW s \in Sessions, NEW i \in Item,
               (\E u \in Users : Route(u, s, i)) \/ CloseReceipt(s, i) \/ RouteFails(s, i)
        PROVE  UNCHANGED storeVars
    <3>1. CASE \E u \in Users : Route(u, s, i)
      BY <3>1 DEF Route
    <3>2. CASE CloseReceipt(s, i) \/ RouteFails(s, i)
      BY <3>2 DEF CloseReceipt, RouteFails
    <3> QED BY <2>3, <3>1, <3>2
  <2> QED BY <1>3, <1>7, <1>8, <1>9, <2>1, <2>2, <2>3 DEF MonitorStep
<1>10. ASSUME NEW u \in Users, WorkerStep(u) PROVE UNCHANGED storeVars
  <2>1. CASE GetTask(u) \/ BeginSend(u) \/ RetryAfter(u)
    BY <2>1 DEF GetTask, BeginSend, RetryAfter
  <2>2. CASE \E outcome \in {"dropped", "failed", "delivered"} : Settle(u, outcome)
    BY <2>2 DEF Settle
  <2> QED BY <1>10, <2>1, <2>2
          DEF WorkerStep, DropStale, DropHidden, RefuseNotice, Deliver, FailSend
<1>11. CASE \E u \in Users, s \in Sessions : RequestSkip(u, s)
  BY <1>11 DEF NoBarriers, RequestSkip
<1>12. CASE Crash \/ Start
  BY <1>5, <1>12 DEF Crash, Start, FreshProcess
<1>13. CASE Stop
  BY <1>4, <1>13 DEF Stop
<1>14. CASE \/ \E s \in Sessions : RetryDue(s) \/ Write(s)
            \/ \E u \in Users, s \in Sessions, t \in Topics \cup {Unbound} : Rebind(u, s, t)
            \/ StopWorkers
  BY <1>3, <1>14 DEF RetryDue, Write, Rebind, StopWorkers
<1> QED BY <1>3, <1>9, <1>10, <1>11, <1>12, <1>13, <1>14 DEF Next

\* A run that can lose nothing remains one.
LEMMA FaultlessStays ==
    ASSUME TypeOK, Faultless, [Next]_vars
    PROVE  Faultless'
<1>1. CASE UNCHANGED vars
  BY <1>1 DEF Faultless, NoBarriers, vars, storeVars
<1>2. CASE Next
  <2>1. \A e \in {"read", "rebind"} : budget[e] = 0 => budget'[e] = 0
    <3> SUFFICES ASSUME NEW e \in {"read", "rebind"}, budget[e] = 0
                 PROVE  budget'[e] = 0
      OBVIOUS
    <3>1. e \in Events
      BY DEF Events
    <3>2. budget'[e] \in Nat /\ budget'[e] <= budget[e]
      BY <1>2, <3>1, BudgetShrinks
    <3> QED BY <3>2
  <2>2. NoBarriers => NoBarriers'
    BY <1>2, NoBarriersStay
  <2> QED BY <2>1, <2>2 DEF Faultless
<1> QED BY <1>1, <1>2

\* The receipts of s keep their place: only who still owes what may change.
LEMMA SteadyReceipts ==
    ASSUME TypeOK, NEW s \in Sessions,
           MarkCovers(s), NothingForgotten(s), CheckpointOrder(s), BufferAhead(s),
           mem'[s].wm = mem[s].wm, parsed'[s] = parsed[s],
           buf'[s] = buf[s], regs'[s] = regs[s],
           \A i \in regs[s] : rcpt'[s][i].cp = rcpt[s][i].cp,
           \A u \in Users : done[u][s] \subseteq done'[u][s],
           \A u \in Users : skipped[u][s] \subseteq skipped'[u][s],
           mode # "up" => mode' # "up",
           buf[s] = {} \/ pc' = pc
    PROVE  /\ MarkCovers(s)' /\ NothingForgotten(s)'
           /\ CheckpointOrder(s)' /\ BufferAhead(s)'
<1>1. \A i : Handled(s, i) => Handled(s, i)'
  BY HandledGrows
<1>2. MarkCovers(s)'
  BY <1>1 DEF MarkCovers
<1>3. NothingForgotten(s)'
  BY <1>1 DEF NothingForgotten
<1>4. CheckpointOrder(s)'
  BY DEF CheckpointOrder
<1>5. BufferAhead(s)'
  BY DEF BufferAhead
<1> QED BY <1>2, <1>3, <1>4, <1>5

\* Nothing about offsets and barriers changes.
LEMMA SteadyOffsets ==
    ASSUME NEW s \in Sessions, OffsetOrder(s),
           mem'[s] = mem[s], disk'[s] = disk[s], parsed'[s] = parsed[s],
           written'[s] = written[s], bound' = bound
    PROVE  OffsetOrder(s)'
BY DEF OffsetOrder, Current

\* Receipts stay honest when nothing is taken away from what they say.
LEMMA SteadyHonesty ==
    ASSUME NEW s \in Sessions, HonestReceipts(s),
           regs'[s] = regs[s], mem'[s] = mem[s],
           \A i \in regs[s] : rcpt'[s][i] = rcpt[s][i],
           \A u \in Users : done[u][s] \subseteq done'[u][s]
    PROVE  HonestReceipts(s)'
BY DEF HonestReceipts

-----------------------------------------------------------------------------
(* Queue workers.                                                          *)

\* What settling one receipt changes.
LEMMA SettledFields ==
    ASSUME NEW r \in Receipt, NEW u, NEW outcome
    PROVE  /\ Settled(r, u, outcome).cp = r.cp
           /\ Settled(r, u, outcome).left = r.left
           /\ Settled(r, u, outcome).closed = r.closed
           /\ Settled(r, u, outcome).awaiting = r.awaiting \ {u}
           /\ outcome = "failed" => Settled(r, u, outcome).failed
           /\ outcome # "failed" => Settled(r, u, outcome).failed = r.failed
<1> DEFINE S == Settled(r, u, outcome)
<1>1. S.cp = r.cp /\ S.left = r.left /\ S.closed = r.closed
  BY DEF Settled, Receipt
<1>2. S.awaiting = r.awaiting \ {u}
  BY DEF Settled, Receipt
<1>3. S.failed = (r.failed \/ outcome = "failed")
  BY DEF Settled, Receipt
<1>4. r.failed \in BOOLEAN
  BY DEF Receipt
<1> QED BY <1>1, <1>2, <1>3, <1>4

\* Settling the task in hand: failed receipts fence, others are served.
LEMMA SettleInv ==
    ASSUME TypeOK, DeliveryInv, NEW u \in Users, NEW outcome, Settle(u, outcome),
           queue' = queue, Faultless'
    PROVE  DeliveryInv'
<1> DEFINE t == worker[u].task
           mine(s, i) == s = t.sess /\ i \in t.owed
<1>1. t \in Task /\ OwesItsItems(t)
  BY DEF TypeOK, Worker, DeliveryInv, HonestTasks
<1>2. /\ \A s \in Sessions, i \in Item :
            rcpt'[s][i] = IF mine(s, i) THEN Settled(rcpt[s][i], u, outcome) ELSE rcpt[s][i]
      /\ \A s \in Sessions, i \in Item : rcpt[s][i] \in Receipt
  BY DEF Settle, TypeOK
<1>3. \A v \in Users, s \in Sessions : done[v][s] \subseteq done'[v][s]
  BY DEF Settle, TypeOK
<1>4. \A s \in Sessions, i \in Item : mine(s, i) /\ outcome # "failed" => i \in done'[u][s]
  BY <1>1 DEF Settle, TypeOK, OwesItsItems, Task
<1>5. UNCHANGED <<written, bound, live, mode, pc, todo, cur, parsed, buf, tools, regs,
                  mem, disk, skipped>>
  BY DEF Settle, envVars, monVars, readVars, storeVars
<1>6. CyclesWhileUp'
  BY <1>5 DEF DeliveryInv, CyclesWhileUp
<1>7. HonestTasks'
  <2>1. worker' = [worker EXCEPT ![u] = IdleWorker]
    BY DEF Settle
  <2>2. OwesItsItems(IdleWorker.task)
    BY DEF OwesItsItems, IdleWorker, IdleTask
  <2>3. \A v \in Users : OwesItsItems(worker'[v].task)
    BY <2>1, <2>2 DEF DeliveryInv, HonestTasks, TypeOK
  <2> QED BY <2>3 DEF DeliveryInv, HonestTasks, OwesItsItems
<1>8. ASSUME NEW s \in Sessions PROVE OffsetOrder(s)'
  BY <1>5, <1>8, SteadyOffsets DEF DeliveryInv
<1>9. ASSUME NEW s \in Sessions
      PROVE  /\ MarkCovers(s)' /\ NothingForgotten(s)'
             /\ CheckpointOrder(s)' /\ BufferAhead(s)'
  <2>0. regs[s] \subseteq Item
    BY <1>9 DEF TypeOK
  <2>1. ASSUME NEW i \in regs[s] PROVE rcpt'[s][i].cp = rcpt[s][i].cp
    <3>1. i \in Item /\ rcpt[s][i] \in Receipt
      BY <1>2, <1>9, <2>0
    <3>2. Settled(rcpt[s][i], u, outcome).cp = rcpt[s][i].cp
      BY <3>1 DEF Settled, Receipt
    <3> QED BY <1>2, <1>9, <3>1, <3>2
  <2> QED BY <1>3, <1>5, <1>9, <2>1, SteadyReceipts DEF DeliveryInv
<1>10. ASSUME NEW s \in Sessions PROVE HonestReceipts(s)'
  <2> SUFFICES ASSUME NEW i \in regs[s]
               PROVE  \/ rcpt'[s][i].failed
                      \/ /\ rcpt'[s][i].closed => rcpt'[s][i].left = {}
                         /\ \A v \in Users :
                               \/ v \in rcpt'[s][i].left \cup rcpt'[s][i].awaiting
                               \/ i \in done'[v][s]
                               \/ mem[s].skip # NoSkip /\ i <= mem[s].skip.snap
    BY <1>5 DEF HonestReceipts
  <2>1. i \in Item /\ rcpt[s][i] \in Receipt
    BY <1>2, <1>10 DEF TypeOK
  <2>2. HonestReceipts(s)
    BY <1>10 DEF DeliveryInv
  <2>3. CASE ~mine(s, i)
    BY <1>2, <1>3, <1>10, <2>1, <2>2, <2>3 DEF HonestReceipts
  <2>4. CASE mine(s, i) /\ outcome = "failed"
    <3>1. rcpt'[s][i] = Settled(rcpt[s][i], u, outcome)
      BY <1>2, <1>10, <2>1, <2>4
    <3>2. Settled(rcpt[s][i], u, outcome).failed
      BY <2>1, <2>4, SettledFields
    <3> QED BY <3>1, <3>2
  <2>5. CASE mine(s, i) /\ outcome # "failed"
    <3>1. /\ rcpt'[s][i].left = rcpt[s][i].left
          /\ rcpt'[s][i].closed = rcpt[s][i].closed
          /\ rcpt'[s][i].failed = rcpt[s][i].failed
          /\ rcpt'[s][i].awaiting = rcpt[s][i].awaiting \ {u}
      <4>1. rcpt'[s][i] = Settled(rcpt[s][i], u, outcome)
        BY <1>2, <1>10, <2>1, <2>5
      <4>2. /\ Settled(rcpt[s][i], u, outcome).left = rcpt[s][i].left
            /\ Settled(rcpt[s][i], u, outcome).closed = rcpt[s][i].closed
            /\ Settled(rcpt[s][i], u, outcome).failed = rcpt[s][i].failed
            /\ Settled(rcpt[s][i], u, outcome).awaiting = rcpt[s][i].awaiting \ {u}
        BY <2>1, <2>5, SettledFields
      <4> QED BY <4>1, <4>2
    <3>2. i \in done'[u][s]
      BY <1>4, <2>1, <2>5
    <3> QED BY <1>3, <1>10, <2>2, <3>1, <3>2 DEF HonestReceipts
  <2> QED BY <2>3, <2>4, <2>5
<1>11. ASSUME NEW s \in Sessions PROVE OneNotice(s)'
  <2>1. OneNotice(s)
    BY <1>11 DEF DeliveryInv
  <2>2. worker' = [worker EXCEPT ![u] = IdleWorker] /\ worker \in [Users -> Worker]
    BY DEF Settle, TypeOK
  <2>3. ~IdleWorker.task.notice
    BY DEF IdleWorker, IdleTask
  <2>4. \A v \in Users : NoticeHeld(s, v)' => v # u /\ NoticeHeld(s, v)
    BY <2>2, <2>3 DEF NoticeHeld
  <2>5. \A v \in Users : \A k : NoticeQueued(s, v, k)' <=> NoticeQueued(s, v, k)
    BY DEF NoticeQueued
  <2>6. CASE NoticeHeld(s, u)
    <3>1. notice[s] = "pending" /\ mem[s].skip # NoSkip
      BY <2>1, <2>6 DEF OneNotice
    <3>2. \A v \in Users : ~NoticeHeld(s, v)'
      BY <2>1, <2>4, <2>6 DEF OneNotice
    <3>3. \A v \in Users : \A k \in 1..Len(queue[v]) : ~NoticeQueued(s, v, k)
      BY <2>1, <2>6 DEF OneNotice
    <3> QED BY <1>5, <2>5, <3>1, <3>2, <3>3 DEF OneNotice
  <2>7. CASE ~NoticeHeld(s, u)
    <3>1. notice'[s] = notice[s]
      BY <1>11, <2>7 DEF Settle, NoticeHeld, TypeOK
    <3>2. \A v \in Users : NoticeHeld(s, v)' => NoticeHeld(s, v)
      BY <2>4
    <3> QED BY <1>5, <2>1, <2>5, <3>1, <3>2 DEF OneNotice
  <2> QED BY <2>6, <2>7
<1> QED BY <1>6, <1>7, <1>8, <1>9, <1>10, <1>11 DEF DeliveryInv

-----------------------------------------------------------------------------
(* Queues.                                                                 *)

\* Tasks and notices where a step leaves the queues alone.
LEMMA SteadyQueues ==
    ASSUME DeliveryInv, queue' = queue,
           \A v \in Users : worker'[v].task = worker[v].task,
           notice' = notice, \A s \in Sessions : mem'[s].skip = mem[s].skip
    PROVE  HonestTasks' /\ \A s \in Sessions : OneNotice(s)'
<1>1. HonestTasks'
  BY DEF DeliveryInv, HonestTasks, OwesItsItems
<1>2. ASSUME NEW s \in Sessions PROVE OneNotice(s)'
  BY <1>2 DEF DeliveryInv, OneNotice, NoticeQueued, NoticeHeld
<1> QED BY <1>1, <1>2

\* Everything but queues and workers.
LEMMA SteadyRest ==
    ASSUME TypeOK, DeliveryInv, Faultless',
           UNCHANGED <<envVars, monVars, readVars, regs, rcpt, storeVars, historyVars>>
    PROVE  /\ Faultless' /\ CyclesWhileUp'
           /\ \A s \in Sessions :
                 /\ OffsetOrder(s)' /\ MarkCovers(s)' /\ NothingForgotten(s)'
                 /\ CheckpointOrder(s)' /\ BufferAhead(s)' /\ HonestReceipts(s)'
<1>1. UNCHANGED <<written, bound, live, mode, pc, todo, cur, parsed, buf, tools, regs, rcpt,
                  mem, disk, done, skipped, announced>>
  BY DEF envVars, monVars, readVars, storeVars, historyVars
<1>2. CyclesWhileUp'
  BY <1>1 DEF DeliveryInv, CyclesWhileUp
<1>3. ASSUME NEW s \in Sessions
      PROVE  /\ OffsetOrder(s)' /\ MarkCovers(s)' /\ NothingForgotten(s)'
             /\ CheckpointOrder(s)' /\ BufferAhead(s)' /\ HonestReceipts(s)'
  <2>1. OffsetOrder(s)'
    BY <1>1, <1>3, SteadyOffsets DEF DeliveryInv
  <2>2. MarkCovers(s)' /\ NothingForgotten(s)' /\ CheckpointOrder(s)' /\ BufferAhead(s)'
    BY <1>1, <1>3, SteadyReceipts DEF DeliveryInv
  <2>3. HonestReceipts(s)'
    BY <1>1, <1>3, SteadyHonesty DEF DeliveryInv
  <2> QED BY <2>1, <2>2, <2>3
<1> QED BY <1>2, <1>3

\* The worker takes the head of its queue.
LEMMA GetTaskInv ==
    ASSUME TypeOK, DeliveryInv, Faultless', NEW u \in Users, GetTask(u)
    PROVE  DeliveryInv'
<1>1. /\ queue[u] \in Seq(Task) /\ queue[u] # <<>>
      /\ queue \in [Users -> Seq(Task)] /\ worker \in [Users -> Worker]
      /\ worker' = [worker EXCEPT ![u] =
            [st |-> "ready", task |-> Head(queue[u]), batch |-> FALSE]]
      /\ queue' = [queue EXCEPT ![u] = Tail(@)]
  BY DEF GetTask, TypeOK
<1>2. /\ worker'[u].task = queue[u][1] /\ 1 \in 1..Len(queue[u])
      /\ \A v \in Users : v # u => worker'[v] = worker[v] /\ queue'[v] = queue[v]
  BY <1>1
<1>3. /\ Len(queue'[u]) = Len(queue[u]) - 1
      /\ \A k \in 1..Len(queue'[u]) : queue'[u][k] = queue[u][k + 1] /\ k + 1 \in 1..Len(queue[u])
  BY <1>1
<1>4. UNCHANGED notice /\ UNCHANGED mem
  BY DEF GetTask, ackVars, storeVars
<1>5. HonestTasks'
  <2>1. HonestTasks
    BY DEF DeliveryInv
  <2>2. \A v \in Users : OwesItsItems(worker'[v].task)
    BY <1>2, <2>1 DEF HonestTasks
  <2>3. \A v \in Users : \A k \in 1..Len(queue'[v]) :
          /\ OwesItsItems(queue'[v][k])
          /\ \A i \in queue'[v][k].owed : i <= queue'[v][k].cp
    <3> SUFFICES ASSUME NEW v \in Users, NEW k \in 1..Len(queue'[v])
                 PROVE  /\ OwesItsItems(queue'[v][k])
                        /\ \A i \in queue'[v][k].owed : i <= queue'[v][k].cp
      OBVIOUS
    <3>1. PICK l \in 1..Len(queue[v]) : queue'[v][k] = queue[v][l]
      BY <1>2, <1>3, SMTT(30)
    <3> QED BY <2>1, <3>1 DEF HonestTasks
  <2> QED BY <2>2, <2>3 DEF HonestTasks, OwesItsItems
<1>6. ASSUME NEW s \in Sessions PROVE OneNotice(s)'
  <2>1. OneNotice(s)
    BY <1>6 DEF DeliveryInv
  <2> DEFINE old(v, k) == IF v = u THEN k + 1 ELSE k
  <2>2. \A v \in Users : \A k \in 1..Len(queue'[v]) :
          /\ old(v, k) \in 1..Len(queue[v]) /\ ~(v = u /\ old(v, k) = 1)
          /\ NoticeQueued(s, v, k)' => NoticeQueued(s, v, old(v, k))
    BY <1>2, <1>3 DEF NoticeQueued
  <2>3. /\ NoticeHeld(s, u)' => NoticeQueued(s, u, 1)
        /\ \A v \in Users : v # u => (NoticeHeld(s, v)' => NoticeHeld(s, v))
    BY <1>2 DEF NoticeHeld, NoticeQueued
  <2>4. /\ notice'[s] # "none" => mem'[s].skip # NoSkip
        /\ \A v \in Users : NoticeHeld(s, v)' => notice'[s] = "pending"
    BY <1>2, <1>4, <2>1, <2>3 DEF OneNotice
  <2>5. \A v \in Users : \A k \in 1..Len(queue'[v]) :
          NoticeQueued(s, v, k)' => notice'[s] = "pending" /\ \A w \in Users : ~NoticeHeld(s, w)'
    <3> SUFFICES ASSUME NEW v \in Users, NEW k \in 1..Len(queue'[v]), NoticeQueued(s, v, k)',
                        NEW w \in Users
                 PROVE  notice'[s] = "pending" /\ ~NoticeHeld(s, w)'
      OBVIOUS
    <3> DEFINE o == old(v, k)
    <3>1. o \in 1..Len(queue[v]) /\ NoticeQueued(s, v, o) /\ ~(v = u /\ o = 1)
      BY <2>2
    <3> HIDE DEF o
    <3>2. notice[s] = "pending" /\ \A x \in Users : ~NoticeHeld(s, x)
      BY <2>1, <3>1 DEF OneNotice
    <3>3. ~NoticeQueued(s, u, 1)
      BY <1>2, <2>1, <3>1 DEF OneNotice
    <3> QED BY <1>4, <2>3, <3>2, <3>3
  <2>6. \A v, w \in Users : NoticeHeld(s, v)' /\ NoticeHeld(s, w)' => v = w
    BY <1>2, <2>1, <2>3 DEF OneNotice
  <2>7. \A v, w \in Users : \A k \in 1..Len(queue'[v]), l \in 1..Len(queue'[w]) :
          NoticeQueued(s, v, k)' /\ NoticeQueued(s, w, l)' => v = w /\ k = l
    <3> SUFFICES ASSUME NEW v \in Users, NEW w \in Users,
                        NEW k \in 1..Len(queue'[v]), NEW l \in 1..Len(queue'[w]),
                        NoticeQueued(s, v, k)', NoticeQueued(s, w, l)'
                 PROVE  v = w /\ k = l
      OBVIOUS
    <3>1. v = w /\ old(v, k) = old(w, l)
      BY <2>1, <2>2 DEF OneNotice
    <3> QED BY <3>1
  <2> QED BY <2>4, <2>5, <2>6, <2>7 DEF OneNotice
<1> QED BY <1>5, <1>6, SteadyRest DEF GetTask, DeliveryInv, ackVars

\* The worker starts to send, with the tasks it merged.
LEMMA BeginSendInv ==
    ASSUME TypeOK, DeliveryInv, Faultless', NEW u \in Users, BeginSend(u)
    PROVE  DeliveryInv'
<1> DEFINE t == worker[u].task
<1>1. PICK n \in 0..Len(queue[u]) :
        /\ \A j \in 1..n : CanMerge(t, queue[u][j])
        /\ worker' = [worker EXCEPT ![u] =
               [st |-> "sending", task |-> Merged(t, queue[u], n),
                batch |-> worker[u].batch \/ n > 0]]
        /\ queue' = [queue EXCEPT ![u] = SubSeq(@, n + 1, Len(@))]
  BY DEF BeginSend
<1>2. /\ queue[u] \in Seq(Task) /\ t \in Task
      /\ queue \in [Users -> Seq(Task)] /\ worker \in [Users -> Worker]
  BY DEF TypeOK, Worker
<1>3. /\ worker'[u].task = Merged(t, queue[u], n)
      /\ \A v \in Users : v # u => worker'[v] = worker[v] /\ queue'[v] = queue[v]
  BY <1>1, <1>2
<1>4. \A k \in 1..Len(queue'[u]) : queue'[u][k] = queue[u][k + n] /\ k + n \in 1..Len(queue[u])
  BY <1>1, <1>2
<1>5. UNCHANGED notice /\ UNCHANGED mem
  BY DEF BeginSend, ackVars, storeVars
<1>6. /\ worker'[u].task.notice = t.notice /\ worker'[u].task.sess = t.sess
      /\ worker'[u].task.items = t.items \cup UNION {queue[u][j].items : j \in 1..n}
      /\ worker'[u].task.owed = t.owed \cup UNION {queue[u][j].owed : j \in 1..n}
  BY <1>2, <1>3 DEF Merged, Task
<1>7. HonestTasks'
  <2>1. HonestTasks
    BY DEF DeliveryInv
  <2>2. OwesItsItems(worker'[u].task)
    <3>1. OwesItsItems(t) /\ \A j \in 1..n : OwesItsItems(queue[u][j])
      BY <2>1 DEF HonestTasks
    <3>2. t.notice => n = 0
      <4>1. n > 0 => CanMerge(t, queue[u][1])
        BY <1>1
      <4> QED BY <4>1 DEF CanMerge, OnlyKind
    <3>3. n = 0 => worker'[u].task.owed = t.owed
      BY <1>6
    <3> QED BY <1>6, <3>1, <3>2, <3>3 DEF OwesItsItems
  <2>3. \A v \in Users : OwesItsItems(worker'[v].task)
    BY <1>3, <2>1, <2>2 DEF HonestTasks
  <2>4. \A v \in Users : \A k \in 1..Len(queue'[v]) :
          /\ OwesItsItems(queue'[v][k])
          /\ \A i \in queue'[v][k].owed : i <= queue'[v][k].cp
    <3> SUFFICES ASSUME NEW v \in Users, NEW k \in 1..Len(queue'[v])
                 PROVE  /\ OwesItsItems(queue'[v][k])
                        /\ \A i \in queue'[v][k].owed : i <= queue'[v][k].cp
      OBVIOUS
    <3>1. PICK l \in 1..Len(queue[v]) : queue'[v][k] = queue[v][l]
      BY <1>3, <1>4
    <3> QED BY <2>1, <3>1 DEF HonestTasks
  <2> QED BY <2>3, <2>4 DEF HonestTasks, OwesItsItems
<1>8. ASSUME NEW s \in Sessions PROVE OneNotice(s)'
  <2>1. OneNotice(s)
    BY <1>8 DEF DeliveryInv
  <2> DEFINE old(v, k) == IF v = u THEN k + n ELSE k
  <2>2. \A v \in Users : \A k \in 1..Len(queue'[v]) :
          /\ old(v, k) \in 1..Len(queue[v])
          /\ NoticeQueued(s, v, k)' => NoticeQueued(s, v, old(v, k))
    BY <1>3, <1>4 DEF NoticeQueued
  <2>3. \A v \in Users : NoticeHeld(s, v)' => NoticeHeld(s, v)
    BY <1>3, <1>6 DEF NoticeHeld
  <2>4. /\ notice'[s] # "none" => mem'[s].skip # NoSkip
        /\ \A v \in Users : NoticeHeld(s, v)' => notice'[s] = "pending"
        /\ \A v, w \in Users : NoticeHeld(s, v)' /\ NoticeHeld(s, w)' => v = w
    BY <1>5, <2>1, <2>3 DEF OneNotice
  <2>5. \A v \in Users : \A k \in 1..Len(queue'[v]) :
          NoticeQueued(s, v, k)' => notice'[s] = "pending" /\ \A w \in Users : ~NoticeHeld(s, w)'
    <3> SUFFICES ASSUME NEW v \in Users, NEW k \in 1..Len(queue'[v]), NoticeQueued(s, v, k)'
                 PROVE  notice'[s] = "pending" /\ \A w \in Users : ~NoticeHeld(s, w)'
      OBVIOUS
    <3>1. PICK l \in 1..Len(queue[v]) : NoticeQueued(s, v, l)
      BY <2>2
    <3> QED BY <1>5, <2>1, <2>3, <3>1 DEF OneNotice
  <2>6. \A v, w \in Users : \A k \in 1..Len(queue'[v]), l \in 1..Len(queue'[w]) :
          NoticeQueued(s, v, k)' /\ NoticeQueued(s, w, l)' => v = w /\ k = l
    <3> SUFFICES ASSUME NEW v \in Users, NEW w \in Users,
                        NEW k \in 1..Len(queue'[v]), NEW l \in 1..Len(queue'[w]),
                        NoticeQueued(s, v, k)', NoticeQueued(s, w, l)'
                 PROVE  v = w /\ k = l
      OBVIOUS
    <3>1. v = w /\ old(v, k) = old(w, l)
      BY <2>1, <2>2 DEF OneNotice
    <3> QED BY <3>1
  <2> QED BY <2>4, <2>5, <2>6 DEF OneNotice
<1> QED BY <1>7, <1>8, SteadyRest DEF BeginSend, DeliveryInv, ackVars

\* A step of a queue worker.
LEMMA WorkerInv ==
    ASSUME TypeOK, DeliveryInv, Faultless', NEW u \in Users, WorkerStep(u)
    PROVE  DeliveryInv'
<1>1. CASE GetTask(u)
  BY <1>1, GetTaskInv
<1>2. CASE BeginSend(u)
  BY <1>2, BeginSendInv
<1>3. CASE DropStale(u) \/ DropHidden(u) \/ RefuseNotice(u) \/ Deliver(u)
  BY <1>3, SettleInv DEF DropStale, DropHidden, RefuseNotice, Deliver
<1>4. CASE FailSend(u)
  BY <1>4, SettleInv DEF FailSend
<1>5. CASE RetryAfter(u)
  <2>1. \A v \in Users : worker'[v].task = worker[v].task
    BY <1>5 DEF RetryAfter, TypeOK, Worker
  <2>2. HonestTasks' /\ \A s \in Sessions : OneNotice(s)'
    BY <1>5, <2>1, SteadyQueues DEF RetryAfter, ackVars, storeVars
  <2> QED BY <1>5, <2>2, SteadyRest DEF RetryAfter, DeliveryInv, ackVars
<1> QED BY <1>1, <1>2, <1>3, <1>4, <1>5 DEF WorkerStep

-----------------------------------------------------------------------------
(* The monitor's cycle.                                                    *)

\* Steps that only move the monitor along, look at the listing or wait.
LEMMA PassingInv ==
    ASSUME TypeOK, DeliveryInv, Faultless',
           UNCHANGED <<written, bound, mode, readVars, regs, rcpt, notice, storeVars,
                       queueVars, historyVars>>,
           CyclesWhileUp',
           pc' = pc \/ pc # "read"
    PROVE  DeliveryInv'
<1>1. UNCHANGED <<written, bound, mode, parsed, buf, tools, regs, rcpt, notice, mem, disk,
                  queue, worker, done, skipped, announced>>
  BY DEF readVars, storeVars, queueVars, historyVars
<1>2. HonestTasks' /\ \A s \in Sessions : OneNotice(s)'
  BY <1>1, SteadyQueues
<1>3. ASSUME NEW s \in Sessions
      PROVE  /\ OffsetOrder(s)' /\ MarkCovers(s)' /\ NothingForgotten(s)'
             /\ CheckpointOrder(s)' /\ BufferAhead(s)' /\ HonestReceipts(s)'
  <2>1. OffsetOrder(s)'
    BY <1>1, <1>3, SteadyOffsets DEF DeliveryInv
  <2>2. buf[s] = {} \/ pc' = pc
    BY <1>3 DEF DeliveryInv, BufferAhead
  <2>3. MarkCovers(s)' /\ NothingForgotten(s)' /\ CheckpointOrder(s)' /\ BufferAhead(s)'
    BY <1>1, <1>3, <2>2, SteadyReceipts DEF DeliveryInv
  <2>4. HonestReceipts(s)'
    BY <1>1, <1>3, SteadyHonesty DEF DeliveryInv
  <2> QED BY <2>1, <2>3, <2>4
<1> QED BY <1>2, <1>3 DEF DeliveryInv

\* Listings, phase changes, the start of a read and retry times.
LEMMA PhaseInv ==
    ASSUME TypeOK, DeliveryInv, Faultless',
           \/ \E L \in SUBSET Sessions : NoteLive(L)
           \/ \E s \in Sessions : BeginRead(s) \/ RetryDue(s)
           \/ EndResume \/ BeginReads \/ EndDispatch
    PROVE  DeliveryInv'
<1>0. CyclesWhileUp
  BY DEF DeliveryInv
<1>1. CASE \E L \in SUBSET Sessions : NoteLive(L)
  <2>1. PICK L \in SUBSET Sessions : NoteLive(L)
    BY <1>1
  <2>2. CyclesWhileUp'
    BY <2>1 DEF NoteLive, CyclesWhileUp
  <2> QED BY <2>1, <2>2, PassingInv DEF NoteLive, ackVars
<1>2. CASE \E s \in Sessions : BeginRead(s)
  <2>1. PICK s \in Sessions : BeginRead(s)
    BY <1>2
  <2>2. CyclesWhileUp'
    BY <1>0, <2>1 DEF BeginRead, CyclesWhileUp, envVars
  <2> QED BY <2>1, <2>2, PassingInv DEF BeginRead, envVars, ackVars
<1>3. CASE \E s \in Sessions : RetryDue(s)
  <2>1. PICK s \in Sessions : RetryDue(s)
    BY <1>3
  <2>2. CyclesWhileUp'
    BY <1>0, <2>1 DEF RetryDue, CyclesWhileUp, envVars, monVars
  <2> QED BY <2>1, <2>2, PassingInv DEF RetryDue, envVars, monVars, ackVars
<1>4. CASE EndResume
  <2>1. CyclesWhileUp'
    BY <1>0, <1>4 DEF EndResume, CyclesWhileUp, envVars
  <2> QED BY <1>4, <2>1, PassingInv DEF EndResume, envVars, ackVars
<1>5. CASE BeginReads
  <2>1. CyclesWhileUp'
    BY <1>0, <1>5 DEF BeginReads, CyclesWhileUp, envVars
  <2> QED BY <1>5, <2>1, PassingInv DEF BeginReads, envVars, ackVars
<1>6. CASE EndDispatch
  <2>1. CyclesWhileUp'
    BY <1>0, <1>6 DEF EndDispatch, CyclesWhileUp, envVars
  <2> QED BY <1>6, <2>1, PassingInv DEF EndDispatch, envVars, ackVars
<1> QED BY <1>1, <1>2, <1>3, <1>4, <1>5, <1>6

\* A read puts every new entry with a message into the buffer.
LEMMA FinishReadInv ==
    ASSUME TypeOK, DeliveryInv, Faultless', NEW s \in Sessions, FinishRead(s)
    PROVE  DeliveryInv'
<1> DEFINE new == NewEntries(s)
<1>1. /\ UNCHANGED <<written, bound, mode, pc, regs, rcpt, notice, mem, disk,
                     queue, worker, done, skipped, announced>>
      /\ pc = "read" /\ mode = "up"
  BY DEF FinishRead, envVars, ackVars, storeVars, queueVars, historyVars,
         DeliveryInv, CyclesWhileUp
<1>2. ~Spend("read") /\ Faultless
  BY DEF DeliveryInv, Faultless, Spend
<1>3. /\ parsed' = [parsed EXCEPT ![s] = Larger(@, written[s])]
      /\ buf' = [buf EXCEPT ![s] = @ \cup {i \in new : HasMessage(s, i)}]
      /\ UNCHANGED budget
  BY <1>2 DEF FinishRead
<1>4. HonestTasks' /\ \A r \in Sessions : OneNotice(r)'
  BY <1>1, SteadyQueues
<1>5. CyclesWhileUp'
  BY <1>1 DEF CyclesWhileUp
<1>6. /\ parsed[s] \in Nat /\ written[s] \in Nat /\ mem[s].wm \in Nat
      /\ OffsetOrder(s) /\ MarkCovers(s) /\ NothingForgotten(s)
      /\ CheckpointOrder(s) /\ BufferAhead(s) /\ HonestReceipts(s)
  BY DEF DeliveryInv, TypeOK, Offset, Tracked
<1>7. /\ parsed'[s] = written[s] /\ parsed[s] <= written[s]
      /\ buf'[s] = buf[s] \cup {i \in new : HasMessage(s, i)}
      /\ \A r \in Sessions : r # s => parsed'[r] = parsed[r] /\ buf'[r] = buf[r]
  BY <1>3, <1>6 DEF OffsetOrder, Larger, TypeOK
<1>8. OffsetOrder(s)'
  BY <1>1, <1>6, <1>7 DEF OffsetOrder, Current
<1>9. MarkCovers(s)' /\ HonestReceipts(s)'
  <2>1. MarkCovers(s)'
    BY <1>1, <1>6, HandledGrows DEF MarkCovers
  <2> QED BY <1>1, <1>6, <2>1, SteadyHonesty
<1>10. NothingForgotten(s)'
  <2> SUFFICES ASSUME NEW i \in (mem[s].wm + 1)..written[s]
               PROVE  Handled(s, i)' \/ i \in buf'[s] \/ i \in regs[s]
    BY <1>1, <1>7 DEF NothingForgotten
  <2>1. CASE i <= parsed[s]
    BY <1>1, <1>6, <1>7, <2>1, HandledGrows DEF NothingForgotten
  <2>2. CASE ~(i <= parsed[s])
    <3>1. i \in new
      BY <1>6, <2>2 DEF NewEntries
    <3>2. HasMessage(s, i) => i \in buf'[s]
      BY <1>7, <3>1
    <3>3. ~HasMessage(s, i) => Handled(s, i)'
      BY DEF Handled, HasMessage, KindOf
    <3> QED BY <3>2, <3>3
  <2> QED BY <2>1, <2>2
<1>11. CheckpointOrder(s)'
  <2>1. \A i \in regs[s] : rcpt[s][i].cp \in Nat
    BY NaturalNumbers
  <2> QED BY <1>1, <1>6, <1>7, <2>1 DEF CheckpointOrder
<1>12. BufferAhead(s)'
  <2> SUFFICES ASSUME NEW i \in buf'[s]
               PROVE  /\ mem[s].wm < i /\ i <= written[s]
                      /\ \A j \in regs[s] : rcpt[s][j].cp < i
    BY <1>1, <1>7 DEF BufferAhead
  <2>1. i \in Nat /\ \A j \in regs[s] : rcpt[s][j].cp \in Nat
    <3>1. \A j \in buf[s] \cup regs[s] : j \in Nat /\ rcpt[s][j].cp \in Nat
      BY NaturalNumbers
    <3>2. \A j \in new : j \in Nat
      BY <1>6 DEF NewEntries
    <3> QED BY <1>7, <3>1, <3>2
  <2>2. CASE i \in buf[s]
    BY <1>6, <1>7, <2>1, <2>2 DEF BufferAhead
  <2>3. CASE i \in new
    <3>1. parsed[s] < i /\ i <= written[s]
      BY <1>6, <2>3 DEF NewEntries
    <3>2. mem[s].wm <= parsed[s] /\ \A j \in regs[s] : rcpt[s][j].cp <= parsed[s]
      BY <1>6 DEF OffsetOrder, CheckpointOrder
    <3> QED BY <1>6, <2>1, <3>1, <3>2
  <2> QED BY <1>7, <2>2, <2>3
<1>13. ASSUME NEW r \in Sessions, r # s
       PROVE  /\ OffsetOrder(r)' /\ MarkCovers(r)' /\ NothingForgotten(r)'
              /\ CheckpointOrder(r)' /\ BufferAhead(r)' /\ HonestReceipts(r)'
  <2>1. OffsetOrder(r)'
    BY <1>1, <1>7, <1>13, SteadyOffsets DEF DeliveryInv
  <2>2. MarkCovers(r)' /\ NothingForgotten(r)' /\ CheckpointOrder(r)' /\ BufferAhead(r)'
    BY <1>1, <1>7, <1>13, SteadyReceipts DEF DeliveryInv
  <2>3. HonestReceipts(r)'
    BY <1>1, <1>13, SteadyHonesty DEF DeliveryInv
  <2> QED BY <2>1, <2>2, <2>3
<1> QED BY <1>4, <1>5, <1>8, <1>9, <1>10, <1>11, <1>12, <1>13 DEF DeliveryInv

\* Every buffered entry gets a receipt behind the registered ones.
LEMMA RegisterInv ==
    ASSUME TypeOK, DeliveryInv, Faultless', Register
    PROVE  DeliveryInv'
<1>1. /\ UNCHANGED <<written, bound, mode, parsed, notice, mem, queue, worker,
                     done, skipped, announced>>
      /\ pc = "read" /\ pc' = "dispatch" /\ mode = "up"
      /\ regs' = [s \in Sessions |-> regs[s] \cup buf[s]]
      /\ buf' = [s \in Sessions |-> {}]
      /\ disk' = mem \/ disk' = disk
  BY DEF Register, Save, envVars, queueVars, historyVars, DeliveryInv, CyclesWhileUp
<1>2. \A s \in Sessions, i \in Item :
        rcpt'[s][i] = IF i \in buf[s]
                      THEN [NoReceipt EXCEPT !.cp = parsed[s], !.left = Users]
                      ELSE rcpt[s][i]
  BY DEF Register
<1>3. HonestTasks' /\ \A r \in Sessions : OneNotice(r)'
  BY <1>1, SteadyQueues
<1>4. CyclesWhileUp'
  BY <1>1 DEF CyclesWhileUp
<1>5. ASSUME NEW s \in Sessions
      PROVE  /\ OffsetOrder(s)' /\ MarkCovers(s)' /\ NothingForgotten(s)'
             /\ CheckpointOrder(s)' /\ BufferAhead(s)' /\ HonestReceipts(s)'
  <2>1. /\ OffsetOrder(s) /\ MarkCovers(s) /\ NothingForgotten(s)
        /\ CheckpointOrder(s) /\ BufferAhead(s) /\ HonestReceipts(s)
    BY <1>5 DEF DeliveryInv
  <2>2. /\ parsed[s] \in Nat /\ mem[s].wm \in Nat
        /\ regs[s] \subseteq Item /\ buf[s] \subseteq Item
        /\ \A i \in regs[s] : i \in Nat /\ rcpt[s][i].cp \in Nat
        /\ \A i \in buf[s] : i \in Nat
    BY <1>5, NaturalNumbers
  <2>3. OffsetOrder(s)'
    <3>1. mem[s].wm <= parsed[s]
      BY <2>1 DEF OffsetOrder
    <3>2. CASE disk' = disk
      BY <1>1, <2>1, <3>2 DEF OffsetOrder, Current
    <3>3. CASE disk' = mem
      BY <1>1, <2>1, <2>2, <3>3 DEF OffsetOrder, Current
    <3> QED BY <1>1, <3>2, <3>3
  <2>4. MarkCovers(s)'
    BY <1>1, <2>1, HandledGrows DEF MarkCovers
  <2>5. regs'[s] = regs[s] \cup buf[s] /\ buf'[s] = {}
    BY <1>1, <1>5
  <2>6. NothingForgotten(s)'
    BY <1>1, <2>1, <2>5, HandledGrows DEF NothingForgotten
  <2>7. /\ \A i \in buf[s] : /\ rcpt'[s][i].cp = parsed[s] /\ rcpt'[s][i].left = Users
                             /\ ~rcpt'[s][i].closed
        /\ \A i \in regs[s] : i \notin buf[s] => rcpt'[s][i] = rcpt[s][i]
    BY <1>2, <1>5, <2>2 DEF NoReceipt
  <2>8. \A i \in regs[s] : i \notin buf[s]
    BY <2>1, <2>2 DEF BufferAhead, CheckpointOrder
  <2>9. CheckpointOrder(s)'
    <3>1. \A i \in regs'[s] :
            /\ mem[s].wm < i /\ i <= rcpt'[s][i].cp /\ rcpt'[s][i].cp <= parsed[s]
      BY <2>1, <2>2, <2>5, <2>7, <2>8 DEF CheckpointOrder, BufferAhead
    <3>2. ASSUME NEW i \in regs'[s], NEW j \in regs'[s]
          PROVE  /\ i <= j => rcpt'[s][i].cp <= rcpt'[s][j].cp
                 /\ rcpt'[s][i].cp < rcpt'[s][j].cp => rcpt'[s][i].cp < j
      <4>1. CASE i \in regs[s] /\ j \in regs[s]
        BY <2>1, <2>7, <2>8, <4>1 DEF CheckpointOrder
      <4>2. CASE i \in regs[s] /\ j \in buf[s]
        BY <2>1, <2>2, <2>7, <2>8, <4>2 DEF CheckpointOrder, BufferAhead
      <4>3. CASE i \in buf[s] /\ j \in regs[s]
        BY <2>1, <2>2, <2>7, <2>8, <4>3 DEF CheckpointOrder, BufferAhead
      <4>4. CASE i \in buf[s] /\ j \in buf[s]
        BY <2>2, <2>7, <4>4
      <4> QED BY <2>5, <3>2, <4>1, <4>2, <4>3, <4>4
    <3> QED BY <1>1, <3>1, <3>2 DEF CheckpointOrder
  <2>10. BufferAhead(s)'
    BY <2>5 DEF BufferAhead
  <2>11. HonestReceipts(s)'
    BY <1>1, <2>1, <2>5, <2>7, <2>8 DEF HonestReceipts
  <2> QED BY <2>3, <2>4, <2>6, <2>9, <2>10, <2>11
<1> QED BY <1>3, <1>4, <1>5 DEF DeliveryInv

\* A step that changes nothing but one receipt of s, and honestly so.
LEMMA OneReceiptInv ==
    ASSUME TypeOK, DeliveryInv, Faultless', NEW s \in Sessions, NEW i \in regs[s],
           UNCHANGED <<written, bound, mode, pc, parsed, buf, regs, mem, disk, skipped>>,
           HonestTasks', \A r \in Sessions : OneNotice(r)',
           \A u \in Users, r \in Sessions : done[u][r] \subseteq done'[u][r],
           \A r \in Sessions, j \in Item : r # s \/ j # i => rcpt'[r][j] = rcpt[r][j],
           rcpt'[s][i].cp = rcpt[s][i].cp,
           \/ rcpt'[s][i].failed
           \/ /\ rcpt'[s][i].closed => rcpt'[s][i].left = {}
              /\ rcpt'[s][i].failed = rcpt[s][i].failed
              /\ \A v \in Users :
                    v \in rcpt[s][i].left \cup rcpt[s][i].awaiting =>
                    v \in rcpt'[s][i].left \cup rcpt'[s][i].awaiting \/ i \in done'[v][s]
    PROVE  DeliveryInv'
<1>1. CyclesWhileUp'
  BY DEF DeliveryInv, CyclesWhileUp
<1>2. ASSUME NEW r \in Sessions
      PROVE  /\ OffsetOrder(r)' /\ MarkCovers(r)' /\ NothingForgotten(r)'
             /\ CheckpointOrder(r)' /\ BufferAhead(r)' /\ HonestReceipts(r)'
  <2>1. OffsetOrder(r)'
    BY <1>2, SteadyOffsets DEF DeliveryInv
  <2>2. regs[r] \subseteq Item
    BY <1>2 DEF TypeOK
  <2>3. \A j \in regs[r] : rcpt'[r][j].cp = rcpt[r][j].cp
    BY <1>2, <2>2
  <2>4. MarkCovers(r)' /\ NothingForgotten(r)' /\ CheckpointOrder(r)' /\ BufferAhead(r)'
    BY <1>2, <2>3, SteadyReceipts DEF DeliveryInv
  <2>5. HonestReceipts(r)
    BY <1>2 DEF DeliveryInv
  <2>6. CASE r # s
    <3>1. \A j \in regs[r] : rcpt'[r][j] = rcpt[r][j]
      BY <1>2, <2>2, <2>6
    <3> QED BY <1>2, <2>1, <2>4, <2>5, <3>1, SteadyHonesty
  <2>7. CASE r = s
    <3>1. \A j \in regs[s] : j # i => rcpt'[s][j] = rcpt[s][j]
      BY <1>2, <2>2, <2>7
    <3>2. HonestReceipts(s)'
      BY <2>5, <2>7, <3>1 DEF HonestReceipts
    <3> QED BY <2>1, <2>4, <2>7, <3>2
  <2> QED BY <2>6, <2>7
<1> QED BY <1>1, <1>2 DEF DeliveryInv

\* Appending a task that owes what it carries and is not a notice.
LEMMA AppendInv ==
    ASSUME TypeOK, DeliveryInv, NEW u \in Users, NEW t \in Task,
           OwesItsItems(t), ~t.notice, \A i \in t.owed : i <= t.cp,
           queue' = [queue EXCEPT ![u] = Append(@, t)],
           worker' = worker, notice' = notice, mem' = mem
    PROVE  HonestTasks' /\ \A s \in Sessions : OneNotice(s)'
<1>1. /\ queue[u] \in Seq(Task) /\ queue'[u] = Append(queue[u], t)
      /\ \A v \in Users : v # u => queue'[v] = queue[v]
  BY DEF TypeOK
<1>2. \A v \in Users : \A k \in 1..Len(queue'[v]) :
        \/ k \in 1..Len(queue[v]) /\ queue'[v][k] = queue[v][k]
        \/ queue'[v][k] = t
  BY <1>1
<1>3. HonestTasks'
  BY <1>2 DEF DeliveryInv, HonestTasks, OwesItsItems
<1>4. ASSUME NEW s \in Sessions PROVE OneNotice(s)'
  <2>1. \A v \in Users : \A k \in 1..Len(queue'[v]) :
          NoticeQueued(s, v, k)' => k \in 1..Len(queue[v]) /\ NoticeQueued(s, v, k)
    BY <1>2 DEF NoticeQueued
  <2>2. \A v \in Users : NoticeHeld(s, v)' = NoticeHeld(s, v)
    BY DEF NoticeHeld
  <2> QED BY <1>4, <2>1, <2>2 DEF DeliveryInv, OneNotice
<1> QED BY <1>3, <1>4

\* Routing the message of entry i to one recipient, and the end of its callback.
LEMMA RouteInv ==
    ASSUME TypeOK, DeliveryInv, Faultless', NEW s \in Sessions, NEW i \in Item,
           (\E u \in Users : Route(u, s, i)) \/ CloseReceipt(s, i) \/ RouteFails(s, i)
    PROVE  DeliveryInv'
<1>0. /\ IsNext(s, i) /\ i \in regs[s] /\ ~rcpt[s][i].closed
      /\ rcpt \in [Sessions -> [Item -> Receipt]] /\ rcpt[s][i] \in Receipt
  <2>1. IsNext(s, i)
    BY DEF Route, CloseReceipt, RouteFails
  <2>2. i \in regs[s] /\ ~rcpt[s][i].closed
    BY <2>1 DEF IsNext, Open
  <2> QED BY <2>1, <2>2 DEF TypeOK
<1>1. CASE \E u \in Users : Route(u, s, i)
  <2>1. PICK u \in Users : Route(u, s, i)
    BY <1>1
  <2>2. UNCHANGED <<written, bound, mode, budget, pc, parsed, buf, tools, regs, notice,
                    mem, disk, worker, skipped>>
    BY <2>1 DEF Route, envVars, readVars, storeVars
  <2>4. CASE /\ bound[u][s] # Unbound
             /\ queue' = [queue EXCEPT ![u] = Append(@, ContentTask(u, s, i))]
             /\ rcpt' = [[rcpt EXCEPT ![s][i].left = @ \ {u}]
                            EXCEPT ![s][i].awaiting = @ \cup {u}]
             /\ UNCHANGED done
    <3>1. ContentTask(u, s, i) \in Task
      BY <2>4 DEF ContentTask, Task, TypeOK, Receipt
    <3>2. i <= rcpt[s][i].cp
      BY <1>0 DEF DeliveryInv, CheckpointOrder
    <3>3. HonestTasks' /\ \A r \in Sessions : OneNotice(r)'
      BY <2>2, <2>4, <3>1, <3>2, AppendInv DEF ContentTask, OwesItsItems
    <3>4. /\ \A r \in Sessions, j \in Item : r # s \/ j # i => rcpt'[r][j] = rcpt[r][j]
          /\ rcpt'[s][i] = [rcpt[s][i] EXCEPT !.left = @ \ {u}, !.awaiting = @ \cup {u}]
      BY <1>0, <2>4 DEF Receipt
    <3>5. /\ rcpt'[s][i].cp = rcpt[s][i].cp /\ ~rcpt'[s][i].closed
          /\ rcpt'[s][i].failed = rcpt[s][i].failed
          /\ rcpt'[s][i].left = rcpt[s][i].left \ {u}
          /\ rcpt'[s][i].awaiting = rcpt[s][i].awaiting \cup {u}
      BY <1>0, <3>4 DEF Receipt
    <3>6. /\ \A v \in Users, r \in Sessions : done[v][r] \subseteq done'[v][r]
          /\ \A v \in Users : v \in rcpt[s][i].left \cup rcpt[s][i].awaiting =>
                v \in rcpt'[s][i].left \cup rcpt'[s][i].awaiting
      BY <2>4, <3>5
    <3>7. \A v \in Users, r \in Sessions : done[v][r] \subseteq done'[v][r]
      BY <3>6
    <3>8. /\ rcpt'[s][i].closed => rcpt'[s][i].left = {}
          /\ \A v \in Users :
                v \in rcpt[s][i].left \cup rcpt[s][i].awaiting =>
                v \in rcpt'[s][i].left \cup rcpt'[s][i].awaiting \/ i \in done'[v][s]
      BY <3>5, <3>6
    <3>9. \/ rcpt'[s][i].failed
          \/ /\ rcpt'[s][i].closed => rcpt'[s][i].left = {}
             /\ rcpt'[s][i].failed = rcpt[s][i].failed
             /\ \A v \in Users :
                   v \in rcpt[s][i].left \cup rcpt[s][i].awaiting =>
                   v \in rcpt'[s][i].left \cup rcpt'[s][i].awaiting \/ i \in done'[v][s]
      BY <3>5, <3>8
    <3>10. UNCHANGED <<written, bound, mode, pc, parsed, buf, regs, mem, disk, skipped>>
      BY <2>2
    <3> QED BY <1>0, <3>3, <3>4, <3>5, <3>7, <3>9, <3>10, OneReceiptInv, ZenonT(60)
  <2>5. CASE /\ rcpt' = [rcpt EXCEPT ![s][i].left = @ \ {u}]
             /\ done' = [done EXCEPT ![u][s] = @ \cup {i}]
             /\ UNCHANGED queue
    <3>1. HonestTasks' /\ \A r \in Sessions : OneNotice(r)'
      BY <2>2, <2>5, SteadyQueues
    <3>2. /\ \A r \in Sessions, j \in Item : r # s \/ j # i => rcpt'[r][j] = rcpt[r][j]
          /\ rcpt'[s][i] = [rcpt[s][i] EXCEPT !.left = @ \ {u}]
      BY <1>0, <2>5
    <3>3. /\ rcpt'[s][i].cp = rcpt[s][i].cp /\ ~rcpt'[s][i].closed
          /\ rcpt'[s][i].failed = rcpt[s][i].failed
          /\ rcpt'[s][i].left = rcpt[s][i].left \ {u}
          /\ rcpt'[s][i].awaiting = rcpt[s][i].awaiting
      BY <1>0, <3>2 DEF Receipt
    <3>4. /\ \A v \in Users, r \in Sessions : done[v][r] \subseteq done'[v][r]
          /\ i \in done'[u][s]
      BY <2>5 DEF TypeOK
    <3>5. /\ rcpt'[s][i].closed => rcpt'[s][i].left = {}
          /\ \A v \in Users :
                v \in rcpt[s][i].left \cup rcpt[s][i].awaiting =>
                v \in rcpt'[s][i].left \cup rcpt'[s][i].awaiting \/ i \in done'[v][s]
      BY <3>3, <3>4
    <3>6. \/ rcpt'[s][i].failed
          \/ /\ rcpt'[s][i].closed => rcpt'[s][i].left = {}
             /\ rcpt'[s][i].failed = rcpt[s][i].failed
             /\ \A v \in Users :
                   v \in rcpt[s][i].left \cup rcpt[s][i].awaiting =>
                   v \in rcpt'[s][i].left \cup rcpt'[s][i].awaiting \/ i \in done'[v][s]
      BY <3>3, <3>5
    <3>10. UNCHANGED <<written, bound, mode, pc, parsed, buf, regs, mem, disk, skipped>>
      BY <2>2
    <3> QED BY <1>0, <3>1, <3>2, <3>3, <3>4, <3>6, <3>10, OneReceiptInv, ZenonT(60)
  <2> QED BY <2>1, <2>4, <2>5 DEF Route
<1>2. CASE CloseReceipt(s, i)
  <2>1. /\ UNCHANGED <<written, bound, mode, budget, pc, parsed, buf, regs, notice, mem,
                       disk, queue, worker, done, skipped>>
        /\ rcpt' = [rcpt EXCEPT ![s][i].closed = TRUE] /\ rcpt[s][i].left = {}
    BY <1>2 DEF CloseReceipt, envVars, readVars, storeVars, queueVars, historyVars
  <2>3. HonestTasks' /\ \A r \in Sessions : OneNotice(r)'
    BY <2>1, SteadyQueues
  <2>4. /\ \A r \in Sessions, j \in Item : r # s \/ j # i => rcpt'[r][j] = rcpt[r][j]
        /\ rcpt'[s][i] = [rcpt[s][i] EXCEPT !.closed = TRUE]
    BY <1>0, <2>1
  <2>5. /\ rcpt'[s][i].cp = rcpt[s][i].cp /\ rcpt'[s][i].left = rcpt[s][i].left
        /\ rcpt'[s][i].failed = rcpt[s][i].failed
        /\ rcpt'[s][i].awaiting = rcpt[s][i].awaiting
    BY <1>0, <2>4 DEF Receipt
  <2> QED BY <1>0, <2>1, <2>3, <2>4, <2>5, OneReceiptInv, SMTT(30)
<1>3. CASE RouteFails(s, i)
  <2>1. /\ UNCHANGED <<written, bound, mode, pc, parsed, buf, regs, notice, mem,
                       disk, queue, worker, done, skipped>>
        /\ rcpt' = [rcpt EXCEPT ![s][i] = Abandoned(@)]
    BY <1>3 DEF RouteFails, envVars, readVars, storeVars, queueVars, historyVars
  <2>3. HonestTasks' /\ \A r \in Sessions : OneNotice(r)'
    BY <2>1, SteadyQueues
  <2>4. /\ \A r \in Sessions, j \in Item : r # s \/ j # i => rcpt'[r][j] = rcpt[r][j]
        /\ rcpt'[s][i] = Abandoned(rcpt[s][i])
    BY <1>0, <2>1
  <2>5. rcpt'[s][i].cp = rcpt[s][i].cp /\ rcpt'[s][i].failed
    BY <1>0, <2>4 DEF Receipt, Abandoned
  <2> QED BY <1>0, <2>1, <2>3, <2>4, <2>5, OneReceiptInv
<1> QED BY <1>1, <1>2, <1>3

-----------------------------------------------------------------------------
(* The watermark commit.                                                   *)

\* What a settled run says: every user is served for each of its entries.
LEMMA RunHandled ==
    ASSUME TypeOK, NEW s \in Sessions, HonestReceipts(s), NEW i \in CommitRun(s)
    PROVE  i \in regs[s] /\ Handled(s, i)
<1>1. mem[s].skip = NoSkip /\ i \in SettledPrefix(regs[s], rcpt[s])
  BY DEF CommitRun, Blocked
<1>2. i \in regs[s] /\ CommitReady(rcpt[s][i])
  <2>1. i \in regs[s] /\ i \in Int
    BY <1>1 DEF SettledPrefix, TypeOK, Item
  <2> QED BY <1>1, <2>1 DEF SettledPrefix
<1>3. \A u \in Users : i \in done[u][s]
  BY <1>1, <1>2 DEF HonestReceipts, CommitReady
<1> QED BY <1>2, <1>3 DEF Handled

\* The new mark: where it was, or the checkpoint of a settled entry such that
\* everything registered up to it belongs to the run.
LEMMA NewMarkCovers ==
    ASSUME TypeOK, NEW s \in Sessions, OffsetOrder(s), CheckpointOrder(s)
    PROVE  /\ mem[s].wm <= NewMark(s) /\ NewMark(s) <= parsed[s]
           /\ NewMark(s) # mem[s].wm =>
                 /\ mem[s].skip = NoSkip
                 /\ \E k \in regs[s] : k <= NewMark(s) /\ rcpt[s][k].cp = NewMark(s)
                 /\ \A i \in regs[s] : i <= NewMark(s) => i \in CommitRun(s)
<1>1. CASE CommitOffset(s) = {}
  BY <1>1 DEF NewMark, OffsetOrder, TypeOK, Tracked, Offset
<1>2. CASE CommitOffset(s) # {}
  <2>1. NewMark(s) \in CommitOffset(s)
    BY <1>2 DEF NewMark
  <2>2. /\ ~Blocked(s) /\ NewMark(s) \in SettledRunOffset(regs[s], rcpt[s])
        /\ CommitRun(s) = SettledPrefix(regs[s], rcpt[s])
    BY <2>1 DEF CommitOffset, CommitRun
  <2>3. PICK k \in RunBelowFence(regs[s], rcpt[s]) : NewMark(s) = rcpt[s][k].cp
    BY <2>2 DEF SettledRunOffset
  <2>4. k \in regs[s] /\ \A f \in Fence(regs[s], rcpt[s]) : rcpt[s][k].cp < rcpt[s][f].cp
    BY <2>3 DEF RunBelowFence, SettledPrefix
  <2>5. /\ regs[s] \in SUBSET Nat /\ mem[s].wm \in Nat /\ parsed[s] \in Nat
        /\ \A i \in regs[s] : i \in Nat /\ rcpt[s][i].cp \in Nat
    BY NaturalNumbers
  <2>6. mem[s].wm < k /\ k <= NewMark(s) /\ NewMark(s) <= parsed[s]
    BY <2>3, <2>4 DEF CheckpointOrder
  <2>7. ASSUME NEW i \in regs[s], i <= NewMark(s), i \notin CommitRun(s) PROVE FALSE
    <3>1. PICK f \in Fence(regs[s], rcpt[s]) : f <= i
      BY <2>2, <2>5, <2>7, FenceExists
    <3>2. f \in regs[s] /\ rcpt[s][k].cp < rcpt[s][f].cp
      BY <2>4, <3>1 DEF Fence
    <3>3. rcpt[s][k].cp < f
      BY <2>4, <3>2 DEF CheckpointOrder
    <3> QED BY <2>3, <2>4, <2>5, <2>7, <3>1, <3>2, <3>3
  <2>8. mem[s].skip = NoSkip
    BY <2>2 DEF Blocked
  <2>9. mem[s].wm <= NewMark(s)
    BY <2>3, <2>4, <2>5, <2>6
  <2> QED BY <2>3, <2>4, <2>6, <2>7, <2>8, <2>9
<1> QED BY <1>1, <1>2

\* Committing moves the watermark over handled entries and retires their receipts.
LEMMA CommitInv ==
    ASSUME TypeOK, DeliveryInv, Faultless', CommitWatermarks
    PROVE  DeliveryInv'
<1>1. /\ UNCHANGED <<written, bound, parsed, buf, notice, queue, worker,
                     done, skipped, announced>>
      /\ pc = "resettle" /\ pc' \in {"idle", "off"}
      /\ mode # "up" => mode' # "up"
      /\ disk' = mem' \/ disk' = disk
      /\ regs' = [s \in Sessions |-> regs[s] \ CommitRun(s)]
  BY DEF CommitWatermarks, Save, readVars, queueVars, historyVars
<1>2. /\ \A s \in Sessions : mem'[s] = [mem[s] EXCEPT !.wm = NewMark(s)]
      /\ \A s \in Sessions, i \in Item : i \notin CommitRun(s) => rcpt'[s][i] = rcpt[s][i]
  BY DEF CommitWatermarks
<1>3. \A s \in Sessions : mem'[s].skip = mem[s].skip /\ mem'[s].wm = NewMark(s)
  <2> TAKE s \in Sessions
  <2>1. mem[s] \in Tracked /\ mem'[s] = [mem[s] EXCEPT !.wm = NewMark(s)]
    BY <1>2 DEF TypeOK
  <2> QED BY <2>1 DEF Tracked
<1>4. HonestTasks' /\ \A s \in Sessions : OneNotice(s)'
  BY <1>1, <1>3, SteadyQueues
<1>5. CyclesWhileUp'
  BY <1>1 DEF CyclesWhileUp
<1>6. ASSUME NEW s \in Sessions
      PROVE  /\ OffsetOrder(s)' /\ MarkCovers(s)' /\ NothingForgotten(s)'
             /\ CheckpointOrder(s)' /\ BufferAhead(s)' /\ HonestReceipts(s)'
  <2> DEFINE mark == NewMark(s)
             run == CommitRun(s)
  <2>1. /\ OffsetOrder(s) /\ MarkCovers(s) /\ NothingForgotten(s)
        /\ CheckpointOrder(s) /\ BufferAhead(s) /\ HonestReceipts(s)
    BY <1>6 DEF DeliveryInv
  <2>2. /\ mem[s].wm <= mark /\ mark <= parsed[s]
        /\ mark # mem[s].wm =>
              /\ mem[s].skip = NoSkip
              /\ \E k \in regs[s] : k <= mark /\ rcpt[s][k].cp = mark
              /\ \A i \in regs[s] : i <= mark => i \in run
    BY <1>6, <2>1, NewMarkCovers
  <2>3. \A i \in run : i \in regs[s] /\ Handled(s, i)
    BY <1>6, <2>1, RunHandled
  <2>4. mark \in Offset
    BY <1>6, NewMarkType
  <2>5. mem'[s].wm = mark /\ mem'[s].skip = mem[s].skip /\ regs'[s] = regs[s] \ run
    BY <1>1, <1>3, <1>6
  <2> HIDE DEF mark, run
  <2>6. buf[s] = {} /\ buf'[s] = {}
    BY <1>1, <2>1 DEF BufferAhead
  <2>7. /\ mem[s].wm \in Nat /\ parsed[s] \in Nat /\ mark \in Nat /\ disk[s].wm \in Nat
        /\ written[s] \in Nat /\ regs[s] \subseteq Item
    BY <1>6, <2>4, NaturalNumbers DEF Offset
  <2>8. \A i \in Item : i \in Nat /\ rcpt[s][i].cp \in Nat
    BY <1>6, NaturalNumbers
  <2>9. \A i \in regs'[s] : i \in regs[s] /\ i \in Item /\ rcpt'[s][i] = rcpt[s][i]
    BY <1>2, <1>6, <2>5, <2>7 DEF run
  <2>10. OffsetOrder(s)'
    <3>1. disk'[s].wm <= mark /\ mark <= parsed[s]
      BY <1>1, <2>1, <2>2, <2>5, <2>7 DEF OffsetOrder
    <3>2. mem[s].skip # NoSkip => mark = mem[s].wm
      BY <2>2
    <3>3. mem'[s].skip # NoSkip =>
             /\ mem'[s].wm <= mem'[s].skip.snap /\ mem'[s].skip.snap <= written[s]
             /\ Current(s, mem'[s].skip)
      BY <2>1, <2>5, <3>2 DEF OffsetOrder
    <3>4. disk'[s].skip # NoSkip =>
             /\ disk'[s].wm <= disk'[s].skip.snap /\ disk'[s].skip.snap <= written[s]
             /\ Current(s, disk'[s].skip)
      <4>1. CASE disk' = disk
        BY <2>1, <4>1 DEF OffsetOrder
      <4>2. CASE disk' = mem'
        BY <3>3, <4>2
      <4> QED BY <1>1, <4>1, <4>2
    <3>5. Current(s, mem'[s].skip) = Current(s, mem[s].skip)'
      BY <1>1, <2>5 DEF Current
    <3> QED BY <1>1, <2>1, <2>5, <3>1, <3>3, <3>4 DEF OffsetOrder, Current
  <2>11. \A i : Handled(s, i) => Handled(s, i)'
    BY <1>1, HandledGrows
  <2>12. ASSUME NEW i \in (mem[s].wm + 1)..parsed[s], i <= mark PROVE Handled(s, i)
    <3>1. PICK k \in regs[s] : k <= mark /\ rcpt[s][k].cp = mark
      BY <2>2, <2>7, <2>12
    <3>2. ~(rcpt[s][k].cp < i)
      BY <2>7, <2>12, <3>1
    <3>3. Handled(s, i) \/ i \in regs[s]
      BY <2>1, <2>6, <3>1, <3>2 DEF NothingForgotten
    <3>4. i \in regs[s] => i \in run
      BY <2>2, <2>7, <2>12
    <3> QED BY <2>3, <3>3, <3>4
  <2>13. MarkCovers(s)'
    <3>1. ASSUME NEW i \in 1..mark PROVE Handled(s, i)
      <4>1. CASE i <= mem[s].wm
        BY <2>1, <2>7, <4>1 DEF MarkCovers
      <4>2. CASE ~(i <= mem[s].wm)
        <5>1. i \in (mem[s].wm + 1)..parsed[s] /\ i <= mark
          BY <2>2, <2>7, <3>1, <4>2
        <5> QED BY <2>12, <5>1
      <4> QED BY <4>1, <4>2
    <3> QED BY <2>5, <2>11, <3>1 DEF MarkCovers
  <2>14. NothingForgotten(s)'
    <3> SUFFICES ASSUME NEW i \in (mark + 1)..parsed[s]
                 PROVE  \/ Handled(s, i)' \/ i \in regs'[s]
                        \/ mode' # "up" /\ \A j \in regs'[s] : rcpt'[s][j].cp < i
      BY <1>1, <2>5 DEF NothingForgotten
    <3>1. i \in (mem[s].wm + 1)..parsed[s]
      BY <2>2, <2>7
    <3>2. \/ Handled(s, i) \/ i \in regs[s]
          \/ mode # "up" /\ \A j \in regs[s] : rcpt[s][j].cp < i
      BY <2>1, <2>6, <3>1 DEF NothingForgotten
    <3> QED BY <1>1, <2>3, <2>5, <2>9, <2>11, <3>2
  <2>15. CheckpointOrder(s)'
    <3>1. ASSUME NEW i \in regs'[s] PROVE mark < i
      <4>1. i \in regs[s] /\ i \notin run /\ i \in Nat
        BY <2>5, <2>8, <2>9, <3>1
      <4>2. CASE mark = mem[s].wm
        BY <2>1, <4>1, <4>2 DEF CheckpointOrder
      <4>3. CASE mark # mem[s].wm
        BY <2>2, <2>7, <4>1, <4>3
      <4> QED BY <4>2, <4>3
    <3>2. \A i \in regs'[s] : i <= rcpt'[s][i].cp /\ rcpt'[s][i].cp <= parsed[s]
      BY <2>1, <2>9 DEF CheckpointOrder
    <3>3. \A i, j \in regs'[s] :
             /\ i <= j => rcpt'[s][i].cp <= rcpt'[s][j].cp
             /\ rcpt'[s][i].cp < rcpt'[s][j].cp => rcpt'[s][i].cp < j
      BY <2>1, <2>9 DEF CheckpointOrder
    <3> QED BY <1>1, <2>5, <3>1, <3>2, <3>3 DEF CheckpointOrder
  <2>16. BufferAhead(s)'
    BY <2>6 DEF BufferAhead
  <2>17. HonestReceipts(s)'
    BY <1>1, <2>1, <2>5, <2>9 DEF HonestReceipts
  <2> QED BY <2>10, <2>13, <2>14, <2>15, <2>16, <2>17
<1> QED BY <1>4, <1>5, <1>6 DEF DeliveryInv

-----------------------------------------------------------------------------
(* Skips.                                                                  *)

\* r keeps some of q's tasks, each once.
KeepsSome(q, r) ==
    \E p \in [1..Len(r) -> 1..Len(q)] :
        /\ \A k \in 1..Len(r) : r[k] = q[p[k]]
        /\ \A j, k \in 1..Len(r) : p[j] = p[k] => j = k

\* A purge keeps some tasks.
LEMMA PurgedKeepsSome ==
    ASSUME NEW q \in Seq(Task), NEW s, NEW n, NEW r \in Purged(q, s, n)
    PROVE  r \in Seq(Task) /\ KeepsSome(q, r)
<1> DEFINE kept == {k \in 1..Len(q) : ~Purgeable(q[k], s, n)}
           size == Cardinality(kept)
<1>1. size \in Nat
  <2>1. IsFiniteSet(1..Len(q))
    BY FS_Interval
  <2>2. IsFiniteSet(kept)
    BY <2>1, FS_Subset
  <2> QED BY <2>2, FS_CardinalityType
<1>2. PICK p \in [1..size -> kept] :
        /\ r = [k \in 1..size |-> q[p[k]]]
        /\ \A j, k \in 1..size : j < k => p[j] < p[k]
  BY DEF Purged
<1>3. r \in Seq(Task)
  BY PurgedType
<1> HIDE DEF size
<1>4. Len(r) = size
  BY <1>1, <1>2, <1>3
<1>5. p \in [1..Len(r) -> 1..Len(q)]
  BY <1>2, <1>4
<1>6. \A k \in 1..Len(r) : r[k] = q[p[k]]
  BY <1>2, <1>4
<1>7. \A j, k \in 1..Len(r) : p[j] = p[k] => j = k
  <2> SUFFICES ASSUME NEW j \in 1..size, NEW k \in 1..size, p[j] = p[k]
               PROVE  j = k
    BY <1>4
  <2>1. p[j] \in Int /\ p[k] \in Int
    BY <1>2
  <2>2. ~(j < k) /\ ~(k < j)
    BY <1>2, <2>1
  <2> QED BY <1>1, <2>2
<1> QED BY <1>3, <1>5, <1>6, <1>7 DEF KeepsSome

\* Any queue keeps all of its tasks.
LEMMA KeepsAll ==
    ASSUME NEW q \in Seq(Task)
    PROVE  KeepsSome(q, q)
<1> DEFINE p == [k \in 1..Len(q) |-> k]
<1>1. p \in [1..Len(q) -> 1..Len(q)] /\ \A k \in 1..Len(q) : p[k] = k
  OBVIOUS
<1> QED BY <1>1 DEF KeepsSome

\* What a purge retires ends at or before the frozen offset.
LEMMA PurgedBelowSnapshot ==
    ASSUME TypeOK, HonestTasks, NEW s, NEW n \in Intent, NEW i \in PurgedItems(queue[n.user], s, n)
    PROVE  i <= n.snap
<1> DEFINE q == queue[n.user]
<1>1. n.user \in Users /\ n.snap \in Nat
  BY DEF Intent, Offset
<1>2. PICK k \in 1..Len(q) : Purgeable(q[k], s, n) /\ i \in q[k].owed
  BY DEF PurgedItems
<1>3. q[k] \in Task
  BY <1>1 DEF TypeOK
<1>4. i <= q[k].cp /\ q[k].cp <= n.snap
  BY <1>1, <1>2 DEF Purgeable, HonestTasks
<1>5. i \in Nat /\ q[k].cp \in Nat
  BY <1>2, <1>3 DEF Task, Item, Offset
<1> QED BY <1>1, <1>4, <1>5

\* The queue of one user is thinned out and a notice for s possibly appended.
LEMMA NotifyInv ==
    ASSUME TypeOK, DeliveryInv, NEW s \in Sessions, NEW n \in Intent,
           NEW q \in Seq(Task), KeepsSome(queue[n.user], q),
           \/ queue' = [queue EXCEPT ![n.user] = q] /\ notice' = notice
           \/ /\ queue' = [queue EXCEPT ![n.user] = Append(q, NoticeTask(s, n))]
              /\ notice[s] = "none" /\ notice' = [notice EXCEPT ![s] = "pending"],
           worker' = worker, mem'[s].skip # NoSkip,
           \A r \in Sessions : r # s => mem'[r] = mem[r]
    PROVE  HonestTasks' /\ \A r \in Sessions : OneNotice(r)'
<1> DEFINE x == n.user
<1>1. x \in Users /\ queue \in [Users -> Seq(Task)] /\ notice \in [Sessions -> NoticeState]
  BY DEF TypeOK, Intent
<1>2. PICK p \in [1..Len(q) -> 1..Len(queue[x])] :
        /\ \A k \in 1..Len(q) : q[k] = queue[x][p[k]]
        /\ \A j, k \in 1..Len(q) : p[j] = p[k] => j = k
  BY DEF KeepsSome
<1> DEFINE old(v, k) == IF v = x THEN p[k] ELSE k
           added(v, k) == v = x /\ k = Len(q) + 1
<1>3. \A v \in Users : v # x => queue'[v] = queue[v]
  BY <1>1
<1>4. CASE queue' = [queue EXCEPT ![x] = q] /\ notice' = notice
  <2>1. queue'[x] = q
    BY <1>1, <1>4
  <2>2. \A v \in Users : \A k \in 1..Len(queue'[v]) :
          old(v, k) \in 1..Len(queue[v]) /\ queue'[v][k] = queue[v][old(v, k)]
    BY <1>2, <1>3, <2>1
  <2>3. \A v \in Users : \A j, k \in 1..Len(queue'[v]) : old(v, j) = old(v, k) => j = k
    BY <1>2, <2>1
  <2> HIDE DEF old
  <2>4. HonestTasks'
    <3>1. ASSUME NEW v \in Users, NEW k \in 1..Len(queue'[v])
          PROVE  /\ OwesItsItems(queue'[v][k])
                 /\ \A i \in queue'[v][k].owed : i <= queue'[v][k].cp
      <4>1. PICK l \in 1..Len(queue[v]) : queue'[v][k] = queue[v][l]
        BY <2>2, <3>1
      <4> QED BY <3>1, <4>1 DEF DeliveryInv, HonestTasks
    <3>2. \A v \in Users : OwesItsItems(worker'[v].task)
      BY DEF DeliveryInv, HonestTasks
    <3> QED BY <3>1, <3>2 DEF HonestTasks, OwesItsItems
  <2>5. ASSUME NEW r \in Sessions PROVE OneNotice(r)'
    <3>1. OneNotice(r) /\ (mem'[r].skip # NoSkip \/ mem'[r].skip = mem[r].skip)
      BY <2>5 DEF DeliveryInv
    <3>2. \A v \in Users : \A k \in 1..Len(queue'[v]) :
            NoticeQueued(r, v, k)' => NoticeQueued(r, v, old(v, k)) /\ old(v, k) \in 1..Len(queue[v])
      BY <2>2 DEF NoticeQueued
    <3>3. \A v \in Users : NoticeHeld(r, v)' = NoticeHeld(r, v)
      BY DEF NoticeHeld
    <3> QED BY <1>4, <2>3, <2>5, <3>1, <3>2, <3>3 DEF DeliveryInv, OneNotice
  <2> QED BY <2>4, <2>5
<1>5. CASE /\ queue' = [queue EXCEPT ![x] = Append(q, NoticeTask(s, n))]
           /\ notice[s] = "none" /\ notice' = [notice EXCEPT ![s] = "pending"]
  <2>1. queue'[x] = Append(q, NoticeTask(s, n)) /\ notice'[s] = "pending"
    BY <1>1, <1>5
  <2>2. \A v \in Users : \A k \in 1..Len(queue'[v]) :
          \/ added(v, k) /\ queue'[v][k] = NoticeTask(s, n)
          \/ /\ ~added(v, k)
             /\ old(v, k) \in 1..Len(queue[v]) /\ queue'[v][k] = queue[v][old(v, k)]
    BY <1>2, <1>3, <2>1, SMTT(30)
  <2>3. \A v \in Users : \A j, k \in 1..Len(queue'[v]) :
          ~added(v, j) /\ ~added(v, k) /\ old(v, j) = old(v, k) => j = k
    BY <1>2, <2>1
  <2>4. \A v, w \in Users : \A j, k : added(v, j) /\ added(w, k) => v = w /\ j = k
    OBVIOUS
  <2> HIDE DEF old, added
  <2>5. HonestTasks'
    <3>1. OwesItsItems(NoticeTask(s, n)) /\ NoticeTask(s, n).owed = {}
      BY DEF OwesItsItems, NoticeTask
    <3> QED BY <2>2, <3>1 DEF DeliveryInv, HonestTasks, OwesItsItems
  <2>6. ASSUME NEW r \in Sessions PROVE OneNotice(r)'
    <3>1. OneNotice(r)
      BY <2>6 DEF DeliveryInv
    <3>2. \A v \in Users : NoticeHeld(r, v)' = NoticeHeld(r, v)
      BY DEF NoticeHeld
    <3>3. NoticeTask(s, n).sess = s
      BY DEF NoticeTask
    <3>4. CASE r # s
      <4>1. notice'[r] = notice[r] /\ mem'[r] = mem[r]
        BY <1>1, <1>5, <2>6, <3>4
      <4>2. \A v \in Users : \A k \in 1..Len(queue'[v]) :
              NoticeQueued(r, v, k)' =>
                /\ ~added(v, k)
                /\ NoticeQueued(r, v, old(v, k)) /\ old(v, k) \in 1..Len(queue[v])
        BY <2>2, <3>3, <3>4 DEF NoticeQueued
      <4> QED BY <2>3, <3>1, <3>2, <4>1, <4>2 DEF OneNotice
    <3>5. CASE r = s
      <4>1. /\ \A v \in Users : ~NoticeHeld(s, v)'
            /\ \A v \in Users : \A k \in 1..Len(queue[v]) : ~NoticeQueued(s, v, k)
        BY <1>5, <3>1, <3>2, <3>5 DEF OneNotice
      <4>2. \A v \in Users : \A k \in 1..Len(queue'[v]) : NoticeQueued(s, v, k)' => added(v, k)
        BY <2>2, <4>1 DEF NoticeQueued
      <4> QED BY <2>1, <2>4, <3>5, <4>1, <4>2 DEF OneNotice
    <3> QED BY <3>4, <3>5
  <2> QED BY <2>5, <2>6
<1> QED BY <1>4, <1>5

\* What setting and preparing the barrier n does to barriers, queues and receipts,
\* when memory already shows it as m and the file as d.
BarrierEffects(s, n, m, d) ==
    /\ mem'[s].wm = m[s].wm /\ mem'[s].skip \in Intent
    /\ mem'[s].skip.user = n.user /\ mem'[s].skip.topic = n.topic
    /\ mem'[s].skip.snap = n.snap
    /\ \A r \in Sessions : r # s => mem'[r] = m[r]
    /\ disk' = d \/ disk' = mem'
    /\ \E q \in Seq(Task) :
          /\ KeepsSome(queue[n.user], q)
          /\ \/ queue' = [queue EXCEPT ![n.user] = q] /\ notice' = notice
             \/ /\ queue' = [queue EXCEPT ![n.user] = Append(q, NoticeTask(s, n))]
                /\ notice[s] = "none" /\ notice' = [notice EXCEPT ![s] = "pending"]
    /\ \A r \in Sessions, i \in Item :
          /\ rcpt'[r][i].cp = rcpt[r][i].cp /\ rcpt'[r][i].left = rcpt[r][i].left
          /\ rcpt'[r][i].closed = rcpt[r][i].closed
          /\ rcpt'[r][i].failed = rcpt[r][i].failed
          /\ \A v \in rcpt[r][i].awaiting :
                v \in rcpt'[r][i].awaiting \/ (r = s /\ i <= n.snap)

\* Preparing a barrier has these effects.
LEMMA PrepareEffects ==
    ASSUME TypeOK, DeliveryInv, NEW s \in Sessions, NEW n \in Intent,
           NEW m \in [Sessions -> Tracked], NEW d, NEW b,
           m[s].skip = n, PrepareSkip(s, n, m, d, b)
    PROVE  BarrierEffects(s, n, m, d)
<1>0. n.user \in Users /\ queue[n.user] \in Seq(Task)
  BY DEF Intent, TypeOK
<1>1. CASE n.purged
  <2>1. mem' = m /\ disk' = d /\ rcpt' = rcpt /\ Notify(s, n, queue[n.user])
    BY <1>1 DEF PrepareSkip
  <2>2. KeepsSome(queue[n.user], queue[n.user])
    BY <1>0, KeepsAll
  <2>3. \/ queue' = [queue EXCEPT ![n.user] = queue[n.user]] /\ notice' = notice
        \/ /\ queue' = [queue EXCEPT ![n.user] = Append(queue[n.user], NoticeTask(s, n))]
           /\ notice[s] = "none" /\ notice' = [notice EXCEPT ![s] = "pending"]
    BY <2>1 DEF Notify
  <2> QED BY <1>0, <2>1, <2>2, <2>3 DEF BarrierEffects
<1>2. CASE ~n.purged
  <2> DEFINE retired == PurgedItems(queue[n.user], s, n)
             marked == [n EXCEPT !.purged = TRUE]
  <2>1. /\ rcpt' = [rcpt EXCEPT ![s] = [i \in Item |->
              IF i \in retired THEN Settled(rcpt[s][i], n.user, "dropped") ELSE rcpt[s][i]]]
        /\ \E q \in Purged(queue[n.user], s, n) :
              \/ mem' = WithSkip(m, s, marked) /\ disk' = mem' /\ Notify(s, n, q)
              \/ /\ mem' = m /\ disk' = d
                 /\ queue' = [queue EXCEPT ![n.user] = q] /\ UNCHANGED notice
    BY <1>2 DEF PrepareSkip
  <2>2. marked \in Intent /\ marked.user = n.user /\ marked.topic = n.topic
        /\ marked.snap = n.snap
    BY DEF Intent
  <2>3. /\ WithSkip(m, s, marked)[s].wm = m[s].wm
        /\ WithSkip(m, s, marked)[s].skip = marked
        /\ \A r \in Sessions : r # s => WithSkip(m, s, marked)[r] = m[r]
    BY DEF WithSkip, Tracked
  <2> HIDE DEF marked
  <2>4. PICK q \in Purged(queue[n.user], s, n) :
          \/ mem' = WithSkip(m, s, marked) /\ disk' = mem' /\ Notify(s, n, q)
          \/ /\ mem' = m /\ disk' = d
             /\ queue' = [queue EXCEPT ![n.user] = q] /\ UNCHANGED notice
    BY <2>1
  <2>5. q \in Seq(Task) /\ KeepsSome(queue[n.user], q)
    BY <1>0, PurgedKeepsSome
  <2>6. \A i \in retired : i <= n.snap
    BY PurgedBelowSnapshot DEF DeliveryInv
  <2>7. ASSUME NEW r \in Sessions, NEW i \in Item
        PROVE  /\ rcpt'[r][i].cp = rcpt[r][i].cp /\ rcpt'[r][i].left = rcpt[r][i].left
               /\ rcpt'[r][i].closed = rcpt[r][i].closed
               /\ rcpt'[r][i].failed = rcpt[r][i].failed
               /\ \A v \in rcpt[r][i].awaiting :
                     v \in rcpt'[r][i].awaiting \/ (r = s /\ i <= n.snap)
    <3>1. /\ rcpt[r][i] \in Receipt
          /\ \/ rcpt'[r][i] = rcpt[r][i]
             \/ /\ rcpt'[r][i] = Settled(rcpt[r][i], n.user, "dropped")
                /\ r = s /\ i \in retired
      BY <2>1, <2>7 DEF TypeOK
    <3>2. CASE rcpt'[r][i] = rcpt[r][i]
      BY <3>1, <3>2
    <3>3. CASE rcpt'[r][i] = Settled(rcpt[r][i], n.user, "dropped") /\ r = s /\ i \in retired
      <4>1. i <= n.snap
        BY <2>6, <3>3
      <4>2. /\ rcpt'[r][i].cp = rcpt[r][i].cp /\ rcpt'[r][i].left = rcpt[r][i].left
            /\ rcpt'[r][i].closed = rcpt[r][i].closed
            /\ rcpt'[r][i].failed = rcpt[r][i].failed
        BY <3>1, <3>3 DEF Settled, Receipt
      <4> QED BY <3>3, <4>1, <4>2
    <3> QED BY <3>1, <3>2, <3>3
  <2>8. /\ mem'[s].wm = m[s].wm /\ mem'[s].skip \in Intent
        /\ mem'[s].skip.user = n.user /\ mem'[s].skip.topic = n.topic
        /\ mem'[s].skip.snap = n.snap
        /\ \A r \in Sessions : r # s => mem'[r] = m[r]
        /\ disk' = d \/ disk' = mem'
    BY <2>2, <2>3, <2>4
  <2>9. \/ queue' = [queue EXCEPT ![n.user] = q] /\ notice' = notice
        \/ /\ queue' = [queue EXCEPT ![n.user] = Append(q, NoticeTask(s, n))]
           /\ notice[s] = "none" /\ notice' = [notice EXCEPT ![s] = "pending"]
    BY <2>4 DEF Notify
  <2> QED BY <2>5, <2>7, <2>8, <2>9 DEF BarrierEffects
<1> QED BY <1>1, <1>2

\* Setting or preparing a barrier that lies between watermark and end of file.
LEMMA BarrierInv ==
    ASSUME TypeOK, DeliveryInv, Faultless', NEW s \in Sessions, NEW n \in Intent,
           NEW m \in [Sessions -> Tracked], NEW d,
           BarrierEffects(s, n, m, d), d = disk \/ d = m,
           m[s].wm = mem[s].wm, m[s].skip = n, \A r \in Sessions : r # s => m[r] = mem[r],
           Current(s, n), mem[s].wm <= n.snap, n.snap <= written[s],
           mem[s].skip # NoSkip => mem[s].skip.snap = n.snap,
           UNCHANGED <<written, bound, mode, pc, parsed, buf, regs, worker, done, skipped>>
    PROVE  DeliveryInv'
<1>1. /\ mem'[s].wm = mem[s].wm /\ mem'[s].skip \in Intent
      /\ mem'[s].skip.user = n.user /\ mem'[s].skip.topic = n.topic
      /\ mem'[s].skip.snap = n.snap
      /\ \A r \in Sessions : r # s => mem'[r] = mem[r]
      /\ disk' = d \/ disk' = mem'
  BY DEF BarrierEffects
<1>2. mem'[s].skip # NoSkip /\ n # NoSkip
  BY <1>1, NoSkipAssumption
<1>3. HonestTasks' /\ \A r \in Sessions : OneNotice(r)'
  <2>1. PICK q \in Seq(Task) :
          /\ KeepsSome(queue[n.user], q)
          /\ \/ queue' = [queue EXCEPT ![n.user] = q] /\ notice' = notice
             \/ /\ queue' = [queue EXCEPT ![n.user] = Append(q, NoticeTask(s, n))]
                /\ notice[s] = "none" /\ notice' = [notice EXCEPT ![s] = "pending"]
    BY DEF BarrierEffects
  <2> QED BY <1>1, <1>2, <2>1, NotifyInv
<1>4. \A r \in Sessions, i \in Item :
         /\ rcpt'[r][i].cp = rcpt[r][i].cp /\ rcpt'[r][i].left = rcpt[r][i].left
         /\ rcpt'[r][i].closed = rcpt[r][i].closed
         /\ rcpt'[r][i].failed = rcpt[r][i].failed
         /\ \A v \in rcpt[r][i].awaiting :
               v \in rcpt'[r][i].awaiting \/ (r = s /\ i <= n.snap)
  BY DEF BarrierEffects
<1>5. CyclesWhileUp'
  BY DEF DeliveryInv, CyclesWhileUp
<1>6. ASSUME NEW r \in Sessions
      PROVE  /\ OffsetOrder(r)' /\ MarkCovers(r)' /\ NothingForgotten(r)'
             /\ CheckpointOrder(r)' /\ BufferAhead(r)' /\ HonestReceipts(r)'
  <2>1. OffsetOrder(r) /\ HonestReceipts(r) /\ regs[r] \subseteq Item
    BY <1>6 DEF DeliveryInv, TypeOK
  <2>2. mem'[r].wm = mem[r].wm
    BY <1>1, <1>6
  <2>3. MarkCovers(r)' /\ NothingForgotten(r)' /\ CheckpointOrder(r)' /\ BufferAhead(r)'
    BY <1>4, <1>6, <2>1, <2>2, SteadyReceipts DEF DeliveryInv
  <2>4. CASE r # s
    <3>1. mem'[r] = mem[r] /\ disk'[r] \in {disk[r], mem[r]}
      BY <1>1, <1>6, <2>4
    <3>2. OffsetOrder(r)'
      <4>1. disk'[r].wm <= mem[r].wm
        BY <1>6, <2>1, <3>1, NaturalNumbers DEF OffsetOrder
      <4> QED BY <2>1, <3>1, <4>1 DEF OffsetOrder, Current
    <3>3. HonestReceipts(r)'
      <4> SUFFICES ASSUME NEW i \in regs[r]
                   PROVE  \/ rcpt'[r][i].failed
                          \/ /\ rcpt'[r][i].closed => rcpt'[r][i].left = {}
                             /\ \A u \in Users :
                                   \/ u \in rcpt'[r][i].left \cup rcpt'[r][i].awaiting
                                   \/ i \in done[u][r]
                                   \/ mem[r].skip # NoSkip /\ i <= mem[r].skip.snap
        BY <3>1 DEF HonestReceipts
      <4> QED BY <1>4, <1>6, <2>1, <2>4 DEF HonestReceipts
    <3> QED BY <2>3, <3>2, <3>3
  <2>5. CASE r = s
    <3>1. Current(s, mem'[s].skip)
      BY <1>1, <1>2 DEF Current
    <3>2. /\ disk'[s].wm <= mem[s].wm
          /\ disk'[s].skip # NoSkip =>
                /\ disk'[s].wm <= disk'[s].skip.snap /\ disk'[s].skip.snap <= written[s]
                /\ Current(s, disk'[s].skip)
      <4>1. CASE disk' = disk
        BY <2>1, <2>5, <4>1 DEF OffsetOrder
      <4>2. CASE disk' = m
        BY <4>2, NaturalNumbers
      <4>3. CASE disk' = mem'
        BY <1>1, <3>1, <4>3, NaturalNumbers
      <4> QED BY <1>1, <4>1, <4>2, <4>3
    <3>3. OffsetOrder(s)'
      BY <1>1, <2>1, <2>5, <3>1, <3>2 DEF OffsetOrder, Current
    <3>4. HonestReceipts(s)'
      <4> SUFFICES ASSUME NEW i \in regs[s]
                   PROVE  \/ rcpt'[s][i].failed
                          \/ /\ rcpt'[s][i].closed => rcpt'[s][i].left = {}
                             /\ \A u \in Users :
                                   \/ u \in rcpt'[s][i].left \cup rcpt'[s][i].awaiting
                                   \/ i \in done[u][s]
                                   \/ i <= n.snap
        BY <1>1, <1>2 DEF HonestReceipts
      <4> QED BY <1>4, <2>1, <2>5 DEF HonestReceipts
    <3> QED BY <2>3, <2>5, <3>3, <3>4
  <2> QED BY <2>4, <2>5
<1> QED BY <1>3, <1>5, <1>6 DEF DeliveryInv

\* "Jump to live" freezes the range up to the present end of the transcript.
LEMMA RequestEffects ==
    ASSUME TypeOK, DeliveryInv, NEW u \in Users, NEW s \in Sessions, RequestSkip(u, s)
    PROVE  \E n \in Intent, m \in [Sessions -> Tracked] :
              /\ BarrierEffects(s, n, m, m)
              /\ m[s].wm = mem[s].wm /\ m[s].skip = n
              /\ \A r \in Sessions : r # s => m[r] = mem[r]
              /\ Current(s, n) /\ n.snap = written[s]
<1> DEFINE n == [user |-> u, topic |-> bound[u][s], snap |-> written[s], purged |-> FALSE]
           m == WithSkip(mem, s, n)
           b == [budget EXCEPT !["skip"] = @ - 1]
<1>1. /\ bound[u][s] # Unbound
      /\ \/ PrepareSkip(s, n, m, m, b)
         \/ mem' = m /\ disk' = m /\ budget' = b /\ UNCHANGED <<rcpt, notice, queue>>
  BY DEF RequestSkip
<1>2. n \in Intent
  BY <1>1 DEF TypeOK, Intent
<1>3. Current(s, n)
  BY <1>2, NoSkipAssumption DEF Current
<1>4. n.user = u /\ n.snap = written[s]
  OBVIOUS
<1> HIDE DEF n
<1>5. /\ m \in [Sessions -> Tracked] /\ m[s].wm = mem[s].wm /\ m[s].skip = n
      /\ \A r \in Sessions : r # s => m[r] = mem[r]
  <2>1. mem \in [Sessions -> Tracked] /\ m \in [Sessions -> Tracked]
    BY <1>2, WithSkipType DEF TypeOK
  <2>2. m[s] = [mem[s] EXCEPT !.skip = n] /\ mem[s] \in Tracked
    BY <2>1 DEF WithSkip
  <2>3. m[s].wm = mem[s].wm /\ m[s].skip = n
    BY <2>2 DEF Tracked
  <2> QED BY <2>1, <2>3 DEF WithSkip
<1> HIDE DEF m
<1>6. BarrierEffects(s, n, m, m)
  <2>1. CASE PrepareSkip(s, n, m, m, b)
    BY <1>2, <1>5, <2>1, PrepareEffects
  <2>2. CASE mem' = m /\ disk' = m /\ UNCHANGED <<rcpt, notice, queue>>
    <3>1. queue[n.user] \in Seq(Task) /\ queue' = [queue EXCEPT ![n.user] = queue[n.user]]
      BY <1>4, <2>2 DEF TypeOK
    <3>2. KeepsSome(queue[n.user], queue[n.user])
      BY <3>1, KeepsAll
    <3> QED BY <1>2, <1>5, <2>2, <3>1, <3>2 DEF BarrierEffects
  <2> QED BY <1>1, <2>1, <2>2
<1> QED BY <1>2, <1>3, <1>4, <1>5, <1>6

LEMMA RequestSkipInv ==
    ASSUME TypeOK, DeliveryInv, Faultless', NEW u \in Users, NEW s \in Sessions,
           RequestSkip(u, s)
    PROVE  DeliveryInv'
<1>1. /\ mem[s].skip = NoSkip
      /\ UNCHANGED <<written, bound, mode, pc, parsed, buf, regs, worker, done, skipped>>
  BY DEF RequestSkip, envVars, monVars, readVars, historyVars
<1>2. mem[s].wm <= written[s] /\ written[s] <= written[s]
  <2>1. OffsetOrder(s)
    BY DEF DeliveryInv
  <2> QED BY <2>1, NaturalNumbers DEF OffsetOrder
<1>3. PICK n \in Intent, m \in [Sessions -> Tracked] :
        /\ BarrierEffects(s, n, m, m)
        /\ m[s].wm = mem[s].wm /\ m[s].skip = n
        /\ \A r \in Sessions : r # s => m[r] = mem[r]
        /\ Current(s, n) /\ n.snap = written[s]
  BY RequestEffects
<1> QED BY <1>1, <1>2, <1>3, BarrierInv

\* A cycle resumes a barrier; where barriers are set nothing is rebound, so none is
\* ever out of date.
LEMMA ResumeSkipInv ==
    ASSUME TypeOK, DeliveryInv, Faultless', NEW s \in Sessions, ResumeSkip(s)
    PROVE  DeliveryInv'
<1> DEFINE n == mem[s].skip
<1>1. /\ UNCHANGED <<written, bound, mode, pc, parsed, buf, tools, regs, worker,
                     done, skipped, announced>>
      /\ pc = "resume"
  BY DEF ResumeSkip, envVars, readVars, historyVars
<1>2. OffsetOrder(s) /\ n \in Intent \cup {NoSkip}
  BY DEF DeliveryInv, TypeOK, Tracked
<1>3. CASE UNCHANGED <<budget, storeVars, rcpt, notice, backoff, queue>>
  <2>1. CyclesWhileUp'
    BY <1>1, <1>3 DEF DeliveryInv, CyclesWhileUp
  <2> QED BY <1>1, <1>3, <2>1, PassingInv DEF readVars, queueVars, historyVars
<1>4. CASE n # NoSkip /\ PrepareSkip(s, n, mem, disk, budget)
  <2>1. n \in Intent /\ Current(s, n) /\ mem[s].wm <= n.snap /\ n.snap <= written[s]
    BY <1>2, <1>4 DEF OffsetOrder
  <2>2. mem \in [Sessions -> Tracked]
    BY DEF TypeOK
  <2>3. BarrierEffects(s, n, mem, disk)
    BY <1>4, <2>1, <2>2, PrepareEffects
  <2> QED BY <1>1, <2>1, <2>2, <2>3, BarrierInv
<1> QED BY <1>2, <1>3, <1>4 DEF ResumeSkip, OffsetOrder, Current

\* Detaching receipts leaves every task in its place, notices as they are.
LEMMA DetachInv ==
    ASSUME TypeOK, HonestTasks, NEW s \in Sessions, Detach(s)
    PROVE  /\ HonestTasks'
           /\ \A r \in Sessions, v \in Users : NoticeHeld(r, v)' = NoticeHeld(r, v)
           /\ \A v \in Users : Len(queue'[v]) = Len(queue[v])
           /\ \A r \in Sessions, v \in Users : \A k \in 1..Len(queue[v]) :
                 NoticeQueued(r, v, k)' = NoticeQueued(r, v, k)
<1>1. \A t \in Task :
        /\ Detached(t, s).sess = t.sess /\ Detached(t, s).notice = t.notice
        /\ Detached(t, s).items = t.items /\ Detached(t, s).cp = t.cp
        /\ Detached(t, s).owed \subseteq t.owed
  BY DEF Detached, Task
<1>2. \A v \in Users : worker[v].task \in Task /\ worker'[v].task = Detached(worker[v].task, s)
  BY DEF Detach, TypeOK, Worker
<1>3. ASSUME NEW v \in Users
      PROVE  /\ Len(queue'[v]) = Len(queue[v])
             /\ \A k \in 1..Len(queue[v]) :
                   queue[v][k] \in Task /\ queue'[v][k] = Detached(queue[v][k], s)
  <2>1. /\ queue[v] \in Seq(Task)
        /\ queue'[v] = [k \in 1..Len(queue[v]) |-> Detached(queue[v][k], s)]
    BY <1>3 DEF Detach, TypeOK
  <2>2. Len(queue[v]) \in Nat
    BY <2>1
  <2>3. Len(queue'[v]) = Len(queue[v])
    BY <2>1, <2>2
  <2> QED BY <2>1, <2>3
<1>4. HonestTasks'
  <2>1. ASSUME NEW t \in Task, OwesItsItems(t) PROVE OwesItsItems(Detached(t, s))
    BY <1>1, <2>1 DEF OwesItsItems
  <2>2. ASSUME NEW v \in Users PROVE OwesItsItems(worker'[v].task)
    BY <1>2, <2>1, <2>2 DEF HonestTasks
  <2>3. ASSUME NEW v \in Users, NEW k \in 1..Len(queue'[v])
        PROVE  /\ OwesItsItems(queue'[v][k])
               /\ \A i \in queue'[v][k].owed : i <= queue'[v][k].cp
    <3>1. /\ queue[v][k] \in Task /\ queue'[v][k] = Detached(queue[v][k], s)
          /\ k \in 1..Len(queue[v])
      BY <1>3, <2>3
    <3>2. OwesItsItems(queue[v][k]) /\ \A i \in queue[v][k].owed : i <= queue[v][k].cp
      BY <2>3, <3>1 DEF HonestTasks
    <3> QED BY <1>1, <2>1, <3>1, <3>2
  <2> QED BY <2>2, <2>3 DEF HonestTasks, OwesItsItems
<1>5. \A r \in Sessions, v \in Users : NoticeHeld(r, v)' = NoticeHeld(r, v)
  BY <1>1, <1>2 DEF NoticeHeld
<1>6. \A r \in Sessions, v \in Users : \A k \in 1..Len(queue[v]) :
        NoticeQueued(r, v, k)' = NoticeQueued(r, v, k)
  BY <1>1, <1>3 DEF NoticeQueued
<1> QED BY <1>3, <1>4, <1>5, <1>6

\* An acknowledged notice: both offsets jump over the announced range.
LEMMA CompleteSkipInv ==
    ASSUME TypeOK, DeliveryInv, Faultless', NEW s \in Sessions,
           notice[s] = "ready", notice' = [notice EXCEPT ![s] = "none"],
           CompleteSkip(s), DropReceipts(s), disk' = mem' \/ disk' = disk, pc # "read",
           UNCHANGED <<written, bound, mode, pc, buf, done>>
    PROVE  DeliveryInv'
<1> DEFINE n == mem[s].skip
<1>1. OffsetOrder(s) /\ OneNotice(s) /\ MarkCovers(s) /\ HonestTasks /\ CyclesWhileUp
  BY DEF DeliveryInv
<1>2. n \in Intent /\ mem[s] \in Tracked /\ n.user \in Users
  <2>1. n # NoSkip
    BY <1>1 DEF OneNotice
  <2> QED BY <2>1 DEF TypeOK, Tracked, Intent
<1>3. /\ mem[s].wm \in Nat /\ n.snap \in Nat /\ mem[s].wm <= n.snap /\ n.snap <= written[s]
      /\ disk[s].wm \in Nat /\ written[s] \in Nat /\ disk[s].wm <= mem[s].wm
  BY <1>1, <1>2, NaturalNumbers, NoSkipAssumption DEF OffsetOrder, Intent, Offset
<1>4. Larger(mem[s].wm, n.snap) = n.snap
  BY <1>3 DEF Larger
<1>5. /\ mem'[s] = [wm |-> n.snap, skip |-> NoSkip] /\ parsed'[s] = n.snap
      /\ \A r \in Sessions : r # s => mem'[r] = mem[r] /\ parsed'[r] = parsed[r]
      /\ skipped' = [skipped EXCEPT ![n.user][s] = @ \cup ((mem[s].wm + 1)..n.snap)]
  BY <1>4 DEF CompleteSkip, TypeOK
<1>6. /\ regs'[s] = {}
      /\ \A r \in Sessions : r # s => regs'[r] = regs[r] /\ rcpt'[r] = rcpt[r]
  BY DEF DropReceipts, TypeOK
<1>7. \A u \in Users, r \in Sessions : skipped[u][r] \subseteq skipped'[u][r]
  BY <1>2, <1>5 DEF TypeOK
<1>8. (mem[s].wm + 1)..n.snap \subseteq skipped'[n.user][s]
  BY <1>2, <1>5 DEF TypeOK
<1>9. /\ HonestTasks'
      /\ \A r \in Sessions, v \in Users : NoticeHeld(r, v)' = NoticeHeld(r, v)
      /\ \A v \in Users : Len(queue'[v]) = Len(queue[v])
      /\ \A r \in Sessions, v \in Users : \A k \in 1..Len(queue[v]) :
            NoticeQueued(r, v, k)' = NoticeQueued(r, v, k)
  BY <1>1, DetachInv DEF DropReceipts
<1>10. CyclesWhileUp'
  BY <1>1 DEF CyclesWhileUp
<1>11. ASSUME NEW r \in Sessions PROVE OneNotice(r)'
  <2>1. OneNotice(r)
    BY <1>11 DEF DeliveryInv
  <2>2. CASE r # s
    <3>1. notice'[r] = notice[r] /\ mem'[r] = mem[r]
      BY <1>5, <1>11, <2>2 DEF TypeOK
    <3> QED BY <1>9, <1>11, <2>1, <3>1 DEF OneNotice
  <2>3. CASE r = s
    <3>1. /\ \A v \in Users : ~NoticeHeld(s, v)'
          /\ \A v \in Users : \A k \in 1..Len(queue'[v]) : ~NoticeQueued(s, v, k)'
      BY <1>1, <1>9 DEF OneNotice
    <3>2. notice'[s] = "none"
      BY DEF TypeOK
    <3> QED BY <2>3, <3>1, <3>2 DEF OneNotice
  <2> QED BY <2>2, <2>3
<1>12. ASSUME NEW r \in Sessions, r # s
       PROVE  /\ OffsetOrder(r)' /\ MarkCovers(r)' /\ NothingForgotten(r)'
              /\ CheckpointOrder(r)' /\ BufferAhead(r)' /\ HonestReceipts(r)'
  <2>1. mem'[r] = mem[r] /\ parsed'[r] = parsed[r] /\ regs'[r] = regs[r] /\ rcpt'[r] = rcpt[r]
    BY <1>5, <1>6, <1>12
  <2>2. MarkCovers(r)' /\ NothingForgotten(r)' /\ CheckpointOrder(r)' /\ BufferAhead(r)'
    BY <1>7, <1>12, <2>1, SteadyReceipts DEF DeliveryInv
  <2>3. HonestReceipts(r)'
    BY <1>12, <2>1, SteadyHonesty DEF DeliveryInv
  <2>4. OffsetOrder(r)'
    <3>1. OffsetOrder(r) /\ mem[r].wm \in Nat
      BY <1>12, NaturalNumbers DEF DeliveryInv
    <3>2. CASE disk' = disk
      BY <2>1, <3>1, <3>2 DEF OffsetOrder, Current
    <3>3. CASE disk' = mem'
      BY <2>1, <3>1, <3>3 DEF OffsetOrder, Current
    <3> QED BY <3>2, <3>3
  <2> QED BY <2>2, <2>3, <2>4
<1>13. OffsetOrder(s)'
  <2>1. CASE disk' = disk
    BY <1>1, <1>3, <1>5, <2>1 DEF OffsetOrder, Current
  <2>2. CASE disk' = mem'
    BY <1>3, <1>5, <2>2 DEF OffsetOrder
  <2> QED BY <2>1, <2>2
<1>14. MarkCovers(s)'
  <2> SUFFICES ASSUME NEW i \in 1..n.snap PROVE Handled(s, i)'
    BY <1>5 DEF MarkCovers
  <2>1. CASE i <= mem[s].wm
    BY <1>1, <1>3, <1>7, <2>1, HandledGrows DEF MarkCovers
  <2>2. CASE ~(i <= mem[s].wm)
    BY <1>2, <1>3, <1>8, <2>2 DEF Handled
  <2> QED BY <2>1, <2>2
<1>15. buf[s] = {}
  BY DEF DeliveryInv, BufferAhead
<1>16. NothingForgotten(s)' /\ CheckpointOrder(s)' /\ BufferAhead(s)' /\ HonestReceipts(s)'
  <2>1. NothingForgotten(s)'
    BY <1>3, <1>5 DEF NothingForgotten
  <2> QED BY <1>6, <1>15, <2>1 DEF CheckpointOrder, BufferAhead, HonestReceipts
<1> QED BY <1>9, <1>10, <1>11, <1>12, <1>13, <1>14, <1>16 DEF DeliveryInv

\* The answer to a notice is looked at once per half cycle.
LEMMA SettleSkipInv ==
    ASSUME TypeOK, DeliveryInv, Faultless', NEW s \in Sessions, SettleSkip(s)
    PROVE  DeliveryInv'
<1>1. /\ UNCHANGED <<written, bound, live, mode, pc, cur, buf, tools, done, announced>>
      /\ pc # "read"
  BY DEF SettleSkip, envVars
<1>2. CyclesWhileUp'
  BY <1>1 DEF DeliveryInv, CyclesWhileUp
<1>3. CASE UNCHANGED <<budget, storeVars, ackVars, queueVars, parsed, skipped>>
  BY <1>1, <1>2, <1>3, PassingInv DEF ackVars, readVars, historyVars
<1>4. CASE /\ notice[s] = "failed" /\ notice' = [notice EXCEPT ![s] = "none"]
           /\ UNCHANGED <<budget, storeVars, regs, rcpt, queueVars, parsed, skipped>>
  <2>2. UNCHANGED <<mem, disk, queue, worker>>
    BY <1>4 DEF storeVars, queueVars
  <2>3. HonestTasks'
    BY <2>2 DEF DeliveryInv, HonestTasks, OwesItsItems
  <2>4. ASSUME NEW r \in Sessions PROVE OneNotice(r)'
    <3>1. OneNotice(r) /\ (r # s => notice'[r] = notice[r])
      BY <1>4, <2>4 DEF DeliveryInv, TypeOK
    <3>2. r = s => notice[r] = "failed" /\ notice'[r] = "none"
      BY <1>4 DEF TypeOK
    <3> QED BY <2>2, <3>1, <3>2 DEF OneNotice, NoticeHeld, NoticeQueued
  <2>5. ASSUME NEW r \in Sessions
        PROVE  /\ OffsetOrder(r)' /\ MarkCovers(r)' /\ NothingForgotten(r)'
               /\ CheckpointOrder(r)' /\ BufferAhead(r)' /\ HonestReceipts(r)'
    <3>1. OffsetOrder(r)'
      BY <1>1, <1>4, <2>2, <2>5, SteadyOffsets DEF DeliveryInv
    <3>2. MarkCovers(r)' /\ NothingForgotten(r)' /\ CheckpointOrder(r)' /\ BufferAhead(r)'
      BY <1>1, <1>4, <2>2, <2>5, SteadyReceipts DEF DeliveryInv
    <3>3. HonestReceipts(r)'
      BY <1>1, <1>4, <2>2, <2>5, SteadyHonesty DEF DeliveryInv
    <3> QED BY <3>1, <3>2, <3>3
  <2> QED BY <1>2, <2>3, <2>4, <2>5 DEF DeliveryInv
<1>5. CASE /\ notice[s] = "ready" /\ notice' = [notice EXCEPT ![s] = "none"]
           /\ IF Current(s, mem[s].skip)
              THEN CompleteSkip(s)
              ELSE mem' = WithSkip(mem, s, NoSkip) /\ UNCHANGED <<parsed, skipped>>
           /\ Save(mem') /\ DropReceipts(s)
  <2>1. Current(s, mem[s].skip)
    BY <1>5 DEF DeliveryInv, OneNotice, OffsetOrder
  <2>2. disk' = mem' \/ disk' = disk
    BY <1>5 DEF Save
  <2> QED BY <1>1, <1>5, <2>1, <2>2, CompleteSkipInv
<1> QED BY <1>3, <1>4, <1>5 DEF SettleSkip

-----------------------------------------------------------------------------
(* Agents and process life.                                                *)

\* The agent appends an entry.
LEMMA WriteInv ==
    ASSUME TypeOK, DeliveryInv, Faultless', NEW s \in Sessions, Write(s)
    PROVE  DeliveryInv'
<1>1. /\ UNCHANGED <<bound, live, mode, budget, pc, todo, cur, parsed, buf, tools, regs, rcpt,
                     notice, backoff, mem, disk, queue, worker, done, skipped, announced>>
      /\ written' = [written EXCEPT ![s] = @ + 1]
  BY DEF Write, monVars, readVars, ackVars, storeVars, queueVars, historyVars
<1>2. CyclesWhileUp'
  BY <1>1 DEF DeliveryInv, CyclesWhileUp
<1>3. HonestTasks' /\ \A r \in Sessions : OneNotice(r)'
  BY <1>1, SteadyQueues
<1>4. ASSUME NEW r \in Sessions
      PROVE  /\ OffsetOrder(r)' /\ MarkCovers(r)' /\ NothingForgotten(r)'
             /\ CheckpointOrder(r)' /\ BufferAhead(r)' /\ HonestReceipts(r)'
  <2>1. MarkCovers(r)' /\ NothingForgotten(r)' /\ CheckpointOrder(r)' /\ BufferAhead(r)'
    BY <1>1, <1>4, SteadyReceipts DEF DeliveryInv
  <2>2. HonestReceipts(r)'
    BY <1>1, <1>4, SteadyHonesty DEF DeliveryInv
  <2>3. OffsetOrder(r)'
    <3>1. /\ OffsetOrder(r) /\ mem[r] \in Tracked /\ disk[r] \in Tracked
          /\ written[r] \in Nat /\ parsed[r] \in Nat
      BY <1>4, NaturalNumbers DEF DeliveryInv, TypeOK
    <3>2. written'[r] = written[r] \/ written'[r] = written[r] + 1
      BY <1>1, <1>4 DEF TypeOK
    <3>3. /\ mem[r].skip # NoSkip => mem[r].skip.snap \in Nat
          /\ disk[r].skip # NoSkip => disk[r].skip.snap \in Nat
      BY <3>1 DEF Tracked, Intent, Offset
    <3> QED BY <1>1, <3>1, <3>2, <3>3 DEF OffsetOrder, Current
  <2> QED BY <2>1, <2>2, <2>3
<1> QED BY <1>2, <1>3, <1>4 DEF DeliveryInv

\* A topic is bound or let go: nobody skips, so no barrier becomes out of date.
LEMMA RebindInv ==
    ASSUME TypeOK, DeliveryInv, Faultless', NEW u \in Users, NEW s \in Sessions, NEW t,
           Rebind(u, s, t)
    PROVE  DeliveryInv'
<1>1. UNCHANGED <<written, live, mode, pc, todo, cur, parsed, buf, tools, regs, rcpt,
                  notice, backoff, mem, disk, queue, worker, done, skipped, announced>>
  BY DEF Rebind, monVars, readVars, ackVars, storeVars, queueVars, historyVars
<1>2. NoBarriers
  BY DEF DeliveryInv, Faultless, Rebind, Spend
<1>3. CyclesWhileUp'
  BY <1>1 DEF DeliveryInv, CyclesWhileUp
<1>4. HonestTasks' /\ \A r \in Sessions : OneNotice(r)'
  BY <1>1, SteadyQueues
<1>5. ASSUME NEW r \in Sessions
      PROVE  /\ OffsetOrder(r)' /\ MarkCovers(r)' /\ NothingForgotten(r)'
             /\ CheckpointOrder(r)' /\ BufferAhead(r)' /\ HonestReceipts(r)'
  <2>1. MarkCovers(r)' /\ NothingForgotten(r)' /\ CheckpointOrder(r)' /\ BufferAhead(r)'
    BY <1>1, <1>5, SteadyReceipts DEF DeliveryInv
  <2>2. HonestReceipts(r)'
    BY <1>1, <1>5, SteadyHonesty DEF DeliveryInv
  <2>3. OffsetOrder(r)'
    BY <1>1, <1>2, <1>5 DEF DeliveryInv, OffsetOrder, NoBarriers
  <2> QED BY <2>1, <2>2, <2>3
<1> QED BY <1>3, <1>4, <1>5 DEF DeliveryInv

\* A fresh process knows what the state file says, which is never too much.
LEMMA FreshProcessInv ==
    ASSUME TypeOK, DeliveryInv, Faultless', FreshProcess(disk),
           UNCHANGED <<disk, written, bound, historyVars>>
    PROVE  DeliveryInv'
<1>1. /\ mem' = disk /\ pc' = "idle"
      /\ \A s \in Sessions : /\ parsed'[s] = disk[s].wm /\ buf'[s] = {} /\ regs'[s] = {}
                             /\ notice'[s] = "none"
      /\ queue' = [u \in Users |-> <<>>] /\ worker' = [u \in Users |-> IdleWorker]
      /\ UNCHANGED <<done, skipped>>
  BY DEF FreshProcess, historyVars
<1>2. CyclesWhileUp'
  BY <1>1 DEF CyclesWhileUp
<1>3. /\ \A u \in Users : queue'[u] = <<>> /\ worker'[u].task = IdleTask
      /\ IdleTask.owed = {} /\ ~IdleTask.notice
  BY <1>1 DEF IdleWorker, IdleTask
<1>4. HonestTasks'
  <2>1. \A u \in Users : Len(queue'[u]) = 0
    BY <1>3
  <2> QED BY <1>3, <2>1 DEF HonestTasks, OwesItsItems
<1>5. ASSUME NEW s \in Sessions
      PROVE  /\ OffsetOrder(s)' /\ MarkCovers(s)' /\ NothingForgotten(s)'
             /\ CheckpointOrder(s)' /\ BufferAhead(s)' /\ HonestReceipts(s)' /\ OneNotice(s)'
  <2>1. /\ OffsetOrder(s) /\ MarkCovers(s)
        /\ disk[s].wm \in Nat /\ mem[s].wm \in Nat /\ parsed[s] \in Nat /\ written[s] \in Nat
    BY <1>5, NaturalNumbers DEF DeliveryInv
  <2>2. OffsetOrder(s)'
    BY <1>1, <1>5, <2>1 DEF OffsetOrder, Current
  <2>3. MarkCovers(s)'
    <3> SUFFICES ASSUME NEW i \in 1..disk[s].wm PROVE Handled(s, i)'
      BY <1>1 DEF MarkCovers
    <3>1. i \in 1..mem[s].wm
      BY <2>1 DEF OffsetOrder
    <3> QED BY <1>1, <2>1, <3>1, HandledGrows DEF MarkCovers
  <2>4. NothingForgotten(s)'
    BY <1>1, <1>5, <2>1 DEF NothingForgotten
  <2>5. CheckpointOrder(s)' /\ BufferAhead(s)' /\ HonestReceipts(s)'
    BY <1>1, <1>5 DEF CheckpointOrder, BufferAhead, HonestReceipts
  <2>6. OneNotice(s)'
    BY <1>1, <1>3, <1>5 DEF OneNotice, NoticeHeld, NoticeQueued
  <2> QED BY <2>2, <2>3, <2>4, <2>5, <2>6
<1> QED BY <1>2, <1>4, <1>5 DEF DeliveryInv

\* A shutdown forgets what was read and not yet registered; all of that lies
\* beyond the last checkpoint.
LEMMA StopInv ==
    ASSUME TypeOK, DeliveryInv, Faultless', Stop
    PROVE  DeliveryInv'
<1>1. /\ UNCHANGED <<written, bound, parsed, regs, notice, mem, queue, worker, done, skipped>>
      /\ mode = "up" /\ mode' = "draining" /\ pc' = "off"
      /\ disk' = mem \/ disk' = disk
      /\ \A s \in Sessions : buf'[s] = {}
  BY DEF Stop, queueVars, historyVars
<1>2. CyclesWhileUp'
  BY <1>1 DEF CyclesWhileUp
<1>3. HonestTasks' /\ \A s \in Sessions : OneNotice(s)'
  BY <1>1, SteadyQueues
<1>4. ASSUME NEW s \in Sessions
      PROVE  /\ OffsetOrder(s)' /\ MarkCovers(s)' /\ NothingForgotten(s)'
             /\ CheckpointOrder(s)' /\ BufferAhead(s)' /\ HonestReceipts(s)'
  <2>1. /\ OffsetOrder(s) /\ MarkCovers(s) /\ NothingForgotten(s) /\ CheckpointOrder(s)
        /\ BufferAhead(s) /\ HonestReceipts(s)
        /\ regs[s] \subseteq Item
    BY <1>4 DEF DeliveryInv, TypeOK
  <2>2. ASSUME NEW i \in regs[s]
        PROVE  /\ rcpt'[s][i].cp = rcpt[s][i].cp
               /\ rcpt'[s][i].failed \/ rcpt'[s][i] = rcpt[s][i]
    <3>1. rcpt[s][i] \in Receipt /\ i \in Item
      BY <1>4, <2>1, <2>2 DEF TypeOK
    <3>2. rcpt'[s][i] = rcpt[s][i] \/ rcpt'[s][i] = Abandoned(rcpt[s][i])
      BY <1>4, <3>1 DEF Stop
    <3>3. Abandoned(rcpt[s][i]).cp = rcpt[s][i].cp /\ Abandoned(rcpt[s][i]).failed
      BY <3>1 DEF Abandoned, Receipt
    <3> QED BY <3>2, <3>3
  <2>3. OffsetOrder(s)'
    BY <1>1, <1>4, <2>1, NaturalNumbers DEF OffsetOrder, Current
  <2>4. MarkCovers(s)'
    BY <1>1, <2>1, HandledGrows DEF MarkCovers
  <2>5. NothingForgotten(s)'
    <3> SUFFICES ASSUME NEW i \in (mem[s].wm + 1)..parsed[s]
                 PROVE  \/ Handled(s, i)' \/ i \in regs[s]
                        \/ \A j \in regs[s] : rcpt'[s][j].cp < i
      BY <1>1 DEF NothingForgotten
    <3>1. Handled(s, i) \/ i \in buf[s] \/ i \in regs[s]
      BY <1>1, <2>1 DEF NothingForgotten
    <3>2. i \in buf[s] => \A j \in regs[s] : rcpt[s][j].cp < i
      BY <2>1 DEF BufferAhead
    <3> QED BY <1>1, <2>2, <3>1, <3>2, HandledGrows
  <2>6. CheckpointOrder(s)'
    BY <1>1, <2>1, <2>2 DEF CheckpointOrder
  <2>7. BufferAhead(s)'
    BY <1>1, <1>4 DEF BufferAhead
  <2>8. HonestReceipts(s)'
    BY <1>1, <2>1, <2>2 DEF HonestReceipts
  <2> QED BY <2>3, <2>4, <2>5, <2>6, <2>7, <2>8
<1> QED BY <1>2, <1>3, <1>4 DEF DeliveryInv

\* Cancelled workers fail what they hold; what is still queued stays waited for.
LEMMA StopWorkersInv ==
    ASSUME TypeOK, DeliveryInv, Faultless', StopWorkers
    PROVE  DeliveryInv'
<1>1. /\ UNCHANGED <<written, bound, budget, parsed, buf, regs, mem, disk, done, skipped>>
      /\ mode = "draining" /\ mode' = "final" /\ pc' = "resettle"
      /\ queue' = [u \in Users |-> <<>>] /\ worker' = [u \in Users |-> IdleWorker]
      /\ \A s \in Sessions : notice'[s] = "failed" \/ notice'[s] = notice[s]
  BY DEF StopWorkers, readVars, storeVars, historyVars
<1>2. CyclesWhileUp'
  BY <1>1 DEF DeliveryInv, CyclesWhileUp
<1>3. /\ \A u \in Users : queue'[u] = <<>> /\ worker'[u].task = IdleTask
      /\ IdleTask.owed = {} /\ ~IdleTask.notice
  BY <1>1 DEF IdleWorker, IdleTask
<1>4. HonestTasks'
  <2>1. \A u \in Users : Len(queue'[u]) = 0
    BY <1>3
  <2> QED BY <1>3, <2>1 DEF HonestTasks, OwesItsItems
<1>5. ASSUME NEW s \in Sessions PROVE OneNotice(s)'
  <2>1. OneNotice(s)
    BY <1>5 DEF DeliveryInv
  <2>2. notice'[s] # "none" => mem'[s].skip # NoSkip
    <3>1. CASE notice'[s] = notice[s]
      BY <1>1, <2>1, <3>1 DEF OneNotice
    <3>2. CASE \E u \in Users : NoticeHeld(s, u)
      BY <1>1, <2>1, <3>2 DEF OneNotice
    <3> QED BY <1>5, <3>1, <3>2 DEF StopWorkers, NoticeHeld
  <2> QED BY <1>3, <2>2 DEF OneNotice, NoticeHeld, NoticeQueued
<1>6. ASSUME NEW s \in Sessions
      PROVE  /\ OffsetOrder(s)' /\ MarkCovers(s)' /\ NothingForgotten(s)'
             /\ CheckpointOrder(s)' /\ BufferAhead(s)' /\ HonestReceipts(s)'
  <2>1. HonestReceipts(s) /\ BufferAhead(s) /\ regs[s] \subseteq Item /\ CyclesWhileUp
    BY <1>6 DEF DeliveryInv, TypeOK
  <2>2. ASSUME NEW i \in regs[s]
        PROVE  /\ rcpt'[s][i].cp = rcpt[s][i].cp
               /\ rcpt'[s][i].failed \/ rcpt'[s][i] = rcpt[s][i]
    <3>1. rcpt[s][i] \in Receipt /\ i \in Item
      BY <1>6, <2>1, <2>2 DEF TypeOK
    <3>2. \/ rcpt'[s][i] = rcpt[s][i]
          \/ rcpt'[s][i] = [rcpt[s][i] EXCEPT !.awaiting = @ \ {u \in Users : InHand(u, s, i)},
                                              !.failed = TRUE]
      BY <1>6, <3>1 DEF StopWorkers
    <3> QED BY <3>1, <3>2 DEF Receipt
  <2>3. buf[s] = {}
    BY <1>1, <2>1 DEF BufferAhead, CyclesWhileUp
  <2>4. MarkCovers(s)' /\ NothingForgotten(s)' /\ CheckpointOrder(s)' /\ BufferAhead(s)'
    BY <1>1, <1>6, <2>2, <2>3, SteadyReceipts DEF DeliveryInv
  <2>5. OffsetOrder(s)'
    BY <1>1, <1>6, SteadyOffsets DEF DeliveryInv
  <2>6. HonestReceipts(s)'
    BY <1>1, <2>1, <2>2 DEF HonestReceipts
  <2> QED BY <2>4, <2>5, <2>6
<1> QED BY <1>2, <1>4, <1>5, <1>6 DEF DeliveryInv

-----------------------------------------------------------------------------
(* The theorems.                                                           *)

\* A first start, when no read will fail and topics are not rebound under a skip.
LEMMA InitInv ==
    ASSUME FaultlessBudget, Init
    PROVE  DeliveryInv
<1>1. Faultless /\ CyclesWhileUp
  BY DEF Init, Faultless, FaultlessBudget, NoBarriers, CyclesWhileUp
<1>2. /\ \A u \in Users : queue[u] = <<>> /\ worker[u].task = IdleTask
      /\ IdleTask.owed = {} /\ ~IdleTask.notice
  BY DEF Init, IdleWorker, IdleTask
<1>3. HonestTasks
  <2>1. \A u \in Users : Len(queue[u]) = 0
    BY <1>2
  <2> QED BY <1>2, <2>1 DEF HonestTasks, OwesItsItems
<1>4. ASSUME NEW s \in Sessions
      PROVE  /\ OffsetOrder(s) /\ MarkCovers(s) /\ NothingForgotten(s)
             /\ CheckpointOrder(s) /\ BufferAhead(s) /\ HonestReceipts(s) /\ OneNotice(s)
  <2>1. /\ written[s] = 0 /\ parsed[s] = 0 /\ buf[s] = {} /\ regs[s] = {}
        /\ notice[s] = "none"
        /\ mem[s].wm = 0 /\ mem[s].skip = NoSkip /\ disk[s].wm = 0 /\ disk[s].skip = NoSkip
    BY <1>4 DEF Init
  <2>2. OffsetOrder(s) /\ MarkCovers(s) /\ NothingForgotten(s)
    BY <2>1 DEF OffsetOrder, MarkCovers, NothingForgotten
  <2>3. CheckpointOrder(s) /\ BufferAhead(s) /\ HonestReceipts(s)
    BY <2>1 DEF CheckpointOrder, BufferAhead, HonestReceipts
  <2>4. OneNotice(s)
    BY <1>2, <2>1 DEF OneNotice, NoticeHeld, NoticeQueued
  <2> QED BY <2>2, <2>3, <2>4
<1> QED BY <1>1, <1>3, <1>4 DEF DeliveryInv

\* Every step keeps the invariant.
LEMMA NextInv ==
    ASSUME TypeOK, DeliveryInv, [Next]_vars
    PROVE  DeliveryInv'
<1>0. Faultless'
  BY FaultlessStays DEF DeliveryInv
<1>1. CASE MonitorStep
  <2>1. CASE \E L \in SUBSET Sessions : NoteLive(L)
    BY <1>0, <2>1, PhaseInv
  <2>2. CASE \E s \in Sessions :
               ResumeSkip(s) \/ SettleSkip(s) \/ BeginRead(s) \/ FinishRead(s)
    BY <1>0, <2>2, ResumeSkipInv, SettleSkipInv, PhaseInv, FinishReadInv
  <2>3. CASE EndResume \/ BeginReads \/ Register \/ EndDispatch \/ CommitWatermarks
    BY <1>0, <2>3, PhaseInv, RegisterInv, CommitInv
  <2>4. CASE \E s \in Sessions, i \in Item :
               (\E u \in Users : Route(u, s, i)) \/ CloseReceipt(s, i) \/ RouteFails(s, i)
    BY <1>0, <2>4, RouteInv
  <2> QED BY <1>1, <2>1, <2>2, <2>3, <2>4 DEF MonitorStep
<1>2. CASE \E u \in Users : WorkerStep(u)
  BY <1>0, <1>2, WorkerInv
<1>3. CASE \E u \in Users, s \in Sessions : RequestSkip(u, s)
  BY <1>0, <1>3, RequestSkipInv
<1>4. CASE \E s \in Sessions : RetryDue(s) \/ Write(s)
  BY <1>0, <1>4, PhaseInv, WriteInv
<1>5. CASE \E u \in Users, s \in Sessions, t \in Topics \cup {Unbound} : Rebind(u, s, t)
  BY <1>0, <1>5, RebindInv
<1>6. CASE Crash \/ Start
  <2>1. FreshProcess(disk) /\ UNCHANGED <<disk, written, bound, historyVars>>
    BY <1>6 DEF Crash, Start
  <2> QED BY <1>0, <2>1, FreshProcessInv
<1>7. CASE Stop \/ StopWorkers
  BY <1>0, <1>7, StopInv, StopWorkersInv
<1>8. CASE UNCHANGED vars
  <2>1. UNCHANGED <<written, bound, mode, budget, pc, readVars, regs, rcpt, notice,
                    storeVars, queueVars, historyVars>>
    BY <1>8 DEF vars, envVars, monVars, ackVars
  <2>2. CyclesWhileUp'
    BY <2>1 DEF DeliveryInv, CyclesWhileUp
  <2> QED BY <1>0, <2>1, <2>2, PassingInv
<1> QED BY <1>1, <1>2, <1>3, <1>4, <1>5, <1>6, <1>7, <1>8 DEF Next

\* Receipts, buffers, offsets, queues and barriers always agree (DeliveryInv):
\* what the acknowledgement machinery as a whole keeps true between any two of
\* its steps, through crashes, shutdowns, retries and skips.
THEOREM MachineryAgrees ==
    ASSUME FaultlessBudget
    PROVE  Spec => []DeliveryInv
<1>1. Init => DeliveryInv
  BY InitInv
<1>2. TypeOK /\ DeliveryInv /\ [Next]_vars => DeliveryInv'
  BY NextInv
<1>3. Spec => []TypeOK
  BY TypeCorrect
<1> QED BY <1>1, <1>2, <1>3, PTL DEF Spec

\* At-least-once delivery: the watermark in monitor_state.json never stands past
\* an entry that still has to be delivered, for any number of sessions, users,
\* topics and entries and any number of crashes, shutdowns, skips, failed sends,
\* failed saves, flood waits, routing failures and vanished windows.
THEOREM NothingLost ==
    ASSUME FaultlessBudget
    PROVE  Spec => []NoLoss
<1>1. TypeOK /\ DeliveryInv => NoLoss
  <2> SUFFICES ASSUME TypeOK, DeliveryInv, NEW s \in Sessions, NEW i \in 1..disk[s].wm
               PROVE  Handled(s, i)
    BY DEF NoLoss
  <2>1. /\ MarkCovers(s) /\ disk[s].wm <= mem[s].wm
        /\ disk[s].wm \in Nat /\ mem[s].wm \in Nat
    BY NaturalNumbers DEF DeliveryInv, OffsetOrder
  <2>2. i \in 1..mem[s].wm
    BY <2>1
  <2> QED BY <2>1, <2>2 DEF MarkCovers
<1>2. Spec => []TypeOK
  BY TypeCorrect
<1>3. Spec => []DeliveryInv
  BY MachineryAgrees
<1> QED BY <1>1, <1>2, <1>3, PTL

\* Setting a barrier in memory moves no watermark.
LEMMA WithSkipMarks ==
    ASSUME NEW m \in [Sessions -> Tracked], NEW s \in Sessions, NEW n, NEW r \in Sessions
    PROVE  WithSkip(m, s, n)[r].wm = m[r].wm
<1>1. m[r] \in Tracked
  OBVIOUS
<1>2. WithSkip(m, s, n)[r] = IF r = s THEN [m[s] EXCEPT !.skip = n] ELSE m[r]
  BY DEF WithSkip
<1> QED BY <1>1, <1>2 DEF Tracked

\* Preparing a barrier moves no watermark either.
LEMMA PrepareMarks ==
    ASSUME NEW s \in Sessions, NEW n, NEW m \in [Sessions -> Tracked], NEW d, NEW b,
           PrepareSkip(s, n, m, d, b), NEW r \in Sessions
    PROVE  mem'[r].wm = m[r].wm /\ (disk' = d \/ disk' = mem')
<1>1. mem' = m \/ mem' = WithSkip(m, s, [n EXCEPT !.purged = TRUE])
  BY DEF PrepareSkip
<1>2. disk' = d \/ disk' = mem'
  BY DEF PrepareSkip
<1> QED BY <1>1, <1>2, WithSkipMarks

\* Whatever is saved, no mark in the file moves back.
LEMMA MarksAdvance ==
    ASSUME TypeOK, DeliveryInv, Next, NEW r \in Sessions
    PROVE  disk'[r].wm >= disk[r].wm
<1>1. /\ disk[r].wm \in Nat /\ mem[r].wm \in Nat /\ disk[r].wm <= mem[r].wm
      /\ mem \in [Sessions -> Tracked]
  BY NaturalNumbers DEF DeliveryInv, OffsetOrder, TypeOK
<1>0. disk'[r].wm \in Nat
  <2>1. TypeOK'
    BY NextType
  <2> QED BY <2>1 DEF TypeOK, Tracked, Offset
<1>2. CASE disk' = disk
  BY <1>1, <1>2
<1>3. CASE disk' = mem
  BY <1>1, <1>3
<1>4. ASSUME NEW s \in Sessions, ResumeSkip(s) PROVE disk' = disk \/ disk'[r].wm = mem[r].wm
  <2>1. CASE UNCHANGED storeVars
    BY <2>1 DEF storeVars
  <2>2. CASE mem' = WithSkip(mem, s, NoSkip) /\ Save(mem')
    BY <1>1, <2>2, WithSkipMarks DEF Save
  <2>3. CASE PrepareSkip(s, mem[s].skip, mem, disk, budget)
    BY <1>1, <2>3, PrepareMarks
  <2> QED BY <1>4, <2>1, <2>2, <2>3 DEF ResumeSkip
<1>5. ASSUME NEW s \in Sessions, SettleSkip(s)
      PROVE  disk' = disk \/ disk'[r].wm >= mem[r].wm
  <2>1. CASE UNCHANGED storeVars
    BY <2>1 DEF storeVars
  <2>2. CASE CompleteSkip(s) /\ Save(mem') /\ notice[s] = "ready"
    <3>1. mem[s].skip # NoSkip
      BY <2>2 DEF DeliveryInv, OneNotice
    <3>2. mem[s].wm \in Nat /\ mem[s].skip \in Intent
      BY <1>1, <3>1 DEF Tracked, Offset
    <3>3. Larger(mem[s].wm, mem[s].skip.snap) >= mem[s].wm
      BY <3>2 DEF Larger, Intent, Offset
    <3>4. mem'[r] = IF r = s THEN [wm |-> Larger(mem[s].wm, mem[s].skip.snap), skip |-> NoSkip]
                    ELSE mem[r]
      BY <1>1, <2>2 DEF CompleteSkip
    <3>5. mem'[r].wm >= mem[r].wm
      BY <1>1, <3>3, <3>4
    <3> QED BY <2>2, <3>5 DEF Save
  <2>3. CASE mem' = WithSkip(mem, s, NoSkip) /\ Save(mem')
    BY <1>1, <2>3, WithSkipMarks DEF Save
  <2> QED BY <1>5, <2>1, <2>2, <2>3 DEF SettleSkip
<1>6. ASSUME CommitWatermarks PROVE disk' = disk \/ disk'[r].wm >= mem[r].wm
  <2>1. disk' = disk \/ disk' = mem'
    BY <1>6 DEF CommitWatermarks, Save
  <2>2. mem'[r].wm = NewMark(r)
    BY <1>1, <1>6 DEF CommitWatermarks, Tracked
  <2>3. mem[r].wm <= NewMark(r) /\ NewMark(r) \in Nat
    BY NewMarkCovers, NewMarkType DEF DeliveryInv, Offset
  <2> QED BY <1>1, <2>1, <2>2, <2>3
<1>7. ASSUME NEW u \in Users, NEW s \in Sessions, RequestSkip(u, s)
      PROVE  disk'[r].wm = mem[r].wm
  <2> DEFINE n == [user |-> u, topic |-> bound[u][s], snap |-> written[s], purged |-> FALSE]
             m == WithSkip(mem, s, n)
  <2>1. \/ PrepareSkip(s, n, m, m, [budget EXCEPT !["skip"] = @ - 1])
        \/ disk' = m
    BY <1>7 DEF RequestSkip
  <2>2. n \in Intent
    BY <1>7 DEF RequestSkip, TypeOK, Intent
  <2> HIDE DEF n
  <2>3. m \in [Sessions -> Tracked] /\ m[r].wm = mem[r].wm
    BY <1>1, <2>2, WithSkipType, WithSkipMarks
  <2> HIDE DEF m
  <2> QED BY <2>1, <2>3, PrepareMarks
<1>8. CASE MonitorStep
  <2>1. CASE Register
    BY <1>2, <1>3, <2>1 DEF Register, Save
  <2>2. CASE \E s \in Sessions : ResumeSkip(s) \/ SettleSkip(s)
    BY <1>0, <1>1, <1>2, <1>4, <1>5, <2>2
  <2>3. CASE CommitWatermarks
    BY <1>0, <1>1, <1>2, <1>6, <2>3
  <2>4. CASE \/ \E L \in SUBSET Sessions : NoteLive(L)
             \/ \E s \in Sessions : BeginRead(s) \/ FinishRead(s)
             \/ EndResume \/ BeginReads \/ EndDispatch
             \/ \E s \in Sessions, i \in Item :
                   (\E u \in Users : Route(u, s, i)) \/ CloseReceipt(s, i) \/ RouteFails(s, i)
    <3>1. CASE \E s \in Sessions, i \in Item :
                 (\E u \in Users : Route(u, s, i)) \/ CloseReceipt(s, i) \/ RouteFails(s, i)
      <4>1. ASSUME NEW s \in Sessions, NEW i \in Item, NEW u \in Users, Route(u, s, i)
            PROVE  disk' = disk
        BY <4>1 DEF Route, storeVars
      <4>2. ASSUME NEW s \in Sessions, NEW i \in Item, CloseReceipt(s, i) \/ RouteFails(s, i)
            PROVE  disk' = disk
        BY <4>2 DEF CloseReceipt, RouteFails, storeVars
      <4> QED BY <1>2, <3>1, <4>1, <4>2
    <3>2. CASE \/ \E L \in SUBSET Sessions : NoteLive(L)
               \/ \E s \in Sessions : BeginRead(s) \/ FinishRead(s)
               \/ EndResume \/ BeginReads \/ EndDispatch
      BY <1>2, <3>2
      DEF NoteLive, BeginRead, FinishRead, EndResume, BeginReads, EndDispatch, storeVars
    <3> QED BY <2>4, <3>1, <3>2
  <2> QED BY <1>8, <2>1, <2>2, <2>3, <2>4 DEF MonitorStep
<1>9. CASE \E u \in Users : WorkerStep(u)
  <2>1. PICK u \in Users : WorkerStep(u)
    BY <1>9
  <2>2. CASE GetTask(u) \/ BeginSend(u) \/ RetryAfter(u)
    BY <1>2, <2>2 DEF GetTask, BeginSend, RetryAfter, storeVars
  <2>3. CASE \E outcome \in {"dropped", "failed", "delivered"} : Settle(u, outcome)
    BY <1>2, <2>3 DEF Settle, storeVars
  <2> QED BY <2>1, <2>2, <2>3 DEF WorkerStep, DropStale, DropHidden, RefuseNotice, Deliver, FailSend
<1>10. CASE Stop
  BY <1>2, <1>3, <1>10 DEF Stop
<1>11. CASE \/ \E s \in Sessions : RetryDue(s) \/ Write(s)
            \/ \E u \in Users, s \in Sessions, t \in Topics \cup {Unbound} : Rebind(u, s, t)
            \/ Crash \/ Start \/ StopWorkers
  BY <1>2, <1>11 DEF RetryDue, Write, Rebind, Crash, Start, StopWorkers, storeVars
<1>12. CASE \E u \in Users, s \in Sessions : RequestSkip(u, s)
  BY <1>1, <1>7, <1>12
<1> QED BY <1>8, <1>9, <1>10, <1>11, <1>12 DEF Next

\* The durable watermark never moves back: no receipt that outlived a skip, a
\* shutdown or a restart ever pulls the file behind what it already said.
THEOREM MarkNeverMovesBack ==
    ASSUME FaultlessBudget
    PROVE  Spec => WatermarkMonotone
<1>1. TypeOK /\ DeliveryInv /\ [Next]_vars
         => [\A s \in Sessions : disk'[s].wm >= disk[s].wm]_disk
  BY MarksAdvance DEF vars, storeVars
<1>2. Spec => []TypeOK
  BY TypeCorrect
<1>3. Spec => []DeliveryInv
  BY MachineryAgrees
<1> QED BY <1>1, <1>2, <1>3, PTL DEF Spec, WatermarkMonotone
=============================================================================
