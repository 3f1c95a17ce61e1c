---------------------- MODULE TranscriptAccountingProofs ----------------------
(***************************************************************************)
(* Receipts and queues account for each other in every run (AccountingInv),*)
(* and what follows from that and from DeliveryInv: work is retired only   *)
(* behind a barrier on disk, skips are announced, and the component        *)
(* implements AtLeastOnce.                                                 *)
(***************************************************************************)
EXTENDS TranscriptInvariantProofs

-----------------------------------------------------------------------------
(* Frames.                                                                 *)

\* Nobody touches the tasks of u, nor what the receipt waits for.
LEMMA SamePlaces ==
    ASSUME NEW u, NEW s, NEW i, OwedOnce(u, s, i),
           queue'[u] = queue[u], worker'[u].task = worker[u].task,
           u \in rcpt'[s][i].awaiting <=> u \in rcpt[s][i].awaiting
    PROVE  OwedOnce(u, s, i)'
BY DEF OwedOnce, Owing, InHand

\* Nobody owes anything where no task carries anything.
LEMMA NoPlaces ==
    ASSUME NEW u, NEW s, NEW i,
           \A k \in 1..Len(queue[u]) : queue[u][k].sess = s => i \notin queue[u][k].owed,
           worker[u].task.sess = s => i \notin worker[u].task.owed,
           u \notin rcpt[s][i].awaiting
    PROVE  OwedOnce(u, s, i)
BY DEF OwedOnce, Owing, InHand

\* Tasks move to other places, perhaps several into one.
LEMMA MovedPlaces ==
    ASSUME NEW u, NEW s, NEW i, NEW g, OwedOnce(u, s, i),
           Owing(u, s, i)' = {g[k] : k \in Owing(u, s, i)},
           u \in rcpt'[s][i].awaiting <=> u \in rcpt[s][i].awaiting
    PROVE  OwedOnce(u, s, i)'
<1>1. \A j, k \in Owing(u, s, i)' : j = k
  BY DEF OwedOnce
<1>2. Owing(u, s, i)' # {} <=> Owing(u, s, i) # {}
  OBVIOUS
<1> QED BY <1>1, <1>2 DEF OwedOnce

\* A step that leaves tasks, receipts and readings alone.
LEMMA QuietAccounting ==
    ASSUME AccountingInv, Running' => Running,
           UNCHANGED <<queue, worker, regs, buf, rcpt, parsed>>,
           \A s \in Sessions : pc' # "read" => buf[s] = {},
           \A s \in Sessions : BarrierSaved(s)'
    PROVE  AccountingInv'
<1>1. TasksOweTheirItems'
  BY DEF AccountingInv, TasksOweTheirItems, OwesItsItems
<1>2. \A s \in Sessions : ReadOnce(s)' /\ RoutedOnce(s)'
  BY DEF AccountingInv, ReadOnce, RoutedOnce
<1>3. ASSUME Running', NEW u \in Users, NEW s \in Sessions, NEW i \in Item
      PROVE  OwedOnce(u, s, i)'
  BY <1>3, SamePlaces DEF AccountingInv
<1> QED BY <1>1, <1>2, <1>3 DEF AccountingInv

\* A step that leaves the tasks and what is waited for alone.
LEMMA SteadyAccounting ==
    ASSUME AccountingInv, Running' => Running, UNCHANGED <<queue, worker>>,
           \A s \in Sessions, i \in Item : rcpt'[s][i].awaiting = rcpt[s][i].awaiting,
           \A s \in Sessions : ReadOnce(s)' /\ RoutedOnce(s)' /\ BarrierSaved(s)'
    PROVE  AccountingInv'
<1>1. TasksOweTheirItems'
  BY DEF AccountingInv, TasksOweTheirItems, OwesItsItems
<1>2. ASSUME Running', NEW u \in Users, NEW s \in Sessions, NEW i \in Item
      PROVE  OwedOnce(u, s, i)'
  BY <1>2, SamePlaces DEF AccountingInv
<1> QED BY <1>1, <1>2 DEF AccountingInv

\* Barriers stay saved while the store is left alone or saved as a whole.
LEMMA SavedBarriers ==
    ASSUME NEW s \in Sessions, BarrierSaved(s),
           \/ disk' = mem'
           \/ mem'[s].skip = NoSkip
           \/ mem'[s].skip = mem[s].skip /\ disk'[s].skip = disk[s].skip
    PROVE  BarrierSaved(s)'
BY DEF BarrierSaved

-----------------------------------------------------------------------------
(* Queue workers.                                                          *)

\* Settling takes the task out of the hand and its user off the receipts.
LEMMA SettleAccounting ==
    ASSUME TypeOK, AccountingInv, NEW u \in Users, NEW outcome, Settle(u, outcome),
           queue' = queue, Running
    PROVE  AccountingInv'
<1> DEFINE t == worker[u].task
           mine(s, i) == s = t.sess /\ i \in t.owed
<1>1. /\ \A s \in Sessions, i \in Item :
            rcpt'[s][i] = IF mine(s, i) THEN Settled(rcpt[s][i], u, outcome) ELSE rcpt[s][i]
      /\ worker' = [worker EXCEPT ![u] = IdleWorker]
      /\ UNCHANGED <<regs, buf, parsed, pc, mem, disk, mode>>
  BY DEF Settle, envVars, monVars, readVars, storeVars
<1>2. \A s \in Sessions, i \in Item : rcpt[s][i] \in Receipt
  BY DEF TypeOK
<1>3. \A s \in Sessions, i \in Item :
        /\ rcpt'[s][i].awaiting = IF mine(s, i) THEN rcpt[s][i].awaiting \ {u}
                                  ELSE rcpt[s][i].awaiting
        /\ rcpt'[s][i].left = rcpt[s][i].left
  <2> SUFFICES ASSUME NEW s \in Sessions, NEW i \in Item
               PROVE  /\ rcpt'[s][i].awaiting = IF mine(s, i) THEN rcpt[s][i].awaiting \ {u}
                                                ELSE rcpt[s][i].awaiting
                      /\ rcpt'[s][i].left = rcpt[s][i].left
    OBVIOUS
  <2>1. rcpt'[s][i] = IF mine(s, i) THEN Settled(rcpt[s][i], u, outcome) ELSE rcpt[s][i]
    BY <1>1
  <2>2. rcpt[s][i] \in Receipt
    BY <1>2
  <2>3. CASE mine(s, i)
    BY <2>1, <2>2, <2>3, SettledFields
  <2>4. CASE ~mine(s, i)
    BY <2>1, <2>4
  <2> QED BY <2>3, <2>4
<1>4. worker'[u] = IdleWorker /\ \A v \in Users : v # u => worker'[v] = worker[v]
  BY <1>1 DEF TypeOK
<1>5. IdleWorker.task.owed = {} /\ ~IdleWorker.task.notice
  BY DEF IdleWorker, IdleTask
<1>6. TasksOweTheirItems'
  BY <1>4, <1>5 DEF AccountingInv, TasksOweTheirItems, OwesItsItems
<1>7. \A s \in Sessions : ReadOnce(s)' /\ RoutedOnce(s)' /\ BarrierSaved(s)'
  <2> SUFFICES ASSUME NEW s \in Sessions
               PROVE  ReadOnce(s)' /\ RoutedOnce(s)' /\ BarrierSaved(s)'
    OBVIOUS
  <2>1. \A i \in Item : /\ rcpt'[s][i].awaiting \subseteq rcpt[s][i].awaiting
                        /\ rcpt'[s][i].left = rcpt[s][i].left
    BY <1>3
  <2> QED BY <1>1, <2>1 DEF AccountingInv, ReadOnce, RoutedOnce, BarrierSaved
<1>8. ASSUME NEW v \in Users, NEW s \in Sessions, NEW i \in Item
      PROVE  OwedOnce(v, s, i)'
  <2>1. OwedOnce(v, s, i)
    BY DEF AccountingInv
  <2>2. CASE v # u
    <3>1. v \in rcpt'[s][i].awaiting <=> v \in rcpt[s][i].awaiting
      BY <1>3, <2>2
    <3> QED BY <1>4, <2>1, <2>2, <3>1, SamePlaces
  <2>3. CASE v = u /\ ~mine(s, i)
    <3>1. rcpt'[s][i].awaiting = rcpt[s][i].awaiting
      BY <1>3, <2>3
    <3>2. ~InHand(u, s, i) /\ ~InHand(u, s, i)'
      BY <1>4, <1>5, <2>3 DEF InHand
    <3> QED BY <2>1, <2>3, <3>1, <3>2 DEF OwedOnce, Owing
  <2>4. CASE v = u /\ mine(s, i)
    <3>1. u \notin rcpt'[s][i].awaiting
      BY <1>3, <2>4
    <3>2. 0 \in Owing(u, s, i)
      BY <2>4 DEF Owing, InHand
    <3>3. \A k \in 1..Len(queue[u]) : queue[u][k].sess = s => i \notin queue[u][k].owed
      BY <2>1, <2>4, <3>2 DEF OwedOnce, Owing
    <3> QED BY <1>4, <1>5, <2>4, <3>1, <3>3 DEF OwedOnce, Owing, InHand
  <2> QED BY <2>2, <2>3, <2>4
<1> QED BY <1>6, <1>7, <1>8 DEF AccountingInv

\* The first queued task comes into the hand that was empty.
LEMMA GetTaskAccounting ==
    ASSUME TypeOK, AccountingInv, NEW u \in Users, GetTask(u)
    PROVE  AccountingInv'
<1> DEFINE q == queue[u]
<1>1. q \in Seq(Task) /\ q # <<>> /\ worker[u].task.owed = {}
  BY DEF GetTask, TypeOK, AccountingInv, TasksOweTheirItems
<1>2. /\ worker'[u].task = q[1] /\ worker'[u].st = "ready"
      /\ \A v \in Users : v # u => worker'[v] = worker[v] /\ queue'[v] = queue[v]
      /\ queue'[u] = Tail(q)
      /\ UNCHANGED <<regs, buf, rcpt, parsed, pc, mem, disk, mode>>
  BY <1>1 DEF GetTask, TypeOK, envVars, monVars, readVars, ackVars, storeVars
<1>3. /\ Len(queue'[u]) = Len(q) - 1 /\ Len(q) >= 1 /\ Len(q) \in Nat
      /\ \A k \in 1..Len(queue'[u]) : queue'[u][k] = q[k + 1]
  BY <1>1, <1>2
<1>4. TasksOweTheirItems'
  <2>1. OwesItsItems(worker'[u].task)
    BY <1>1, <1>2, <1>3 DEF AccountingInv, TasksOweTheirItems
  <2>2. \A k \in 1..Len(queue'[u]) : OwesItsItems(queue'[u][k])
    BY <1>3 DEF AccountingInv, TasksOweTheirItems
  <2>3. \A v \in Users : v # u =>
           /\ OwesItsItems(worker'[v].task)
           /\ worker'[v].st = "idle" => worker'[v].task.owed = {}
           /\ \A k \in 1..Len(queue'[v]) : OwesItsItems(queue'[v][k])
    BY <1>2 DEF AccountingInv, TasksOweTheirItems
  <2> QED BY <1>2, <2>1, <2>2, <2>3 DEF TasksOweTheirItems, OwesItsItems
<1>5. \A s \in Sessions : ReadOnce(s)' /\ RoutedOnce(s)' /\ BarrierSaved(s)'
  BY <1>2 DEF AccountingInv, ReadOnce, RoutedOnce, BarrierSaved
<1>6. ASSUME NEW v \in Users, NEW s \in Sessions, NEW i \in Item
      PROVE  OwedOnce(v, s, i)'
  <2>1. OwedOnce(v, s, i)
    BY DEF AccountingInv, GetTask
  <2>2. CASE v # u
    BY <1>2, <2>1, <2>2, SamePlaces
  <2>3. CASE v = u
    <3>1. ~InHand(u, s, i) /\ (InHand(u, s, i)' <=> 1 \in Owing(u, s, i))
      BY <1>1, <1>2, <1>3 DEF InHand, Owing
    <3>2. \A k \in 1..Len(q) - 1 : k \in Owing(u, s, i)' <=> k + 1 \in Owing(u, s, i)
      BY <1>2, <1>3 DEF Owing
    <3>3. Owing(u, s, i) \subseteq 1..Len(q) /\ Owing(u, s, i)' \subseteq 0..(Len(q) - 1)
      BY <1>3, <3>1 DEF Owing
    <3>4. 0 \in Owing(u, s, i)' <=> 1 \in Owing(u, s, i)
      BY <3>1 DEF Owing
    <3>5. \A k \in 0..(Len(q) - 1) : k \in Owing(u, s, i)' <=> k + 1 \in Owing(u, s, i)
      BY <1>3, <3>2, <3>4
    <3>6. Owing(u, s, i)' # {} <=> Owing(u, s, i) # {}
      <4>1. ASSUME NEW k \in Owing(u, s, i) PROVE k - 1 \in Owing(u, s, i)'
        <5>1. k - 1 \in 0..(Len(q) - 1) /\ (k - 1) + 1 = k
          BY <1>3, <3>3
        <5> QED BY <3>5, <5>1
      <4> QED BY <3>3, <3>5, <4>1
    <3>7. \A j, k \in Owing(u, s, i)' : j = k
      <4> SUFFICES ASSUME NEW j \in Owing(u, s, i)', NEW k \in Owing(u, s, i)'
                   PROVE  j = k
        OBVIOUS
      <4>1. j + 1 = k + 1 /\ j \in Int /\ k \in Int
        BY <2>1, <2>3, <3>3, <3>5 DEF OwedOnce
      <4> QED BY <4>1
    <3> QED BY <1>2, <2>1, <2>3, <3>6, <3>7 DEF OwedOnce
  <2> QED BY <2>2, <2>3
<1> QED BY <1>4, <1>5, <1>6 DEF AccountingInv

\* The first queued tasks join the one in hand.
LEMMA BeginSendAccounting ==
    ASSUME TypeOK, AccountingInv, NEW u \in Users, BeginSend(u)
    PROVE  AccountingInv'
<1> DEFINE t == worker[u].task
           q == queue[u]
<1>1. PICK n \in 0..Len(q) :
        /\ \A j \in 1..n : CanMerge(t, q[j])
        /\ worker' = [worker EXCEPT ![u] =
               [st |-> "sending", task |-> Merged(t, q, n),
                batch |-> worker[u].batch \/ n > 0]]
        /\ queue' = [queue EXCEPT ![u] = SubSeq(@, n + 1, Len(@))]
  BY DEF BeginSend
<1>2. /\ q \in Seq(Task) /\ t \in Task
      /\ queue \in [Users -> Seq(Task)] /\ worker \in [Users -> Worker]
  BY DEF TypeOK, Worker
<1>3. /\ worker'[u].task = Merged(t, q, n) /\ worker'[u].st = "sending"
      /\ \A v \in Users : v # u => worker'[v] = worker[v] /\ queue'[v] = queue[v]
  BY <1>1, <1>2
<1>4. /\ Len(q) \in Nat /\ n \in 0..Len(q) /\ Len(queue'[u]) = Len(q) - n
      /\ \A k \in 1..Len(queue'[u]) : queue'[u][k] = q[k + n] /\ k + n \in 1..Len(q)
  BY <1>1, <1>2
<1>5. UNCHANGED <<regs, buf, rcpt, parsed, pc, mem, disk, mode>> /\ Running
  BY DEF BeginSend, envVars, monVars, readVars, ackVars, storeVars
<1>6. /\ worker'[u].task.notice = t.notice /\ worker'[u].task.sess = t.sess
      /\ worker'[u].task.items = t.items \cup UNION {q[j].items : j \in 1..n}
      /\ worker'[u].task.owed = t.owed \cup UNION {q[j].owed : j \in 1..n}
  BY <1>2, <1>3 DEF Merged, Task
<1>7. TasksOweTheirItems'
  <2>1. TasksOweTheirItems
    BY DEF AccountingInv
  <2>2. OwesItsItems(worker'[u].task)
    <3>1. OwesItsItems(t) /\ \A j \in 1..n : OwesItsItems(q[j])
      BY <2>1 DEF TasksOweTheirItems
    <3>2. t.notice => n = 0
      <4>1. n > 0 => CanMerge(t, q[1])
        BY <1>1
      <4> QED BY <4>1 DEF CanMerge, OnlyKind
    <3>3. n = 0 => worker'[u].task.owed = t.owed
      BY <1>6
    <3> QED BY <1>6, <3>1, <3>2, <3>3 DEF OwesItsItems
  <2>3. \A v \in Users : /\ OwesItsItems(worker'[v].task)
                         /\ worker'[v].st = "idle" => worker'[v].task.owed = {}
    BY <1>3, <2>1, <2>2 DEF TasksOweTheirItems
  <2>4. \A v \in Users : \A k \in 1..Len(queue'[v]) : OwesItsItems(queue'[v][k])
    <3> SUFFICES ASSUME NEW v \in Users, NEW k \in 1..Len(queue'[v])
                 PROVE  OwesItsItems(queue'[v][k])
      OBVIOUS
    <3>1. PICK l \in 1..Len(queue[v]) : queue'[v][k] = queue[v][l]
      BY <1>3, <1>4
    <3> QED BY <2>1, <3>1 DEF TasksOweTheirItems
  <2> QED BY <2>3, <2>4 DEF TasksOweTheirItems, OwesItsItems
<1>8. \A s \in Sessions : ReadOnce(s)' /\ RoutedOnce(s)' /\ BarrierSaved(s)'
  BY <1>5 DEF AccountingInv, ReadOnce, RoutedOnce, BarrierSaved
<1>9. ASSUME NEW v \in Users, NEW s \in Sessions, NEW i \in Item
      PROVE  OwedOnce(v, s, i)'
  <2>1. OwedOnce(v, s, i)
    BY <1>5 DEF AccountingInv
  <2>2. CASE v # u
    BY <1>3, <1>5, <2>1, <2>2, SamePlaces
  <2>3. CASE v = u
    <3> DEFINE g == [k \in 0..Len(q) |-> IF k <= n THEN 0 ELSE k - n]
    <3>1. Owing(u, s, i) \subseteq 0..Len(q) /\ Owing(u, s, i)' \subseteq 0..(Len(q) - n)
      BY <1>4 DEF Owing
    <3>2. InHand(u, s, i)' <=> \E k \in 0..n : k \in Owing(u, s, i)
      <4>1. \A j \in 1..n : q[j].sess = t.sess
        BY <1>1 DEF CanMerge
      <4>2. InHand(u, s, i)' <=>
              s = t.sess /\ (i \in t.owed \/ \E j \in 1..n : i \in q[j].owed)
        BY <1>6 DEF InHand
      <4>3. 0 \in Owing(u, s, i) <=> InHand(u, s, i)
        BY <1>4 DEF Owing
      <4>4. \A j \in 1..n : j \in Owing(u, s, i) <=> q[j].sess = s /\ i \in q[j].owed
        BY <1>4 DEF Owing
      <4>5. \A k \in 0..n : k = 0 \/ k \in 1..n
        BY <1>4
      <4>6. InHand(u, s, i) <=> s = t.sess /\ i \in t.owed
        BY DEF InHand
      <4>7. 0 \in 0..n /\ \A j \in 1..n : j \in 0..n
        BY <1>4
      <4>8. ASSUME InHand(u, s, i)' PROVE \E k \in 0..n : k \in Owing(u, s, i)
        <5>1. CASE s = t.sess /\ i \in t.owed
          BY <4>3, <4>6, <4>7, <5>1
        <5>2. CASE s = t.sess /\ \E j \in 1..n : i \in q[j].owed
          <6>1. PICK j \in 1..n : i \in q[j].owed
            BY <5>2
          <6> QED BY <4>1, <4>4, <4>7, <5>2, <6>1
        <5> QED BY <4>2, <4>8, <5>1, <5>2
      <4>9. ASSUME NEW k \in 0..n, k \in Owing(u, s, i) PROVE InHand(u, s, i)'
        <5>1. CASE k = 0
          BY <4>2, <4>3, <4>6, <4>9, <5>1
        <5>2. CASE k \in 1..n
          BY <4>1, <4>2, <4>4, <4>9, <5>2
        <5> QED BY <4>5, <5>1, <5>2
      <4> QED BY <4>8, <4>9
    <3>3. \A k \in 1..(Len(q) - n) : k \in Owing(u, s, i)' <=> k + n \in Owing(u, s, i)
      BY <1>4 DEF Owing
    <3>4. 0 \in Owing(u, s, i)' <=> InHand(u, s, i)'
      BY <1>4 DEF Owing
    <3>5. ASSUME NEW k \in Owing(u, s, i) PROVE g[k] \in Owing(u, s, i)'
      <4>1. CASE k <= n
        BY <1>4, <3>1, <3>2, <3>4, <4>1
      <4>2. CASE ~(k <= n)
        <5>1. k - n \in 1..(Len(q) - n) /\ (k - n) + n = k
          BY <1>4, <3>1, <4>2
        <5>2. g[k] = k - n
          BY <3>1, <4>2
        <5> QED BY <3>3, <5>1, <5>2
      <4> QED BY <4>1, <4>2
    <3>6. ASSUME NEW k \in Owing(u, s, i)' PROVE \E j \in Owing(u, s, i) : k = g[j]
      <4>1. CASE k = 0
        <5>1. PICK j \in 0..n : j \in Owing(u, s, i)
          BY <3>2, <3>4, <4>1
        <5> QED BY <1>4, <3>1, <4>1, <5>1
      <4>2. CASE k # 0
        <5>1. k \in 1..(Len(q) - n) /\ k + n \in 0..Len(q) /\ (k + n) - n = k /\ ~(k + n <= n)
          BY <1>4, <3>1, <4>2
        <5>2. k + n \in Owing(u, s, i) /\ g[k + n] = k
          BY <3>3, <5>1
        <5> QED BY <5>2
      <4> QED BY <4>1, <4>2
    <3>7. Owing(u, s, i)' = {g[k] : k \in Owing(u, s, i)}
      BY <3>5, <3>6
    <3> HIDE DEF g
    <3> QED BY <1>5, <2>1, <2>3, <3>7, MovedPlaces
  <2> QED BY <2>2, <2>3
<1> QED BY <1>7, <1>8, <1>9 DEF AccountingInv

\* A step of a queue worker.
LEMMA WorkerAccounting ==
    ASSUME TypeOK, AccountingInv, NEW u \in Users, WorkerStep(u)
    PROVE  AccountingInv'
<1>1. CASE GetTask(u)
  BY <1>1, GetTaskAccounting
<1>2. CASE BeginSend(u)
  BY <1>2, BeginSendAccounting
<1>3. CASE DropStale(u) \/ DropHidden(u) \/ RefuseNotice(u) \/ Deliver(u) \/ FailSend(u)
  <2>1. UNCHANGED queue /\ Running
    BY <1>3 DEF DropStale, DropHidden, RefuseNotice, Deliver, FailSend
  <2> QED BY <1>3, <2>1, SettleAccounting
          DEF DropStale, DropHidden, RefuseNotice, Deliver, FailSend
<1>4. CASE RetryAfter(u)
  <2>1. \A v \in Users : /\ worker'[v].task = worker[v].task
                         /\ worker'[v].st = "idle" => worker[v].st = "idle"
    BY <1>4 DEF RetryAfter, TypeOK, Worker
  <2>2. UNCHANGED <<regs, buf, rcpt, parsed, pc, mem, disk, mode, queue>> /\ Running
    BY <1>4 DEF RetryAfter, envVars, monVars, readVars, ackVars, storeVars
  <2>3. TasksOweTheirItems'
    BY <2>1, <2>2 DEF AccountingInv, TasksOweTheirItems, OwesItsItems
  <2>4. \A s \in Sessions : ReadOnce(s)' /\ RoutedOnce(s)' /\ BarrierSaved(s)'
    BY <2>2 DEF AccountingInv, ReadOnce, RoutedOnce, BarrierSaved
  <2>5. ASSUME NEW v \in Users, NEW s \in Sessions, NEW i \in Item
        PROVE  OwedOnce(v, s, i)'
    BY <2>1, <2>2, <2>5, SamePlaces DEF AccountingInv
  <2> QED BY <2>3, <2>4, <2>5 DEF AccountingInv
<1> QED BY <1>1, <1>2, <1>3, <1>4 DEF WorkerStep

-----------------------------------------------------------------------------
(* Skips.                                                                  *)

\* r holds the tasks of q at the places kept, each once.
Thinned(q, r, kept) ==
    \E p \in [1..Len(r) -> kept] :
        /\ \A k \in 1..Len(r) : r[k] = q[p[k]]
        /\ \A j, k \in 1..Len(r) : p[j] = p[k] => j = k
        /\ \A l \in kept : \E k \in 1..Len(r) : p[k] = l

\* A purge keeps every task that is not purgeable.
LEMMA PurgedThinned ==
    ASSUME NEW q \in Seq(Task), NEW s, NEW n, NEW r \in Purged(q, s, n)
    PROVE  /\ r \in Seq(Task)
           /\ Thinned(q, r, {k \in 1..Len(q) : ~Purgeable(q[k], s, n)})
<1> DEFINE kept == {k \in 1..Len(q) : ~Purgeable(q[k], s, n)}
           size == Cardinality(kept)
<1>1. IsFiniteSet(kept) /\ size \in Nat
  <2>1. IsFiniteSet(1..Len(q))
    BY FS_Interval
  <2>2. IsFiniteSet(kept)
    BY <2>1, FS_Subset
  <2> QED BY <2>2, FS_CardinalityType
<1>2. PICK p \in [1..size -> kept] :
        /\ r = [k \in 1..size |-> q[p[k]]]
        /\ \A j, k \in 1..size : j < k => p[j] < p[k]
  BY DEF Purged
<1>3. r \in Seq(Task)
  BY PurgedType
<1>4. \A j, k \in 1..size : p[j] = p[k] => j = k
  <2> SUFFICES ASSUME NEW j \in 1..size, NEW k \in 1..size, p[j] = p[k]
               PROVE  j = k
    OBVIOUS
  <2>1. p[j] \in Int /\ p[k] \in Int
    BY <1>2
  <2>2. ~(j < k) /\ ~(k < j)
    BY <1>2, <2>1
  <2> HIDE DEF size
  <2> QED BY <1>1, <2>2
<1>5. Cardinality(1..size) = size
  BY <1>1, FS_Interval
<1>6. \A l \in kept : \E k \in 1..size : p[k] = l
  <2> HIDE DEF kept, size
  <2>1. p \in Injection(1..size, kept)
    BY <1>2, <1>4 DEF Injection, IsInjective
  <2>2. p \in Surjection(1..size, kept)
    <3>1. size = Cardinality(kept)
      BY DEF size
    <3> QED BY <1>1, <1>5, <2>1, <3>1, FS_Injection
  <2> QED BY <2>2 DEF Surjection
<1> HIDE DEF size
<1>7. Len(r) = size
  BY <1>1, <1>2, <1>3
<1> HIDE DEF kept
<1>8. Thinned(q, r, kept)
  BY <1>2, <1>4, <1>6, <1>7 DEF Thinned
<1> QED BY <1>3, <1>8 DEF kept

\* A queue left alone keeps its tasks.
LEMMA AllThinned ==
    ASSUME NEW q \in Seq(Task)
    PROVE  Thinned(q, q, 1..Len(q))
<1> DEFINE p == [k \in 1..Len(q) |-> k]
<1>1. p \in [1..Len(q) -> 1..Len(q)] /\ \A k \in 1..Len(q) : p[k] = k
  OBVIOUS
<1> QED BY <1>1 DEF Thinned

\* Entry i of s is owed by a task of q that is not kept.
Retired(q, kept, s, i) == \E k \in 1..Len(q) : k \notin kept /\ q[k].sess = s /\ i \in q[k].owed

\* Tasks of u are retired together with what their receipts wait for, and a
\* notice, which owes nothing, may be queued.
LEMMA ThinnedAccounting ==
    ASSUME TypeOK, AccountingInv, NEW u \in Users,
           NEW kept \in SUBSET (1..Len(queue[u])), NEW r \in Seq(Task),
           Thinned(queue[u], r, kept),
           NEW t \in Task, t.owed = {}, OwesItsItems(t),
           \/ queue' = [queue EXCEPT ![u] = r]
           \/ queue' = [queue EXCEPT ![u] = Append(r, t)],
           UNCHANGED <<worker, regs, buf, parsed, pc>>, Running' => Running,
           \A s \in Sessions, i \in Item :
              /\ rcpt'[s][i].left = rcpt[s][i].left
              /\ rcpt'[s][i].awaiting = IF Retired(queue[u], kept, s, i)
                                        THEN rcpt[s][i].awaiting \ {u}
                                        ELSE rcpt[s][i].awaiting,
           \A s \in Sessions : BarrierSaved(s)'
    PROVE  AccountingInv'
<1> DEFINE q == queue[u]
<1>1. PICK p \in [1..Len(r) -> kept] :
        /\ \A k \in 1..Len(r) : r[k] = q[p[k]]
        /\ \A j, k \in 1..Len(r) : p[j] = p[k] => j = k
        /\ \A l \in kept : \E k \in 1..Len(r) : p[k] = l
  BY DEF Thinned
<1>2. /\ q \in Seq(Task) /\ Len(q) \in Nat /\ Len(r) \in Nat
      /\ \A v \in Users : v # u => queue'[v] = queue[v]
      /\ queue'[u] = r \/ queue'[u] = Append(r, t)
  BY DEF TypeOK
<1>3. /\ \A k \in 1..Len(r) : k \in 1..Len(queue'[u]) /\ queue'[u][k] = r[k]
      /\ \A k \in 1..Len(queue'[u]) : k \in 1..Len(r) \/ queue'[u][k] = t
  BY <1>2
<1>4. TasksOweTheirItems'
  <2>1. \A k \in 1..Len(queue'[u]) : OwesItsItems(queue'[u][k])
    <3> SUFFICES ASSUME NEW k \in 1..Len(queue'[u]) PROVE OwesItsItems(queue'[u][k])
      OBVIOUS
    <3>1. CASE k \in 1..Len(r)
      <4>1. queue'[u][k] = q[p[k]] /\ p[k] \in 1..Len(q)
        BY <1>1, <1>3, <3>1
      <4> QED BY <4>1 DEF AccountingInv, TasksOweTheirItems
    <3> QED BY <1>3, <3>1
  <2>2. \A v \in Users : \A k \in 1..Len(queue'[v]) : OwesItsItems(queue'[v][k])
    BY <1>2, <2>1 DEF AccountingInv, TasksOweTheirItems
  <2> QED BY <2>2 DEF AccountingInv, TasksOweTheirItems, OwesItsItems
<1>5. \A s \in Sessions : ReadOnce(s)' /\ RoutedOnce(s)'
  <2> SUFFICES ASSUME NEW s \in Sessions PROVE ReadOnce(s)' /\ RoutedOnce(s)'
    OBVIOUS
  <2>1. \A i \in Item : /\ rcpt'[s][i].awaiting \subseteq rcpt[s][i].awaiting
                        /\ rcpt'[s][i].left = rcpt[s][i].left
    OBVIOUS
  <2> QED BY <2>1 DEF AccountingInv, ReadOnce, RoutedOnce
<1>6. ASSUME Running', NEW v \in Users, NEW s \in Sessions, NEW i \in Item
      PROVE  OwedOnce(v, s, i)'
  <2>1. OwedOnce(v, s, i)
    BY <1>6 DEF AccountingInv
  <2>2. CASE v # u
    <3>1. v \in rcpt'[s][i].awaiting <=> v \in rcpt[s][i].awaiting
      BY <2>2
    <3> QED BY <1>2, <2>1, <2>2, <3>1, SamePlaces
  <2>3. CASE v = u
    <3>1. \A k \in Owing(u, s, i)' : k = 0 \/ k \in 1..Len(r)
      <4>1. \A k \in 1..Len(queue'[u]) : i \in queue'[u][k].owed => k \in 1..Len(r)
        BY <1>3
      <4> QED BY <4>1 DEF Owing
    <3>2. 0 \in Owing(u, s, i)' <=> 0 \in Owing(u, s, i)
      BY <1>2, <1>3 DEF Owing, InHand
    <3>3. \A k \in 1..Len(r) : k \in Owing(u, s, i)' <=> p[k] \in Owing(u, s, i)
      <4> SUFFICES ASSUME NEW k \in 1..Len(r)
                   PROVE  k \in Owing(u, s, i)' <=> p[k] \in Owing(u, s, i)
        OBVIOUS
      <4>1. k \in 1..Len(queue'[u]) /\ queue'[u][k] = q[p[k]] /\ p[k] \in 1..Len(q) /\ k # 0
        <5>1. k \in 1..Len(queue'[u]) /\ queue'[u][k] = r[k] /\ r[k] = q[p[k]]
          BY <1>1, <1>3
        <5>2. p[k] \in 1..Len(q)
          BY <1>1
        <5>3. k # 0
          BY <1>2
        <5> QED BY <5>1, <5>2, <5>3
      <4>2. p[k] # 0
        BY <1>2, <4>1
      <4>3. k \in Owing(u, s, i)' <=> queue'[u][k].sess = s /\ i \in queue'[u][k].owed
        BY <4>1 DEF Owing
      <4>4. p[k] \in Owing(u, s, i) <=> q[p[k]].sess = s /\ i \in q[p[k]].owed
        BY <4>1, <4>2 DEF Owing
      <4> QED BY <4>1, <4>3, <4>4
    <3>4. \A k \in 1..Len(r) : p[k] \in 1..Len(q) /\ p[k] # 0
      <4>1. \A k \in 1..Len(r) : p[k] \in 1..Len(q)
        BY <1>1
      <4>2. 0 \notin 1..Len(q)
        BY <1>2
      <4> QED BY <4>1, <4>2
    <3>5. \A j, k \in Owing(u, s, i)' : j = k
      <4> SUFFICES ASSUME NEW j \in Owing(u, s, i)', NEW k \in Owing(u, s, i)'
                   PROVE  j = k
        OBVIOUS
      <4>1. CASE j = 0 /\ k # 0
        BY <2>1, <2>3, <3>1, <3>2, <3>3, <3>4, <4>1 DEF OwedOnce
      <4>2. CASE j # 0 /\ k = 0
        BY <2>1, <2>3, <3>1, <3>2, <3>3, <3>4, <4>2 DEF OwedOnce
      <4>3. CASE j # 0 /\ k # 0
        BY <1>1, <2>1, <2>3, <3>1, <3>3, <4>3 DEF OwedOnce
      <4> QED BY <4>1, <4>2, <4>3
    <3>6. CASE Retired(q, kept, s, i)
      <4>1. PICK l \in 1..Len(q) : l \notin kept /\ q[l].sess = s /\ i \in q[l].owed
        BY <3>6 DEF Retired
      <4>2. l \in Owing(u, s, i) /\ l # 0
        BY <1>2, <4>1 DEF Owing
      <4>3. \A k \in 1..Len(r) : p[k] # l
        BY <1>1, <4>1
      <4>4. Owing(u, s, i)' = {}
        BY <2>1, <2>3, <3>1, <3>2, <3>3, <4>2, <4>3 DEF OwedOnce
      <4>5. u \notin rcpt'[s][i].awaiting
        BY <3>6
      <4> QED BY <2>3, <4>4, <4>5 DEF OwedOnce
    <3>7. CASE ~Retired(q, kept, s, i)
      <4>1. \A k \in Owing(u, s, i) : k = 0 \/ k \in kept
        BY <3>7 DEF Retired, Owing
      <4>2. Owing(u, s, i)' # {} <=> Owing(u, s, i) # {}
        <5>1. ASSUME NEW k \in Owing(u, s, i) PROVE Owing(u, s, i)' # {}
          <6>1. CASE k \in kept
            <7>1. PICK l \in 1..Len(r) : p[l] = k
              BY <1>1, <6>1
            <7> QED BY <3>3, <7>1
          <6> QED BY <3>2, <4>1, <6>1
        <5>2. ASSUME NEW k \in Owing(u, s, i)' PROVE Owing(u, s, i) # {}
          BY <3>1, <3>2, <3>3
        <5> QED BY <5>1, <5>2
      <4>3. rcpt'[s][i].awaiting = rcpt[s][i].awaiting
        BY <3>7
      <4> QED BY <2>1, <2>3, <3>5, <4>2, <4>3 DEF OwedOnce
    <3> QED BY <3>6, <3>7
  <2> QED BY <2>2, <2>3
<1> QED BY <1>4, <1>5, <1>6 DEF AccountingInv

\* Preparing a barrier retires queued work and queues the notice.
LEMMA PrepareAccounting ==
    ASSUME TypeOK, AccountingInv, NEW s \in Sessions, NEW n \in Intent, NEW m, NEW d, NEW b,
           \A r \in Sessions : m[r].skip # NoSkip => d[r].skip # NoSkip,
           PrepareSkip(s, n, m, d, b),
           UNCHANGED <<worker, regs, buf, parsed, pc, mode>>
    PROVE  AccountingInv'
<1> DEFINE u == n.user
           q == queue[u]
           t == NoticeTask(s, n)
<1>1. u \in Users /\ q \in Seq(Task)
  BY DEF Intent, TypeOK
<1>2. t \in Task /\ t.owed = {} /\ OwesItsItems(t)
  BY DEF NoticeTask, Task, Intent, OwesItsItems
<1>3. \A r \in Sessions : BarrierSaved(r)'
  <2>1. disk' = mem' \/ (mem' = m /\ disk' = d)
    BY DEF PrepareSkip
  <2> QED BY <2>1 DEF BarrierSaved
<1>4. Running' => Running
  BY DEF Running
<1>5. \A r \in Sessions, i \in Item : rcpt[r][i] \in Receipt
  BY DEF TypeOK
<1> HIDE DEF t
<1>6. CASE n.purged
  <2> DEFINE kept == 1..Len(q)
  <2>1. Notify(s, n, q) /\ rcpt' = rcpt
    BY <1>6 DEF PrepareSkip
  <2>2. \/ queue' = [queue EXCEPT ![u] = q]
        \/ queue' = [queue EXCEPT ![u] = Append(q, t)]
    BY <2>1 DEF Notify, t
  <2>3. Thinned(q, q, kept)
    BY <1>1, AllThinned
  <2>4. \A r \in Sessions, i \in Item : ~Retired(q, kept, r, i)
    BY DEF Retired
  <2> HIDE DEF kept
  <2>5. kept \in SUBSET (1..Len(q))
    BY DEF kept
  <2>6. \A r \in Sessions, i \in Item :
          /\ rcpt'[r][i].left = rcpt[r][i].left
          /\ rcpt'[r][i].awaiting = IF Retired(q, kept, r, i) THEN rcpt[r][i].awaiting \ {u}
                                    ELSE rcpt[r][i].awaiting
    BY <2>1, <2>4
  <2> QED BY <1>1, <1>2, <1>3, <1>4, <2>2, <2>3, <2>5, <2>6, ThinnedAccounting
<1>7. CASE ~n.purged
  <2> DEFINE kept == {k \in 1..Len(q) : ~Purgeable(q[k], s, n)}
  <2>1. /\ rcpt' = [rcpt EXCEPT ![s] = [i \in Item |->
              IF i \in PurgedItems(q, s, n) THEN Settled(rcpt[s][i], u, "dropped")
              ELSE rcpt[s][i]]]
        /\ \E r \in Purged(q, s, n) :
              Notify(s, n, r) \/ queue' = [queue EXCEPT ![u] = r]
    BY <1>7 DEF PrepareSkip
  <2>2. PICK r \in Purged(q, s, n) : Notify(s, n, r) \/ queue' = [queue EXCEPT ![u] = r]
    BY <2>1
  <2>3. \/ queue' = [queue EXCEPT ![u] = r]
        \/ queue' = [queue EXCEPT ![u] = Append(r, t)]
    BY <2>2 DEF Notify, t
  <2>4. r \in Seq(Task) /\ Thinned(q, r, kept)
    BY <1>1, PurgedThinned
  <2>5. \A x \in Sessions, i \in Item :
          Retired(q, kept, x, i) <=> x = s /\ i \in PurgedItems(q, s, n)
    BY DEF Retired, PurgedItems, Purgeable
  <2>6. kept \in SUBSET (1..Len(q))
    OBVIOUS
  <2> HIDE DEF kept
  <2>7. \A x \in Sessions, i \in Item :
          /\ rcpt'[x][i].left = rcpt[x][i].left
          /\ rcpt'[x][i].awaiting = IF Retired(q, kept, x, i) THEN rcpt[x][i].awaiting \ {u}
                                    ELSE rcpt[x][i].awaiting
    <3> SUFFICES ASSUME NEW x \in Sessions, NEW i \in Item
                 PROVE  /\ rcpt'[x][i].left = rcpt[x][i].left
                        /\ rcpt'[x][i].awaiting =
                              IF Retired(q, kept, x, i) THEN rcpt[x][i].awaiting \ {u}
                              ELSE rcpt[x][i].awaiting
      OBVIOUS
    <3>1. rcpt \in [Sessions -> [Item -> Receipt]]
      BY DEF TypeOK
    <3>2. CASE x = s /\ i \in PurgedItems(q, s, n)
      <4>1. rcpt'[x][i] = Settled(rcpt[x][i], u, "dropped")
        BY <2>1, <3>1, <3>2
      <4>2. Retired(q, kept, x, i) /\ rcpt[x][i] \in Receipt
        BY <1>5, <2>5, <3>2
      <4>3. /\ Settled(rcpt[x][i], u, "dropped").left = rcpt[x][i].left
            /\ Settled(rcpt[x][i], u, "dropped").awaiting = rcpt[x][i].awaiting \ {u}
        BY <4>2, SettledFields
      <4> QED BY <4>1, <4>2, <4>3
    <3>3. CASE ~(x = s /\ i \in PurgedItems(q, s, n))
      <4>1. rcpt'[x][i] = rcpt[x][i]
        BY <2>1, <3>1, <3>3
      <4> QED BY <2>5, <3>3, <4>1
    <3> QED BY <3>2, <3>3
  <2> QED BY <1>1, <1>2, <1>3, <1>4, <2>3, <2>4, <2>6, <2>7, ThinnedAccounting
<1> QED BY <1>6, <1>7

\* A confirmed skip sets its barrier, in the file too, and prepares it.
LEMMA RequestSkipAccounting ==
    ASSUME TypeOK, AccountingInv, NEW u \in Users, NEW s \in Sessions, RequestSkip(u, s)
    PROVE  AccountingInv'
<1> DEFINE n == [user |-> u, topic |-> bound[u][s], snap |-> written[s], purged |-> FALSE]
           m == WithSkip(mem, s, n)
           b == [budget EXCEPT !["skip"] = @ - 1]
<1>1. /\ bound[u][s] # Unbound
      /\ UNCHANGED <<mode, pc, parsed, buf, regs, worker>>
      /\ \/ PrepareSkip(s, n, m, m, b)
         \/ mem' = m /\ disk' = m /\ UNCHANGED <<rcpt, queue>>
  BY DEF RequestSkip, envVars, monVars, readVars
<1>2. n \in Intent
  BY <1>1 DEF TypeOK, Intent
<1> HIDE DEF n, b
<1>3. CASE PrepareSkip(s, n, m, m, b)
  BY <1>1, <1>2, <1>3, PrepareAccounting
<1>4. CASE mem' = m /\ disk' = m /\ UNCHANGED <<rcpt, queue>>
  BY <1>1, <1>4, QuietAccounting DEF AccountingInv, ReadOnce, BarrierSaved, Running
<1> QED BY <1>1, <1>3, <1>4

\* A cycle leaves a barrier alone, drops it or prepares it again.
LEMMA ResumeSkipAccounting ==
    ASSUME TypeOK, AccountingInv, NEW s \in Sessions, ResumeSkip(s)
    PROVE  AccountingInv'
<1> DEFINE n == mem[s].skip
<1>1. UNCHANGED <<mode, pc, parsed, buf, regs, worker>> /\ pc = "resume"
  BY DEF ResumeSkip, envVars, readVars
<1>2. n \in Intent \cup {NoSkip} /\ \A r \in Sessions : BarrierSaved(r)
  BY DEF AccountingInv, TypeOK, Tracked
<1>3. CASE UNCHANGED <<budget, storeVars, rcpt, notice, backoff, queue>>
  BY <1>1, <1>2, <1>3, QuietAccounting
     DEF AccountingInv, ReadOnce, BarrierSaved, Running, storeVars
<1>4. CASE mem' = WithSkip(mem, s, NoSkip) /\ Save(mem') /\ UNCHANGED <<rcpt, queue>>
  <2>1. disk' = mem' \/ disk' = disk
    BY <1>4 DEF Save
  <2>2. mem'[s].skip = NoSkip /\ \A r \in Sessions : r # s => mem'[r] = mem[r]
    BY <1>4 DEF WithSkip, TypeOK, Tracked
  <2>3. \A r \in Sessions : BarrierSaved(r)'
    BY <1>2, <2>1, <2>2 DEF BarrierSaved
  <2> QED BY <1>1, <1>4, <2>3, QuietAccounting DEF AccountingInv, ReadOnce, Running
<1>5. CASE n # NoSkip /\ PrepareSkip(s, n, mem, disk, budget)
  <2>1. \A r \in Sessions : mem[r].skip # NoSkip => disk[r].skip # NoSkip
    BY <1>2 DEF BarrierSaved
  <2> QED BY <1>1, <1>2, <1>5, <2>1, PrepareAccounting
<1> QED BY <1>3, <1>4, <1>5 DEF ResumeSkip, Current

\* Nobody waits for a detached task, and nothing is owed by one.
LEMMA DetachAccounting ==
    ASSUME TypeOK, AccountingInv, NEW s \in Sessions, DropReceipts(s),
           UNCHANGED <<mode, pc, buf>>, pc # "read",
           \A r \in Sessions : r # s => parsed'[r] = parsed[r],
           \A r \in Sessions : BarrierSaved(r)'
    PROVE  AccountingInv'
<1>1. \A t \in Task :
        /\ Detached(t, s).sess = t.sess /\ Detached(t, s).notice = t.notice
        /\ Detached(t, s).items = t.items
        /\ t.sess = s => Detached(t, s).owed = {}
        /\ t.sess # s => Detached(t, s).owed = t.owed
  BY DEF Detached, Task
<1>2. \A v \in Users :
        /\ worker[v].task \in Task /\ worker'[v].task = Detached(worker[v].task, s)
        /\ worker'[v].st = worker[v].st
  BY DEF DropReceipts, Detach, TypeOK, Worker
<1>3. ASSUME NEW v \in Users
      PROVE  /\ Len(queue'[v]) = Len(queue[v])
             /\ \A k \in 1..Len(queue[v]) :
                   queue[v][k] \in Task /\ queue'[v][k] = Detached(queue[v][k], s)
  <2>1. /\ queue[v] \in Seq(Task)
        /\ queue'[v] = [k \in 1..Len(queue[v]) |-> Detached(queue[v][k], s)]
    BY <1>3 DEF DropReceipts, Detach, TypeOK
  <2>2. Len(queue[v]) \in Nat
    BY <2>1
  <2>3. Len(queue'[v]) = Len(queue[v])
    BY <2>1, <2>2
  <2> QED BY <2>1, <2>3
<1>4. /\ regs'[s] = {} /\ \A i \in Item : rcpt'[s][i] = NoReceipt
      /\ \A r \in Sessions : r # s => regs'[r] = regs[r] /\ rcpt'[r] = rcpt[r]
  BY DEF DropReceipts, TypeOK
<1>5. NoReceipt.left = {} /\ NoReceipt.awaiting = {}
  BY DEF NoReceipt
<1>6. TasksOweTheirItems'
  <2>1. ASSUME NEW t \in Task, OwesItsItems(t) PROVE OwesItsItems(Detached(t, s))
    BY <1>1, <2>1 DEF OwesItsItems
  <2>2. ASSUME NEW t \in Task, t.owed = {} PROVE Detached(t, s).owed = {}
    BY <1>1, <2>2
  <2>3. ASSUME NEW v \in Users
        PROVE  /\ OwesItsItems(worker'[v].task)
               /\ worker'[v].st = "idle" => worker'[v].task.owed = {}
    BY <1>2, <2>1, <2>2, <2>3 DEF AccountingInv, TasksOweTheirItems
  <2>4. ASSUME NEW v \in Users, NEW k \in 1..Len(queue'[v])
        PROVE  OwesItsItems(queue'[v][k])
    <3>1. /\ queue[v][k] \in Task /\ queue'[v][k] = Detached(queue[v][k], s)
          /\ k \in 1..Len(queue[v])
      BY <1>3, <2>4
    <3> QED BY <2>1, <2>4, <3>1 DEF AccountingInv, TasksOweTheirItems
  <2> QED BY <2>3, <2>4 DEF TasksOweTheirItems, OwesItsItems
<1>7. ASSUME NEW r \in Sessions PROVE ReadOnce(r)' /\ RoutedOnce(r)'
  <2>1. CASE r = s
    <3>1. buf[s] = {}
      BY DEF AccountingInv, ReadOnce
    <3> QED BY <1>4, <1>5, <2>1, <3>1 DEF ReadOnce, RoutedOnce
  <2>2. CASE r # s
    BY <1>4, <1>7, <2>2 DEF AccountingInv, ReadOnce, RoutedOnce
  <2> QED BY <2>1, <2>2
<1>8. ASSUME Running', NEW v \in Users, NEW r \in Sessions, NEW i \in Item
      PROVE  OwedOnce(v, r, i)'
  <2>1. OwedOnce(v, r, i)
    BY <1>8 DEF AccountingInv, Running
  <2>2. CASE r = s
    <3>1. \A k \in 1..Len(queue'[v]) : queue'[v][k].sess = s => i \notin queue'[v][k].owed
      BY <1>1, <1>3, <1>8
    <3>2. worker'[v].task.sess = s => i \notin worker'[v].task.owed
      BY <1>1, <1>2, <1>8
    <3>3. v \notin rcpt'[s][i].awaiting
      BY <1>4, <1>5, <1>8
    <3> QED BY <2>2, <3>1, <3>2, <3>3 DEF OwedOnce, Owing, InHand
  <2>3. CASE r # s
    <3>1. \A k \in 1..Len(queue[v]) :
            (queue'[v][k].sess = r /\ i \in queue'[v][k].owed) <=>
            (queue[v][k].sess = r /\ i \in queue[v][k].owed)
      BY <1>1, <1>3, <1>8, <2>3
    <3>2. InHand(v, r, i)' <=> InHand(v, r, i)
      BY <1>1, <1>2, <1>8, <2>3 DEF InHand
    <3>3. Owing(v, r, i)' = Owing(v, r, i)
      BY <1>3, <1>8, <3>1, <3>2 DEF Owing
    <3>4. rcpt'[r][i].awaiting = rcpt[r][i].awaiting
      BY <1>4, <1>8, <2>3
    <3> QED BY <2>1, <3>3, <3>4 DEF OwedOnce
  <2> QED BY <2>2, <2>3
<1> QED BY <1>6, <1>7, <1>8 DEF AccountingInv

\* The answer to a notice drops the receipts of its session or nothing.
LEMMA SettleSkipAccounting ==
    ASSUME TypeOK, AccountingInv, NEW s \in Sessions, SettleSkip(s)
    PROVE  AccountingInv'
<1>1. UNCHANGED <<mode, pc, buf>> /\ pc # "read"
  BY DEF SettleSkip, envVars
<1>2. \A r \in Sessions : BarrierSaved(r)
  BY DEF AccountingInv
<1>3. CASE UNCHANGED <<storeVars, regs, rcpt, queueVars, parsed>>
  BY <1>1, <1>2, <1>3, QuietAccounting
     DEF AccountingInv, ReadOnce, BarrierSaved, Running, storeVars, queueVars
<1>4. CASE /\ IF Current(s, mem[s].skip)
              THEN CompleteSkip(s)
              ELSE mem' = WithSkip(mem, s, NoSkip) /\ UNCHANGED <<parsed, skipped>>
           /\ Save(mem') /\ DropReceipts(s)
  <2>1. disk' = mem' \/ disk' = disk
    BY <1>4 DEF Save
  <2>2. /\ mem'[s].skip = NoSkip
        /\ \A r \in Sessions : r # s => mem'[r] = mem[r] /\ parsed'[r] = parsed[r]
    <3>1. CASE CompleteSkip(s)
      BY <3>1 DEF CompleteSkip, TypeOK
    <3>2. CASE mem' = WithSkip(mem, s, NoSkip) /\ UNCHANGED <<parsed, skipped>>
      BY <3>2 DEF WithSkip, TypeOK, Tracked
    <3> QED BY <1>4, <3>1, <3>2
  <2>3. \A r \in Sessions : BarrierSaved(r)'
    BY <1>2, <2>1, <2>2 DEF BarrierSaved
  <2> QED BY <1>1, <1>4, <2>2, <2>3, DetachAccounting
<1> QED BY <1>3, <1>4 DEF SettleSkip, ackVars

-----------------------------------------------------------------------------
(* The rest of the cycle.                                                  *)

\* What is read now was not read before.
LEMMA FinishReadAccounting ==
    ASSUME TypeOK, AccountingInv, NEW s \in Sessions, FinishRead(s)
    PROVE  AccountingInv'
<1>1. /\ UNCHANGED <<mode, pc, regs, rcpt, mem, disk, queue, worker>> /\ pc = "read"
      /\ parsed' = [parsed EXCEPT ![s] = Larger(@, written[s])]
      /\ \A r \in Sessions : r # s => buf'[r] = buf[r]
      /\ buf'[s] \subseteq buf[s] \cup NewEntries(s)
  BY DEF FinishRead, envVars, ackVars, storeVars, queueVars, TypeOK
<1>2. /\ parsed[s] \in Nat /\ written[s] \in Nat /\ regs[s] \subseteq Item
      /\ parsed'[s] = Larger(parsed[s], written[s])
      /\ \A r \in Sessions : r # s => parsed'[r] = parsed[r]
  BY <1>1 DEF TypeOK, Offset
<1>3. parsed'[s] \in Nat /\ parsed[s] <= parsed'[s] /\ written[s] <= parsed'[s]
  BY <1>2 DEF Larger
<1>4. ASSUME NEW r \in Sessions PROVE ReadOnce(r)' /\ RoutedOnce(r)' /\ BarrierSaved(r)'
  <2>1. ReadOnce(r) /\ RoutedOnce(r) /\ BarrierSaved(r)
    BY <1>4 DEF AccountingInv
  <2>2. CASE r # s
    BY <1>1, <1>2, <1>4, <2>1, <2>2 DEF ReadOnce, RoutedOnce, BarrierSaved
  <2>3. CASE r = s
    <3>1. 1..parsed[s] \subseteq 1..parsed'[s] /\ NewEntries(s) \subseteq 1..parsed'[s]
      BY <1>2, <1>3 DEF NewEntries
    <3>2. NewEntries(s) \cap 1..parsed[s] = {}
      BY <1>2 DEF NewEntries
    <3>3. regs[s] \cup buf[s] \subseteq 1..parsed[s] /\ regs[s] \cap buf[s] = {}
      BY <2>1, <2>3 DEF ReadOnce
    <3>4. regs'[s] \cup buf'[s] \subseteq 1..parsed'[s] /\ regs'[s] \cap buf'[s] = {}
      BY <1>1, <3>1, <3>2, <3>3
    <3>5. ReadOnce(s)'
      BY <1>1, <2>1, <2>3, <3>4 DEF ReadOnce
    <3> QED BY <1>1, <2>1, <2>3, <3>5 DEF RoutedOnce, BarrierSaved
  <2> QED BY <2>2, <2>3
<1> QED BY <1>1, <1>4, SteadyAccounting DEF Running

\* New receipts wait for nobody yet.
LEMMA RegisterAccounting ==
    ASSUME TypeOK, AccountingInv, Register
    PROVE  AccountingInv'
<1>1. /\ UNCHANGED <<mode, parsed, mem, queue, worker>> /\ pc' = "dispatch"
      /\ \A s \in Sessions : regs'[s] = regs[s] \cup buf[s] /\ buf'[s] = {}
      /\ disk' = mem \/ disk' = disk
  BY DEF Register, Save, envVars, queueVars
<1>2. \A s \in Sessions, i \in Item :
        rcpt'[s][i] = IF i \in buf[s] THEN [NoReceipt EXCEPT !.cp = parsed[s], !.left = Users]
                      ELSE rcpt[s][i]
  BY DEF Register
<1>3. \A s \in Sessions : [NoReceipt EXCEPT !.cp = parsed[s], !.left = Users].awaiting = {}
  BY DEF NoReceipt
<1>4. ASSUME NEW s \in Sessions
      PROVE  /\ ReadOnce(s)' /\ RoutedOnce(s)' /\ BarrierSaved(s)'
             /\ \A i \in Item : rcpt'[s][i].awaiting = rcpt[s][i].awaiting
  <2>1. ReadOnce(s) /\ RoutedOnce(s) /\ BarrierSaved(s)
    BY <1>4 DEF AccountingInv
  <2>2. \A i \in Item : i \in buf[s] => rcpt[s][i].awaiting = {} /\ rcpt'[s][i].awaiting = {}
    BY <1>2, <1>3, <1>4, <2>1 DEF ReadOnce
  <2>3. \A i \in Item : i \notin buf[s] => rcpt'[s][i] = rcpt[s][i]
    BY <1>2, <1>4
  <2>4. ReadOnce(s)'
    BY <1>1, <1>4, <2>1, <2>2, <2>3 DEF ReadOnce
  <2>5. RoutedOnce(s)'
    BY <2>1, <2>2, <2>3 DEF RoutedOnce
  <2>6. BarrierSaved(s)'
    BY <1>1, <2>1 DEF BarrierSaved
  <2> QED BY <2>2, <2>3, <2>4, <2>5, <2>6
<1> QED BY <1>1, <1>4, SteadyAccounting DEF Running

\* Routing makes one task for a user nobody has waited for.
LEMMA RouteAccounting ==
    ASSUME TypeOK, AccountingInv, NEW u \in Users, NEW s \in Sessions, NEW i \in Item,
           Route(u, s, i)
    PROVE  AccountingInv'
<1>1. /\ UNCHANGED <<mode, pc, parsed, buf, regs, mem, disk, worker>>
      /\ u \in rcpt[s][i].left /\ i \in regs[s]
  BY DEF Route, IsNext, Open, envVars, readVars, storeVars
<1>2. rcpt \in [Sessions -> [Item -> Receipt]] /\ rcpt[s][i] \in Receipt
  BY DEF TypeOK
<1>3. ReadOnce(s) /\ RoutedOnce(s)
  BY DEF AccountingInv
<1>4. \A r \in Sessions : BarrierSaved(r)'
  BY <1>1 DEF AccountingInv, BarrierSaved
<1>5. CASE /\ bound[u][s] # Unbound
           /\ queue' = [queue EXCEPT ![u] = Append(@, ContentTask(u, s, i))]
           /\ rcpt' = [[rcpt EXCEPT ![s][i].left = @ \ {u}]
                          EXCEPT ![s][i].awaiting = @ \cup {u}]
  <2> DEFINE t == ContentTask(u, s, i)
             q == queue[u]
  <2>1. t \in Task /\ t.sess = s /\ t.owed = {i} /\ OwesItsItems(t)
    BY <1>2, <1>5 DEF ContentTask, Task, TypeOK, Receipt, OwesItsItems
  <2> HIDE DEF t
  <2>2. /\ q \in Seq(Task) /\ Len(q) \in Nat /\ queue'[u] = Append(q, t)
        /\ \A v \in Users : v # u => queue'[v] = queue[v]
    BY <1>5 DEF TypeOK, t
  <2>3. /\ Len(queue'[u]) = Len(q) + 1 /\ queue'[u][Len(q) + 1] = t
        /\ \A k \in 1..Len(q) : queue'[u][k] = q[k]
    BY <2>1, <2>2
  <2>4. /\ \A r \in Sessions, j \in Item : r # s \/ j # i => rcpt'[r][j] = rcpt[r][j]
        /\ rcpt'[s][i].left = rcpt[s][i].left \ {u}
        /\ rcpt'[s][i].awaiting = rcpt[s][i].awaiting \cup {u}
    <3>1. /\ \A r \in Sessions, j \in Item : r # s \/ j # i => rcpt'[r][j] = rcpt[r][j]
          /\ rcpt'[s][i] = [rcpt[s][i] EXCEPT !.left = @ \ {u}, !.awaiting = @ \cup {u}]
      BY <1>2, <1>5 DEF Receipt
    <3> QED BY <1>2, <3>1 DEF Receipt
  <2>5. TasksOweTheirItems'
    <3>1. \A k \in 1..Len(queue'[u]) : OwesItsItems(queue'[u][k])
      <4>1. \A k \in 1..Len(queue'[u]) : k \in 1..Len(q) \/ k = Len(q) + 1
        BY <2>2, <2>3
      <4> QED BY <2>1, <2>3, <4>1 DEF AccountingInv, TasksOweTheirItems
    <3> QED BY <1>1, <2>2, <3>1 DEF AccountingInv, TasksOweTheirItems, OwesItsItems
  <2>6. \A r \in Sessions : ReadOnce(r)' /\ RoutedOnce(r)'
    <3> SUFFICES ASSUME NEW r \in Sessions PROVE ReadOnce(r)' /\ RoutedOnce(r)'
      OBVIOUS
    <3>1. ReadOnce(r) /\ RoutedOnce(r)
      BY DEF AccountingInv
    <3>2. ReadOnce(r)'
      BY <1>1, <2>4, <3>1 DEF ReadOnce
    <3>3. RoutedOnce(r)'
      BY <2>4, <3>1 DEF RoutedOnce
    <3> QED BY <3>2, <3>3
  <2>7. ASSUME Running', NEW v \in Users, NEW r \in Sessions, NEW j \in Item
        PROVE  OwedOnce(v, r, j)'
    <3>1. OwedOnce(v, r, j)
      BY <1>1, <2>7 DEF AccountingInv, Running
    <3>2. CASE v # u
      <4>1. v \in rcpt'[r][j].awaiting <=> v \in rcpt[r][j].awaiting
        BY <2>4, <2>7, <3>2
      <4> QED BY <1>1, <2>2, <2>7, <3>1, <3>2, <4>1, SamePlaces
    <3>3. CASE v = u /\ (r # s \/ j # i)
      <4>1. rcpt'[r][j] = rcpt[r][j]
        BY <2>4, <2>7, <3>3
      <4>2. ~(t.sess = r /\ j \in t.owed)
        BY <2>1, <3>3
      <4>3. Owing(u, r, j)' = Owing(u, r, j)
        <5>1. InHand(u, r, j)' <=> InHand(u, r, j)
          BY <1>1 DEF InHand
        <5>2. \A k \in 1..Len(queue'[u]) : k \in 1..Len(q) \/ k = Len(q) + 1
          BY <2>2, <2>3
        <5>3. \A k \in 1..Len(q) : k \in 1..Len(queue'[u])
          BY <2>2, <2>3
        <5>4. {k \in 1..Len(queue'[u]) : queue'[u][k].sess = r /\ j \in queue'[u][k].owed}
                = {k \in 1..Len(q) : q[k].sess = r /\ j \in q[k].owed}
          BY <2>3, <4>2, <5>2, <5>3
        <5> QED BY <5>1, <5>4 DEF Owing
      <4> QED BY <3>1, <3>3, <4>1, <4>3 DEF OwedOnce
    <3>4. CASE v = u /\ r = s /\ j = i
      <4>1. Owing(u, s, i) = {}
        BY <1>1, <1>3, <3>1, <3>4 DEF RoutedOnce, OwedOnce
      <4>2. ~InHand(u, s, i)'
        BY <1>1, <4>1 DEF Owing, InHand
      <4>3. \A k \in 1..Len(q) : ~(q[k].sess = s /\ i \in q[k].owed)
        BY <4>1 DEF Owing
      <4>4. \A k \in Owing(u, s, i)' : k = Len(q) + 1
        <5>1. \A k \in 1..Len(queue'[u]) : k \in 1..Len(q) \/ k = Len(q) + 1
          BY <2>2, <2>3
        <5> QED BY <2>3, <4>2, <4>3, <5>1 DEF Owing
      <4>5. Len(q) + 1 \in Owing(u, s, i)'
        <5>1. Len(q) + 1 \in 1..Len(queue'[u])
          BY <2>2, <2>3
        <5> QED BY <2>1, <2>3, <5>1 DEF Owing
      <4> QED BY <2>4, <3>4, <4>4, <4>5 DEF OwedOnce
    <3> QED BY <3>2, <3>3, <3>4
  <2> QED BY <1>4, <2>5, <2>6, <2>7 DEF AccountingInv
<1>6. CASE rcpt' = [rcpt EXCEPT ![s][i].left = @ \ {u}] /\ UNCHANGED queue
  <2>1. /\ \A r \in Sessions, j \in Item : r # s \/ j # i => rcpt'[r][j] = rcpt[r][j]
        /\ rcpt'[s][i] = [rcpt[s][i] EXCEPT !.left = @ \ {u}]
    BY <1>2, <1>6
  <2>2. /\ rcpt'[s][i].left = rcpt[s][i].left \ {u}
        /\ rcpt'[s][i].awaiting = rcpt[s][i].awaiting
    BY <1>2, <2>1 DEF Receipt
  <2>3. \A r \in Sessions, j \in Item :
          /\ rcpt'[r][j].awaiting = rcpt[r][j].awaiting
          /\ rcpt'[r][j].left \subseteq rcpt[r][j].left
    BY <2>1, <2>2
  <2>4. \A r \in Sessions : ReadOnce(r)' /\ RoutedOnce(r)'
    BY <1>1, <2>3 DEF AccountingInv, ReadOnce, RoutedOnce
  <2> QED BY <1>1, <1>4, <1>6, <2>3, <2>4, SteadyAccounting DEF Running
<1> QED BY <1>5, <1>6 DEF Route

\* Closing or abandoning receipts changes nobody's wait.
LEMMA ClosedAccounting ==
    ASSUME TypeOK, AccountingInv, UNCHANGED <<parsed, regs, queue, worker>>,
           Running' => Running,
           \A s \in Sessions : buf'[s] \subseteq buf[s] /\ (pc' # "read" => buf'[s] = {}),
           \A s \in Sessions : mem'[s] = mem[s],
           disk' = mem' \/ disk' = disk,
           \A s \in Sessions, i \in Item :
              \/ rcpt'[s][i] = rcpt[s][i]
              \/ rcpt'[s][i] = [rcpt[s][i] EXCEPT !.closed = TRUE]
              \/ rcpt'[s][i] = Abandoned(rcpt[s][i])
    PROVE  AccountingInv'
<1>1. ASSUME NEW s \in Sessions, NEW i \in Item
      PROVE  /\ rcpt'[s][i].awaiting = rcpt[s][i].awaiting
             /\ rcpt'[s][i].left = rcpt[s][i].left
  <2>1. rcpt[s][i] \in Receipt
    BY <1>1 DEF TypeOK
  <2>2. CASE rcpt'[s][i] = [rcpt[s][i] EXCEPT !.closed = TRUE]
    BY <2>1, <2>2 DEF Receipt
  <2>3. CASE rcpt'[s][i] = Abandoned(rcpt[s][i])
    BY <2>1, <2>3 DEF Receipt, Abandoned
  <2> QED BY <1>1, <2>2, <2>3
<1>2. \A s \in Sessions : ReadOnce(s)' /\ RoutedOnce(s)'
  BY <1>1 DEF AccountingInv, ReadOnce, RoutedOnce
<1>3. \A s \in Sessions : BarrierSaved(s)'
  BY DEF AccountingInv, BarrierSaved
<1> QED BY <1>1, <1>2, <1>3, SteadyAccounting

\* What is committed waits for nobody.
LEMMA CommitAccounting ==
    ASSUME TypeOK, AccountingInv, CommitWatermarks
    PROVE  AccountingInv'
<1>1. /\ UNCHANGED <<parsed, buf, queue, worker>>
      /\ pc = "resettle" /\ pc' \in {"idle", "off"}
      /\ mode' = (IF mode = "up" THEN "up" ELSE "down")
      /\ disk' = mem' \/ disk' = disk
      /\ \A s \in Sessions : regs'[s] = regs[s] \ CommitRun(s)
      /\ \A s \in Sessions, i \in Item :
            rcpt'[s][i] = IF i \in CommitRun(s) THEN NoReceipt ELSE rcpt[s][i]
  BY DEF CommitWatermarks, Save, readVars, queueVars
<1>2. \A s \in Sessions : mem'[s].skip = mem[s].skip
  BY DEF CommitWatermarks, TypeOK, Tracked
<1>3. NoReceipt.awaiting = {} /\ NoReceipt.left = {}
  BY DEF NoReceipt
<1>4. ASSUME NEW s \in Sessions, NEW i \in CommitRun(s)
      PROVE  rcpt[s][i].awaiting = {}
  <2>1. i \in SettledPrefix(regs[s], rcpt[s])
    BY <1>4 DEF CommitRun
  <2>2. i \in regs[s] /\ i \in Int
    BY <1>4, <2>1 DEF SettledPrefix, TypeOK, Item
  <2> QED BY <2>1, <2>2 DEF SettledPrefix, CommitReady
<1>5. ASSUME NEW s \in Sessions
      PROVE  /\ ReadOnce(s)' /\ RoutedOnce(s)' /\ BarrierSaved(s)'
             /\ \A i \in Item : rcpt'[s][i].awaiting = rcpt[s][i].awaiting
  <2>1. ReadOnce(s) /\ RoutedOnce(s) /\ BarrierSaved(s)
    BY <1>5 DEF AccountingInv
  <2>2. ASSUME NEW i \in Item PROVE rcpt'[s][i].awaiting = rcpt[s][i].awaiting
    <3>1. CASE i \in CommitRun(s)
      BY <1>1, <1>3, <1>4, <1>5, <2>2, <3>1
    <3>2. CASE i \notin CommitRun(s)
      BY <1>1, <1>5, <2>2, <3>2
    <3> QED BY <3>1, <3>2
  <2>3. ReadOnce(s)'
    <3>1. \A i \in Item : i \notin regs'[s] => i \notin regs[s] \/ i \in CommitRun(s)
      BY <1>1, <1>5
    <3>2. \A i \in Item : i \notin regs'[s] => rcpt[s][i].awaiting = {}
      BY <1>4, <1>5, <2>1, <3>1 DEF ReadOnce
    <3> QED BY <1>1, <1>5, <2>1, <2>2, <3>2 DEF ReadOnce
  <2>4. RoutedOnce(s)'
    BY <1>1, <1>3, <1>5, <2>1 DEF RoutedOnce
  <2>5. BarrierSaved(s)'
    BY <1>1, <1>2, <1>5, <2>1 DEF BarrierSaved
  <2> QED BY <2>2, <2>3, <2>4, <2>5
<1> QED BY <1>1, <1>5, SteadyAccounting DEF Running

-----------------------------------------------------------------------------
(* Process life.                                                           *)

\* A fresh process holds no tasks and no receipts.
LEMMA FreshAccounting ==
    ASSUME TypeOK, FreshProcess(disk), UNCHANGED disk
    PROVE  AccountingInv'
<1>1. /\ mem' = disk /\ disk' = disk /\ pc' = "idle"
      /\ \A s \in Sessions : buf'[s] = {} /\ regs'[s] = {}
      /\ \A s \in Sessions, i \in Item : rcpt'[s][i] = NoReceipt
      /\ \A u \in Users : queue'[u] = <<>> /\ worker'[u] = IdleWorker
  BY DEF FreshProcess
<1>2. /\ NoReceipt.awaiting = {} /\ NoReceipt.left = {}
      /\ IdleWorker.task.owed = {} /\ ~IdleWorker.task.notice
  BY DEF NoReceipt, IdleWorker, IdleTask
<1>3. \A u \in Users : Len(queue'[u]) = 0
  BY <1>1
<1>4. TasksOweTheirItems'
  BY <1>1, <1>2, <1>3 DEF TasksOweTheirItems, OwesItsItems
<1>5. \A s \in Sessions : ReadOnce(s)' /\ RoutedOnce(s)' /\ BarrierSaved(s)'
  BY <1>1, <1>2 DEF ReadOnce, RoutedOnce, BarrierSaved
<1>6. \A u \in Users, s \in Sessions, i \in Item : OwedOnce(u, s, i)'
  <2> SUFFICES ASSUME NEW u \in Users, NEW s \in Sessions, NEW i \in Item
               PROVE  OwedOnce(u, s, i)'
    OBVIOUS
  <2>1. ~InHand(u, s, i)' /\ u \notin rcpt'[s][i].awaiting
    BY <1>1, <1>2 DEF InHand
  <2> QED BY <1>3, <2>1 DEF OwedOnce, Owing
<1> QED BY <1>4, <1>5, <1>6 DEF AccountingInv

\* Cancelled workers hold nothing and nobody waits for them any longer.
LEMMA StopWorkersAccounting ==
    ASSUME TypeOK, AccountingInv, CyclesWhileUp, StopWorkers
    PROVE  AccountingInv'
<1>1. /\ UNCHANGED <<parsed, buf, regs, mem, disk>>
      /\ mode = "draining" /\ mode' = "final" /\ pc' = "resettle"
      /\ \A u \in Users : queue'[u] = <<>> /\ worker'[u] = IdleWorker
  BY DEF StopWorkers, readVars, storeVars
<1>2. IdleWorker.task.owed = {} /\ ~IdleWorker.task.notice
  BY DEF IdleWorker, IdleTask
<1>3. TasksOweTheirItems'
  <2>1. \A u \in Users : Len(queue'[u]) = 0
    BY <1>1
  <2> QED BY <1>1, <1>2, <2>1 DEF TasksOweTheirItems, OwesItsItems
<1>4. pc # "read"
  BY <1>1 DEF CyclesWhileUp
<1>5. ASSUME NEW s \in Sessions, NEW i \in Item
      PROVE  /\ rcpt'[s][i].awaiting \subseteq rcpt[s][i].awaiting
             /\ rcpt'[s][i].left = rcpt[s][i].left
  <2>1. rcpt[s][i] \in Receipt
    BY <1>5 DEF TypeOK
  <2>2. \/ rcpt'[s][i] = rcpt[s][i]
        \/ rcpt'[s][i] = [rcpt[s][i] EXCEPT !.awaiting = @ \ {u \in Users : InHand(u, s, i)},
                                            !.failed = TRUE]
    BY <1>5 DEF StopWorkers
  <2> QED BY <2>1, <2>2 DEF Receipt
<1>6. \A s \in Sessions : ReadOnce(s)' /\ RoutedOnce(s)' /\ BarrierSaved(s)'
  BY <1>1, <1>4, <1>5 DEF AccountingInv, ReadOnce, RoutedOnce, BarrierSaved
<1> QED BY <1>1, <1>3, <1>6 DEF AccountingInv, Running

-----------------------------------------------------------------------------
(* The invariant and what it promises.                                     *)

\* No cycle outlives the process that began it.
LEMMA CyclesEnd == Spec => []CyclesWhileUp
<1>1. Init => CyclesWhileUp
  BY DEF Init, CyclesWhileUp
<1>2. ASSUME CyclesWhileUp, [Next]_vars PROVE CyclesWhileUp'
  <2>1. CASE MonitorStep
    <3>1. ASSUME NEW s \in Sessions, NEW i \in Item,
                 (\E u \in Users : Route(u, s, i)) \/ CloseReceipt(s, i) \/ RouteFails(s, i)
          PROVE  CyclesWhileUp'
      BY <1>2, <3>1 DEF CyclesWhileUp, Route, CloseReceipt, RouteFails, envVars
    <3>2. ASSUME NEW s \in Sessions,
                 ResumeSkip(s) \/ SettleSkip(s) \/ BeginRead(s) \/ FinishRead(s)
          PROVE  CyclesWhileUp'
      BY <1>2, <3>2 DEF CyclesWhileUp, ResumeSkip, SettleSkip, BeginRead, FinishRead, envVars
    <3>3. ASSUME \/ \E L \in SUBSET Sessions : NoteLive(L)
                 \/ EndResume \/ BeginReads \/ Register \/ EndDispatch \/ CommitWatermarks
          PROVE  CyclesWhileUp'
      BY <1>2, <3>3 DEF CyclesWhileUp, NoteLive, EndResume, BeginReads, Register, EndDispatch,
                        CommitWatermarks, envVars
    <3> QED BY <2>1, <3>1, <3>2, <3>3 DEF MonitorStep
  <2>2. CASE \E u \in Users : WorkerStep(u)
    <3>1. UNCHANGED <<pc, mode>>
      BY <2>2 DEF WorkerStep, GetTask, DropStale, DropHidden, BeginSend, RefuseNotice, Deliver,
                  FailSend, RetryAfter, Settle, envVars, monVars
    <3> QED BY <1>2, <3>1 DEF CyclesWhileUp
  <2>3. CASE \/ \E u \in Users, s \in Sessions : RequestSkip(u, s)
             \/ \E s \in Sessions : RetryDue(s) \/ Write(s)
             \/ \E u \in Users, s \in Sessions, t \in Topics \cup {Unbound} : Rebind(u, s, t)
             \/ UNCHANGED vars
    <3>1. UNCHANGED <<pc, mode>>
      BY <2>3 DEF RequestSkip, RetryDue, Write, Rebind, vars, envVars, monVars
    <3> QED BY <1>2, <3>1 DEF CyclesWhileUp
  <2>4. CASE Crash \/ Start \/ Stop \/ StopWorkers
    BY <2>4 DEF CyclesWhileUp, Crash, Start, Stop, StopWorkers, FreshProcess
  <2> QED BY <1>2, <2>1, <2>2, <2>3, <2>4 DEF Next
<1> QED BY <1>1, <1>2, PTL DEF Spec

\* Before anything was written nobody waits.
LEMMA InitAccounting == Init => AccountingInv
<1> SUFFICES ASSUME Init PROVE AccountingInv
  OBVIOUS
<1>1. /\ \A s \in Sessions : /\ buf[s] = {} /\ regs[s] = {} /\ parsed[s] = 0
                             /\ mem[s].skip = NoSkip
      /\ \A s \in Sessions, i \in Item : rcpt[s][i] = NoReceipt
      /\ \A u \in Users : queue[u] = <<>> /\ worker[u] = IdleWorker
  BY DEF Init
<1>2. /\ NoReceipt.awaiting = {} /\ NoReceipt.left = {}
      /\ IdleWorker.task.owed = {} /\ ~IdleWorker.task.notice
  BY DEF NoReceipt, IdleWorker, IdleTask
<1>3. \A u \in Users : Len(queue[u]) = 0
  BY <1>1
<1>4. TasksOweTheirItems
  BY <1>1, <1>2, <1>3 DEF TasksOweTheirItems, OwesItsItems
<1>5. \A s \in Sessions : ReadOnce(s) /\ RoutedOnce(s) /\ BarrierSaved(s)
  BY <1>1, <1>2 DEF ReadOnce, RoutedOnce, BarrierSaved
<1>6. ASSUME NEW u \in Users, NEW s \in Sessions, NEW i \in Item
      PROVE  OwedOnce(u, s, i)
  BY <1>1, <1>2, <1>3, NoPlaces
<1> QED BY <1>4, <1>5, <1>6 DEF AccountingInv

\* A step that only moves the monitor, the listing, topics or files along.
LEMMA PassingAccounting ==
    ASSUME AccountingInv,
           \/ \E L \in SUBSET Sessions : NoteLive(L)
           \/ \E s \in Sessions : BeginRead(s) \/ RetryDue(s) \/ Write(s)
           \/ EndResume \/ BeginReads \/ EndDispatch
           \/ \E u \in Users, s \in Sessions, t \in Topics \cup {Unbound} : Rebind(u, s, t)
           \/ UNCHANGED vars
    PROVE  AccountingInv'
<1>1. /\ UNCHANGED <<queue, worker, regs, buf, rcpt, parsed, mem, disk, mode>>
      /\ pc' = "read" \/ pc' = pc \/ pc # "read"
  BY DEF NoteLive, BeginRead, RetryDue, Write, EndResume, BeginReads, EndDispatch, Rebind, vars,
         envVars, monVars, readVars, ackVars, storeVars, queueVars
<1>2. \A s \in Sessions : (pc' # "read" => buf[s] = {}) /\ BarrierSaved(s)'
  BY <1>1 DEF AccountingInv, ReadOnce, BarrierSaved
<1> QED BY <1>1, <1>2, QuietAccounting DEF Running

\* Every step keeps the accounts.
LEMMA NextAccounting ==
    ASSUME TypeOK, AccountingInv, CyclesWhileUp, [Next]_vars
    PROVE  AccountingInv'
<1>1. CASE MonitorStep
  <2>1. CASE \E s \in Sessions : ResumeSkip(s) \/ SettleSkip(s) \/ FinishRead(s)
    BY <2>1, ResumeSkipAccounting, SettleSkipAccounting, FinishReadAccounting
  <2>2. CASE Register \/ CommitWatermarks
    BY <2>2, RegisterAccounting, CommitAccounting
  <2>3. CASE \E s \in Sessions, i \in Item, u \in Users : Route(u, s, i)
    BY <2>3, RouteAccounting
  <2>4. ASSUME NEW s \in Sessions, NEW i \in Item, CloseReceipt(s, i) \/ RouteFails(s, i)
        PROVE  AccountingInv'
    <3>1. /\ UNCHANGED <<parsed, regs, queue, worker, mode, buf, mem, disk, pc>>
          /\ pc = "dispatch"
      BY <2>4 DEF CloseReceipt, RouteFails, envVars, readVars, storeVars, queueVars
    <3>2. \A r \in Sessions, j \in Item :
            \/ rcpt'[r][j] = rcpt[r][j]
            \/ rcpt'[r][j] = [rcpt[r][j] EXCEPT !.closed = TRUE]
            \/ rcpt'[r][j] = Abandoned(rcpt[r][j])
      <4>1. rcpt \in [Sessions -> [Item -> Receipt]]
        BY DEF TypeOK
      <4>2. \/ rcpt' = [rcpt EXCEPT ![s][i].closed = TRUE]
            \/ rcpt' = [rcpt EXCEPT ![s][i] = Abandoned(@)]
        BY <2>4 DEF CloseReceipt, RouteFails
      <4>3. ASSUME NEW r \in Sessions, NEW j \in Item, r # s \/ j # i
            PROVE  rcpt'[r][j] = rcpt[r][j]
        BY <4>1, <4>2, <4>3
      <4>4. \/ rcpt'[s][i] = [rcpt[s][i] EXCEPT !.closed = TRUE]
            \/ rcpt'[s][i] = Abandoned(rcpt[s][i])
        BY <4>1, <4>2
      <4> QED BY <4>3, <4>4
    <3>3. \A r \in Sessions : buf'[r] = {}
      BY <3>1 DEF AccountingInv, ReadOnce
    <3> QED BY <3>1, <3>2, <3>3, ClosedAccounting DEF Running
  <2>5. CASE \/ \E L \in SUBSET Sessions : NoteLive(L)
             \/ \E s \in Sessions : BeginRead(s)
             \/ EndResume \/ BeginReads \/ EndDispatch
    BY <2>5, PassingAccounting
  <2> QED BY <1>1, <2>1, <2>2, <2>3, <2>4, <2>5 DEF MonitorStep
<1>2. CASE \E u \in Users : WorkerStep(u)
  BY <1>2, WorkerAccounting
<1>3. CASE \E u \in Users, s \in Sessions : RequestSkip(u, s)
  BY <1>3, RequestSkipAccounting
<1>4. CASE \/ \E s \in Sessions : RetryDue(s) \/ Write(s)
           \/ \E u \in Users, s \in Sessions, t \in Topics \cup {Unbound} : Rebind(u, s, t)
           \/ UNCHANGED vars
  BY <1>4, PassingAccounting
<1>5. CASE Crash \/ Start
  <2>1. FreshProcess(disk) /\ UNCHANGED disk
    BY <1>5 DEF Crash, Start
  <2> QED BY <2>1, FreshAccounting
<1>6. CASE Stop
  <2>1. /\ UNCHANGED <<parsed, regs, queue, worker, mem>> /\ pc' = "off" /\ mode = "up"
        /\ disk' = mem' \/ disk' = disk
        /\ \A s \in Sessions : buf'[s] = {}
    BY <1>6 DEF Stop, queueVars
  <2>2. \A s \in Sessions, i \in Item :
          rcpt'[s][i] = rcpt[s][i] \/ rcpt'[s][i] = Abandoned(rcpt[s][i])
    BY <1>6 DEF Stop
  <2> QED BY <2>1, <2>2, ClosedAccounting DEF Running
<1>7. CASE StopWorkers
  BY <1>7, StopWorkersAccounting
<1> QED BY <1>1, <1>2, <1>3, <1>4, <1>5, <1>6, <1>7 DEF Next

\* What receipts wait for is what the queues hold (AccountingInv), in every run
\* whatever is rebound, lost by a read fault, merged, retried or purged.
THEOREM AccountsAgree == Spec => []AccountingInv
<1>1. TypeOK /\ AccountingInv /\ CyclesWhileUp /\ [Next]_vars => AccountingInv'
  BY NextAccounting
<1>2. Spec => []TypeOK /\ []CyclesWhileUp
  BY TypeCorrect, CyclesEnd
<1> QED BY <1>1, <1>2, InitAccounting, PTL DEF Spec

\* A user is owed for an entry in one place at most, queued or in hand, and
\* exactly while the receipt of that entry waits for that user: no receipt is
\* settled twice and none is left waiting for a task that is gone.
THEOREM ReceiptsAccounted == Spec => []ReceiptAccounting
<1>1. TypeOK /\ AccountingInv => ReceiptAccounting
  <2> SUFFICES ASSUME TypeOK, AccountingInv, Running,
                      NEW u \in Users, NEW s \in Sessions, NEW i \in Item
               PROVE  Cardinality(Owing(u, s, i)) = IF u \in rcpt[s][i].awaiting THEN 1 ELSE 0
    BY DEF ReceiptAccounting
  <2>1. OwedOnce(u, s, i)
    BY DEF AccountingInv
  <2>2. CASE u \in rcpt[s][i].awaiting
    <3>1. PICK k : Owing(u, s, i) = {k}
      BY <2>1, <2>2 DEF OwedOnce
    <3> QED BY <2>2, <3>1, FS_Singleton
  <2>3. CASE u \notin rcpt[s][i].awaiting
    BY <2>1, <2>3, FS_EmptySet DEF OwedOnce
  <2> QED BY <2>2, <2>3
<1>2. Spec => []TypeOK /\ []AccountingInv
  BY TypeCorrect, AccountsAgree
<1> QED BY <1>1, <1>2, PTL

-----------------------------------------------------------------------------
(* Work retired unsent.                                                    *)

\* Entry i of s stops being waited for u, unsent and not failed.
LetGo(u, s, i) ==
    /\ u \in rcpt[s][i].awaiting /\ u \notin rcpt'[s][i].awaiting
    /\ i \in regs'[s] /\ ~rcpt'[s][i].failed /\ i \notin done'[u][s]

\* A worker lets go of nothing: what it settles is shown, dropped or failed.
LEMMA SettleKeeps ==
    ASSUME TypeOK, AccountingInv, NEW u \in Users, NEW outcome, Settle(u, outcome),
           NEW v \in Users, NEW s \in Sessions, NEW i \in Item
    PROVE  ~LetGo(v, s, i)
<1> DEFINE t == worker[u].task
           mine == s = t.sess /\ i \in t.owed
<1>1. /\ rcpt'[s][i] = IF mine THEN Settled(rcpt[s][i], u, outcome) ELSE rcpt[s][i]
      /\ done' = IF outcome = "failed" THEN done ELSE [done EXCEPT ![u][t.sess] = @ \cup t.items]
  BY DEF Settle
<1>2. t.owed \subseteq t.items /\ rcpt[s][i] \in Receipt /\ t.sess \in Sessions
  BY DEF AccountingInv, TasksOweTheirItems, OwesItsItems, TypeOK, Worker, Task
<1>3. CASE ~mine
  BY <1>1, <1>3 DEF LetGo
<1>4. CASE mine /\ outcome = "failed"
  BY <1>1, <1>2, <1>4, SettledFields DEF LetGo
<1>5. CASE mine /\ outcome # "failed"
  <2>1. rcpt'[s][i].awaiting = rcpt[s][i].awaiting \ {u}
    BY <1>1, <1>2, <1>5, SettledFields
  <2>2. i \in done'[u][s]
    BY <1>1, <1>2, <1>5 DEF TypeOK
  <2> QED BY <2>1, <2>2 DEF LetGo
<1> QED BY <1>3, <1>4, <1>5

\* A purge lets go only behind its barrier, which the file holds.
LEMMA PrepareLetsGo ==
    ASSUME TypeOK, NEW s \in Sessions, NEW n \in Intent,
           NEW m \in [Sessions -> Tracked], NEW d, NEW b,
           d[s].skip # NoSkip, PrepareSkip(s, n, m, d, b),
           NEW v \in Users, NEW r \in Sessions, NEW i \in Item, LetGo(v, r, i)
    PROVE  disk'[r].skip # NoSkip
<1> DEFINE u == n.user
           marked == [n EXCEPT !.purged = TRUE]
<1>1. ~n.purged
  BY DEF PrepareSkip, LetGo
<1>2. /\ rcpt' = [rcpt EXCEPT ![s] = [j \in Item |->
            IF j \in PurgedItems(queue[u], s, n) THEN Settled(rcpt[s][j], u, "dropped")
            ELSE rcpt[s][j]]]
      /\ disk' = WithSkip(m, s, marked) \/ disk' = d
  BY <1>1 DEF PrepareSkip
<1>3. r = s
  BY <1>2 DEF TypeOK, LetGo
<1>4. marked \in Intent
  BY DEF Intent
<1> HIDE DEF marked
<1>5. WithSkip(m, s, marked)[s].skip = marked
  <2>1. m[s] \in Tracked
    OBVIOUS
  <2>2. WithSkip(m, s, marked)[s] = [m[s] EXCEPT !.skip = marked]
    BY DEF WithSkip
  <2> QED BY <2>1, <2>2 DEF Tracked
<1> QED BY <1>2, <1>3, <1>4, <1>5, NoSkipAssumption

\* Whatever else changes receipts lets go of nothing.
LEMMA StepLetsGo ==
    ASSUME TypeOK, AccountingInv, Next,
           NEW v \in Users, NEW r \in Sessions, NEW i \in Item, LetGo(v, r, i)
    PROVE  disk'[r].skip # NoSkip
<1>1. rcpt'[r][i].awaiting # rcpt[r][i].awaiting
  BY DEF LetGo
<1>2. rcpt \in [Sessions -> [Item -> Receipt]] /\ rcpt[r][i] \in Receipt
  BY DEF TypeOK
<1>3. ASSUME NEW s \in Sessions, ResumeSkip(s) PROVE disk'[r].skip # NoSkip
  <2>1. CASE UNCHANGED rcpt
    BY <1>1, <2>1
  <2>2. CASE Current(s, mem[s].skip) /\ PrepareSkip(s, mem[s].skip, mem, disk, budget)
    <3>1. mem[s].skip # NoSkip /\ mem[s].skip \in Intent /\ mem \in [Sessions -> Tracked]
      BY <2>2 DEF Current, TypeOK, Tracked
    <3>2. disk[s].skip # NoSkip
      BY <3>1 DEF AccountingInv, BarrierSaved
    <3> QED BY <2>2, <3>1, <3>2, PrepareLetsGo
  <2> QED BY <1>3, <2>1, <2>2 DEF ResumeSkip
<1>4. ASSUME NEW u \in Users, NEW s \in Sessions, RequestSkip(u, s)
      PROVE  disk'[r].skip # NoSkip
  <2> DEFINE n == [user |-> u, topic |-> bound[u][s], snap |-> written[s], purged |-> FALSE]
             m == WithSkip(mem, s, n)
             b == [budget EXCEPT !["skip"] = @ - 1]
  <2>1. PrepareSkip(s, n, m, m, b)
    BY <1>1, <1>4 DEF RequestSkip
  <2>2. n \in Intent
    BY <1>4 DEF RequestSkip, TypeOK, Intent
  <2> HIDE DEF n, b
  <2>3. m \in [Sessions -> Tracked] /\ m[s].skip = n
    <3>1. mem \in [Sessions -> Tracked]
      BY DEF TypeOK
    <3>2. m \in [Sessions -> Tracked] /\ m[s] = [mem[s] EXCEPT !.skip = n]
      BY <2>2, <3>1, WithSkipType DEF WithSkip
    <3> QED BY <3>1, <3>2 DEF Tracked
  <2> HIDE DEF m
  <2> QED BY <2>1, <2>2, <2>3, NoSkipAssumption, PrepareLetsGo
<1>5. ASSUME NEW s \in Sessions, SettleSkip(s) PROVE FALSE
  <2>1. DropReceipts(s)
    BY <1>1, <1>5 DEF SettleSkip, ackVars
  <2> QED BY <1>1, <2>1 DEF DropReceipts, LetGo, TypeOK
<1>6. ASSUME Register PROVE FALSE
  <2>1. i \in buf[r]
    BY <1>1, <1>6 DEF Register
  <2>2. i \notin regs[r]
    BY <2>1 DEF AccountingInv, ReadOnce
  <2> QED BY <2>2 DEF AccountingInv, ReadOnce, LetGo
<1>7. ASSUME CommitWatermarks PROVE FALSE
  BY <1>1, <1>7 DEF CommitWatermarks, LetGo
<1>8. ASSUME NEW s \in Sessions, NEW j \in Item,
             (\E u \in Users : Route(u, s, j)) \/ CloseReceipt(s, j) \/ RouteFails(s, j)
      PROVE  FALSE
  <2>0. rcpt[s][j] \in Receipt
    BY DEF TypeOK
  <2>1. CASE CloseReceipt(s, j)
    <3>1. /\ \A x \in Sessions, y \in Item : x # s \/ y # j => rcpt'[x][y] = rcpt[x][y]
          /\ rcpt'[s][j] = [rcpt[s][j] EXCEPT !.closed = TRUE]
      BY <1>2, <2>1 DEF CloseReceipt
    <3>2. rcpt'[s][j].awaiting = rcpt[s][j].awaiting
      BY <2>0, <3>1 DEF Receipt
    <3> QED BY <1>1, <3>1, <3>2
  <2>2. CASE RouteFails(s, j)
    <3>1. /\ \A x \in Sessions, y \in Item : x # s \/ y # j => rcpt'[x][y] = rcpt[x][y]
          /\ rcpt'[s][j] = Abandoned(rcpt[s][j])
      BY <1>2, <2>2 DEF RouteFails
    <3>2. rcpt'[s][j].awaiting = rcpt[s][j].awaiting
      BY <2>0, <3>1 DEF Receipt, Abandoned
    <3> QED BY <1>1, <3>1, <3>2
  <2>3. ASSUME NEW u \in Users,
               rcpt' = [[rcpt EXCEPT ![s][j].left = @ \ {u}]
                           EXCEPT ![s][j].awaiting = @ \cup {u}]
        PROVE  FALSE
    <3>1. /\ \A x \in Sessions, y \in Item : x # s \/ y # j => rcpt'[x][y] = rcpt[x][y]
          /\ rcpt'[s][j] = [rcpt[s][j] EXCEPT !.left = @ \ {u}, !.awaiting = @ \cup {u}]
      BY <1>2, <2>0, <2>3 DEF Receipt
    <3>2. rcpt[s][j].awaiting \subseteq rcpt'[s][j].awaiting
      BY <2>0, <3>1 DEF Receipt
    <3> QED BY <3>1, <3>2 DEF LetGo
  <2>4. ASSUME NEW u \in Users, rcpt' = [rcpt EXCEPT ![s][j].left = @ \ {u}]
        PROVE  FALSE
    <3>1. /\ \A x \in Sessions, y \in Item : x # s \/ y # j => rcpt'[x][y] = rcpt[x][y]
          /\ rcpt'[s][j] = [rcpt[s][j] EXCEPT !.left = @ \ {u}]
      BY <1>2, <2>4
    <3>2. rcpt'[s][j].awaiting = rcpt[s][j].awaiting
      BY <2>0, <3>1 DEF Receipt
    <3> QED BY <1>1, <3>1, <3>2
  <2> QED BY <1>8, <2>1, <2>2, <2>3, <2>4 DEF Route
<1>9. CASE MonitorStep
  <2>1. ASSUME \/ \E L \in SUBSET Sessions : NoteLive(L)
               \/ \E s \in Sessions : BeginRead(s) \/ FinishRead(s)
               \/ EndResume \/ BeginReads \/ EndDispatch
        PROVE  rcpt' = rcpt
    BY <2>1 DEF NoteLive, BeginRead, FinishRead, EndResume, BeginReads, EndDispatch, ackVars
  <2> QED BY <1>1, <1>3, <1>5, <1>6, <1>7, <1>8, <1>9, <2>1 DEF MonitorStep
<1>10. ASSUME NEW u \in Users, WorkerStep(u) PROVE FALSE
  <2>1. CASE \E outcome : Settle(u, outcome)
    BY <2>1, SettleKeeps
  <2>2. CASE GetTask(u) \/ BeginSend(u) \/ RetryAfter(u)
    BY <1>1, <2>2 DEF GetTask, BeginSend, RetryAfter, ackVars
  <2> QED BY <1>10, <2>1, <2>2
          DEF WorkerStep, DropStale, DropHidden, RefuseNotice, Deliver, FailSend
<1>11. ASSUME Crash \/ Start PROVE FALSE
  BY <1>11 DEF Crash, Start, FreshProcess, LetGo
<1>12. ASSUME Stop PROVE FALSE
  <2>1. rcpt'[r][i] = rcpt[r][i] \/ rcpt'[r][i] = Abandoned(rcpt[r][i])
    BY <1>12 DEF Stop
  <2> QED BY <1>1, <1>2, <2>1 DEF Abandoned, Receipt
<1>13. ASSUME StopWorkers PROVE FALSE
  <2>1. rcpt'[r][i] = [rcpt[r][i] EXCEPT !.awaiting = @ \ {u \in Users : InHand(u, r, i)},
                                         !.failed = TRUE]
    BY <1>1, <1>13 DEF StopWorkers
  <2> QED BY <1>2, <2>1 DEF Receipt, LetGo
<1>14. ASSUME \/ \E s \in Sessions : RetryDue(s) \/ Write(s)
              \/ \E u \in Users, s \in Sessions, t \in Topics \cup {Unbound} : Rebind(u, s, t)
       PROVE  FALSE
  BY <1>1, <1>14 DEF RetryDue, Write, Rebind, ackVars
<1> QED BY <1>4, <1>9, <1>10, <1>11, <1>12, <1>13, <1>14 DEF Next

\* Queued work leaves its receipt unsent and unfailed only behind a skip barrier
\* that monitor_state.json already holds, so a crash right after the purge still
\* finds the reason why those entries are not sent.
THEOREM RetiredOnlyBehindBarrier == Spec => RetiredBehindBarrier
<1>1. TypeOK /\ AccountingInv /\ [Next]_vars
        => [\A s \in Sessions, i \in Item, u \in Users :
              /\ u \in rcpt[s][i].awaiting /\ u \notin rcpt'[s][i].awaiting
              /\ i \in regs'[s] /\ ~rcpt'[s][i].failed /\ i \notin done'[u][s]
              => disk'[s].skip # NoSkip]_rcpt
  <2>1. ASSUME TypeOK, AccountingInv, [Next]_vars, rcpt' # rcpt,
               NEW s \in Sessions, NEW i \in Item, NEW u \in Users, LetGo(u, s, i)
        PROVE  disk'[s].skip # NoSkip
    <3>1. Next
      BY <2>1 DEF vars, ackVars
    <3> QED BY <2>1, <3>1, StepLetsGo
  <2> QED BY <2>1 DEF LetGo
<1>2. Spec => []TypeOK /\ []AccountingInv
  BY TypeCorrect, AccountsAgree
<1> QED BY <1>1, <1>2, PTL DEF Spec, RetiredBehindBarrier

-----------------------------------------------------------------------------
(* The promise to each user, where nobody skips.                           *)

\* Without a barrier nothing counts as skipped.
LEMMA NothingSkipped ==
    ASSUME NoBarriers, Next
    PROVE  skipped' = skipped
<1>1. \A s \in Sessions : ~Current(s, mem[s].skip)
  BY DEF NoBarriers, Current
<1>2. CASE MonitorStep
  <2>1. CASE \/ \E L \in SUBSET Sessions : NoteLive(L)
             \/ \E s \in Sessions : ResumeSkip(s) \/ BeginRead(s) \/ FinishRead(s)
    BY <2>1 DEF NoteLive, ResumeSkip, BeginRead, FinishRead, historyVars
  <2>2. CASE \E s \in Sessions : SettleSkip(s)
    BY <1>1, <2>2 DEF SettleSkip
  <2>3. CASE EndResume \/ BeginReads \/ Register \/ EndDispatch \/ CommitWatermarks
    BY <2>3 DEF EndResume, BeginReads, Register, EndDispatch, CommitWatermarks, historyVars
  <2>4. ASSUME NEW s \in Sessions, NEW i \in Item,
               (\E u \in Users : Route(u, s, i)) \/ CloseReceipt(s, i) \/ RouteFails(s, i)
        PROVE  skipped' = skipped
    <3>1. CASE \E u \in Users : Route(u, s, i)
      BY <3>1 DEF Route
    <3>2. CASE CloseReceipt(s, i) \/ RouteFails(s, i)
      BY <3>2 DEF CloseReceipt, RouteFails, historyVars
    <3> QED BY <2>4, <3>1, <3>2
  <2> QED BY <1>2, <2>1, <2>2, <2>3, <2>4 DEF MonitorStep
<1>3. ASSUME NEW u \in Users, WorkerStep(u) PROVE skipped' = skipped
  <2>1. CASE GetTask(u) \/ BeginSend(u) \/ RetryAfter(u)
    BY <2>1 DEF GetTask, BeginSend, RetryAfter, historyVars
  <2>2. CASE \E outcome \in {"dropped", "failed", "delivered"} : Settle(u, outcome)
    BY <2>2 DEF Settle
  <2> QED BY <1>3, <2>1, <2>2
          DEF WorkerStep, DropStale, DropHidden, RefuseNotice, Deliver, FailSend
<1>4. CASE \/ \E u \in Users, s \in Sessions : RequestSkip(u, s)
           \/ \E s \in Sessions : RetryDue(s) \/ Write(s)
           \/ \E u \in Users, s \in Sessions, t \in Topics \cup {Unbound} : Rebind(u, s, t)
           \/ Crash \/ Start \/ Stop \/ StopWorkers
  BY <1>4 DEF RequestSkip, RetryDue, Write, Rebind, Crash, Start, Stop, StopWorkers,
              historyVars
<1> QED BY <1>2, <1>3, <1>4 DEF Next

\* Where nobody skips the promise holds for each user alone: whatever crashes,
\* shutdowns, rebindings, failed sends, failed saves and vanished windows there
\* are, the watermark in the file passes a message only once it was shown to the
\* user, or deliberately not shown, for every single user.
THEOREM NothingLostForAnyone ==
    ASSUME Budget["skip"] = 0, Budget["read"] = 0
    PROVE  Spec => []NoLossPerUser
<1>1. Init => NobodySkips
  BY DEF Init, NobodySkips, NoBarriers
<1>2. TypeOK /\ NobodySkips /\ [Next]_vars => NobodySkips'
  <2> SUFFICES ASSUME TypeOK, NobodySkips, [Next]_vars
               PROVE  NobodySkips'
    OBVIOUS
  <2>1. CASE Next
    BY <2>1, NoBarriersStay, NothingSkipped DEF NobodySkips
  <2>2. CASE UNCHANGED vars
    BY <2>2 DEF NobodySkips, NoBarriers, vars, storeVars, historyVars
  <2> QED BY <2>1, <2>2
<1>3. TypeOK /\ DeliveryInv /\ NobodySkips => NoLossPerUser
  <2> SUFFICES ASSUME TypeOK, DeliveryInv, NobodySkips, NEW s \in Sessions,
                      NEW i \in 1..disk[s].wm, HasMessage(s, i), NEW u \in Users
               PROVE  i \in done[u][s] \cup skipped[u][s]
    BY DEF NoLossPerUser
  <2>1. /\ MarkCovers(s) /\ disk[s].wm <= mem[s].wm
        /\ disk[s].wm \in Nat /\ mem[s].wm \in Nat
    BY NaturalNumbers DEF DeliveryInv, OffsetOrder
  <2>2. i \in 1..mem[s].wm
    BY <2>1
  <2>3. Handled(s, i) /\ \A v \in Users : skipped[v][s] = {}
    BY <2>1, <2>2 DEF MarkCovers, NobodySkips
  <2> QED BY <2>3 DEF Handled
<1>4. Spec => []TypeOK
  BY TypeCorrect
<1>5. Spec => []DeliveryInv
  BY MachineryAgrees DEF FaultlessBudget
<1> QED BY <1>1, <1>2, <1>3, <1>4, <1>5, PTL DEF Spec

-----------------------------------------------------------------------------
(* Where tasks come from.                                                  *)

\* A task that was there before, perhaps without its receipts.
Kept(t) == \E o \in Tasks : o.sess = t.sess /\ o.notice = t.notice /\ o.cp = t.cp
                            /\ o.items = t.items
\* A task that shows entries which others showed before.
Gathered(t) ==
    /\ ~t.notice
    /\ \A i \in t.items : \E o \in Tasks : o.sess = t.sess /\ i \in o.items
\* A task that shows and says nothing.
Blank(t) == ~t.notice /\ t.items = {}

\* Every task the process holds is one of some worker's or queue's.
LEMMA HeldTasks ==
    /\ \A u \in Users : worker[u].task \in Tasks
    /\ \A u \in Users : \A k \in 1..Len(queue[u]) : queue[u][k] \in Tasks
BY DEF Tasks

\* Nothing happened to the tasks.
LEMMA SameTasks ==
    ASSUME UNCHANGED queue, \A u \in Users : worker'[u].task = worker[u].task
    PROVE  \A t \in Tasks' : Kept(t)
BY DEF Tasks, Kept

\* A worker takes, merges, keeps or lets go of tasks; it makes none.
LEMMA WorkerTasks ==
    ASSUME TypeOK, NEW u \in Users, WorkerStep(u)
    PROVE  \A t \in Tasks' : Kept(t) \/ Gathered(t) \/ Blank(t)
<1>1. /\ queue \in [Users -> Seq(Task)] /\ worker \in [Users -> Worker]
      /\ queue[u] \in Seq(Task) /\ worker[u] \in Worker
  BY DEF TypeOK
<1>2. CASE GetTask(u)
  <2>1. /\ queue[u] # <<>>
        /\ worker' = [worker EXCEPT ![u] =
              [st |-> "ready", task |-> Head(queue[u]), batch |-> FALSE]]
        /\ queue' = [queue EXCEPT ![u] = Tail(@)]
    BY <1>2 DEF GetTask
  <2>2. worker'[u].task = queue[u][1] /\ 1 \in 1..Len(queue[u])
    BY <1>1, <2>1
  <2>3. \A k \in 1..Len(queue'[u]) : queue'[u][k] = queue[u][k + 1] /\ k + 1 \in 1..Len(queue[u])
    BY <1>1, <2>1
  <2>4. \A v \in Users : v # u => worker'[v] = worker[v] /\ queue'[v] = queue[v]
    BY <1>1, <2>1
  <2>5. \A v \in Users : worker'[v].task \in Tasks
    BY <2>2, <2>4, HeldTasks
  <2>6. ASSUME NEW v \in Users, NEW k \in 1..Len(queue'[v]) PROVE queue'[v][k] \in Tasks
    <3>1. CASE v = u
      BY <2>3, <2>6, <3>1, HeldTasks
    <3>2. CASE v # u
      BY <2>4, <2>6, <3>2, HeldTasks
    <3> QED BY <3>1, <3>2
  <2>7. \A o \in Tasks : Kept(o)
    BY DEF Kept
  <2>8. /\ \A v \in Users : Kept(worker'[v].task)
        /\ \A v \in Users : \A k \in 1..Len(queue'[v]) : Kept(queue'[v][k])
    BY <2>5, <2>6, <2>7
  <2> QED BY <2>8 DEF Tasks
<1>3. CASE BeginSend(u)
  <2> DEFINE t == worker[u].task
             q == queue[u]
  <2>1. PICK n \in 0..Len(q) :
          /\ \A j \in 1..n : CanMerge(t, q[j])
          /\ worker' = [worker EXCEPT ![u] =
                 [st |-> "sending", task |-> Merged(t, q, n),
                  batch |-> worker[u].batch \/ n > 0]]
          /\ queue' = [queue EXCEPT ![u] = SubSeq(@, n + 1, Len(@))]
    BY <1>3 DEF BeginSend
  <2>2. worker'[u].task = Merged(t, q, n)
    BY <1>1, <2>1
  <2>3. \A k \in 1..Len(queue'[u]) : queue'[u][k] = q[k + n] /\ k + n \in 1..Len(q)
    BY <1>1, <2>1
  <2>4. \A v \in Users : v # u => worker'[v] = worker[v] /\ queue'[v] = queue[v]
    BY <1>1, <2>1
  <2>5. ASSUME NEW v \in Users, NEW k \in 1..Len(queue'[v]) PROVE queue'[v][k] \in Tasks
    <3>1. CASE v = u
      BY <2>3, <2>5, <3>1, HeldTasks
    <3>2. CASE v # u
      BY <2>4, <2>5, <3>2, HeldTasks
    <3> QED BY <3>1, <3>2
  <2>6. \A o \in Tasks : Kept(o)
    BY DEF Kept
  <2>7. t \in Task /\ t \in Tasks
    BY <1>1, HeldTasks DEF Worker
  <2>8. /\ Merged(t, q, n).sess = t.sess /\ Merged(t, q, n).notice = t.notice
        /\ Merged(t, q, n).items = t.items \cup UNION {q[j].items : j \in 1..n}
        /\ Merged(t, q, n).cp = LatestCheckpoint(t, q, n)
    BY <2>7 DEF Merged, Task
  <2>9. CASE n = 0
    <3>1. 1..n = {}
      BY <2>9
    <3>2. Merged(t, q, n).items = t.items
      BY <2>8, <3>1
    <3>3. LatestCheckpoint(t, q, n) = t.cp
      <4>1. {t.cp} \cup {q[j].cp : j \in 1..n} = {t.cp}
        BY <3>1
      <4>2. t.cp <= t.cp
        BY <2>7 DEF Task, Offset
      <4> QED BY <4>1, <4>2 DEF LatestCheckpoint
    <3>4. Kept(Merged(t, q, n))
      BY <2>7, <2>8, <3>2, <3>3 DEF Kept
    <3>5. \A v \in Users : Kept(worker'[v].task)
      BY <2>2, <2>4, <2>6, <3>4, HeldTasks
    <3> QED BY <2>5, <2>6, <3>5 DEF Tasks
  <2>10. CASE n # 0
    <3>1. 1 \in 1..n /\ n \in Nat
      BY <1>1, <2>10
    <3>2. ~t.notice /\ \A j \in 1..n : q[j].sess = t.sess
      BY <2>1, <3>1 DEF CanMerge, OnlyKind
    <3>3. \A j \in 1..n : q[j] \in Tasks
      BY <1>1, HeldTasks
    <3>4. \A i \in Merged(t, q, n).items : \E o \in Tasks : o.sess = t.sess /\ i \in o.items
      BY <2>7, <2>8, <3>2, <3>3
    <3>5. Gathered(Merged(t, q, n))
      BY <2>8, <3>2, <3>4 DEF Gathered
    <3>6. \A v \in Users : Kept(worker'[v].task) \/ Gathered(worker'[v].task)
      BY <2>2, <2>4, <2>6, <3>5, HeldTasks
    <3>7. \A v \in Users : \A k \in 1..Len(queue'[v]) : Kept(queue'[v][k])
      BY <2>5, <2>6
    <3> QED BY <3>6, <3>7 DEF Tasks
  <2> QED BY <2>9, <2>10
<1>4. CASE (\E outcome \in {"dropped", "failed", "delivered"} : Settle(u, outcome)) /\ queue' = queue
  <2>1. worker' = [worker EXCEPT ![u] = IdleWorker]
    BY <1>4 DEF Settle
  <2>2. worker'[u].task = IdleTask
    BY <1>1, <2>1 DEF IdleWorker
  <2>3. Blank(worker'[u].task)
    BY <2>2 DEF Blank, IdleTask
  <2>4. \A v \in Users : v # u => worker'[v] = worker[v]
    BY <1>1, <2>1
  <2>5. \A o \in Tasks : Kept(o)
    BY DEF Kept
  <2>6. \A v \in Users : Kept(worker'[v].task) \/ Blank(worker'[v].task)
    BY <2>3, <2>4, <2>5, HeldTasks
  <2>7. \A v \in Users : \A k \in 1..Len(queue'[v]) : Kept(queue'[v][k])
    BY <1>4, <2>5, HeldTasks
  <2> QED BY <2>6, <2>7 DEF Tasks
<1>5. CASE RetryAfter(u)
  <2>1. queue' = queue /\ worker' = [worker EXCEPT ![u].st = "ready"]
    BY <1>5 DEF RetryAfter
  <2>2. \A v \in Users : worker'[v].task = worker[v].task
    BY <1>1, <2>1 DEF Worker
  <2> QED BY <2>1, <2>2, SameTasks
<1> QED BY <1>2, <1>3, <1>4, <1>5
        DEF WorkerStep, DropStale, DropHidden, RefuseNotice, Deliver, FailSend

\* A barrier is prepared: tasks may go, and one notice may come.
LEMMA BarrierTasks ==
    ASSUME TypeOK, NEW s \in Sessions, NEW n \in Intent, NEW m, NEW d,
           BarrierEffects(s, n, m, d), UNCHANGED worker
    PROVE  \A t \in Tasks' : Kept(t) \/ (t = NoticeTask(s, n) /\ notice'[s] = "pending")
<1>1. /\ queue \in [Users -> Seq(Task)] /\ n.user \in Users /\ notice \in [Sessions -> NoticeState]
      /\ queue[n.user] \in Seq(Task)
  BY DEF TypeOK, Intent
<1>2. PICK q \in Seq(Task) :
        /\ KeepsSome(queue[n.user], q)
        /\ \/ queue' = [queue EXCEPT ![n.user] = q] /\ notice' = notice
           \/ /\ queue' = [queue EXCEPT ![n.user] = Append(q, NoticeTask(s, n))]
              /\ notice[s] = "none" /\ notice' = [notice EXCEPT ![s] = "pending"]
  BY DEF BarrierEffects
<1>3. \A k \in 1..Len(q) : q[k] \in Tasks
  BY <1>1, <1>2, HeldTasks DEF KeepsSome
<1>4. \A o \in Tasks : Kept(o)
  BY DEF Kept
<1>5. \A v \in Users : v # n.user => queue'[v] = queue[v]
  BY <1>1, <1>2
<1>6. ASSUME NEW v \in Users, NEW k \in 1..Len(queue'[v])
      PROVE  \/ Kept(queue'[v][k])
             \/ queue'[v][k] = NoticeTask(s, n) /\ notice'[s] = "pending"
  <2>1. CASE v # n.user
    BY <1>4, <1>5, <1>6, <2>1, HeldTasks
  <2>2. CASE v = n.user
    <3>1. CASE queue' = [queue EXCEPT ![n.user] = q]
      BY <1>1, <1>3, <1>4, <1>6, <2>2, <3>1
    <3>2. CASE /\ queue' = [queue EXCEPT ![n.user] = Append(q, NoticeTask(s, n))]
               /\ notice' = [notice EXCEPT ![s] = "pending"]
      <4>1. queue'[v] = Append(q, NoticeTask(s, n)) /\ notice'[s] = "pending"
        BY <1>1, <2>2, <3>2
      <4>2. \/ k \in 1..Len(q) /\ queue'[v][k] = q[k]
            \/ queue'[v][k] = NoticeTask(s, n)
        BY <1>6, <4>1
      <4> QED BY <1>3, <1>4, <4>1, <4>2
    <3> QED BY <1>2, <3>1, <3>2
  <2> QED BY <2>1, <2>2
<1>7. \A v \in Users : Kept(worker'[v].task)
  BY <1>4, HeldTasks
<1> QED BY <1>6, <1>7 DEF Tasks

\* Receipts are taken off the tasks of one session.
LEMMA DetachTasks ==
    ASSUME TypeOK, NEW s \in Sessions, Detach(s)
    PROVE  \A t \in Tasks' : Kept(t)
<1>1. \A t \in Task :
        /\ Detached(t, s).sess = t.sess /\ Detached(t, s).notice = t.notice
        /\ Detached(t, s).items = t.items /\ Detached(t, s).cp = t.cp
  BY DEF Detached, Task
<1>2. \A v \in Users : worker[v].task \in Task /\ worker'[v].task = Detached(worker[v].task, s)
  BY DEF Detach, TypeOK, Worker
<1>3. \A v \in Users : Kept(worker'[v].task)
  BY <1>1, <1>2, HeldTasks DEF Kept
<1>4. ASSUME NEW v \in Users, NEW k \in 1..Len(queue'[v])
      PROVE  Kept(queue'[v][k])
  <2>1. /\ queue[v] \in Seq(Task) /\ Len(queue[v]) \in Nat
        /\ queue'[v] = [j \in 1..Len(queue[v]) |-> Detached(queue[v][j], s)]
    BY <1>4 DEF Detach, TypeOK
  <2>2. Len(queue'[v]) = Len(queue[v])
    BY <2>1
  <2>3. queue[v][k] \in Task /\ queue'[v][k] = Detached(queue[v][k], s) /\ k \in 1..Len(queue[v])
    BY <1>4, <2>1, <2>2
  <2> QED BY <1>1, <2>3, HeldTasks DEF Kept
<1> QED BY <1>3, <1>4 DEF Tasks

\* A process that starts, or whose workers are gone, holds nothing.
LEMMA NoTasks ==
    ASSUME queue' = [u \in Users |-> <<>>], worker' = [u \in Users |-> IdleWorker]
    PROVE  \A t \in Tasks' : Blank(t)
<1>1. \A u \in Users : Len(queue'[u]) = 0 /\ Blank(worker'[u].task)
  BY DEF Blank, IdleWorker, IdleTask
<1> QED BY <1>1 DEF Tasks

\* A message is routed: its task is the only new one.
LEMMA RouteTasks ==
    ASSUME TypeOK, NEW u \in Users, NEW s \in Sessions, NEW i \in Item, Route(u, s, i)
    PROVE  \A t \in Tasks' : Kept(t) \/ (~t.notice /\ t.sess = s /\ t.items = {i})
<1>1. /\ queue \in [Users -> Seq(Task)] /\ queue[u] \in Seq(Task) /\ worker' = worker
      /\ \A o \in Tasks : Kept(o)
  BY DEF TypeOK, Route, Kept
<1>2. CASE queue' = queue
  BY <1>1, <1>2, SameTasks
<1>3. CASE queue' = [queue EXCEPT ![u] = Append(@, ContentTask(u, s, i))]
  <2>1. /\ ~ContentTask(u, s, i).notice /\ ContentTask(u, s, i).sess = s
        /\ ContentTask(u, s, i).items = {i}
    BY DEF ContentTask
  <2>2. queue'[u] = Append(queue[u], ContentTask(u, s, i))
    BY <1>1, <1>3
  <2>3. \A v \in Users : v # u => queue'[v] = queue[v]
    BY <1>1, <1>3
  <2>4. \A k \in 1..Len(queue'[u]) :
           \/ k \in 1..Len(queue[u]) /\ queue'[u][k] = queue[u][k]
           \/ queue'[u][k] = ContentTask(u, s, i)
    BY <1>1, <2>2
  <2>5. ASSUME NEW v \in Users, NEW k \in 1..Len(queue'[v])
        PROVE  Kept(queue'[v][k]) \/ queue'[v][k] = ContentTask(u, s, i)
    BY <1>1, <2>3, <2>4, <2>5, HeldTasks
  <2>6. \A v \in Users : Kept(worker'[v].task)
    BY <1>1, HeldTasks
  <2> QED BY <2>1, <2>5, <2>6 DEF Tasks
<1> QED BY <1>2, <1>3 DEF Route

-----------------------------------------------------------------------------
(* Skips are announced.                                                    *)

\* While a notice is held its barrier stands and waits for it.
LEMMA NoticeWaits ==
    ASSUME NEW s \in Sessions, OneNotice(s), NEW t \in Tasks, t.notice, t.sess = s
    PROVE  notice[s] = "pending" /\ mem[s].skip # NoSkip
<1>1. CASE \E u \in Users : t = worker[u].task
  BY <1>1 DEF OneNotice, NoticeHeld
<1>2. CASE \E u \in Users : \E k \in 1..Len(queue[u]) : t = queue[u][k]
  BY <1>2 DEF OneNotice, NoticeQueued
<1> QED BY <1>1, <1>2 DEF Tasks

\* A range that stays frozen keeps what was said about it.
LEMMA SteadyNotices ==
    ASSUME TypeOK, TypeOK', NEW s \in Sessions, OneNotice(s), NoticeIsTrue(s),
           mem[s].skip # NoSkip => mem'[s].skip.snap = mem[s].skip.snap,
           notice'[s] = "ready" => notice[s] = "ready",
           announced[s] <= announced'[s],
           \A t \in Tasks' : \/ Kept(t) \/ ~t.notice \/ t.sess # s
                             \/ t.cp = mem'[s].skip.snap
    PROVE  NoticeIsTrue(s)'
<1>1. ASSUME NEW t \in Tasks', t.notice, t.sess = s PROVE t.cp = mem'[s].skip.snap
  <2>1. CASE Kept(t)
    <3>1. PICK o \in Tasks : o.sess = t.sess /\ o.notice = t.notice /\ o.cp = t.cp
      BY <2>1 DEF Kept
    <3>2. notice[s] = "pending" /\ mem[s].skip # NoSkip
      BY <1>1, <3>1, NoticeWaits
    <3> QED BY <1>1, <3>1, <3>2 DEF NoticeIsTrue
  <2> QED BY <1>1, <2>1
<1>2. ASSUME notice'[s] = "ready" PROVE mem'[s].skip.snap <= announced'[s]
  <2>1. notice[s] = "ready" /\ mem[s].skip # NoSkip
    BY <1>2 DEF OneNotice
  <2>2. mem[s].skip.snap <= announced[s] /\ mem'[s].skip.snap = mem[s].skip.snap
    BY <2>1 DEF NoticeIsTrue
  <2>3. mem[s].skip \in Intent /\ announced[s] \in Nat /\ announced'[s] \in Nat
    BY <2>1 DEF TypeOK, Tracked, Offset
  <2>4. mem[s].skip.snap \in Nat
    BY <2>3 DEF Intent, Offset
  <2> QED BY <2>2, <2>3, <2>4
<1> QED BY <1>1, <1>2 DEF NoticeIsTrue

\* What was announced stays announced.
LEMMA SteadySkips ==
    ASSUME TypeOK, TypeOK', SkipAnnounced, skipped' = skipped,
           \A s \in Sessions : announced[s] <= announced'[s]
    PROVE  SkipAnnounced'
<1> SUFFICES ASSUME NEW u \in Users, NEW s \in Sessions, NEW i \in skipped[u][s]
             PROVE  i <= announced'[s]
  BY DEF SkipAnnounced
<1>1. i <= announced[s] /\ announced[s] <= announced'[s]
  BY DEF SkipAnnounced
<1>2. announced[s] \in Nat /\ announced'[s] \in Nat /\ skipped[u][s] \subseteq Item
  BY DEF TypeOK, Offset
<1>3. i \in Nat
  BY <1>2 DEF Item
<1> QED BY <1>1, <1>2, <1>3

\* A settled notice either failed or was seen.
LEMMA SettleAnnounced ==
    ASSUME TypeOK, TypeOK', DeliveryInv, AnnouncedInv, NEW u \in Users, NEW outcome,
           Settle(u, outcome), UNCHANGED queue, WorkerStep(u),
           worker[u].task.notice => outcome \in {"failed", "delivered"}
    PROVE  SkipAnnounced' /\ \A s \in Sessions : NoticeIsTrue(s)'
<1> DEFINE t == worker[u].task
<1>1. /\ t \in Task /\ t.sess \in Sessions /\ t \in Tasks /\ t.cp \in Nat
      /\ announced \in [Sessions -> Offset] /\ notice \in [Sessions -> NoticeState]
  <2>1. worker[u] \in Worker /\ t \in Tasks
    BY HeldTasks DEF TypeOK
  <2>2. t \in Task
    BY <2>1 DEF Worker
  <2>3. t.sess \in Sessions /\ t.cp \in Nat
    BY <2>2 DEF Task, Offset
  <2> QED BY <2>1, <2>2, <2>3 DEF TypeOK
<1>2. mem' = mem /\ skipped' = skipped
  BY DEF Settle, storeVars
<1>3. \A s \in Sessions :
        announced'[s] = IF t.notice /\ outcome = "delivered" /\ s = t.sess
                        THEN Larger(announced[s], t.cp) ELSE announced[s]
  BY <1>1 DEF Settle
<1>4. \A s \in Sessions : announced[s] \in Nat /\ announced'[s] \in Nat
  BY DEF TypeOK, Offset
<1>5. \A s \in Sessions : announced[s] <= announced'[s]
  BY <1>1, <1>3, <1>4 DEF Larger
<1>6. SkipAnnounced'
  BY <1>2, <1>5, SteadySkips DEF AnnouncedInv
<1>7. ASSUME NEW s \in Sessions PROVE NoticeIsTrue(s)'
  <2>1. \A o \in Tasks' : Kept(o) \/ ~o.notice
    BY WorkerTasks DEF Gathered, Blank
  <2>2. OneNotice(s) /\ NoticeIsTrue(s)
    BY <1>7 DEF DeliveryInv, AnnouncedInv
  <2>3. CASE t.notice /\ s = t.sess /\ outcome = "delivered"
    <3>1. notice[s] = "pending" /\ mem[s].skip # NoSkip
      BY <1>1, <2>2, <2>3, NoticeWaits
    <3>2. t.cp = mem[s].skip.snap
      BY <1>1, <2>2, <2>3 DEF NoticeIsTrue
    <3>3. mem'[s].skip.snap <= announced'[s]
      BY <1>1, <1>2, <1>3, <1>4, <2>3, <3>2 DEF Larger
    <3>4. ASSUME NEW o \in Tasks', o.notice, o.sess = s PROVE o.cp = mem'[s].skip.snap
      <4>0. Kept(o)
        BY <2>1, <3>4
      <4>1. PICK b \in Tasks : b.sess = o.sess /\ b.notice = o.notice /\ b.cp = o.cp
        BY <4>0 DEF Kept
      <4>2. b.notice /\ b.sess = s
        BY <3>4, <4>1
      <4>3. b.cp = mem[s].skip.snap
        BY <2>2, <4>2 DEF NoticeIsTrue
      <4> QED BY <1>2, <4>1, <4>3
    <3> QED BY <3>3, <3>4 DEF NoticeIsTrue
  <2>4. CASE ~(t.notice /\ s = t.sess /\ outcome = "delivered")
    <3>1. notice'[s] = "ready" => notice[s] = "ready"
      BY <1>1, <2>4 DEF Settle
    <3> QED BY <1>2, <1>5, <2>1, <2>2, <3>1, SteadyNotices
  <2> QED BY <2>3, <2>4
<1> QED BY <1>6, <1>7

\* A step of a worker: with every window listed no notice is dropped.
LEMMA WorkerAnnounced ==
    ASSUME TypeOK, TypeOK', DeliveryInv, AnnouncedInv, NEW u \in Users, WorkerStep(u)
    PROVE  SkipAnnounced' /\ \A s \in Sessions : NoticeIsTrue(s)'
<1>1. CASE GetTask(u) \/ BeginSend(u) \/ RetryAfter(u)
  <2>1. UNCHANGED <<mem, notice, skipped, announced>>
    BY <1>1 DEF GetTask, BeginSend, RetryAfter, ackVars, storeVars, historyVars
  <2>2. \A s \in Sessions : announced[s] \in Nat
    BY DEF TypeOK, Offset
  <2>3. \A s \in Sessions : announced[s] <= announced'[s]
    BY <2>1, <2>2
  <2>4. \A t \in Tasks' : Kept(t) \/ ~t.notice
    BY WorkerTasks DEF Gathered, Blank
  <2>5. SkipAnnounced'
    BY <2>1, <2>3, SteadySkips DEF AnnouncedInv
  <2>6. \A s \in Sessions : NoticeIsTrue(s)'
    BY <2>1, <2>3, <2>4, SteadyNotices DEF AnnouncedInv, DeliveryInv
  <2> QED BY <2>5, <2>6
<1>2. CASE DropStale(u)
  <2>1. worker[u].task.sess \in Sessions
    BY DEF TypeOK, Worker, Task
  <2> QED BY <1>2, <2>1 DEF DropStale, AnnouncedInv, AllListed
<1>3. CASE DropHidden(u)
  <2>1. ~worker[u].task.notice /\ Settle(u, "dropped") /\ UNCHANGED queue
    BY <1>3 DEF DropHidden, OnlyKind
  <2> QED BY <2>1, SettleAnnounced
<1>4. CASE RefuseNotice(u) \/ FailSend(u)
  <2>1. Settle(u, "failed") /\ UNCHANGED queue
    BY <1>4 DEF RefuseNotice, FailSend
  <2> QED BY <2>1, SettleAnnounced
<1>5. CASE Deliver(u)
  <2>1. Settle(u, "delivered") /\ UNCHANGED queue
    BY <1>5 DEF Deliver
  <2> QED BY <2>1, SettleAnnounced
<1> QED BY <1>1, <1>2, <1>3, <1>4, <1>5 DEF WorkerStep

\* Asking for a skip and preparing it: a new notice names the frozen range.
LEMMA BarrierAnnounced ==
    ASSUME TypeOK, TypeOK', DeliveryInv, AnnouncedInv, NEW s \in Sessions, NEW n \in Intent,
           NEW m \in [Sessions -> Tracked], NEW d,
           BarrierEffects(s, n, m, d), \A r \in Sessions : r # s => m[r] = mem[r],
           mem[s].skip # NoSkip => mem[s].skip.snap = n.snap,
           UNCHANGED <<worker, skipped, announced>>
    PROVE  SkipAnnounced' /\ \A r \in Sessions : NoticeIsTrue(r)'
<1>1. \A r \in Sessions : announced[r] <= announced'[r]
  BY DEF TypeOK, Offset
<1>2. SkipAnnounced'
  BY <1>1, SteadySkips DEF AnnouncedInv
<1>3. ASSUME NEW r \in Sessions PROVE NoticeIsTrue(r)'
  <2>1. OneNotice(r) /\ NoticeIsTrue(r) /\ notice \in [Sessions -> NoticeState]
    BY <1>3 DEF DeliveryInv, AnnouncedInv, TypeOK
  <2>2. \A t \in Tasks' : Kept(t) \/ (t = NoticeTask(s, n) /\ notice'[s] = "pending")
    BY BarrierTasks
  <2>3. /\ mem'[s].skip.snap = n.snap
        /\ r # s => mem'[r] = mem[r]
    BY <1>3 DEF BarrierEffects
  <2>4. NoticeTask(s, n).sess = s /\ NoticeTask(s, n).cp = n.snap
    BY DEF NoticeTask
  <2>5. notice'[r] = "ready" => notice[r] = "ready"
    BY <1>3, <2>1 DEF BarrierEffects
  <2>6. mem[r].skip # NoSkip => mem'[r].skip.snap = mem[r].skip.snap
    BY <2>3
  <2>7. \A t \in Tasks' : Kept(t) \/ ~t.notice \/ t.sess # r \/ t.cp = mem'[r].skip.snap
    BY <2>2, <2>3, <2>4
  <2> QED BY <1>1, <1>3, <2>1, <2>5, <2>6, <2>7, SteadyNotices
<1> QED BY <1>2, <1>3

\* The answer to a notice completes the skip it announced.
LEMMA SettleSkipAnnounced ==
    ASSUME TypeOK, TypeOK', DeliveryInv, AnnouncedInv, NEW s \in Sessions, SettleSkip(s)
    PROVE  SkipAnnounced' /\ \A r \in Sessions : NoticeIsTrue(r)'
<1>1. /\ announced' = announced /\ mem \in [Sessions -> Tracked]
      /\ notice \in [Sessions -> NoticeState]
      /\ \A r \in Sessions : announced[r] \in Nat /\ announced[r] <= announced'[r]
  BY DEF SettleSkip, TypeOK, Offset
<1>2. \A r \in Sessions : OneNotice(r) /\ NoticeIsTrue(r)
  BY DEF DeliveryInv, AnnouncedInv
<1>3. CASE UNCHANGED <<storeVars, notice, queueVars, skipped>>
  <2>1. UNCHANGED <<mem, notice, queue, worker, skipped>>
    BY <1>3 DEF storeVars, queueVars
  <2>2. \A t \in Tasks' : Kept(t)
    BY <2>1, SameTasks
  <2>3. SkipAnnounced'
    BY <1>1, <2>1, SteadySkips DEF AnnouncedInv
  <2> QED BY <1>1, <1>2, <2>1, <2>2, <2>3, SteadyNotices
<1>4. CASE /\ notice[s] = "failed" /\ notice' = [notice EXCEPT ![s] = "none"]
           /\ UNCHANGED <<storeVars, queueVars, skipped>>
  <2>1. UNCHANGED <<mem, queue, worker, skipped>>
    BY <1>4 DEF storeVars, queueVars
  <2>2. \A t \in Tasks' : Kept(t)
    BY <2>1, SameTasks
  <2>3. \A r \in Sessions : notice'[r] = "ready" => notice[r] = "ready"
    BY <1>1, <1>4
  <2>4. SkipAnnounced'
    BY <1>1, <2>1, SteadySkips DEF AnnouncedInv
  <2> QED BY <1>1, <1>2, <2>1, <2>2, <2>3, <2>4, SteadyNotices
<1>5. CASE /\ notice[s] = "ready" /\ notice' = [notice EXCEPT ![s] = "none"]
           /\ CompleteSkip(s) /\ Detach(s)
  <2> DEFINE n == mem[s].skip
  <2>1. n # NoSkip /\ n \in Intent /\ n.user \in Users /\ n.snap \in Nat
    <3>1. n # NoSkip /\ n \in Intent
      BY <1>1, <1>2, <1>5 DEF OneNotice, Tracked
    <3> QED BY <3>1 DEF Intent, Offset
  <2>2. n.snap <= announced[s]
    BY <1>2, <1>5 DEF NoticeIsTrue
  <2>3. /\ \A r \in Sessions : r # s => mem'[r] = mem[r]
        /\ skipped' = [skipped EXCEPT ![n.user][s] = @ \cup ((mem[s].wm + 1)..n.snap)]
    BY <1>1, <1>5 DEF CompleteSkip
  <2>4. \A t \in Tasks' : Kept(t)
    BY <1>5, DetachTasks
  <2>5. \A t \in Tasks : t.sess = s => ~t.notice
    BY <1>2, <1>5, NoticeWaits
  <2>6. NoticeIsTrue(s)'
    <3>1. \A t \in Tasks' : t.sess = s => ~t.notice
      BY <2>4, <2>5 DEF Kept
    <3>2. notice'[s] # "ready"
      BY <1>1, <1>5
    <3> QED BY <3>1, <3>2 DEF NoticeIsTrue
  <2>7. ASSUME NEW r \in Sessions, r # s PROVE NoticeIsTrue(r)'
    <3>1. mem'[r] = mem[r] /\ notice'[r] = notice[r]
      BY <1>1, <1>5, <2>3, <2>7
    <3> QED BY <1>1, <1>2, <2>4, <2>7, <3>1, SteadyNotices
  <2>8. SkipAnnounced'
    <3> SUFFICES ASSUME NEW u \in Users, NEW r \in Sessions, NEW i \in skipped'[u][r]
                 PROVE  i <= announced[r]
      BY <1>1 DEF SkipAnnounced
    <3>1. skipped \in [Users -> [Sessions -> SUBSET Item]] /\ mem[s].wm \in Nat
      BY NaturalNumbers DEF TypeOK
    <3>2. i \in skipped[u][r] \/ (r = s /\ i \in (mem[s].wm + 1)..n.snap)
      BY <2>3, <3>1
    <3>3. CASE i \in skipped[u][r]
      BY <3>3 DEF AnnouncedInv, SkipAnnounced
    <3>4. CASE r = s /\ i \in (mem[s].wm + 1)..n.snap
      BY <1>1, <2>1, <2>2, <3>1, <3>4
    <3> QED BY <3>2, <3>3, <3>4
  <2> QED BY <2>6, <2>7, <2>8
<1>6. notice[s] = "ready" => Current(s, mem[s].skip)
  BY <1>2 DEF OneNotice, DeliveryInv, OffsetOrder
<1> QED BY <1>3, <1>4, <1>5, <1>6 DEF SettleSkip, ackVars, DropReceipts

\* A step that leaves barriers, notices and announcements alone.
LEMMA QuietAnnounced ==
    ASSUME TypeOK, TypeOK', DeliveryInv, AnnouncedInv,
           \A r \in Sessions : mem'[r].skip = mem[r].skip,
           \A r \in Sessions : notice'[r] = "ready" => notice[r] = "ready",
           UNCHANGED <<skipped, announced>>,
           \A t \in Tasks' : Kept(t) \/ ~t.notice
    PROVE  SkipAnnounced' /\ \A r \in Sessions : NoticeIsTrue(r)'
<1>1. \A r \in Sessions : announced[r] <= announced'[r]
  BY DEF TypeOK, Offset
<1>2. SkipAnnounced'
  BY <1>1, SteadySkips DEF AnnouncedInv
<1>3. \A r \in Sessions : NoticeIsTrue(r)'
  BY <1>1, SteadyNotices DEF AnnouncedInv, DeliveryInv
<1> QED BY <1>2, <1>3

\* The monitor's cycle.
LEMMA MonitorAnnounced ==
    ASSUME TypeOK, TypeOK', DeliveryInv, AnnouncedInv, MonitorStep
    PROVE  SkipAnnounced' /\ \A r \in Sessions : NoticeIsTrue(r)'
<1>1. ASSUME UNCHANGED <<notice, queueVars, storeVars, historyVars>>
      PROVE  SkipAnnounced' /\ \A r \in Sessions : NoticeIsTrue(r)'
  <2>1. UNCHANGED <<notice, queue, worker, mem, skipped, announced>>
    BY <1>1 DEF queueVars, storeVars, historyVars
  <2>2. \A t \in Tasks' : Kept(t)
    BY <2>1, SameTasks
  <2> QED BY <2>1, <2>2, QuietAnnounced
<1>2. CASE \/ \E L \in SUBSET Sessions : NoteLive(L)
           \/ \E s \in Sessions : BeginRead(s) \/ FinishRead(s)
           \/ EndResume \/ BeginReads \/ EndDispatch
  BY <1>1, <1>2 DEF NoteLive, BeginRead, FinishRead, EndResume, BeginReads, EndDispatch, ackVars
<1>3. ASSUME NEW s \in Sessions, ResumeSkip(s)
      PROVE  SkipAnnounced' /\ \A r \in Sessions : NoticeIsTrue(r)'
  <2>1. OffsetOrder(s) /\ mem \in [Sessions -> Tracked] /\ UNCHANGED <<worker, historyVars>>
    BY <1>3 DEF DeliveryInv, TypeOK, ResumeSkip
  <2>2. CASE UNCHANGED <<storeVars, notice, queue>>
    BY <1>1, <2>1, <2>2 DEF queueVars
  <2>3. CASE Current(s, mem[s].skip) /\ PrepareSkip(s, mem[s].skip, mem, disk, budget)
    <3>1. mem[s].skip \in Intent
      BY <2>1, <2>3 DEF Current, Tracked
    <3>2. BarrierEffects(s, mem[s].skip, mem, disk)
      BY <2>1, <2>3, <3>1, PrepareEffects
    <3> QED BY <2>1, <3>1, <3>2, BarrierAnnounced DEF historyVars
  <2> QED BY <1>3, <2>1, <2>2, <2>3 DEF ResumeSkip, OffsetOrder
<1>4. CASE Register
  <2>1. UNCHANGED <<notice, queue, worker, mem, skipped, announced>>
    BY <1>4 DEF Register, queueVars, historyVars
  <2>2. \A t \in Tasks' : Kept(t)
    BY <2>1, SameTasks
  <2> QED BY <2>1, <2>2, QuietAnnounced
<1>5. CASE CommitWatermarks
  <2>1. UNCHANGED <<notice, queue, worker, skipped, announced>>
    BY <1>5 DEF CommitWatermarks, queueVars, historyVars
  <2>2. \A t \in Tasks' : Kept(t)
    BY <2>1, SameTasks
  <2>3. \A r \in Sessions : mem'[r].skip = mem[r].skip
    BY <1>5 DEF CommitWatermarks, TypeOK, Tracked
  <2> QED BY <2>1, <2>2, <2>3, QuietAnnounced
<1>6. ASSUME NEW s \in Sessions, NEW i \in Item,
             (\E u \in Users : Route(u, s, i)) \/ CloseReceipt(s, i) \/ RouteFails(s, i)
      PROVE  SkipAnnounced' /\ \A r \in Sessions : NoticeIsTrue(r)'
  <2>1. CASE \E u \in Users : Route(u, s, i)
    <3>1. PICK u \in Users : Route(u, s, i)
      BY <2>1
    <3>2. UNCHANGED <<mem, notice, skipped, announced>>
      BY <3>1 DEF Route, storeVars
    <3>3. \A t \in Tasks' : Kept(t) \/ ~t.notice
      BY <3>1, RouteTasks
    <3> QED BY <3>2, <3>3, QuietAnnounced
  <2>2. CASE CloseReceipt(s, i) \/ RouteFails(s, i)
    BY <1>1, <2>2 DEF CloseReceipt, RouteFails
  <2> QED BY <1>6, <2>1, <2>2
<1> QED BY <1>2, <1>3, <1>4, <1>5, <1>6, SettleSkipAnnounced DEF MonitorStep

\* Every step keeps skips announced.
LEMMA NextAnnounced ==
    ASSUME TypeOK, TypeOK', DeliveryInv, AnnouncedInv, Next
    PROVE  AnnouncedInv'
<1>1. AllListed'
  <2>1. budget'["gap"] = 0
    <3>1. "gap" \in Events
      BY DEF Events
    <3>2. budget'["gap"] \in Nat /\ budget'["gap"] <= budget["gap"]
      BY <3>1, BudgetShrinks
    <3> QED BY <3>2 DEF AnnouncedInv, AllListed
  <2>2. live = Sessions /\ budget["gap"] = 0
    BY DEF AnnouncedInv, AllListed
  <2>3. CASE UNCHANGED live
    BY <2>1, <2>2, <2>3 DEF AllListed
  <2>4. ASSUME NEW L \in SUBSET Sessions, NoteLive(L) PROVE AllListed'
    <3>1. live' = L /\ (live \subseteq L \/ budget["gap"] > 0)
      BY <2>4 DEF NoteLive, Spend
    <3>2. live' = Sessions
      BY <2>2, <3>1
    <3> QED BY <2>1, <3>2 DEF AllListed
  <2>5. CASE Crash \/ Start
    BY <2>1, <2>5 DEF Crash, Start, FreshProcess, AllListed
  <2>6. CASE MonitorStep
    <3>1. CASE \E L \in SUBSET Sessions : NoteLive(L)
      BY <2>4, <3>1
    <3>2. CASE \/ \E s \in Sessions : ResumeSkip(s) \/ SettleSkip(s) \/ BeginRead(s) \/ FinishRead(s)
               \/ EndResume \/ BeginReads \/ Register \/ EndDispatch \/ CommitWatermarks
      BY <2>3, <3>2 DEF ResumeSkip, SettleSkip, BeginRead, FinishRead, EndResume, BeginReads,
                        Register, EndDispatch, CommitWatermarks, envVars
    <3>3. ASSUME NEW s \in Sessions, NEW i \in Item,
                 (\E u \in Users : Route(u, s, i)) \/ CloseReceipt(s, i) \/ RouteFails(s, i)
          PROVE  UNCHANGED live
      BY <3>3 DEF Route, CloseReceipt, RouteFails, envVars
    <3> QED BY <2>3, <2>6, <3>1, <3>2, <3>3 DEF MonitorStep
  <2>7. ASSUME NEW u \in Users, WorkerStep(u) PROVE UNCHANGED live
    <3>1. CASE GetTask(u) \/ BeginSend(u) \/ RetryAfter(u)
      BY <3>1 DEF GetTask, BeginSend, RetryAfter, envVars
    <3>2. CASE \E outcome \in {"dropped", "failed", "delivered"} : Settle(u, outcome)
      BY <3>2 DEF Settle, envVars
    <3> QED BY <2>7, <3>1, <3>2
            DEF WorkerStep, DropStale, DropHidden, RefuseNotice, Deliver, FailSend
  <2>8. CASE \/ \E u \in Users, s \in Sessions : RequestSkip(u, s)
             \/ \E s \in Sessions : RetryDue(s) \/ Write(s)
             \/ \E u \in Users, s \in Sessions, t \in Topics \cup {Unbound} : Rebind(u, s, t)
             \/ Stop \/ StopWorkers
    BY <2>3, <2>8 DEF RequestSkip, RetryDue, Write, Rebind, Stop, StopWorkers, envVars
  <2> QED BY <2>3, <2>5, <2>6, <2>7, <2>8 DEF Next
<1> SUFFICES SkipAnnounced' /\ \A r \in Sessions : NoticeIsTrue(r)'
  BY <1>1 DEF AnnouncedInv
<1>2. ASSUME NEW u \in Users, NEW s \in Sessions, RequestSkip(u, s)
      PROVE  SkipAnnounced' /\ \A r \in Sessions : NoticeIsTrue(r)'
  <2>1. PICK n \in Intent, m \in [Sessions -> Tracked] :
          BarrierEffects(s, n, m, m) /\ \A r \in Sessions : r # s => m[r] = mem[r]
    BY <1>2, RequestEffects
  <2>2. mem[s].skip = NoSkip /\ UNCHANGED <<worker, skipped, announced>>
    BY <1>2 DEF RequestSkip, historyVars
  <2> QED BY <2>1, <2>2, BarrierAnnounced
<1>3. CASE \/ \E s \in Sessions : RetryDue(s) \/ Write(s)
           \/ \E u \in Users, s \in Sessions, t \in Topics \cup {Unbound} : Rebind(u, s, t)
           \/ Stop
  <2>1. UNCHANGED <<notice, queue, worker, mem, skipped, announced>>
    BY <1>3 DEF RetryDue, Write, Rebind, Stop, ackVars, storeVars, queueVars, historyVars
  <2>2. \A t \in Tasks' : Kept(t)
    BY <2>1, SameTasks
  <2> QED BY <2>1, <2>2, QuietAnnounced
<1>4. CASE Crash \/ Start \/ StopWorkers
  <2>1. /\ queue' = [u \in Users |-> <<>>] /\ worker' = [u \in Users |-> IdleWorker]
        /\ UNCHANGED <<skipped, announced>>
    BY <1>4 DEF Crash, Start, StopWorkers, FreshProcess, historyVars
  <2>2. \A t \in Tasks' : ~t.notice
    BY <2>1, NoTasks DEF Blank
  <2>3. CASE Crash \/ Start
    <3>1. \A r \in Sessions : notice'[r] = "none"
      BY <2>3 DEF Crash, Start, FreshProcess
    <3>2. SkipAnnounced'
      BY <2>1 DEF AnnouncedInv, SkipAnnounced
    <3> QED BY <2>2, <3>1, <3>2 DEF NoticeIsTrue
  <2>4. CASE StopWorkers
    <3>1. mem' = mem /\ \A r \in Sessions : notice'[r] = "ready" => notice[r] = "ready"
      BY <2>4 DEF StopWorkers, storeVars
    <3> QED BY <2>1, <2>2, <3>1, QuietAnnounced
  <2> QED BY <1>4, <2>3, <2>4
<1> QED BY <1>2, <1>3, <1>4, MonitorAnnounced, WorkerAnnounced DEF Next

\* "Jump to live" never swallows a range silently: whatever crashes, shutdowns,
\* failed sends and failed saves come between, a range counts as skipped only
\* after a notice that names at least this range reached its reader.  With every
\* window listed; a notice dropped for a missing window is the known exception.
THEOREM SkipsAreAnnounced ==
    ASSUME FaultlessBudget, Budget["gap"] = 0
    PROVE  Spec => []SkipAnnounced
<1>1. Init => AnnouncedInv
  <2> SUFFICES ASSUME Init PROVE AnnouncedInv
    OBVIOUS
  <2>1. AllListed /\ SkipAnnounced
    BY DEF Init, AllListed, SkipAnnounced
  <2>2. \A u \in Users : Len(queue[u]) = 0 /\ ~worker[u].task.notice
    BY DEF Init, IdleWorker, IdleTask
  <2>3. \A t \in Tasks : ~t.notice
    BY <2>2 DEF Tasks
  <2>4. \A s \in Sessions : notice[s] = "none"
    BY DEF Init
  <2> QED BY <2>1, <2>3, <2>4 DEF AnnouncedInv, NoticeIsTrue
<1>2. TypeOK /\ TypeOK' /\ DeliveryInv /\ AnnouncedInv /\ [Next]_vars => AnnouncedInv'
  <2> SUFFICES ASSUME TypeOK, TypeOK', DeliveryInv, AnnouncedInv, [Next]_vars
               PROVE  AnnouncedInv'
    OBVIOUS
  <2>1. CASE UNCHANGED vars
    <3>1. UNCHANGED <<live, budget, mem, notice, queue, worker, skipped, announced>>
      BY <2>1 DEF vars, envVars, ackVars, storeVars, queueVars, historyVars
    <3>2. \A t \in Tasks' : Kept(t)
      BY <3>1, SameTasks
    <3>3. SkipAnnounced' /\ \A r \in Sessions : NoticeIsTrue(r)'
      BY <3>1, <3>2, QuietAnnounced
    <3> QED BY <3>1, <3>3 DEF AnnouncedInv, AllListed
  <2> QED BY <2>1, NextAnnounced
<1>3. AnnouncedInv => SkipAnnounced
  BY DEF AnnouncedInv
<1>4. Spec => []TypeOK
  BY TypeCorrect
<1>5. Spec => []DeliveryInv
  BY MachineryAgrees
<1> QED BY <1>1, <1>2, <1>3, <1>4, <1>5, PTL DEF Spec

-----------------------------------------------------------------------------
(* The component keeps its promise (AtLeastOnce).                          *)

\* An entry with a receipt is in the transcript.
LEMMA RegisteredIsWritten ==
    ASSUME TypeOK, DeliveryInv, NEW s \in Sessions, NEW i \in regs[s]
    PROVE  i \in 1..written[s]
<1>1. /\ i <= rcpt[s][i].cp /\ rcpt[s][i].cp <= parsed[s] /\ parsed[s] <= written[s]
  BY DEF DeliveryInv, CheckpointOrder, OffsetOrder
<1>2. /\ i \in Item /\ i \in Nat /\ rcpt[s][i].cp \in Nat
      /\ parsed[s] \in Nat /\ written[s] \in Nat
  BY NaturalNumbers
<1> QED BY <1>1, <1>2 DEF Item

\* Tasks with the entries of earlier ones, and the one routed, show what is written.
LEMMA SteadyWritten ==
    ASSUME TypeOK, TypeOK', TasksAreWritten,
           \A s \in Sessions : written[s] <= written'[s],
           \A t \in Tasks' : \/ Kept(t) \/ Gathered(t) \/ t.items = {}
                             \/ t.sess \in Sessions /\ t.items \subseteq 1..written[t.sess]
    PROVE  TasksAreWritten'
<1> SUFFICES ASSUME NEW t \in Tasks', NEW i \in t.items
             PROVE  i \in 1..written'[t.sess]
  BY DEF TasksAreWritten
<1>1. \A o \in Tasks : o.sess \in Sessions
  <2>1. \A v \in Users : worker[v].task \in Task
    BY DEF TypeOK, Worker
  <2>2. \A v \in Users : \A k \in 1..Len(queue[v]) : queue[v][k] \in Task
    BY DEF TypeOK
  <2>3. \A o \in Task : o.sess \in Sessions
    BY DEF Task
  <2> QED BY <2>1, <2>2, <2>3 DEF Tasks
<1>2. t.sess \in Sessions /\ i \in 1..written[t.sess]
  <2>1. CASE Kept(t)
    BY <1>1, <2>1 DEF Kept, TasksAreWritten
  <2>2. CASE Gathered(t)
    BY <1>1, <2>2 DEF Gathered, TasksAreWritten
  <2> QED BY <2>1, <2>2
<1>3. /\ written[t.sess] \in Nat /\ written'[t.sess] \in Nat
      /\ written[t.sess] <= written'[t.sess]
  BY <1>2 DEF TypeOK, Offset
<1> QED BY <1>2, <1>3

\* Only agents write.
LEMMA OnlyAgentsWrite ==
    ASSUME Next
    PROVE  (\E s \in Sessions : Write(s)) \/ UNCHANGED written
<1>1. ASSUME NEW u \in Users, WorkerStep(u) PROVE UNCHANGED written
  <2>1. CASE GetTask(u) \/ BeginSend(u) \/ RetryAfter(u)
    BY <2>1 DEF GetTask, BeginSend, RetryAfter, envVars
  <2>2. CASE \E outcome \in {"dropped", "failed", "delivered"} : Settle(u, outcome)
    BY <2>2 DEF Settle, envVars
  <2> QED BY <1>1, <2>1, <2>2
          DEF WorkerStep, DropStale, DropHidden, RefuseNotice, Deliver, FailSend
<1>2. CASE MonitorStep
  <2>1. CASE \/ \E L \in SUBSET Sessions : NoteLive(L)
             \/ \E s \in Sessions : ResumeSkip(s) \/ SettleSkip(s) \/ BeginRead(s) \/ FinishRead(s)
             \/ EndResume \/ BeginReads \/ Register \/ EndDispatch \/ CommitWatermarks
    BY <2>1 DEF NoteLive, ResumeSkip, SettleSkip, BeginRead, FinishRead, EndResume, BeginReads,
                Register, EndDispatch, CommitWatermarks, envVars
  <2>2. ASSUME NEW s \in Sessions, NEW i \in Item,
               (\E u \in Users : Route(u, s, i)) \/ CloseReceipt(s, i) \/ RouteFails(s, i)
        PROVE  UNCHANGED written
    BY <2>2 DEF Route, CloseReceipt, RouteFails, envVars
  <2> QED BY <1>2, <2>1, <2>2 DEF MonitorStep
<1>3. CASE \/ \E u \in Users, s \in Sessions : RequestSkip(u, s)
           \/ \E s \in Sessions : RetryDue(s)
           \/ \E u \in Users, s \in Sessions, t \in Topics \cup {Unbound} : Rebind(u, s, t)
           \/ Crash \/ Start \/ Stop \/ StopWorkers
  BY <1>3 DEF RequestSkip, RetryDue, Rebind, Crash, Start, Stop, StopWorkers, envVars
<1> QED BY <1>1, <1>2, <1>3 DEF Next

LEMMA NextWritten ==
    ASSUME TypeOK, TypeOK', DeliveryInv, TasksAreWritten, Next
    PROVE  TasksAreWritten'
<1>1. CASE \E s \in Sessions : Write(s)
  <2>1. PICK s \in Sessions : Write(s)
    BY <1>1
  <2>2. written' = [written EXCEPT ![s] = @ + 1] /\ UNCHANGED <<queue, worker>>
    BY <2>1 DEF Write, queueVars
  <2>3. \A r \in Sessions : written[r] \in Nat
    BY DEF TypeOK, Offset
  <2>4. \A r \in Sessions : written[r] <= written'[r]
    BY <2>2, <2>3 DEF TypeOK
  <2> QED BY <2>2, <2>4, SameTasks, SteadyWritten
<1>2. CASE UNCHANGED written
  <2>0. \A s \in Sessions : written[s] <= written'[s]
    BY <1>2 DEF TypeOK, Offset
  <2>1. CASE UNCHANGED <<queue, worker>>
    BY <2>0, <2>1, SameTasks, SteadyWritten
  <2>2. ASSUME NEW u \in Users, WorkerStep(u) PROVE TasksAreWritten'
    BY <2>0, <2>2, WorkerTasks, SteadyWritten DEF Blank
  <2>3. ASSUME NEW s \in Sessions, NEW i \in Item, NEW u \in Users, Route(u, s, i)
        PROVE  TasksAreWritten'
    <3>1. i \in regs[s]
      BY <2>3 DEF Route, IsNext, Open
    <3>2. i \in 1..written[s]
      BY <3>1, RegisteredIsWritten
    <3>3. \A t \in Tasks' : Kept(t) \/ (t.sess = s /\ t.items = {i})
      BY <2>3, RouteTasks
    <3>4. \A t \in Tasks' :
            Kept(t) \/ (t.sess \in Sessions /\ t.items \subseteq 1..written[t.sess])
      BY <3>2, <3>3
    <3> QED BY <2>0, <3>4, SteadyWritten
  <2>4. ASSUME NEW s \in Sessions, NEW n \in Intent, NEW m, NEW d,
               BarrierEffects(s, n, m, d), UNCHANGED worker
        PROVE  TasksAreWritten'
    <3>1. \A t \in Tasks' : Kept(t) \/ t = NoticeTask(s, n)
      BY <2>4, BarrierTasks
    <3>2. \A t \in Tasks' : Kept(t) \/ t.items = {}
      BY <3>1 DEF NoticeTask
    <3> QED BY <2>0, <3>2, SteadyWritten
  <2>5. ASSUME NEW s \in Sessions, ResumeSkip(s) PROVE TasksAreWritten'
    <3>1. OffsetOrder(s) /\ mem \in [Sessions -> Tracked] /\ UNCHANGED worker
      BY <2>5 DEF DeliveryInv, TypeOK, ResumeSkip
    <3>2. CASE UNCHANGED queue
      BY <2>1, <3>1, <3>2
    <3>3. CASE Current(s, mem[s].skip) /\ PrepareSkip(s, mem[s].skip, mem, disk, budget)
      <4>1. mem[s].skip \in Intent
        BY <3>1, <3>3 DEF Current, Tracked
      <4>2. BarrierEffects(s, mem[s].skip, mem, disk)
        BY <3>1, <3>3, <4>1, PrepareEffects
      <4> QED BY <2>4, <3>1, <4>1, <4>2
    <3> QED BY <2>5, <3>2, <3>3 DEF ResumeSkip
  <2>6. ASSUME NEW s \in Sessions, SettleSkip(s) PROVE TasksAreWritten'
    <3>1. UNCHANGED queueVars \/ Detach(s)
      BY <2>6 DEF SettleSkip, DropReceipts
    <3>2. CASE UNCHANGED queueVars
      BY <2>1, <3>2 DEF queueVars
    <3>3. CASE Detach(s)
      BY <2>0, <3>3, DetachTasks, SteadyWritten
    <3> QED BY <3>1, <3>2, <3>3
  <2>7. ASSUME NEW u \in Users, NEW s \in Sessions, RequestSkip(u, s) PROVE TasksAreWritten'
    <3>1. UNCHANGED worker
      BY <2>7 DEF RequestSkip
    <3> QED BY <2>4, <2>7, <3>1, RequestEffects
  <2>8. CASE MonitorStep
    <3>1. CASE \/ \E L \in SUBSET Sessions : NoteLive(L)
               \/ \E s \in Sessions : BeginRead(s) \/ FinishRead(s)
               \/ EndResume \/ BeginReads \/ Register \/ EndDispatch \/ CommitWatermarks
      BY <2>1, <3>1 DEF NoteLive, BeginRead, FinishRead, EndResume, BeginReads, Register,
                        EndDispatch, CommitWatermarks, queueVars
    <3>2. ASSUME NEW s \in Sessions, NEW i \in Item,
                 (\E u \in Users : Route(u, s, i)) \/ CloseReceipt(s, i) \/ RouteFails(s, i)
          PROVE  TasksAreWritten'
      <4>1. CASE CloseReceipt(s, i) \/ RouteFails(s, i)
        BY <2>1, <4>1 DEF CloseReceipt, RouteFails, queueVars
      <4> QED BY <2>3, <3>2, <4>1
    <3> QED BY <2>5, <2>6, <2>8, <3>1, <3>2 DEF MonitorStep
  <2>9. CASE Crash \/ Start \/ StopWorkers
    <3>1. \A t \in Tasks' : Blank(t)
      BY <2>9, NoTasks DEF Crash, Start, StopWorkers, FreshProcess
    <3> QED BY <2>0, <3>1, SteadyWritten DEF Blank
  <2>10. CASE \/ \E s \in Sessions : RetryDue(s)
              \/ \E u \in Users, s \in Sessions, t \in Topics \cup {Unbound} : Rebind(u, s, t)
              \/ Stop
    BY <2>1, <2>10 DEF RetryDue, Rebind, Stop, queueVars
  <2> QED BY <1>1, <2>2, <2>7, <2>8, <2>9, <2>10 DEF Next
<1> QED BY <1>1, <1>2, OnlyAgentsWrite

\* Messages become handled by a worker that settles, by routing or by a skip.
LEMMA WhoHandles ==
    ASSUME DeliveryInv, Next
    PROVE  \/ UNCHANGED <<done, skipped>>
           \/ \E u \in Users, outcome \in {"dropped", "failed", "delivered"} : Settle(u, outcome)
           \/ \E u \in Users, s \in Sessions, i \in Item : Route(u, s, i)
           \/ \E s \in Sessions : SettleSkip(s) /\ notice[s] = "ready" /\ CompleteSkip(s)
<1>1. ASSUME NEW u \in Users, WorkerStep(u),
             ~\E outcome \in {"dropped", "failed", "delivered"} : Settle(u, outcome)
      PROVE  UNCHANGED <<done, skipped>>
  BY <1>1 DEF WorkerStep, GetTask, DropStale, DropHidden, BeginSend, RefuseNotice, Deliver,
              FailSend, RetryAfter, historyVars
<1>2. ASSUME NEW s \in Sessions, SettleSkip(s), ~(notice[s] = "ready" /\ CompleteSkip(s))
      PROVE  UNCHANGED <<done, skipped>>
  BY <1>2 DEF SettleSkip
<1>3. CASE \/ \E L \in SUBSET Sessions : NoteLive(L)
           \/ \E s \in Sessions : ResumeSkip(s) \/ BeginRead(s) \/ FinishRead(s)
           \/ EndResume \/ BeginReads \/ Register \/ EndDispatch \/ CommitWatermarks
  BY <1>3 DEF NoteLive, ResumeSkip, BeginRead, FinishRead, EndResume, BeginReads, Register,
              EndDispatch, CommitWatermarks, historyVars
<1>4. ASSUME NEW s \in Sessions, NEW i \in Item, CloseReceipt(s, i) \/ RouteFails(s, i)
      PROVE  UNCHANGED <<done, skipped>>
  BY <1>4 DEF CloseReceipt, RouteFails, historyVars
<1>5. CASE MonitorStep
  BY <1>2, <1>3, <1>4, <1>5 DEF MonitorStep
<1>6. CASE \/ \E u \in Users, s \in Sessions : RequestSkip(u, s)
           \/ \E s \in Sessions : RetryDue(s) \/ Write(s)
           \/ \E u \in Users, s \in Sessions, t \in Topics \cup {Unbound} : Rebind(u, s, t)
           \/ Crash \/ Start \/ Stop \/ StopWorkers
  BY <1>6 DEF RequestSkip, RetryDue, Write, Rebind, Crash, Start, Stop, StopWorkers,
              historyVars
<1> QED BY <1>1, <1>5, <1>6 DEF Next

\* What is handled in a session, as AtLeastOnce sees it, and its mark.
HandledIn == [s \in Sessions |-> {i \in Item : Handled(s, i)}]
MarkOf == [s \in Sessions |-> disk[s].wm]

\* Where only entries of I in session s are shown, just those become handled.
LEMMA HandledJust ==
    ASSUME TypeOK, TypeOK', NEW s \in Sessions, NEW I \in SUBSET Item,
           \A u \in Users, r \in Sessions : done[u][r] \subseteq done'[u][r],
           \A u \in Users, r \in Sessions : skipped[u][r] \subseteq skipped'[u][r],
           \A u \in Users, r \in Sessions, i \in Item :
              r # s \/ i \notin I =>
                 /\ i \in done'[u][r] => i \in done[u][r]
                 /\ i \in skipped'[u][r] => i \in skipped[u][r]
    PROVE  \E J \in SUBSET I : HandledIn' = [HandledIn EXCEPT ![s] = @ \cup J]
<1> DEFINE J == {i \in I : Handled(s, i)'}
<1>1. \A r \in Sessions, i \in Item : Handled(r, i) => Handled(r, i)'
  BY HandledGrows
<1>2. \A r \in Sessions, i \in Item : (r # s \/ i \notin I) /\ Handled(r, i)' => Handled(r, i)
  BY DEF Handled, HasMessage, KindOf
<1> HIDE DEF J
<1>3. ASSUME NEW r \in Sessions
      PROVE  HandledIn'[r] = IF r = s THEN HandledIn[r] \cup J ELSE HandledIn[r]
  <2>1. HandledIn'[r] = {i \in Item : Handled(r, i)'} /\ HandledIn[r] = {i \in Item : Handled(r, i)}
    BY DEF HandledIn
  <2>2. CASE r # s
    BY <1>1, <1>2, <2>1, <2>2
  <2>3. CASE r = s
    <3>1. \A i \in Item : Handled(r, i)' <=> Handled(r, i) \/ i \in J
      BY <1>1, <1>2, <2>3 DEF J
    <3>2. J \subseteq Item
      BY DEF J
    <3> QED BY <2>1, <2>3, <3>1, <3>2
  <2> QED BY <2>2, <2>3
<1>4. HandledIn' = [HandledIn EXCEPT ![s] = @ \cup J]
  BY <1>3 DEF HandledIn
<1>5. J \in SUBSET I
  BY DEF J
<1> QED BY <1>4, <1>5

\* Whatever the step, the marks in the file move forward over handled entries.
LEMMA MarksStayTrue ==
    ASSUME TypeOK, TypeOK', DeliveryInv, DeliveryInv', Next, UNCHANGED written
    PROVE  /\ MarkOf' \in [Sessions -> Offset]
           /\ \A s \in Sessions :
                 /\ MarkOf[s] <= MarkOf'[s] /\ MarkOf'[s] <= written[s]
                 /\ 1..MarkOf'[s] \subseteq HandledIn'[s]
<1>1. \A s \in Sessions : disk'[s] \in Tracked
  BY DEF TypeOK
<1>2. MarkOf' \in [Sessions -> Offset]
  BY <1>1 DEF MarkOf, Tracked
<1>3. ASSUME NEW s \in Sessions
      PROVE  /\ MarkOf[s] <= MarkOf'[s] /\ MarkOf'[s] <= written[s]
             /\ 1..MarkOf'[s] \subseteq HandledIn'[s]
  <2>1. MarkOf[s] = disk[s].wm /\ MarkOf'[s] = disk'[s].wm
    BY DEF MarkOf
  <2>2. disk'[s].wm >= disk[s].wm
    BY MarksAdvance
  <2>3. /\ disk'[s].wm <= mem'[s].wm /\ mem'[s].wm <= parsed'[s] /\ parsed'[s] <= written'[s]
        /\ \A i \in 1..mem'[s].wm : Handled(s, i)'
    BY DEF DeliveryInv, OffsetOrder, MarkCovers
  <2>4. /\ disk[s].wm \in Nat /\ disk'[s].wm \in Offset /\ mem'[s].wm \in Nat
        /\ parsed'[s] \in Nat /\ written[s] \in Nat
    <3>1. disk[s] \in Tracked /\ disk'[s] \in Tracked /\ mem'[s] \in Tracked
      BY DEF TypeOK
    <3>2. parsed'[s] \in Offset /\ written[s] \in Offset
      BY DEF TypeOK
    <3> QED BY <3>1, <3>2 DEF Tracked, Offset
  <2>5. disk'[s].wm \in Nat
    BY <2>4 DEF Offset
  <2>6. disk[s].wm <= disk'[s].wm /\ disk'[s].wm <= written[s]
    BY <2>2, <2>3, <2>4, <2>5
  <2>7. \A i \in 1..disk'[s].wm : i \in Item /\ Handled(s, i)'
    <3>1. PICK d \in Nat, m \in Nat : d = disk'[s].wm /\ m = mem'[s].wm
      BY <2>4, <2>5
    <3>2. d <= m /\ d <= MaxLen /\ MaxLen \in Nat
      BY <2>3, <2>4, <3>1, ConstantsAssumption DEF Offset
    <3>3. 1..d \subseteq 1..m /\ 1..d \subseteq Item
      BY <3>2 DEF Item
    <3>4. \A i \in 1..m : Handled(s, i)'
      BY <2>3, <3>1
    <3> QED BY <3>1, <3>3, <3>4
  <2>8. 1..disk'[s].wm \subseteq HandledIn'[s]
    BY <2>7 DEF HandledIn
  <2> QED BY <2>1, <2>6, <2>8
<1> QED BY <1>2, <1>3

\* Every step maps to a step of AtLeastOnce.
LEMMA StepKeepsPromise ==
    ASSUME TypeOK, TypeOK', DeliveryInv, DeliveryInv', TasksAreWritten, Next
    PROVE  Promise!Next
<1>0. /\ \A s \in Sessions : MarkOf[s] = disk[s].wm
      /\ done \in [Users -> [Sessions -> SUBSET Item]]
      /\ skipped \in [Users -> [Sessions -> SUBSET Item]]
  BY DEF MarkOf, TypeOK
<1>1. CASE \E s \in Sessions : Write(s)
  <2>1. PICK s \in Sessions : Write(s)
    BY <1>1
  <2>2. /\ written[s] < MaxLen /\ written' = [written EXCEPT ![s] = @ + 1]
        /\ UNCHANGED <<disk, done, skipped>>
    BY <2>1 DEF Write, storeVars, historyVars
  <2>3. \A r \in Sessions, i \in Item : Handled(r, i)' <=> Handled(r, i)
    BY <2>2 DEF Handled, HasMessage, KindOf
  <2>4. UNCHANGED <<HandledIn, MarkOf>>
    BY <2>2, <2>3 DEF HandledIn, MarkOf
  <2>5. Promise!Append(s)
    BY <2>2, <2>4 DEF Promise!Append, HandledIn, MarkOf
  <2> QED BY <2>5 DEF Promise!Next
<1>2. CASE UNCHANGED written
  <2>1. CASE UNCHANGED <<done, skipped>>
    <3>1. \A r \in Sessions, i \in Item : Handled(r, i)' <=> Handled(r, i)
      BY <2>1 DEF Handled, HasMessage, KindOf
    <3>2. UNCHANGED HandledIn
      BY <3>1 DEF HandledIn
    <3>3. Promise!Commit
      BY <1>2, <3>2, MarksStayTrue DEF Promise!Commit, Promise!MarkMayMove, Promise!Offset,
                                       HandledIn, MarkOf, Offset
    <3> QED BY <3>3 DEF Promise!Next
  <2>2. ASSUME NEW u \in Users, NEW outcome, Settle(u, outcome) PROVE Promise!Next
    <3> DEFINE t == worker[u].task
    <3>1. t \in Task /\ t \in Tasks
      BY HeldTasks DEF TypeOK, Worker
    <3>2. t.sess \in Sessions /\ t.items \in SUBSET Item /\ t.items \subseteq 1..written[t.sess]
      BY <3>1 DEF Task, TasksAreWritten
    <3>3. /\ UNCHANGED <<disk, skipped>>
          /\ done' = done \/ done' = [done EXCEPT ![u][t.sess] = @ \cup t.items]
      BY <2>2 DEF Settle, storeVars
    <3> HIDE DEF t
    <3>4. /\ \A v \in Users, r \in Sessions : done[v][r] \subseteq done'[v][r]
          /\ \A v \in Users, r \in Sessions, i \in Item :
                r # t.sess \/ i \notin t.items => (i \in done'[v][r] => i \in done[v][r])
      <4>1. CASE done' = done
        BY <4>1
      <4>2. CASE done' = [done EXCEPT ![u][t.sess] = @ \cup t.items]
        <5>1. \A v \in Users, r \in Sessions :
                done'[v][r] = IF v = u /\ r = t.sess THEN done[v][r] \cup t.items ELSE done[v][r]
          BY <1>0, <3>2, <4>2
        <5> QED BY <5>1
      <4> QED BY <3>3, <4>1, <4>2
    <3>5. PICK J \in SUBSET t.items : HandledIn' = [HandledIn EXCEPT ![t.sess] = @ \cup J]
      BY <3>2, <3>3, <3>4, HandledJust
    <3>6. Promise!Handle(t.sess, J)
      BY <1>2, <3>2, <3>3, <3>5 DEF Promise!Handle, HandledIn
    <3>7. J \in SUBSET Item
      BY <3>2
    <3> QED BY <3>2, <3>6, <3>7 DEF Promise!Next, Promise!Item, Item
  <2>3. ASSUME NEW u \in Users, NEW s \in Sessions, NEW i \in Item, Route(u, s, i)
        PROVE  Promise!Next
    <3>1. i \in regs[s]
      BY <2>3 DEF Route, IsNext, Open
    <3>2. {i} \in SUBSET Item /\ {i} \subseteq 1..written[s]
      BY <3>1, RegisteredIsWritten
    <3>3. /\ UNCHANGED <<disk, skipped>>
          /\ done' = done \/ done' = [done EXCEPT ![u][s] = @ \cup {i}]
      BY <2>3 DEF Route, storeVars
    <3>4. /\ \A v \in Users, r \in Sessions : done[v][r] \subseteq done'[v][r]
          /\ \A v \in Users, r \in Sessions, j \in Item :
                r # s \/ j \notin {i} => (j \in done'[v][r] => j \in done[v][r])
      <4>1. CASE done' = done
        BY <4>1
      <4>2. CASE done' = [done EXCEPT ![u][s] = @ \cup {i}]
        <5>1. \A v \in Users, r \in Sessions :
                done'[v][r] = IF v = u /\ r = s THEN done[v][r] \cup {i} ELSE done[v][r]
          BY <1>0, <4>2
        <5> QED BY <5>1
      <4> QED BY <3>3, <4>1, <4>2
    <3>5. PICK J \in SUBSET {i} : HandledIn' = [HandledIn EXCEPT ![s] = @ \cup J]
      BY <3>2, <3>3, <3>4, HandledJust
    <3>6. Promise!Handle(s, J)
      BY <1>2, <3>2, <3>3, <3>5 DEF Promise!Handle, HandledIn
    <3>7. J \in SUBSET Item
      BY <3>2
    <3> QED BY <3>6, <3>7 DEF Promise!Next, Promise!Item, Item
  <2>4. ASSUME NEW s \in Sessions, SettleSkip(s), notice[s] = "ready", CompleteSkip(s)
        PROVE  Promise!Next
    <3> DEFINE n == mem[s].skip
               new == (mem[s].wm + 1)..n.snap
    <3>1. n # NoSkip /\ mem[s].wm <= n.snap /\ n.snap <= written[s] /\ MarkCovers(s)
      BY <2>4 DEF DeliveryInv, OneNotice, OffsetOrder
    <3>2. n.user \in Users /\ n.snap \in Offset /\ n.snap \in Nat
          /\ mem[s].wm \in Nat /\ written[s] \in Nat
      <4>1. n \in Intent
        BY <3>1 DEF TypeOK, Tracked
      <4> QED BY <4>1, NaturalNumbers DEF Intent, Offset
    <3>3. /\ UNCHANGED done
          /\ skipped' = [skipped EXCEPT ![n.user][s] = @ \cup new]
      BY <2>4 DEF SettleSkip, CompleteSkip
    <3> HIDE DEF n
    <3>4. 1..n.snap \subseteq Item
      BY <3>2, ConstantsAssumption DEF Offset, Item
    <3>5. new \in SUBSET Item
      BY <3>2, <3>4
    <3> HIDE DEF new
    <3>6. /\ \A v \in Users, r \in Sessions : skipped[v][r] \subseteq skipped'[v][r]
          /\ \A v \in Users, r \in Sessions, j \in Item :
                r # s \/ j \notin new => (j \in skipped'[v][r] => j \in skipped[v][r])
      BY <1>0, <3>2, <3>3
    <3>7. \A i \in new : i \in skipped'[n.user][s]
      BY <1>0, <3>2, <3>3
    <3>8. PICK J \in SUBSET new : HandledIn' = [HandledIn EXCEPT ![s] = @ \cup J]
      BY <3>3, <3>5, <3>6, HandledJust
    <3>9. new \subseteq HandledIn'[s]
      BY <3>2, <3>5, <3>7 DEF HandledIn, Handled
    <3>10. 1..mem[s].wm \subseteq HandledIn[s]
      <4>1. \A i \in 1..mem[s].wm : Handled(s, i)
        BY <3>1 DEF MarkCovers
      <4>2. 1..mem[s].wm \subseteq Item
        BY <3>1, <3>2, <3>4
      <4> QED BY <4>1, <4>2 DEF HandledIn
    <3>11. 1..n.snap = 1..mem[s].wm \cup new
      BY <3>1, <3>2 DEF new, n
    <3>12. HandledIn'[s] = HandledIn[s] \cup J
      BY <3>8 DEF HandledIn
    <3>13. HandledIn[s] \cup J = HandledIn[s] \cup 1..n.snap
      BY <3>8, <3>9, <3>10, <3>11, <3>12
    <3>14. HandledIn' = [HandledIn EXCEPT ![s] = @ \cup 1..n.snap]
      BY <3>8, <3>13
    <3>15. Promise!JumpToLive(s, n.snap)
      BY <1>2, <3>1, <3>2, <3>14, MarksStayTrue
      DEF Promise!JumpToLive, Promise!MarkMayMove, Promise!Offset, HandledIn, MarkOf, Offset
    <3> QED BY <3>2, <3>15 DEF Promise!Next, Promise!Offset, Offset
  <2> QED BY <2>1, <2>2, <2>3, <2>4, WhoHandles
<1> QED BY <1>1, <1>2, OnlyAgentsWrite

\* The delivery path implements at-least-once delivery: hide receipts, queues,
\* barriers, crashes, retries and restarts, and what is left are entries that
\* become handled and a durable mark that follows them.
THEOREM PromiseKept ==
    ASSUME FaultlessBudget
    PROVE  Spec => KeepsPromise
<1>1. Init => Promise!Init
  <2> SUFFICES ASSUME Init PROVE Promise!Init
    OBVIOUS
  <2>1. written = [s \in Sessions |-> 0] /\ disk = [s \in Sessions |-> [wm |-> 0, skip |-> NoSkip]]
    BY DEF Init
  <2>2. MarkOf = [s \in Sessions |-> 0]
    BY <2>1 DEF MarkOf
  <2>3. HandledIn \in [Sessions -> SUBSET Item]
    BY DEF HandledIn
  <2> QED BY <2>1, <2>2, <2>3 DEF Promise!Init, Promise!Item, HandledIn, MarkOf, Item
<1>2. Init => TasksAreWritten
  <2> SUFFICES ASSUME Init PROVE TasksAreWritten
    OBVIOUS
  <2>1. \A u \in Users : Len(queue[u]) = 0 /\ worker[u].task.items = {}
    BY DEF Init, IdleWorker, IdleTask
  <2>2. \A t \in Tasks : t.items = {}
    BY <2>1 DEF Tasks
  <2> QED BY <2>2 DEF TasksAreWritten
<1>3. TypeOK /\ TypeOK' /\ DeliveryInv /\ TasksAreWritten /\ [Next]_vars => TasksAreWritten'
  <2>1. UNCHANGED vars /\ TasksAreWritten => TasksAreWritten'
    BY DEF vars, envVars, queueVars, TasksAreWritten, Tasks
  <2> QED BY <2>1, NextWritten
<1>4. TypeOK /\ TypeOK' /\ DeliveryInv /\ DeliveryInv' /\ TasksAreWritten /\ [Next]_vars
        => [Promise!Next]_(Promise!vars)
  <2>1. ASSUME UNCHANGED vars PROVE UNCHANGED Promise!vars
    <3>1. UNCHANGED <<written, disk, done, skipped>>
      BY <2>1 DEF vars, envVars, storeVars, historyVars
    <3>2. \A r \in Sessions, i \in Item : Handled(r, i)' <=> Handled(r, i)
      BY <3>1 DEF Handled, HasMessage, KindOf
    <3>3. UNCHANGED <<HandledIn, MarkOf>>
      BY <3>1, <3>2 DEF HandledIn, MarkOf
    <3> QED BY <3>1, <3>3 DEF Promise!vars, HandledIn, MarkOf
  <2> QED BY <2>1, StepKeepsPromise
<1>5. Spec => []TypeOK
  BY TypeCorrect
<1>6. Spec => []DeliveryInv
  BY MachineryAgrees
<1> QED BY <1>1, <1>2, <1>3, <1>4, <1>5, <1>6, PTL DEF Spec, KeepsPromise, Promise!Spec
=============================================================================
