------------------------- MODULE TranscriptInvariant -------------------------
(***************************************************************************)
(* Why nothing is lost: the inductive invariants of the delivery path.     *)
(*                                                                         *)
(* DeliveryInv, behind NoLoss, holds of runs without the two events that   *)
(* do lose messages: read faults, and rebinding while a skip is pending.   *)
(* AccountingInv, behind ReceiptAccounting, holds of every run.            *)
(***************************************************************************)
EXTENDS TranscriptDelivery

\* No backlog skip is pending and none can be asked for.
NoBarriers ==
    /\ budget["skip"] = 0
    /\ \A s \in Sessions : mem[s].skip = NoSkip /\ disk[s].skip = NoSkip

\* Reads do not fail, and where topics are rebound nobody skips.
Faultless == budget["read"] = 0 /\ (budget["rebind"] = 0 \/ NoBarriers)
FaultlessBudget == Budget["read"] = 0 /\ (Budget["rebind"] = 0 \/ Budget["skip"] = 0)

\* Only a running monitor is inside a cycle.
CyclesWhileUp == pc \in {"resume", "settle", "read", "dispatch"} => mode = "up"

\* Offsets keep their order, and a frozen range ends inside the transcript.
OffsetOrder(s) ==
    /\ disk[s].wm <= mem[s].wm /\ mem[s].wm <= parsed[s] /\ parsed[s] <= written[s]
    /\ mem[s].skip # NoSkip =>
          /\ mem[s].wm <= mem[s].skip.snap /\ mem[s].skip.snap <= written[s]
          /\ Current(s, mem[s].skip)
    /\ disk[s].skip # NoSkip =>
          /\ disk[s].wm <= disk[s].skip.snap /\ disk[s].skip.snap <= written[s]
          /\ Current(s, disk[s].skip)

\* The watermark in memory covers handled entries only.
MarkCovers(s) == \A i \in 1..mem[s].wm : Handled(s, i)

\* A parsed entry above the watermark is handled, about to get a receipt or has
\* one; a stopped monitor may forget entries beyond its last checkpoint.
NothingForgotten(s) ==
    \A i \in (mem[s].wm + 1)..parsed[s] :
        \/ Handled(s, i) \/ i \in buf[s] \/ i \in regs[s]
        \/ mode # "up" /\ \A j \in regs[s] : rcpt[s][j].cp < i

\* Checkpoints: at or above their entry, ascending, and never inside a batch.
CheckpointOrder(s) ==
    /\ \A i \in regs[s] :
          mem[s].wm < i /\ i <= rcpt[s][i].cp /\ rcpt[s][i].cp <= parsed[s]
    /\ \A i, j \in regs[s] :
          /\ i <= j => rcpt[s][i].cp <= rcpt[s][j].cp
          /\ rcpt[s][i].cp < rcpt[s][j].cp => rcpt[s][i].cp < j

\* Entries read in this cycle lie beyond every registered one.
BufferAhead(s) ==
    \A i \in buf[s] :
        /\ pc = "read" /\ mem[s].wm < i /\ i <= parsed[s]
        /\ \A j \in regs[s] : rcpt[s][j].cp < i

\* A receipt tells the truth: for each user it is still open, still waited for,
\* failed, or the user is served; a purge may precede the end of its skip.
HonestReceipts(s) ==
    \A i \in regs[s] :
        LET r == rcpt[s][i]
        IN  \/ r.failed
            \/ /\ r.closed => r.left = {}
               /\ \A u \in Users :
                     \/ u \in r.left \cup r.awaiting \/ i \in done[u][s]
                     \/ mem[s].skip # NoSkip /\ i <= mem[s].skip.snap

\* What a task owes is part of its message and not beyond its checkpoint.
OwesItsItems(t) == t.owed \subseteq t.items /\ (t.notice => t.owed = {})
HonestTasks ==
    \A u \in Users :
        /\ OwesItsItems(worker[u].task)
        /\ \A k \in 1..Len(queue[u]) :
              /\ OwesItsItems(queue[u][k])
              /\ \A i \in queue[u][k].owed : i <= queue[u][k].cp

\* A notice is on its way exactly once, and only while its barrier stands.
NoticeQueued(s, u, k) == queue[u][k].notice /\ queue[u][k].sess = s
NoticeHeld(s, u) == worker[u].task.notice /\ worker[u].task.sess = s
OneNotice(s) ==
    /\ notice[s] # "none" => mem[s].skip # NoSkip
    /\ \A u \in Users : NoticeHeld(s, u) => notice[s] = "pending"
    /\ \A u \in Users : \A k \in 1..Len(queue[u]) :
          NoticeQueued(s, u, k) => notice[s] = "pending" /\ \A v \in Users : ~NoticeHeld(s, v)
    /\ \A u, v \in Users : NoticeHeld(s, u) /\ NoticeHeld(s, v) => u = v
    /\ \A u, v \in Users : \A k \in 1..Len(queue[u]), l \in 1..Len(queue[v]) :
          NoticeQueued(s, u, k) /\ NoticeQueued(s, v, l) => u = v /\ k = l

\* All the parts together: the monitor, its receipts and the queues agree on
\* what is delivered, what is owed and what may still be lost.
DeliveryInv ==
    /\ Faultless
    /\ CyclesWhileUp
    /\ HonestTasks
    /\ \A s \in Sessions :
          /\ OffsetOrder(s) /\ MarkCovers(s) /\ NothingForgotten(s)
          /\ CheckpointOrder(s) /\ BufferAhead(s) /\ HonestReceipts(s)
          /\ OneNotice(s)

-----------------------------------------------------------------------------
(* Who waits for what, in every run.                                       *)

\* An entry is read once: what has a receipt was parsed, what was parsed in
\* this cycle has none yet, and a receipt that is not registered waits for
\* nobody.
ReadOnce(s) ==
    /\ regs[s] \cup buf[s] \subseteq 1..parsed[s]
    /\ regs[s] \cap buf[s] = {}
    /\ pc # "read" => buf[s] = {}
    /\ \A i \in Item : i \notin regs[s] => rcpt[s][i].awaiting = {}

\* A user is routed to once: nobody waits for a task that is still to be made.
RoutedOnce(s) == \A i \in Item : rcpt[s][i].left \cap rcpt[s][i].awaiting = {}

\* A worker without a task owes nothing, and no task owes more than it shows.
TasksOweTheirItems ==
    \A u \in Users :
        /\ OwesItsItems(worker[u].task)
        /\ worker[u].st = "idle" => worker[u].task.owed = {}
        /\ \A k \in 1..Len(queue[u]) : OwesItsItems(queue[u][k])

\* Entry i of s is owed to u in one place at most, and in one exactly while its
\* receipt waits for u.
OwedOnce(u, s, i) ==
    /\ \A j, k \in Owing(u, s, i) : j = k
    /\ u \in rcpt[s][i].awaiting <=> Owing(u, s, i) # {}

\* A barrier in memory is in the file as well.
BarrierSaved(s) == mem[s].skip # NoSkip => disk[s].skip # NoSkip

\* Receipts, queues and barriers account for each other: what a receipt waits
\* for is what the queues hold.
AccountingInv ==
    /\ TasksOweTheirItems
    /\ \A s \in Sessions : ReadOnce(s) /\ RoutedOnce(s) /\ BarrierSaved(s)
    /\ Running => \A u \in Users, s \in Sessions, i \in Item : OwedOnce(u, s, i)

-----------------------------------------------------------------------------
(* What the promise and the announcement of skips need besides.            *)

\* The tasks the process holds, in hand or queued.
Tasks == {worker[u].task : u \in Users}
         \cup UNION {{queue[u][k] : k \in 1..Len(queue[u])} : u \in Users}

\* Tasks carry entries of their transcript only.
TasksAreWritten == \A t \in Tasks : t.items \subseteq 1..written[t.sess]

\* No listing has missed a window.
AllListed == budget["gap"] = 0 /\ live = Sessions

\* The notice on its way is about the range its barrier froze, and once it is
\* acknowledged that range has been announced.
NoticeIsTrue(s) ==
    /\ \A t \in Tasks : t.notice /\ t.sess = s => t.cp = mem[s].skip.snap
    /\ notice[s] = "ready" => mem[s].skip.snap <= announced[s]

\* Skips are announced: nothing but an acknowledged notice completes one.
AnnouncedInv ==
    /\ AllListed
    /\ \A s \in Sessions : NoticeIsTrue(s)
    /\ SkipAnnounced

\* Nobody has skipped and nobody can: the promise to each user.
NobodySkips ==
    /\ NoBarriers
    /\ \A u \in Users, s \in Sessions : skipped[u][s] = {}
=============================================================================
