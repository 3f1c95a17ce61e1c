------------------------------- MODULE TaskList -------------------------------
(*****************************************************************************)
(* The live task list of a Claude window (claude_task_state.py): seeded from *)
(* the whole transcript when a session is first seen, kept by the lines each *)
(* poll reads, hinted by TaskCompleted hooks and cleared when the session    *)
(* ends or another takes its window (session_lifecycle.py).                  *)
(*****************************************************************************)
EXTENDS Integers, Sequences, FiniteSets, SequencesExt

CONSTANTS MaxItems,    \* bound: tasks of one session
          MaxPlanning, \* bound: lines of one transcript
          MaxSessions, \* bound: sessions of the window
          TlHazards    \* real behaviours admitted, see the README

ASSUME TlAssumption == /\ MaxItems \in Nat /\ MaxPlanning \in Nat /\ MaxSessions \in Nat
                       /\ TlHazards \subseteq {"lateEnd", "lateHint", "resumed", "crossed"}

VARIABLES session, plan, asking, journal,     \* the agent: its session, tasks, creations asked, transcript
          hooks,                              \* hook events not yet dispatched
          store, position, seeding,         \* the reader
          tasks, creates, nextOrder           \* _WindowTaskState

agentVars   == <<session, plan, asking, journal, hooks>>
windowTasks == <<tasks, creates, nextOrder>>
tlVars == <<agentVars, store, position, seeding, windowTasks>>

TaskStatuses == {"pending", "in_progress", "completed"}
Untracked == -1
NoTasks == [tasks |-> <<>>, creates |-> <<>>, next |-> 1]

TlInit == /\ session = 1 /\ plan = <<>> /\ asking = <<>> /\ journal = <<>> /\ hooks = <<>>
          /\ store = 0 /\ position = Untracked /\ seeding = FALSE
          /\ tasks = <<>> /\ creates = <<>> /\ nextOrder = 1

(* --- The agent (external) --- *)

Numbers(s) == { s[i].id : i \in DOMAIN s }
Record(lines) == /\ Len(journal) + Len(lines) <= MaxPlanning
                 /\ journal' = journal \o lines

AskTask == LET id == Len(plan) + Len(asking) + 1
           IN /\ id <= MaxItems
              /\ asking' = Append(asking, id) /\ Record(<<[form |-> "create", id |-> id]>>)
              /\ UNCHANGED <<session, plan, hooks>>

TaskMade == /\ asking # <<>>
            /\ plan' = Append(plan, [id |-> Head(asking), status |-> "pending"])
            /\ asking' = Tail(asking) /\ Record(<<[form |-> "created", id |-> Head(asking)]>>)
            /\ UNCHANGED <<session, hooks>>

UpdateTask == \E i \in DOMAIN plan, st \in TaskStatuses :
    /\ plan[i].status # st
    /\ plan' = [plan EXCEPT ![i].status = st]
    /\ Record(<<[form |-> "update", id |-> plan[i].id, status |-> st]>>)
    /\ hooks' = IF st = "completed" THEN Append(hooks, [event |-> "TaskCompleted", session |-> session, id |-> plan[i].id])
                ELSE hooks
    /\ UNCHANGED <<session, asking>>

(* A listing or a rewritten todo list carries every task ("crossed": its    *)
(* result may come before that of a creation asked earlier).                *)
ListTasks == /\ plan # <<>> /\ (asking = <<>> \/ "crossed" \in TlHazards)
             /\ \E n \in 1..Len(plan) : /\ plan' = SubSeq(plan, 1, n)
                                        /\ n < Len(plan) => asking = <<>>
                                        /\ Record(<<[form |-> "list", all |-> plan']>>)
             /\ UNCHANGED <<session, asking, hooks>>

(* /clear ends the session and starts another in the same window; with      *)
(* "resumed" the same session, its transcript and tasks, goes on.           *)
ClearSession ==
    /\ Len(SelectSeq(hooks, LAMBDA h : h.event = "SessionEnd")) = 0
    /\ hooks' = Append(hooks, [event |-> "SessionEnd", session |-> session, id |-> 0])
    /\ \/ /\ session < MaxSessions
          /\ session' = session + 1 /\ plan' = <<>> /\ asking' = <<>> /\ journal' = <<>>
       \/ /\ "resumed" \in TlHazards /\ UNCHANGED <<session, plan, asking, journal>>

Plans == /\ (AskTask \/ TaskMade \/ UpdateTask \/ ListTasks \/ ClearSession)
         /\ UNCHANGED <<store, position, seeding, windowTasks>>

(* --- ClaudeTaskStateStore --- *)

Put(f, k, v) == [x \in DOMAIN f \cup {k} |-> IF x = k THEN v ELSE f[x]]
Drop(f, k)   == [x \in DOMAIN f \ {k} |-> f[x]]

ApplyTaskCreate(s, id) == [s EXCEPT !.creates = Put(@, id, s.next), !.next = @ + 1]
FinalizeTaskCreate(s, id) ==
    IF id \notin DOMAIN s.creates THEN s
    ELSE [s EXCEPT !.tasks = Put(@, id, [status |-> "pending", order |-> s.creates[id]]),
                   !.creates = Drop(@, id)]
ApplyTaskUpdate(s, id, st) == IF id \in DOMAIN s.tasks THEN [s EXCEPT !.tasks[id].status = st] ELSE s
ReplaceFromList(s, all) ==
    LET new == [id \in Numbers(all) |-> LET i == CHOOSE j \in DOMAIN all : all[j].id = id
                                        IN [status |-> all[i].status, order |-> i]]
    IN IF s.tasks = new THEN s ELSE [tasks |-> new, creates |-> <<>>, next |-> Len(all) + 1]

ApplyEntry(s, l) == CASE l.form = "create"  -> ApplyTaskCreate(s, l.id)
                      [] l.form = "created" -> FinalizeTaskCreate(s, l.id)
                      [] l.form = "update"  -> ApplyTaskUpdate(s, l.id, l.status)
                      [] OTHER              -> ReplaceFromList(s, l.all)

ListState == [tasks |-> tasks, creates |-> creates, next |-> nextOrder]
SetList(s) == tasks' = s.tasks /\ creates' = s.creates /\ nextOrder' = s.next

MarkTaskCompleted(s, id) == ApplyTaskUpdate(s, id, "completed")

(* dispatch_hook_event: a completion counts for the session the list belongs *)
(* to, an end for the window whatever runs there.                            *)
DispatchHook(s, h) == IF h.event = "SessionEnd" THEN NoTasks
                   ELSE IF h.session = store THEN MarkTaskCompleted(s, h.id) ELSE s

(* The events a cycle finds: all of them, unless a hook process is late.    *)
Found(n) == \/ n = Len(hooks)
            \/ n < Len(hooks) /\ LET kind == hooks[n + 1].event
                                 IN IF kind = "SessionEnd" THEN "lateEnd" \in TlHazards ELSE "lateHint" \in TlHazards

MonitorTasksKept ==
    /\ ~seeding /\ hooks' = <<>> /\ store' = session /\ position' = Len(journal) /\ seeding' = (position = Untracked)
    /\ SetList(IF session # store THEN FoldLeft(DispatchHook, ListState, hooks)
               ELSE FoldLeft(ApplyEntry, FoldLeft(DispatchHook, ListState, hooks), SubSeq(journal, position + 1, Len(journal))))
    /\ UNCHANGED <<session, plan, asking, journal>>
(* One cycle of the monitor: the hook events, then the session map (another  *)
(* session clears the window's list), then the transcript.  A session first  *)
(* seen starts at the end of its transcript and is seeded afterwards.        *)
MonitorTasks ==
    /\ ~seeding
    /\ \E n \in 0..Len(hooks) :
         /\ Found(n)
         /\ hooks' = SubSeq(hooks, n + 1, Len(hooks))
         /\ LET told    == FoldLeft(DispatchHook, ListState, SubSeq(hooks, 1, n))
                changed == session # store
                kept    == IF changed THEN NoTasks ELSE told
                first   == changed \/ position = Untracked
            IN /\ SetList(IF first THEN kept ELSE FoldLeft(ApplyEntry, kept, SubSeq(journal, position + 1, Len(journal))))
               /\ seeding' = first
    /\ store' = session /\ position' = Len(journal)
    /\ UNCHANGED <<session, plan, asking, journal>>

(* seed_task_state: the whole transcript, as it is when it is read.  (Of a   *)
(* session replaced meanwhile the list is cleared by the next cycle.)        *)
SeedTaskState == /\ seeding /\ seeding' = FALSE
                 /\ IF session = store THEN SetList(FoldLeft(ApplyEntry, NoTasks, journal)) ELSE UNCHANGED windowTasks
                 /\ UNCHANGED <<agentVars, store, position>>

TaskListNext == Plans \/ MonitorTasks \/ SeedTaskState
TaskListSpec == TlInit /\ [][TaskListNext]_tlVars

TaskListTypeOK == /\ store \in 0..MaxSessions /\ position \in -1..MaxPlanning
                  /\ \A id \in DOMAIN tasks : tasks[id].status \in TaskStatuses /\ tasks[id].order < nextOrder
                  /\ \A id \in DOMAIN creates : creates[id] < nextOrder

(* Once every line is read and every event dispatched, the list shown in the *)
(* status bubble is the agent's own list: the same tasks in the same order   *)
(* and status, though the seed reads lines the next poll reads again and a   *)
(* hook may mark a task before its line is read (claude_task_state.py).      *)
TaskListTrue ==
    (store = session /\ position = Len(journal) /\ ~seeding /\ hooks = <<>> /\ asking = <<>>) =>
        /\ DOMAIN tasks = Numbers(plan)
        /\ \A i \in DOMAIN plan : tasks[plan[i].id].status = plan[i].status
        /\ \A i, j \in DOMAIN plan : i < j => tasks[plan[i].id].order < tasks[plan[j].id].order

(* The list is the agent's and its entries are in order: the part above, with *)
(* the types (claude_task_state.py).                                          *)
TaskListInv == TaskListTypeOK /\ TaskListTrue
===============================================================================
