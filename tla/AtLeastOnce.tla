----------------------------- MODULE AtLeastOnce -----------------------------
(***************************************************************************)
(* What transcript delivery promises, whatever happens inside the bot:     *)
(* entries are written, become handled, and a durable mark per session,    *)
(* from which a restart resumes, only ever moves forward over handled      *)
(* entries.  "Jump to live" is the one way to handle entries nobody saw.   *)
(***************************************************************************)
EXTENDS Integers

CONSTANTS
    Sessions,   \* agent sessions
    MaxLen      \* entries every transcript may reach

VARIABLES
    written,    \* written[s]: entries of the transcript so far
    handled,    \* handled[s]: entries for which nothing more is due
    mark        \* mark[s]: the durable delivered watermark

vars == <<written, handled, mark>>

Item == 1..MaxLen
Offset == 0..MaxLen

\* Entries without a message need no handling.
Init ==
    /\ written = [s \in Sessions |-> 0]
    /\ handled \in [Sessions -> SUBSET Item]
    /\ mark = [s \in Sessions |-> 0]

\* One save may carry the marks of several sessions.
MarkMayMove ==
    /\ mark' \in [Sessions -> Offset]
    /\ \A s \in Sessions :
          /\ mark[s] <= mark'[s] /\ mark'[s] <= written[s]
          /\ 1..mark'[s] \subseteq handled'[s]

Append(s) ==
    /\ written[s] < MaxLen
    /\ written' = [written EXCEPT ![s] = @ + 1]
    /\ UNCHANGED <<handled, mark>>

\* Messages reach their readers or are dropped on purpose.
Handle(s, I) ==
    /\ I \subseteq 1..written[s]
    /\ handled' = [handled EXCEPT ![s] = @ \cup I]
    /\ UNCHANGED <<written, mark>>

\* A confirmed jump covers everything up to the offset the user saw.
JumpToLive(s, n) ==
    /\ n \in 0..written[s]
    /\ handled' = [handled EXCEPT ![s] = @ \cup 1..n]
    /\ MarkMayMove
    /\ UNCHANGED written

Commit ==
    /\ MarkMayMove
    /\ UNCHANGED <<written, handled>>

Next ==
    \/ \E s \in Sessions : Append(s)
    \/ \E s \in Sessions, I \in SUBSET Item : Handle(s, I)
    \/ \E s \in Sessions, n \in Offset : JumpToLive(s, n)
    \/ Commit

Spec == Init /\ [][Next]_vars
=============================================================================
