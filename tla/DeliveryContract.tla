-------------------------- MODULE DeliveryContract --------------------------
(***************************************************************************)
(* The acknowledgement contract of src/ccgram/delivery_contract.py.        *)
(*                                                                         *)
(* A receipt stands for every outbound task made from one transcript item. *)
(* The receipts of one session are a list in transcript order; here such a *)
(* list is a set R of positions (integers) and a function rec that gives   *)
(* the receipt at each position.  A sequence q is the list DOMAIN q, q.    *)
(***************************************************************************)
EXTENDS Integers

\* The checkpoint of a receipt whose session was not tracked (None).
NoCheckpoint == -1

\* A receipt may commit once its producer closed it, every task made from it
\* has settled and none of them failed.
CommitReady(r) == r.closed /\ r.awaiting = {} /\ ~r.failed

\* The leading run of receipts whose delivery may commit now.
SettledPrefix(R, rec) ==
    {i \in R : \A j \in R : j <= i => rec[j].cp # NoCheckpoint /\ CommitReady(rec[j])}

\* The first receipt behind the run; empty when the run is the whole list.
Fence(R, rec) ==
    LET rest == R \ SettledPrefix(R, rec)
    IN  {i \in rest : \A j \in rest : i <= j}

\* Mutant: a receipt that shares the fence's checkpoint commits too.
RunThroughFence(R, rec) ==
    {i \in SettledPrefix(R, rec) :
        \A f \in Fence(R, rec) : rec[f].cp # NoCheckpoint /\ rec[i].cp <= rec[f].cp}

\* Receipts of one parse cycle share a checkpoint, so only the part of the run
\* strictly below the fence's checkpoint is safe to make durable.
RunBelowFence(R, rec) ==
    {i \in SettledPrefix(R, rec) :
        \A f \in Fence(R, rec) : rec[f].cp # NoCheckpoint /\ rec[i].cp < rec[f].cp}

\* Mutant: nothing commits without a fence behind it.
SettledRunOffsetFenced(R, rec) ==
    LET run == RunBelowFence(R, rec)
    IN  {rec[i].cp : i \in {k \in run : Fence(R, rec) # {} /\ \A j \in run : j <= k}}

\* The durable offset of a settled run: empty for None, else the checkpoint of
\* its last receipt below the fence.
SettledRunOffset(R, rec) ==
    LET run == RunBelowFence(R, rec)
    IN  {rec[i].cp : i \in {k \in run : \A j \in run : j <= k}}

-----------------------------------------------------------------------------
\* The checkpoints of a list never decrease when its transcript only grows.
Ascending(R, rec) ==
    \A i, j \in R : i <= j => rec[i].cp # NoCheckpoint /\ rec[i].cp <= rec[j].cp

\* An offset is safe when no receipt at or below it still holds work back.
Safe(n, R, rec) == \A i \in R : rec[i].cp <= n => CommitReady(rec[i])
=============================================================================
