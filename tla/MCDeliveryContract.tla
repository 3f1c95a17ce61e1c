------------------------- MODULE MCDeliveryContract -------------------------
(***************************************************************************)
(* The contract operators on every short list of receipts, against the     *)
(* loops of delivery_contract.py and against what a commit must mean.      *)
(***************************************************************************)
EXTENDS DeliveryContract, Sequences, SequencesExt

CONSTANTS
    Length,      \* bound on a list of receipts
    MaxOffset    \* bound on checkpoints

VARIABLE receipts

R(cp, closed, awaiting, failed) ==
    [cp |-> cp, closed |-> closed, awaiting |-> awaiting, failed |-> failed]

\* A receipt at registration: not closed, nothing tracked.
Fresh(cp) == R(cp, FALSE, {}, FALSE)

\* _register_delivery_receipts
Register ==
    /\ Len(receipts) < Length
    /\ \E cp \in 0..MaxOffset \cup {NoCheckpoint} : receipts' = Append(receipts, Fresh(cp))

\* DeliveryReceipt.track, settle, fail and close; one task stands for all.
Track(i) ==
    /\ ~receipts[i].closed /\ receipts[i].awaiting = {}
    /\ receipts' = [receipts EXCEPT ![i].awaiting = {"task"}]
SettleOne(i) ==
    /\ receipts[i].awaiting # {}
    /\ \E bad \in BOOLEAN :
          receipts' = [receipts EXCEPT ![i].awaiting = {}, ![i].failed = @ \/ bad]
Close(i) ==
    /\ ~receipts[i].closed
    /\ \E bad \in BOOLEAN :
          receipts' = [receipts EXCEPT ![i].closed = TRUE, ![i].failed = @ \/ bad]

Init == receipts = <<>>
Next ==
    \/ Register
    \/ \E i \in DOMAIN receipts : Track(i) \/ SettleOne(i) \/ Close(i)
Spec == Init /\ [][Next]_receipts

-----------------------------------------------------------------------------
(* The loops of the code, as they are written.                             *)

RECURSIVE PrefixLoop(_)
PrefixLoop(q) ==
    IF q = <<>> \/ Head(q).cp = NoCheckpoint \/ ~CommitReady(Head(q))
    THEN <<>>
    ELSE <<Head(q)>> \o PrefixLoop(Tail(q))

RECURSIVE LastBelow(_, _)
LastBelow(run, limit) ==
    IF run = <<>> THEN NoCheckpoint
    ELSE IF Last(run).cp < limit THEN Last(run).cp
    ELSE LastBelow(Front(run), limit)

OffsetLoop(run, q) ==
    IF run = <<>> THEN NoCheckpoint
    ELSE IF Len(run) = Len(q) THEN Last(run).cp
    ELSE IF q[Len(run) + 1].cp = NoCheckpoint THEN NoCheckpoint
    ELSE LastBelow(run, q[Len(run) + 1].cp)

Positions == DOMAIN receipts
Committed == SettledRunOffset(Positions, receipts)

\* The set operators and the code's loops agree on every list, whatever its
\* checkpoints: settled_prefix ends where its loop breaks and settled_run_offset
\* returns the same offset or None.
MatchesLoops ==
    LET run == PrefixLoop(receipts)
        offset == OffsetLoop(run, receipts)
    IN  /\ SettledPrefix(Positions, receipts) = 1..Len(run)
        /\ Committed = IF offset = NoCheckpoint THEN {} ELSE {offset}
=============================================================================
