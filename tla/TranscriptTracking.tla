-------------------------- MODULE TranscriptTracking --------------------------
(***************************************************************************)
(* How the monitor keeps its place in one transcript file: first sighting, *)
(* appends that race a read, rewritten and replaced files, a session id    *)
(* that is refreshed for the same file, a seal at the end of the file, a   *)
(* replay from the start, and a crash.  (transcript_reader.py, with the    *)
(* watermark it moves in monitor_state.py and session_monitor.py.)         *)
(*                                                                         *)
(* A transcript line has two halves, so that a reader can meet one that is *)
(* still being written; offsets count halves.  A file is its content, the  *)
(* inode it has (gen) and the time of its last change (ctime); a digest of *)
(* a prefix is that prefix.  What the queues do with a message is a batch  *)
(* of lines that is delivered some time later or dies with the process.    *)
(***************************************************************************)
EXTENDS Integers, Sequences, FiniteSets, SequencesExt

CONSTANTS
    Sids,          \* session ids the file may appear under
    MaxChanges,    \* bound on changes to the file
    MaxLines,      \* bound on lines ever written
    MaxEvents,     \* bound on refreshes, seals and crashes together
    Hazards,       \* which of the known weaknesses may happen: "sealInRead", "fromZero",
                   \* "sealFirst", "refreshBehind", "refreshDown", "copyAtStart", "unmarked", "oldCheckpoint"
    NoSid

ASSUME TrackingAssumption ==
    /\ {MaxChanges, MaxLines, MaxEvents} \subseteq Nat
    /\ MaxLines >= 2                    \* the file is met with up to two lines
    /\ Sids # {} /\ NoSid \notin Sids

VARIABLES
    file,       \* the transcript on disk
    trMap,      \* the session id the session map gives the window, or NoSid
    replay,     \* the map entry carries replay_from_start
    tracked,    \* MonitorState.tracked_sessions
    seen,       \* the caches of TranscriptReader, per session
    rd,         \* the read in progress
    batches,    \* messages on their way, oldest first
    disk,       \* the watermarks of the saved state file
    owed,       \* lines that live delivery has to send (ghost)
    sent,       \* lines sent so far (ghost)
    committed,  \* lines some durable watermark has passed (ghost)
    unnoticed,  \* the file was replaced and the reader has not read it since (ghost)
    history,    \* lines that were there when the file was first seen or replaced (ghost)
    events      \* refreshes, seals and crashes so far

trVars == <<file, trMap, replay, tracked, seen, rd, batches, disk, owed, sent, committed, history, unnoticed, events>>

None == [last |-> -1, parsed |-> -1]
NoCache == [gen |-> -1, ctime |-> -1, mtime |-> -1, prefix |-> <<>>, known |-> FALSE,
            mpos |-> -1, mval |-> 0, bsize |-> -1, bgen |-> -1]
IdleRead == [pc |-> "idle", sid |-> NoSid, own |-> None, sealed |-> FALSE, try |-> 0,
             start |-> 0, before |-> <<0, 0>>, lines |-> <<>>]
EndRead == [IdleRead EXCEPT !.pc = "commit"]

Size == Len(file.body)
\* The half line before an offset stands for the bytes _tail_marker reads.
Marker(o) == IF o = 0 THEN 0 ELSE IF o > Size THEN -1 ELSE file.body[o]
Pos(t) == IF t.parsed >= 0 THEN t.parsed ELSE t.last
PrefixIs(p) == Len(p) <= Size /\ SubSeq(file.body, 1, Len(p)) = p
\* The complete lines that start at or after an offset, and those that end by it.
StartFrom(o) == {file.body[i] : i \in {j \in 1..Size : j % 2 = 1 /\ j > o}}
EndBy(o) == {file.body[i] : i \in {j \in 1..Size : j % 2 = 0 /\ j <= o}}

TrackingInit ==
    /\ \E n \in {2, 3} \cup (IF "fromZero" \in Hazards THEN {0} ELSE {}) :
          file = [gen |-> 1, ctime |-> 0, mtime |-> 0, next |-> (n + 1) \div 2 + 1,
                  body |-> [i \in 1..n |-> (i + 1) \div 2]]
    /\ trMap = (CHOOSE s \in Sids : TRUE) /\ replay = FALSE
    /\ tracked = [s \in Sids |-> None] /\ seen = [s \in Sids |-> NoCache]
    /\ rd = IdleRead /\ batches = <<>> /\ disk = [s \in Sids |-> -1]
    /\ owed = {} /\ sent = {} /\ committed = {} /\ history = {} /\ unnoticed = FALSE /\ events = 0

-----------------------------------------------------------------------------
(* The agent and its file.                                                 *)

\* A change while a read starts at offset zero is a hazard of its own: the prefix
\* check needs a consumed byte.
FromZero == \/ \E s \in Sids : 0 \in {tracked[s].last, tracked[s].parsed}
            \/ rd.pc = "check" /\ rd.start = 0

Changed(body, gen, fresh) ==
    /\ FromZero => "fromZero" \in Hazards
    /\ file.ctime < MaxChanges /\ file.next + fresh <= MaxLines + 1
    /\ file' = [gen |-> gen, ctime |-> file.ctime + 1, body |-> body,
                mtime |-> IF body = file.body THEN file.mtime ELSE file.ctime + 1,
                next |-> file.next + fresh]

Untouched == UNCHANGED <<trMap, replay, tracked, seen, rd, batches, disk, sent, committed, events>>

Other(s) == {o \in Sids \ {s} : tracked[o] # None}
\* The session a read of the file would use, now or after it is adopted.
Reads(s) == tracked[s] # None /\ (s = trMap \/ Other(s) = {})

\* The object a read works on: its own copy once a seal has replaced it.
Mine == IF rd.sealed THEN rd.own ELSE tracked[rd.sid]

\* Live delivery owes what is written to a file it tracks; after a replacement
\* only once the reader has noticed it and the watermark has followed.
Live == ~unnoticed /\ \E s \in Sids : Reads(s) /\ tracked[s].last <= Pos(tracked[s])

\* A line, or the half of one, is appended; a line begun before is finished first.
TrAppend ==
    /\ \E k \in 1..2 :
          IF Size % 2 = 1
          THEN k = 1 /\ Changed(Append(file.body, Last(file.body)), file.gen, 0)
          ELSE Changed(file.body \o [i \in 1..k |-> file.next], file.gen, 1)
    /\ owed' = IF Size % 2 = 0 /\ Live THEN owed \cup {file.next} ELSE owed
    /\ UNCHANGED <<history, unnoticed>> /\ Untouched

\* The metadata changes, or the file is copied with its content: nothing is new.
TrTouch ==
    /\ \E g \in {file.gen, file.gen + 1} :
          /\ Changed(file.body, g, 0)
          /\ g = file.gen \/ "copyAtStart" \in Hazards \/ \A s \in Sids : seen[s].bsize < 0
    /\ UNCHANGED <<owed, history, unnoticed>> /\ Untouched

\* The file is rewritten in place or replaced, with one or two other lines.
\* They are history: the code resumes from the end of a replaced file.
TrReplace ==
    /\ rd.pc = "read" => seen[rd.sid].mpos = Pos(Mine) \/ "unmarked" \in Hazards
    /\ batches \o rd.lines = <<>> \/ "oldCheckpoint" \in Hazards
    /\ \E g \in {file.gen, file.gen + 1}, k \in 1..2 :
          Changed([i \in 1..2*k |-> file.next + (i - 1) \div 2], g, k)
    /\ owed' = {} /\ unnoticed' = TRUE
    /\ history' = IF \E s \in Sids : seen[s].prefix # <<>>
                  THEN history \cup file.next .. file'.next - 1 ELSE history
    /\ Untouched

-----------------------------------------------------------------------------
(* TranscriptReader: one read of the session the map names.                *)

\* The caches after a read that ended at an offset (_commit_stable_read).
Primed(o, b, bg) ==
    [gen |-> file.gen, ctime |-> file.ctime, mtime |-> file.mtime, prefix |-> file.body,
     known |-> TRUE, mpos |-> o, mval |-> Marker(o), bsize |-> b, bgen |-> bg]

\* The startup snapshots of TranscriptReader.__init__.
Snapshot(t) == [Primed(t.last, Size, file.gen) EXCEPT !.mtime = -1]

Covers(c, pos) == pos > 0 /\ c.known /\ Len(c.prefix) >= pos /\ Size >= pos

\* An unknown session starts at the end of its file.
FirstSighting ==
    /\ rd.pc = "idle" /\ trMap # NoSid /\ ~replay
    /\ tracked[trMap] = None /\ Other(trMap) = {}
    /\ tracked' = [tracked EXCEPT ![trMap] = [last |-> Size, parsed |-> -1]]
    /\ seen' = [seen EXCEPT ![trMap] = Primed(Size, -1, -1)]
    /\ disk' = [disk EXCEPT ![trMap] = Size]
    /\ history' = history \cup ToSet(file.body)
    /\ unnoticed' = FALSE
    /\ UNCHANGED <<file, trMap, replay, rd, batches, owed, sent, committed, events>>

\* _reserve_replay_start: offset zero is saved before the marker is consumed.
ReserveReplay ==
    /\ rd.pc = "idle" /\ trMap # NoSid /\ replay
    /\ IF tracked[trMap] = None
       THEN /\ tracked' = [tracked EXCEPT ![trMap] = [last |-> 0, parsed |-> -1]]
            /\ disk' = [disk EXCEPT ![trMap] = 0]
            /\ owed' = owed \cup StartFrom(0)
            /\ history' = history \ ToSet(file.body)
       ELSE UNCHANGED <<tracked, disk, owed, history>>
    /\ replay' = FALSE
    /\ UNCHANGED <<file, trMap, seen, rd, batches, sent, committed, unnoticed, events>>

\* Mutant: the parse position of the old id becomes the watermark of the new one.
AdoptParsed ==
    /\ rd.pc = "idle" /\ trMap # NoSid /\ ~replay /\ tracked[trMap] = None
    /\ \E old \in Other(trMap) :
          /\ tracked' = [tracked EXCEPT ![trMap] = [last |-> Pos(tracked[old]), parsed |-> -1],
                                        ![old] = None]
          /\ seen' = [seen EXCEPT ![trMap] = seen[old], ![old] = NoCache]
          /\ history' = history \ StartFrom(tracked[old].last)
          /\ batches' = [i \in DOMAIN batches |->
                IF batches[i].sid = old THEN [batches[i] EXCEPT !.sid = NoSid] ELSE batches[i]]
    /\ UNCHANGED <<file, trMap, replay, rd, disk, owed, sent, committed, unnoticed, events>>

\* _adopt_tracking_for_file: the watermark and the caches move to the new id,
\* the parse position is taken back to the watermark, old receipts are dropped.
Adopt ==
    /\ rd.pc = "idle" /\ trMap # NoSid /\ ~replay /\ tracked[trMap] = None
    /\ \E old \in Other(trMap) :
          /\ tracked' = [tracked EXCEPT ![trMap] = [last |-> tracked[old].last, parsed |-> -1],
                                        ![old] = None]
          /\ seen' = [seen EXCEPT ![trMap] = seen[old], ![old] = NoCache]
          /\ history' = history \ StartFrom(tracked[old].last)
          /\ batches' = [i \in DOMAIN batches |->
                IF batches[i].sid = old THEN [batches[i] EXCEPT !.sid = NoSid] ELSE batches[i]]
    /\ UNCHANGED <<file, trMap, replay, rd, disk, owed, sent, committed, unnoticed, events>>

\* _prepare_observed_generation, the early return, _prepare_startup_boundary.
Observe ==
    /\ rd.pc = "idle" /\ trMap # NoSid /\ ~replay /\ tracked[trMap] # None
    /\ LET t == tracked[trMap]
           c == seen[trMap]
           pos == Pos(t)
           suspect == \/ c.gen \notin {-1, file.gen}
                      \/ c.known /\ ~PrefixIs(c.prefix)
                      \/ c.ctime \notin {-1, file.ctime} /\ c.known /\ Size <= Len(c.prefix)
                      \/ Size < pos
                      \/ c.mpos = pos /\ Marker(pos) # c.mval
           intact == suspect /\ PrefixIs(c.prefix) /\ Covers(c, pos)
           replaced == suspect /\ ~intact
           boundary == /\ ~replaced /\ c.bsize >= 0 /\ ~intact
                       /\ (c.bgen # file.gen \/ Size < c.bsize)
           t2 == IF replaced \/ boundary THEN [t EXCEPT !.parsed = Size] ELSE t
           quiet == ~replaced /\ file.mtime <= c.mtime /\ Size <= Pos(t)
       IN  /\ tracked' = [tracked EXCEPT ![trMap] = IF quiet THEN t ELSE t2]
           /\ seen' = IF replaced THEN [seen EXCEPT ![trMap].bsize = -1]
                      ELSE IF boundary /\ ~quiet
                      THEN [seen EXCEPT ![trMap].bsize = 0, ![trMap].bgen = file.gen]
                      ELSE seen
           /\ rd' = IF quiet THEN EndRead ELSE [IdleRead EXCEPT !.pc = "read", !.sid = trMap, !.try = 1]
    /\ UNCHANGED <<file, trMap, replay, batches, disk, owed, sent, committed, history, unnoticed, events>>

\* _read_new_lines: clamp a position past the end, skip the rest of a line the
\* position stands in, take the complete lines, leave a half line for later.
ReadLines ==
    /\ rd.pc = "read"
    /\ LET pos == Pos(Mine)
           low == IF pos > Size THEN Size ELSE pos
           from == IF low % 2 = 1 /\ low < Size THEN low + 1 ELSE low
           upto == from + ((Size - from) \div 2) * 2
           read == [i \in 1..(upto - from) \div 2 |-> file.body[from + 2*i]]
           t == [Mine EXCEPT !.parsed = upto]
           step == [rd EXCEPT !.pc = "check", !.start = pos, !.lines = read,
                              !.before = <<file.gen, file.ctime>>]
       IN  IF rd.sealed
           THEN rd' = [step EXCEPT !.own = t] /\ UNCHANGED tracked
           ELSE rd' = step /\ tracked' = [tracked EXCEPT ![rd.sid] = t]
    /\ UNCHANGED <<file, trMap, replay, seen, batches, disk, owed, sent, committed, history, unnoticed, events>>

\* The rest of _read_session_entries: the file was the same before and after,
\* or what was consumed is intact; else the position jumps to the end and the
\* read is tried once more.
StableRead ==
    LET c == seen[rd.sid]
    IN  \/ /\ rd.before = <<file.gen, file.ctime>>
           /\ c.mpos = rd.start => Marker(rd.start) = c.mval
        \/ Covers(c, rd.start) /\ PrefixIs(c.prefix)

RetryRead ==
    /\ rd.pc = "check" /\ ~StableRead
    /\ LET t == [Mine EXCEPT !.parsed = Size]
           step == [rd EXCEPT !.pc = "read", !.try = 2, !.lines = <<>>]
       IN  IF rd.sealed
           THEN /\ rd' = IF rd.try = 1 THEN [step EXCEPT !.own = t] ELSE EndRead
                /\ UNCHANGED tracked
           ELSE /\ rd' = IF rd.try = 1 THEN step ELSE EndRead
                /\ tracked' = [tracked EXCEPT ![rd.sid] = t]
    /\ seen' = [seen EXCEPT ![rd.sid].bsize = -1]
    /\ UNCHANGED <<file, trMap, replay, batches, disk, owed, sent, committed, history, unnoticed, events>>

\* _commit_stable_read and update_session, which puts the object of the read
\* back into the state whatever is there now.
KeepRead ==
    /\ rd.pc = "check" /\ StableRead
    /\ LET c == seen[rd.sid]
           b == IF Pos(Mine) >= c.bsize THEN -1 ELSE c.bsize
       IN  seen' = [seen EXCEPT ![rd.sid] = Primed(Pos(Mine), b, c.bgen)]
    /\ tracked' = [tracked EXCEPT ![rd.sid] = Mine]
    /\ rd' = [rd EXCEPT !.pc = "collected"]
    /\ unnoticed' = FALSE
    /\ UNCHANGED <<file, trMap, replay, batches, disk, owed, sent, committed, history, events>>

\* check_for_updates saves, and _register_delivery_receipts gives every message
\* the parse position of its session as the checkpoint.
Collect ==
    /\ rd.pc = "collected"
    /\ disk' = [s \in Sids |-> tracked[s].last]
    /\ batches' = IF rd.lines = <<>> THEN batches
                  ELSE Append(batches, [sid |-> rd.sid, lines |-> ToSet(rd.lines),
                                        cp |-> tracked[rd.sid].parsed, done |-> FALSE])
    /\ rd' = EndRead
    /\ UNCHANGED <<file, trMap, replay, tracked, seen, owed, sent, committed, history, unnoticed, events>>

-----------------------------------------------------------------------------
(* Around the reader.                                                      *)

Save(t) == [s \in Sids |-> t[s].last]

\* The oldest batch that waits is sent.
DeliverBatch ==
    /\ \E i \in DOMAIN batches :
          /\ ~batches[i].done /\ \A j \in 1..i-1 : batches[j].done
          /\ batches' = [batches EXCEPT ![i].done = TRUE]
          /\ sent' = sent \cup batches[i].lines
    /\ UNCHANGED <<file, trMap, replay, tracked, seen, rd, disk, owed, committed, history, unnoticed, events>>

\* commit_delivered_watermarks, at the end of a cycle, when the first n batches
\* are settled: the checkpoint of the last settled one of a session, or the parse
\* position when nothing of it waits.
CommitMarks ==
    /\ rd.pc = "commit" /\ rd' = IdleRead
    /\ \E n \in 0..Len(batches) :
          LET of(s) == {i \in DOMAIN batches : batches[i].sid = s}
              mark(s) == IF tracked[s] = None \/ tracked[s].parsed < 0 THEN tracked[s].last
                         ELSE IF of(s) \subseteq 1..n THEN tracked[s].parsed
                         ELSE IF of(s) \cap 1..n = {} THEN tracked[s].last
                         ELSE batches[Max(of(s) \cap 1..n)].cp
          IN  /\ \A i \in DOMAIN batches : batches[i].done <=> i <= n
              /\ tracked' = [s \in Sids |-> [tracked[s] EXCEPT !.last = mark(s)]]
              /\ committed' = committed \cup UNION {batches[i].lines : i \in {j \in 1..n : batches[j].sid # NoSid}}
              /\ batches' = SubSeq(batches, n + 1, Len(batches))
    /\ disk' = Save(tracked')
    /\ UNCHANGED <<file, trMap, replay, seen, owed, sent, history, unnoticed, events>>

Event == events < MaxEvents /\ events' = events + 1

\* The agent goes on with the same transcript under another session id.
Refresh ==
    /\ Event /\ rd.pc = "idle"
    /\ (\A s \in Sids : tracked[s].last <= Pos(tracked[s])) \/ "refreshBehind" \in Hazards
    /\ \E s \in Sids \ {trMap} : trMap' = s
    /\ trMap # NoSid
    /\ replay' = FALSE
    /\ UNCHANGED <<file, tracked, seen, rd, batches, disk, owed, sent, committed, history, unnoticed>>

\* A hook asks for a replay of a session nobody has tracked (a fresh
\* session: none of its lines was handled before).
AskReplay ==
    /\ Event /\ ToSet(file.body) \cap (committed \cup sent) = {}
    /\ trMap # NoSid /\ tracked[trMap] = None /\ Other(trMap) = {} /\ ~replay
    /\ replay' = TRUE
    /\ UNCHANGED <<file, trMap, tracked, seen, rd, batches, disk, owed, sent, committed, history, unnoticed>>

\* mark_delivered_to_eof: a topic is bound to the window and its backfill takes
\* over what is on disk.  The window had no topic before, so nothing of it waits
\* in a queue; a read in progress keeps the old session object.
Seal ==
    /\ Event /\ trMap # NoSid
    /\ rd.pc \in {"read", "check", "collected"} => "sealInRead" \in Hazards
    /\ tracked[trMap] # None \/ Other(trMap) = {} \/ "sealFirst" \in Hazards
    /\ tracked' = [tracked EXCEPT ![trMap] = [last |-> Size, parsed |-> Size]]
    /\ seen' = [seen EXCEPT ![trMap] = Primed(Size, -1, -1)]
    /\ rd' = IF rd.pc \in {"read", "check"} /\ ~rd.sealed /\ rd.sid = trMap
             THEN [rd EXCEPT !.sealed = TRUE, !.own = tracked[trMap]] ELSE rd
    /\ batches' = <<>>
    /\ disk' = Save(tracked')
    /\ committed' = committed \cup EndBy(Size)
    /\ owed' = owed \ StartFrom(0)
    /\ unnoticed' = FALSE
    /\ UNCHANGED <<file, trMap, replay, sent, history>>

\* The window leaves the session map: clear_session.
Clear ==
    /\ Event /\ rd.pc = "idle" /\ trMap # NoSid
    /\ trMap' = NoSid /\ replay' = FALSE
    /\ tracked' = [s \in Sids |-> None] /\ seen' = [s \in Sids |-> NoCache]
    /\ batches' = [i \in DOMAIN batches |-> [batches[i] EXCEPT !.sid = NoSid]]
    /\ disk' = [s \in Sids |-> -1] /\ owed' = {}
    /\ unnoticed' = FALSE
    /\ UNCHANGED <<file, rd, sent, committed, history>>

\* A session appears in the window again.
Return ==
    /\ trMap = NoSid /\ trMap' \in Sids
    /\ UNCHANGED <<file, replay, tracked, seen, rd, batches, disk, owed, sent, committed, history, unnoticed, events>>

\* The process dies and starts again from the state file: sessions the map no
\* longer names are dropped (_cleanup_all_stale_sessions), caches are
\* snapshots of the files as they are now.
CrashAndRestart ==
    /\ Event
    /\ "refreshDown" \in Hazards \/ {s \in Sids : disk[s] >= 0} \subseteq {trMap}
    /\ LET kept(s) == IF s = trMap /\ disk[s] >= 0 THEN [last |-> disk[s], parsed |-> -1] ELSE None
       IN  /\ tracked' = [s \in Sids |-> kept(s)]
           /\ seen' = [s \in Sids |-> IF kept(s) = None THEN NoCache ELSE Snapshot(kept(s))]
    /\ disk' = Save(tracked')
    /\ rd' = IdleRead /\ batches' = <<>>
    /\ unnoticed' = (unnoticed \/ \E s \in Sids : disk[s] > Size)
    /\ history' = history \ UNION {StartFrom(disk[s]) : s \in {d \in Sids : disk[d] >= 0}}
    /\ UNCHANGED <<file, trMap, replay, owed, sent, committed>>

TrackingNext ==
    \/ TrAppend \/ TrTouch \/ TrReplace
    \/ FirstSighting \/ ReserveReplay \/ Adopt \/ Observe
    \/ ReadLines \/ RetryRead \/ KeepRead \/ Collect
    \/ DeliverBatch \/ CommitMarks
    \/ Refresh \/ AskReplay \/ Seal \/ Clear \/ Return \/ CrashAndRestart

TrackingSpec == TrackingInit /\ [][TrackingNext]_trVars

-----------------------------------------------------------------------------
TrackingTypeOK ==
    /\ file \in [gen : Nat, ctime : 0..MaxChanges, mtime : 0..MaxChanges,
                 next : 1..MaxLines + 1, body : Seq(1..MaxLines)]
    /\ trMap \in Sids \cup {NoSid} /\ replay \in BOOLEAN
    /\ \A s \in Sids :
          /\ tracked[s].last \in Nat \cup {-1} /\ tracked[s].parsed \in Nat \cup {-1}
          /\ tracked[s] # None => tracked[s].last >= 0
          /\ disk[s] \in Nat \cup {-1}
    /\ rd.pc \in {"idle", "read", "check", "collected", "commit"}
    /\ rd.pc \notin {"idle", "commit"} => rd.sid \in Sids /\ Mine # None
    /\ \A i \in DOMAIN batches : batches[i].lines \subseteq 1..MaxLines

\* Every line live delivery owes has been sent, or is on its way, or lies
\* ahead of the position the next read starts at; and if it has not been sent
\* it lies above the watermark on disk.  Appends that race a read, touches,
\* refreshed ids and restarts may not push the position over one
\* (transcript_reader.py, _read_session_entries and _adopt_tracking_for_file).
OwedLinesAhead ==
    \A l \in owed \ sent :
       \E s \in Sids : Reads(s) /\
          /\ \/ \E i \in DOMAIN batches : l \in batches[i].lines
             \/ l \in ToSet(rd.lines)
             \/ l \in StartFrom(Pos(tracked[s]))
          /\ l \in StartFrom(tracked[s].last)
          /\ \E d \in Sids : disk[d] >= 0 /\ l \in StartFrom(disk[d])

\* What a durable watermark has passed, or a seal has handed to the backfill of
\* a topic, is not on its way a second time (topic_backfill.py,
\* backfill_new_topic; transcript_reader.py, seek_to_eof).
NothingHandledIsQueued ==
    \A i \in DOMAIN batches : ~batches[i].done => batches[i].lines \cap committed = {}

\* The old lines of a file met for the first time, and those of a file that was
\* replaced, are never sent as news (_prepare_observed_generation).
HistoryStaysQuiet ==
    \A i \in DOMAIN batches : batches[i].sid # NoSid => batches[i].lines \cap history = {}

\* What the reader owes it still reaches, and it tells nothing twice: the parts
\* above, with the types (transcript_reader.py).
TrackingInv == TrackingTypeOK /\ OwedLinesAhead /\ NothingHandledIsQueued /\ HistoryStaysQuiet
=============================================================================
