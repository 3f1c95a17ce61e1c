------------------------------ MODULE AgtermSync ------------------------------
(***************************************************************************)
(* agterm sessions and the /sync repair of the topics bound to them        *)
(* (agterm.py, reconciliation.py, sync_command.py, session.py audit_state, *)
(* sessions_dashboard.py, topic_orchestration.py).  A listing is one tree  *)
(* read per agterm window, so what it misses proves nothing; a probe of    *)
(* one session answers yes, no, or nothing at all.                         *)
(*                                                                         *)
(* Two tasks interleave at their awaits: "mon", the monitor loop, which    *)
(* discovers sessions, and "job", the handler that runs now (a creation,   *)
(* /sync Fix, a kill).  All sessions have one name, so that discovery may  *)
(* give any of them the topic of another that has ended.                   *)
(*                                                                         *)
(* AgHazards lets happen what the code does not exclude:                   *)
(*   "rebound"    discovery gives a topic to a new session while the other *)
(*                task removes it, gives it away or makes a session for it *)
(*   "lostReply"  agterm creates the session and its answer is lost        *)
(***************************************************************************)
EXTENDS Naturals, FiniteSets

CONSTANTS AgWins, AgSess, AgTopics, MaxAgMoves, MaxOutages, AgHazards, NoSess, NoThread

ASSUME AgtermAssumption ==
  /\ NoSess \notin AgSess /\ NoThread \notin AgTopics
  /\ MaxAgMoves \in Nat /\ MaxOutages \in Nat /\ AgHazards \subseteq {"rebound", "lostReply"}

VARIABLES
  sess,     \* the sessions of agterm
  socket,   \* agterm answers
  forum,    \* the topics that exist in Telegram
  unmade,   \* topics not yet made
  links,      \* the session a topic is bound to
  tasks,    \* what the monitor loop and the handler are doing
  told,     \* what the last creation reported, and of which session
  routed,   \* the sessions that were ever bound (history)
  agMoves, outages     \* counters of the bounds
agWorld == <<sess, socket, agMoves, outages>>
agBot == <<links, told, routed>>
agForum == <<forum, unmade>>
agVars == <<agWorld, agForum, agBot, tasks>>

Unused == [life |-> "unused", win |-> NoSess, up |-> FALSE, agent |-> FALSE, ran |-> FALSE]
Ended == [Unused EXCEPT !.life = "ended"]
Opened(w) == [Unused EXCEPT !.life = "open", !.win = w]
Held == {s \in AgSess : sess[s].life = "open"}
Eligible == {s \in Held : sess[s].agent}
Routed == {links[t] : t \in AgTopics} \ {NoSess}

Quiet == [at |-> "idle", todo |-> {}, seen |-> {}, sess |-> NoSess, topic |-> NoThread,
          old |-> NoSess, ghosts |-> {}, dead |-> {}]
jobOf == tasks["job"]
Set(k, j) == tasks' = [tasks EXCEPT ![k] = j]
Go(k, place) == Set(k, [tasks[k] EXCEPT !.at = place])
\* Where a task goes on after it has handled one session
Onward(k) == [tasks[k] EXCEPT !.at = IF k = "mon" THEN "listed" ELSE "adopt", !.sess = NoSess,
                            !.topic = NoThread, !.old = NoSess]

----------------------------------------------------------------------------
(* agterm and the people at its windows *)

Moved == agMoves < MaxAgMoves /\ agMoves' = agMoves + 1
Sessions(t) == sess' = t /\ UNCHANGED <<socket, outages, agForum, agBot, tasks>>

OpenSession(s, w) ==
  /\ sess[s] = Unused /\ s # jobOf.sess /\ Moved
  /\ Sessions([sess EXCEPT ![s] = [Opened(w) EXCEPT !.up = TRUE, !.agent = TRUE]])

CloseSession(s) == s \in Held /\ Moved /\ Sessions([sess EXCEPT ![s] = Ended])

\* An agent starts or ends, or its session moves into or out of the scope
EligibilityChanges(s) ==
  s \in Held /\ sess[s].up /\ Moved /\ Sessions([sess EXCEPT ![s].agent = ~@])

TerminalUp(s) ==
  /\ s \in Held /\ ~sess[s].up
  /\ Sessions([sess EXCEPT ![s].up = TRUE]) /\ UNCHANGED agMoves

SocketChanges ==
  /\ (socket => outages < MaxOutages) /\ socket' = ~socket
  /\ outages' = IF socket THEN outages + 1 ELSE outages
  /\ UNCHANGED <<sess, agMoves, agForum, agBot, tasks>>

DeleteTopic(t) ==
  /\ t \in forum /\ Moved /\ forum' = forum \ {t}
  /\ UNCHANGED <<sess, socket, outages, unmade, agBot, tasks>>

----------------------------------------------------------------------------
(* The backend's answers *)

StartListing(k) == Set(k, [Quiet EXCEPT !.at = "list", !.todo = AgWins])

\* The next tree read of a listing; when one fails, there is no listing
ReadTree(k, w) ==
  /\ tasks[k].at = "list" /\ w \in tasks[k].todo
  /\ Set(k, IF ~socket THEN Quiet
            ELSE [tasks[k] EXCEPT !.todo = @ \ {w},
                                  !.seen = @ \cup {s \in Held : sess[s].win = w}])
  /\ UNCHANGED <<agWorld, agForum, agBot>>
Listed(k) == tasks[k].at = "list" /\ tasks[k].todo = {}

ProbeAny(s) == IF socket /\ s \in Held THEN "yes" ELSE "no"

\* window_exists: only a refusal that names the session is an absence
Probe(s) == IF ~socket THEN "unknown" ELSE IF s \in Held THEN "yes" ELSE "no"

StillAdoptable(s) == socket /\ s \in Eligible

----------------------------------------------------------------------------
(* handle_new_window, under the lock of the session *)

Locked(s) == \E k \in {"mon", "job"} :
               tasks[k].sess = s /\ tasks[k].at \in {"rebind", "make", "remake"}

BindSession(t, s) == links' = [links EXCEPT ![t] = s] /\ routed' = routed \cup {s}

\* Another task is about to remove the topic or to bind it
Taken(k, t) == "rebound" \notin AgHazards /\
  \E o \in {"mon", "job"} \ {k} : tasks[o].topic = t /\ tasks[o].at \in {"remove", "rebind"}

\* The one topic whose session the probe denies; no topic while one is unknown
StaleName(s) == {t \in AgTopics : links[t] \notin {NoSess, s} /\ Probe(links[t]) = "no"}
Rebindable(s) == {t \in StaleName(s) : socket /\ StaleName(s) = {t}}

HandleNewWindow(k, s) ==
  /\ ~Locked(s)
  /\ Set(k, IF s \in Routed THEN Onward(k)
            ELSE IF Rebindable(s) # {}
            THEN LET t == CHOOSE x \in Rebindable(s) : TRUE IN
                 [tasks[k] EXCEPT !.at = "rebind", !.sess = s, !.topic = t, !.old = links[t]]
            ELSE [tasks[k] EXCEPT !.at = "make", !.sess = s])
  /\ \A t \in Rebindable(s) : ~Taken(k, t)

\* The topic was probed and the old session is asked for once more
RebindByName(k) ==
  LET t == tasks[k].topic IN
  /\ tasks[k].at = "rebind"
  /\ \/ /\ t \in forum /\ Probe(tasks[k].old) = "no" /\ BindSession(t, tasks[k].sess)
        /\ Set(k, Onward(k))
     \/ /\ t \notin forum /\ links' = [links EXCEPT ![t] = NoSess] /\ UNCHANGED routed
        /\ Go(k, "make")
     \/ UNCHANGED <<links, routed>> /\ Go(k, "make")
  /\ UNCHANGED <<agWorld, agForum, told>>

Make(t) == forum' = forum \cup {t} /\ unmade' = unmade \ {t}

CreateTopicInChat(k) ==
  /\ tasks[k].at = "make" /\ Set(k, Onward(k))
  /\ \/ \E t \in unmade : Make(t) /\ BindSession(t, tasks[k].sess)
     \/ UNCHANGED <<agForum, links, routed>>
  /\ UNCHANGED <<agWorld, told>>

----------------------------------------------------------------------------
(* The monitor loop *)

MonitorCycle ==
  /\ tasks["mon"].at = "idle" /\ StartListing("mon")
  /\ UNCHANGED <<agWorld, agForum, agBot>>

EmitUnbound ==
  /\ Listed("mon") \/ tasks["mon"].at = "listed"
  /\ \/ \E s \in tasks["mon"].seen \ Routed : StillAdoptable(s) /\ HandleNewWindow("mon", s)
     \/ Set("mon", Quiet)
  /\ UNCHANGED <<agWorld, agForum, agBot>>

----------------------------------------------------------------------------
(* create_window, for a topic of its own *)

Start(at) == jobOf.at = "idle" /\ Set("job", at)
Tell(what, s) == told' = [what |-> what, sess |-> s]
\* A failed creation closes its session and says when it could not
Abandon(s) ==
  /\ sess' = IF socket /\ s \in Held THEN [sess EXCEPT ![s] = Ended] ELSE sess
  /\ Tell(IF socket /\ s \in Held THEN "closed" ELSE "left", s) /\ Set("job", Quiet)
  /\ UNCHANGED <<socket, agMoves, outages, agForum, links, routed>>

SessionNew(s, w, t) ==
  LET reply == socket /\ s \in AgSess IN
  /\ jobOf.at = "idle" /\ sess[s] = Unused /\ t \in forum /\ links[t] = NoSess
  /\ ~Taken("job", t)
  /\ \E answered \in IF "lostReply" \in AgHazards THEN BOOLEAN ELSE {TRUE} :
       IF reply /\ answered
       THEN Set("job", [Quiet EXCEPT !.at = "realize", !.sess = s, !.topic = t])
            /\ UNCHANGED told
       ELSE Tell("refused", IF reply THEN s ELSE NoSess) /\ UNCHANGED tasks
  /\ sess' = IF reply THEN [sess EXCEPT ![s] = Opened(w)] ELSE sess
  /\ UNCHANGED <<socket, agMoves, outages, agForum, links, routed>>

\* A poll of _await_realized; `enough` is the last of them
Realized(s) == socket /\ s \in Held /\ sess[s].up
AwaitRealized(enough) ==
  /\ jobOf.at = "realize"
  /\ IF Realized(jobOf.sess) THEN Go("job", "enter") /\ UNCHANGED <<agWorld, agForum, agBot>>
     ELSE (enough \/ ~socket \/ jobOf.sess \notin Held) /\ Abandon(jobOf.sess)

\* The command and its Return; a terminal that is not up loses both
SubmitCommand ==
  LET s == jobOf.sess IN
  /\ jobOf.at = "enter"
  /\ IF socket /\ s \in Held
     THEN /\ sess' = IF sess[s].up THEN [sess EXCEPT ![s].agent = TRUE, ![s].ran = TRUE]
                     ELSE sess
          /\ Go("job", "bind") /\ UNCHANGED <<socket, agMoves, outages, agForum, agBot>>
     ELSE Abandon(s)

BindCreated ==
  /\ jobOf.at = "bind" /\ BindSession(jobOf.topic, jobOf.sess) /\ Tell("created", jobOf.sess)
  /\ Set("job", Quiet) /\ UNCHANGED <<agWorld, agForum>>

----------------------------------------------------------------------------
(* The dashboard's kill *)

Unrouted(s) == [t \in AgTopics |-> IF links[t] = s THEN NoSess ELSE links[t]]

KillConfirm(s) ==
  /\ s \in Routed
  /\ \/ Probe(s) = "no" /\ links' = Unrouted(s) /\ UNCHANGED tasks /\ jobOf.at = "idle"
     \/ Probe(s) = "yes" /\ Start([Quiet EXCEPT !.at = "kill", !.sess = s]) /\ UNCHANGED links
  /\ UNCHANGED <<agWorld, agForum, told, routed>>

KillWindow ==
  LET closed == socket /\ jobOf.sess \in Held IN
  /\ jobOf.at = "kill" /\ Set("job", Quiet)
  /\ sess' = IF closed THEN [sess EXCEPT ![jobOf.sess] = Ended] ELSE sess
  /\ links' = IF closed THEN Unrouted(jobOf.sess) ELSE links
  /\ UNCHANGED <<socket, agMoves, outages, agForum, told, routed>>

----------------------------------------------------------------------------
(* /sync Fix: audit, adopt orphans, remove ghosts, recreate dead topics *)

SyncFix ==
  /\ jobOf.at = "idle" /\ Routed # {} /\ StartListing("job")
  /\ UNCHANGED <<agWorld, agForum, agBot>>

\* audit_state of the listing, and the topics that Telegram no longer has
Audit ==
  LET bound == {<<t, links[t]>> : t \in {x \in AgTopics : links[x] # NoSess}} IN
  /\ Listed("job")
  /\ Set("job", [jobOf EXCEPT !.at = "adopt", !.todo = {},
                            !.ghosts = {b \in bound : b[2] \notin jobOf.seen},
                            !.dead = {b \in bound : b[1] \notin forum}])
  /\ UNCHANGED <<agWorld, agForum, agBot>>

AdoptOrphan ==
  /\ jobOf.at = "adopt"
  /\ \/ \E s \in jobOf.seen \ Routed : StillAdoptable(s) /\ HandleNewWindow("job", s)
     \/ Go("job", "repair")
  /\ UNCHANGED <<agWorld, agForum, agBot>>

CandidatesAudited(set, answer) == {b \in set : links[b[1]] = b[2]}

\* A candidate whose binding is still the audited one and whose probe agrees
Candidates(set, answer) == {b \in set : links[b[1]] = b[2] /\ Probe(b[2]) = answer}

CloseGhost ==
  /\ jobOf.at = "repair"
  /\ \E b \in jobOf.ghosts :
       Set("job", IF b \in Candidates(jobOf.ghosts, "no") /\ ~Taken("job", b[1])
                  THEN [jobOf EXCEPT !.at = "remove", !.ghosts = @ \ {b}, !.topic = b[1]]
                  ELSE [jobOf EXCEPT !.ghosts = @ \ {b}])
  /\ UNCHANGED <<agWorld, agForum, agBot>>

RemoveTopic ==
  /\ jobOf.at = "remove" /\ Set("job", [jobOf EXCEPT !.at = "repair", !.topic = NoThread])
  /\ \/ forum' = forum \ {jobOf.topic} /\ links' = [links EXCEPT ![jobOf.topic] = NoSess]
     \/ UNCHANGED <<forum, links>>
  /\ UNCHANGED <<agWorld, unmade, told, routed>>

RecreateDead ==
  /\ jobOf.at = "repair" /\ jobOf.ghosts = {}
  /\ \E b \in jobOf.dead :
       IF b \in Candidates(jobOf.dead, "yes")
       THEN /\ ~Locked(b[2]) /\ links' = [links EXCEPT ![b[1]] = NoSess]
            /\ Set("job", [jobOf EXCEPT !.at = "remake", !.dead = @ \ {b}, !.sess = b[2],
                                      !.topic = b[1]])
       ELSE Set("job", [jobOf EXCEPT !.dead = @ \ {b}]) /\ UNCHANGED links
  /\ UNCHANGED <<agWorld, agForum, told, routed>>

\* A new topic, or the old binding again
RemakeTopic ==
  /\ jobOf.at = "remake"
  /\ Set("job", [jobOf EXCEPT !.at = "repair", !.sess = NoSess, !.topic = NoThread])
  /\ \/ \E t \in unmade : Make(t) /\ BindSession(t, jobOf.sess)
     \/ BindSession(jobOf.topic, jobOf.sess) /\ UNCHANGED agForum
  /\ UNCHANGED <<agWorld, told>>

FixDone ==
  /\ jobOf.at = "repair" /\ jobOf.ghosts = {} /\ jobOf.dead = {} /\ Set("job", Quiet)
  /\ UNCHANGED <<agWorld, agForum, agBot>>

----------------------------------------------------------------------------
AgtermInit ==
  /\ sess = [s \in AgSess |-> Unused] /\ socket = TRUE
  /\ forum \in SUBSET AgTopics /\ unmade = AgTopics \ forum
  /\ links = [t \in AgTopics |-> NoSess] /\ tasks = [k \in {"mon", "job"} |-> Quiet]
  /\ told = [what |-> "nothing", sess |-> NoSess] /\ routed = {}
  /\ agMoves = 0 /\ outages = 0

AgtermNext ==
  \/ \E s \in AgSess, w \in AgWins :
       OpenSession(s, w) \/ \E t \in AgTopics : SessionNew(s, w, t)
  \/ \E s \in AgSess :
       CloseSession(s) \/ EligibilityChanges(s) \/ TerminalUp(s) \/ KillConfirm(s)
  \/ \E t \in AgTopics : DeleteTopic(t)
  \/ \E k \in {"mon", "job"} :
       RebindByName(k) \/ CreateTopicInChat(k) \/ \E w \in AgWins : ReadTree(k, w)
  \/ \E enough \in BOOLEAN : AwaitRealized(enough)
  \/ SocketChanges \/ MonitorCycle \/ EmitUnbound \/ SubmitCommand \/ BindCreated
  \/ KillWindow \/ SyncFix \/ Audit \/ AdoptOrphan \/ CloseGhost \/ RemoveTopic
  \/ RecreateDead \/ RemakeTopic \/ FixDone

AgtermSpec == AgtermInit /\ [][AgtermNext]_agVars

----------------------------------------------------------------------------
AgtermTypeOK ==
  /\ \A s \in AgSess : sess[s].life \in {"unused", "open", "ended"} /\ sess[s].up \in BOOLEAN
  /\ socket \in BOOLEAN /\ forum \cap unmade = {} /\ routed \subseteq AgSess
  /\ links \in [AgTopics -> AgSess \cup {NoSess}]
  /\ \A k \in {"mon", "job"} : tasks[k].todo \subseteq AgWins /\ tasks[k].seen \subseteq AgSess
  /\ told.what \in {"nothing", "created", "closed", "left", "refused"}

(* A session that had a topic and still runs has one, unless /sync is making *)
(* it a new one: no listing, repair, kill or rebind takes the way to it away *)
(* (window_presence's contract, _recreate_dead_topics' restore).             *)
LiveSessionKept ==
  \A s \in routed \cap Held : s \in Routed \/ (jobOf.at = "remake" /\ jobOf.sess = s)

(* What a creation reports is so: a created session ran the agent's command, *)
(* and of a session that is reported as refused or closed nothing is left    *)
(* (create_window, _abandon).                                                *)
CreationTold ==
  /\ told.what = "created" /\ told.sess \in Held => sess[told.sess].ran
  /\ told.what \in {"closed", "refused"} => told.sess \notin Held

(* No running session loses its topic and no creation is misreported: the  *)
(* parts above, with the types (agterm.py, sync_command.py).               *)
AgtermInv == AgtermTypeOK /\ LiveSessionKept /\ CreationTold
=============================================================================
