---------------------------- MODULE BackendsProofs ----------------------------
(***************************************************************************)
(* What holds of the windows of the three backends, for any numbers of     *)
(* windows, sessions, panes, topics, restarts and outages, when none of    *)
(* the behaviours happens that a model names in its ...Hazards constant.   *)
(* Each invariant says what the bot may rely on when it takes a window for *)
(* the one it knows: agterm, what a task between two of its awaits still   *)
(* holds; tmux, which window a remembered name tells; herdr, whose target  *)
(* a stored stand-in is and what a listing cannot have missed.             *)
(***************************************************************************)
EXTENDS AgtermSync, TmuxWindows, HerdrTargets, FiniteSetTheorems, TLAPS

-----------------------------------------------------------------------------
(* Agterm: what a task holds between two of its awaits.                    *)


Doers == {"mon", "job"}
AgStates == [life : {"unused", "open", "ended"}, win : AgWins \cup {NoSess},
             up : BOOLEAN, agent : BOOLEAN, ran : BOOLEAN]
AgPlaces == {"idle", "list", "listed", "rebind", "make", "realize", "enter", "bind",
             "kill", "adopt", "repair", "remove", "remake"}
AgTasks == [at : AgPlaces, todo : SUBSET AgWins, seen : SUBSET AgSess,
            sess : AgSess \cup {NoSess}, topic : AgTopics \cup {NoThread},
            old : AgSess \cup {NoSess}, ghosts : SUBSET (AgTopics \X AgSess),
            dead : SUBSET (AgTopics \X AgSess)]

(* The types, with those of the sessions and the tasks *)
AgTypes ==
  /\ sess \in [AgSess -> AgStates] /\ socket \in BOOLEAN
  /\ forum \subseteq AgTopics /\ unmade \subseteq AgTopics /\ forum \cap unmade = {}
  /\ links \in [AgTopics -> AgSess \cup {NoSess}] /\ routed \subseteq AgSess
  /\ tasks \in [Doers -> AgTasks]
  /\ told \in [what : {"nothing", "created", "closed", "left", "refused"},
               sess : AgSess \cup {NoSess}]

Made == {s \in AgSess : sess[s].life # "unused"}
Over(s) == s = NoSess \/ sess[s].life = "ended"

(* Only what was made has or had a topic; a topic not made yet has no *)
(* session.                                                           *)
LinksMade ==
  /\ routed \subseteq Made /\ Routed \subseteq routed
  /\ \A t \in unmade : links[t] = NoSess

(* Only what was made is listed, worked on or reported *)
TasksMade ==
  /\ told.sess \in Made \cup {NoSess}
  /\ \A k \in Doers :
       /\ tasks[k].seen \subseteq Made
       /\ tasks[k].at \in {"rebind", "make", "remake", "realize", "enter", "bind", "kill"}
            => tasks[k].sess \in Made

OnlyMade == LinksMade /\ TasksMade

(* A task about to give a topic to a new session has the topic to itself, *)
(* and what the topic is bound to has ended.                              *)
RebindsAlone ==
  /\ \A k \in Doers : tasks[k].at = "rebind" =>
       /\ tasks[k].topic \in AgTopics \ unmade
       /\ tasks[k].old \in AgSess /\ Over(tasks[k].old)
       /\ links[tasks[k].topic] \in {tasks[k].old, NoSess}
  /\ \A k, o \in Doers :
       /\ k # o /\ tasks[k].at = "rebind" /\ tasks[o].topic = tasks[k].topic
       => tasks[o].at \notin {"rebind", "remove", "realize", "enter", "bind", "remake"}

(* The handler's topic: one it removes has no running session, one it will *)
(* bind has none at all.  A created session is up, then runs its command.  *)
HoldsTopic ==
  /\ tasks["mon"].at \in {"idle", "list", "listed", "rebind", "make"}
  /\ jobOf.at = "remove" => jobOf.topic \in AgTopics \ unmade /\ Over(links[jobOf.topic])
  /\ jobOf.at \in {"realize", "enter", "bind", "remake"} =>
       jobOf.topic \in AgTopics \ unmade /\ links[jobOf.topic] = NoSess
  /\ jobOf.at = "enter" /\ jobOf.sess \in Held => sess[jobOf.sess].up
  /\ jobOf.at = "bind" /\ jobOf.sess \in Held => sess[jobOf.sess].ran

SessionsInOrder ==
  /\ AgTypes /\ OnlyMade /\ RebindsAlone /\ HoldsTopic
  /\ LiveSessionKept /\ CreationTold

(* A topic that discovery may give away is bound to a session that ended *)
LEMMA RebindsDead ==
  ASSUME AgTypes, OnlyMade, NEW s \in AgSess, Rebindable(s) # {}
  PROVE  LET t == CHOOSE x \in Rebindable(s) : TRUE IN
         /\ t \in Rebindable(s) /\ t \in AgTopics \ unmade /\ links[t] \in AgSess
         /\ Over(links[t])
<1> DEFINE t == CHOOSE x \in Rebindable(s) : TRUE
<1>1. t \in Rebindable(s)
  OBVIOUS
<1> HIDE DEF t
<1>2. t \in AgTopics /\ links[t] # NoSess /\ Probe(links[t]) = "no"
  BY <1>1 DEF Rebindable, StaleName
<1>3. links[t] \in AgSess /\ links[t] \in Made
  BY <1>2 DEF AgTypes, OnlyMade, LinksMade, TasksMade, Routed
<1>4. sess[links[t]].life = "ended"
  BY <1>2, <1>3 DEF Probe, Held, AgTypes, AgStates, Made
<1> QED
  BY <1>1, <1>2, <1>3, <1>4 DEF OnlyMade, LinksMade, TasksMade, Over, t

-----------------------------------------------------------------------------
(* What the actions make of the tasks.                                     *)

(* Task k goes to a place with a session, a topic and what the topic had,  *)
(* and has listed no other sessions than it had and those that are there.  *)
Moves(k, at, s, t, o) ==
  /\ tasks' \in [Doers -> AgTasks] /\ \A j \in Doers \ {k} : tasks'[j] = tasks[j]
  /\ tasks'[k].at = at /\ tasks'[k].sess = s /\ tasks'[k].topic = t /\ tasks'[k].old = o
  /\ tasks'[k].seen \subseteq tasks[k].seen \cup Held

LEMMA SetMoves ==
  ASSUME AgTypes, NEW k \in Doers, NEW j \in AgTasks, Set(k, j),
         j.seen \subseteq tasks[k].seen \cup Held
  PROVE  Moves(k, j.at, j.sess, j.topic, j.old)
BY DEF AgTypes, Set, Moves

LEMMA QuietMoves ==
  ASSUME AgTypes, NEW k \in Doers, Set(k, Quiet)
  PROVE  Moves(k, "idle", NoSess, NoThread, NoSess)
<1>1. Quiet \in AgTasks /\ Quiet.seen = {}
  BY DEF Quiet, AgTasks, AgPlaces
<1> QED
  BY <1>1, SetMoves DEF Quiet

LEMMA ListingMoves ==
  ASSUME AgTypes, NEW k \in Doers, StartListing(k)
  PROVE  Moves(k, "list", NoSess, NoThread, NoSess)
<1> DEFINE j == [Quiet EXCEPT !.at = "list", !.todo = AgWins]
<1>1. /\ j \in AgTasks /\ j.seen = {} /\ j.at = "list" /\ j.sess = NoSess
      /\ j.topic = NoThread /\ j.old = NoSess
  BY DEF Quiet, AgTasks, AgPlaces
<1>2. Set(k, j)
  BY DEF StartListing
<1> HIDE DEF j
<1> QED
  BY <1>1, <1>2, SetMoves

LEMMA GoMoves ==
  ASSUME AgTypes, NEW k \in Doers, NEW p \in AgPlaces, Go(k, p)
  PROVE  Moves(k, p, tasks[k].sess, tasks[k].topic, tasks[k].old)
<1> DEFINE j == [tasks[k] EXCEPT !.at = p]
<1>1. tasks[k] \in AgTasks
  BY DEF AgTypes
<1>2. /\ j \in AgTasks /\ j.seen = tasks[k].seen /\ j.at = p /\ j.sess = tasks[k].sess
      /\ j.topic = tasks[k].topic /\ j.old = tasks[k].old
  BY <1>1 DEF AgTasks
<1>3. Set(k, j)
  BY DEF Go
<1> HIDE DEF j
<1> QED
  BY <1>2, <1>3, SetMoves

LEMMA OnwardMoves ==
  ASSUME AgTypes, NEW k \in Doers, Set(k, Onward(k))
  PROVE  Moves(k, IF k = "mon" THEN "listed" ELSE "adopt", NoSess, NoThread, NoSess)
<1> DEFINE j == Onward(k)
<1>1. tasks[k] \in AgTasks
  BY DEF AgTypes
<1>2. /\ j \in AgTasks /\ j.seen = tasks[k].seen /\ j.sess = NoSess
      /\ j.at = (IF k = "mon" THEN "listed" ELSE "adopt")
      /\ j.topic = NoThread /\ j.old = NoSess
  BY <1>1 DEF AgTasks, AgPlaces, Onward
<1> HIDE DEF j
<1> QED
  BY <1>2, SetMoves DEF j

(* What a task does with a session it found: nothing, or it goes to give   *)
(* it the topic of one that ended, or to make it a topic.                  *)
LEMMA FoundMoves ==
  ASSUME AgTypes, OnlyMade, NEW k \in Doers, NEW s \in tasks[k].seen, HandleNewWindow(k, s)
  PROVE  /\ s \in AgSess
         /\ \/ Moves(k, IF k = "mon" THEN "listed" ELSE "adopt", NoSess, NoThread, NoSess)
            \/ \E t \in AgTopics \ unmade :
                 /\ links[t] \in AgSess /\ Over(links[t]) /\ ~Taken(k, t)
                 /\ Moves(k, "rebind", s, t, links[t])
            \/ Moves(k, "make", s, tasks[k].topic, tasks[k].old)
<1>0. tasks[k] \in AgTasks /\ s \in AgSess
  BY DEF AgTypes, AgTasks
<1>1. CASE s \in Routed
  <2>1. Set(k, Onward(k))
    BY <1>1 DEF HandleNewWindow
  <2> QED
    BY <1>0, <2>1, OnwardMoves
<1>2. CASE s \notin Routed /\ Rebindable(s) = {}
  <2> DEFINE j == [tasks[k] EXCEPT !.at = "make", !.sess = s]
  <2>1. Set(k, j)
    BY <1>2 DEF HandleNewWindow
  <2>2. /\ j \in AgTasks /\ j.seen = tasks[k].seen /\ j.at = "make" /\ j.sess = s
        /\ j.topic = tasks[k].topic /\ j.old = tasks[k].old
    BY <1>0 DEF AgTasks, AgPlaces
  <2> HIDE DEF j
  <2> QED
    BY <1>0, <2>1, <2>2, SetMoves
<1>3. CASE s \notin Routed /\ Rebindable(s) # {}
  <2> DEFINE t == CHOOSE x \in Rebindable(s) : TRUE
             j == [tasks[k] EXCEPT !.at = "rebind", !.sess = s, !.topic = t, !.old = links[t]]
  <2>1. Set(k, j)
    BY <1>3 DEF HandleNewWindow
  <2>2. /\ t \in Rebindable(s) /\ t \in AgTopics \ unmade
        /\ links[t] \in AgSess /\ Over(links[t])
    BY <1>0, <1>3, RebindsDead
  <2> HIDE DEF t
  <2>3. /\ j \in AgTasks /\ j.seen = tasks[k].seen /\ j.at = "rebind" /\ j.sess = s
        /\ j.topic = t /\ j.old = links[t]
    BY <1>0, <2>2 DEF AgTasks, AgPlaces
  <2>4. ~Taken(k, t)
    BY <2>2 DEF HandleNewWindow
  <2> HIDE DEF j
  <2> QED
    BY <1>0, <2>1, <2>2, <2>3, <2>4, SetMoves
<1> QED
  BY <1>1, <1>2, <1>3

LEMMA ReadTreeMoves ==
  ASSUME AgTypes, NEW k \in Doers, NEW w \in AgWins, ReadTree(k, w)
  PROVE  \E at \in {"idle", "list"}, s \in AgSess \cup {NoSess},
            t \in AgTopics \cup {NoThread}, o \in AgSess \cup {NoSess} : Moves(k, at, s, t, o)
<1> DEFINE j == [tasks[k] EXCEPT !.todo = @ \ {w},
                                 !.seen = @ \cup {s \in Held : sess[s].win = w}]
<1>1. tasks[k] \in AgTasks /\ tasks[k].at = "list"
  BY DEF AgTypes, ReadTree
<1>2. /\ j \in AgTasks /\ j.seen \subseteq tasks[k].seen \cup Held /\ j.at = "list"
      /\ j.sess \in AgSess \cup {NoSess} /\ j.topic \in AgTopics \cup {NoThread}
      /\ j.old \in AgSess \cup {NoSess}
  BY <1>1 DEF AgTasks, Held
<1>3. Set(k, Quiet) \/ Set(k, j)
  BY DEF ReadTree
<1> HIDE DEF j
<1>4. CASE Set(k, j)
  BY <1>2, <1>4, SetMoves
<1>5. CASE Set(k, Quiet)
  BY <1>5, QuietMoves
<1> QED
  BY <1>3, <1>4, <1>5

LEMMA AuditMoves ==
  ASSUME AgTypes, Audit
  PROVE  Moves("job", "adopt", jobOf.sess, jobOf.topic, jobOf.old)
<1> DEFINE held == {<<t, links[t]>> : t \in {x \in AgTopics : links[x] # NoSess}}
           j == [jobOf EXCEPT !.at = "adopt", !.todo = {},
                              !.ghosts = {b \in held : b[2] \notin jobOf.seen},
                              !.dead = {b \in held : b[1] \notin forum}]
<1>1. jobOf \in AgTasks /\ "job" \in Doers
  BY DEF AgTypes, Doers, jobOf
<1>2. held \subseteq AgTopics \X AgSess
  BY DEF AgTypes
<1>3. Set("job", j)
  BY DEF Audit
<1> HIDE DEF held
<1>4. /\ j \in AgTasks /\ j.seen = jobOf.seen /\ j.at = "adopt" /\ j.sess = jobOf.sess
      /\ j.topic = jobOf.topic /\ j.old = jobOf.old
  BY <1>1, <1>2 DEF AgTasks, AgPlaces
<1> HIDE DEF j
<1> QED
  BY <1>1, <1>3, <1>4, SetMoves DEF jobOf

LEMMA SessionNewMoves ==
  ASSUME AgTypes, NEW s \in AgSess, NEW w \in AgWins, NEW t \in AgTopics, SessionNew(s, w, t)
  PROVE  \/ /\ Moves("job", "realize", s, t, NoSess) /\ UNCHANGED told
            /\ sess' = [sess EXCEPT ![s] = Opened(w)]
         \/ /\ UNCHANGED tasks
            /\ \/ UNCHANGED sess /\ told' = [what |-> "refused", sess |-> NoSess]
               \/ /\ "lostReply" \in AgHazards
                  /\ sess' = [sess EXCEPT ![s] = Opened(w)]
                  /\ told' = [what |-> "refused", sess |-> s]
<1> DEFINE j == [Quiet EXCEPT !.at = "realize", !.sess = s, !.topic = t]
<1>1. /\ j \in AgTasks /\ j.seen = {} /\ j.at = "realize" /\ j.sess = s
      /\ j.topic = t /\ j.old = NoSess
  BY DEF Quiet, AgTasks, AgPlaces
<1>2. PICK answered \in (IF "lostReply" \in AgHazards THEN BOOLEAN ELSE {TRUE}) :
        IF socket /\ answered THEN Set("job", j) /\ UNCHANGED told
        ELSE Tell("refused", IF socket THEN s ELSE NoSess) /\ UNCHANGED tasks
  BY DEF SessionNew
<1>3. sess' = IF socket THEN [sess EXCEPT ![s] = Opened(w)] ELSE sess
  BY DEF SessionNew
<1> HIDE DEF j
<1>4. CASE socket /\ answered
  <2>1. Moves("job", "realize", s, t, NoSess)
    BY <1>1, <1>2, <1>4, SetMoves DEF Doers
  <2> QED
    BY <1>2, <1>3, <1>4, <2>1
<1>5. CASE ~(socket /\ answered)
  BY <1>2, <1>3, <1>5 DEF Tell
<1> QED
  BY <1>4, <1>5

LEMMA KillConfirmMoves ==
  ASSUME AgTypes, NEW s \in AgSess, KillConfirm(s)
  PROVE  \/ Probe(s) = "no" /\ links' = Unrouted(s) /\ UNCHANGED tasks
         \/ s \in Routed /\ Moves("job", "kill", s, NoThread, NoSess) /\ UNCHANGED links
<1> DEFINE j == [Quiet EXCEPT !.at = "kill", !.sess = s]
<1>1. /\ j \in AgTasks /\ j.seen = {} /\ j.at = "kill" /\ j.sess = s
      /\ j.topic = NoThread /\ j.old = NoSess
  BY DEF Quiet, AgTasks, AgPlaces
<1>2. \/ Probe(s) = "no" /\ links' = Unrouted(s) /\ UNCHANGED tasks
      \/ s \in Routed /\ Set("job", j) /\ UNCHANGED links
  BY DEF KillConfirm, Start
<1> HIDE DEF j
<1> QED
  BY <1>1, <1>2, SetMoves DEF Doers

LEMMA CloseGhostMoves ==
  ASSUME AgTypes, CloseGhost
  PROVE  \/ Moves("job", "repair", jobOf.sess, jobOf.topic, jobOf.old)
         \/ \E t \in AgTopics :
              /\ links[t] \in AgSess /\ Probe(links[t]) = "no" /\ ~Taken("job", t)
              /\ Moves("job", "remove", jobOf.sess, t, jobOf.old)
<1>1. jobOf \in AgTasks /\ "job" \in Doers /\ jobOf = tasks["job"] /\ jobOf.at = "repair"
  BY DEF AgTypes, Doers, jobOf, CloseGhost
<1>2. PICK b \in jobOf.ghosts :
        Set("job", IF b \in Candidates(jobOf.ghosts, "no") /\ ~Taken("job", b[1])
                   THEN [jobOf EXCEPT !.at = "remove", !.ghosts = @ \ {b}, !.topic = b[1]]
                   ELSE [jobOf EXCEPT !.ghosts = @ \ {b}])
  BY DEF CloseGhost
<1>3. b[1] \in AgTopics /\ b[2] \in AgSess /\ jobOf.ghosts \ {b} \in SUBSET (AgTopics \X AgSess)
  BY <1>1 DEF AgTasks
<1>4. CASE b \in Candidates(jobOf.ghosts, "no") /\ ~Taken("job", b[1])
  <2> DEFINE j == [jobOf EXCEPT !.at = "remove", !.ghosts = @ \ {b}, !.topic = b[1]]
  <2>1. /\ j \in AgTasks /\ j.seen = jobOf.seen /\ j.at = "remove" /\ j.sess = jobOf.sess
        /\ j.topic = b[1] /\ j.old = jobOf.old
    BY <1>1, <1>3 DEF AgTasks, AgPlaces
  <2>2. Set("job", j)
    BY <1>2, <1>4
  <2>3. links[b[1]] = b[2] /\ Probe(b[2]) = "no"
    BY <1>4 DEF Candidates
  <2> HIDE DEF j
  <2>4. Moves("job", "remove", jobOf.sess, b[1], jobOf.old)
    BY <1>1, <2>1, <2>2, SetMoves
  <2> QED
    BY <1>3, <1>4, <2>3, <2>4
<1>5. CASE ~(b \in Candidates(jobOf.ghosts, "no") /\ ~Taken("job", b[1]))
  <2> DEFINE j == [jobOf EXCEPT !.ghosts = @ \ {b}]
  <2>1. /\ j \in AgTasks /\ j.seen = jobOf.seen /\ j.at = "repair" /\ j.sess = jobOf.sess
        /\ j.topic = jobOf.topic /\ j.old = jobOf.old
    BY <1>1, <1>3 DEF AgTasks, AgPlaces
  <2>2. Set("job", j)
    BY <1>2, <1>5
  <2> HIDE DEF j
  <2> QED
    BY <1>1, <2>1, <2>2, SetMoves
<1> QED
  BY <1>4, <1>5

LEMMA RemoveTopicMoves ==
  ASSUME AgTypes, RemoveTopic
  PROVE  Moves("job", "repair", jobOf.sess, NoThread, jobOf.old)
<1> DEFINE j == [jobOf EXCEPT !.at = "repair", !.topic = NoThread]
<1>1. jobOf \in AgTasks /\ "job" \in Doers /\ jobOf = tasks["job"]
  BY DEF AgTypes, Doers, jobOf
<1>2. /\ j \in AgTasks /\ j.seen = jobOf.seen /\ j.at = "repair" /\ j.sess = jobOf.sess
      /\ j.topic = NoThread /\ j.old = jobOf.old
  BY <1>1 DEF AgTasks, AgPlaces
<1>3. Set("job", j)
  BY DEF RemoveTopic
<1> HIDE DEF j
<1> QED
  BY <1>1, <1>2, <1>3, SetMoves

LEMMA RemakeTopicMoves ==
  ASSUME AgTypes, RemakeTopic
  PROVE  Moves("job", "repair", NoSess, NoThread, jobOf.old)
<1> DEFINE j == [jobOf EXCEPT !.at = "repair", !.sess = NoSess, !.topic = NoThread]
<1>1. jobOf \in AgTasks /\ "job" \in Doers /\ jobOf = tasks["job"]
  BY DEF AgTypes, Doers, jobOf
<1>2. /\ j \in AgTasks /\ j.seen = jobOf.seen /\ j.at = "repair" /\ j.sess = NoSess
      /\ j.topic = NoThread /\ j.old = jobOf.old
  BY <1>1 DEF AgTasks, AgPlaces
<1>3. Set("job", j)
  BY DEF RemakeTopic
<1> HIDE DEF j
<1> QED
  BY <1>1, <1>2, <1>3, SetMoves

LEMMA RecreateDeadMoves ==
  ASSUME AgTypes, RecreateDead
  PROVE  \/ /\ Moves("job", "repair", jobOf.sess, jobOf.topic, jobOf.old)
            /\ UNCHANGED links
         \/ \E t \in AgTopics :
              /\ links[t] \in Held /\ Moves("job", "remake", links[t], t, jobOf.old)
              /\ links' = [links EXCEPT ![t] = NoSess]
<1>1. jobOf \in AgTasks /\ "job" \in Doers /\ jobOf = tasks["job"] /\ jobOf.at = "repair"
  BY DEF AgTypes, Doers, jobOf, RecreateDead
<1>2. PICK b \in jobOf.dead :
       IF b \in Candidates(jobOf.dead, "yes")
       THEN /\ ~Locked(b[2]) /\ links' = [links EXCEPT ![b[1]] = NoSess]
            /\ Set("job", [jobOf EXCEPT !.at = "remake", !.dead = @ \ {b}, !.sess = b[2],
                                      !.topic = b[1]])
       ELSE Set("job", [jobOf EXCEPT !.dead = @ \ {b}]) /\ UNCHANGED links
  BY DEF RecreateDead
<1>3. b[1] \in AgTopics /\ b[2] \in AgSess /\ jobOf.dead \ {b} \in SUBSET (AgTopics \X AgSess)
  BY <1>1 DEF AgTasks
<1>4. CASE b \in Candidates(jobOf.dead, "yes")
  <2> DEFINE j == [jobOf EXCEPT !.at = "remake", !.dead = @ \ {b}, !.sess = b[2], !.topic = b[1]]
  <2>1. /\ j \in AgTasks /\ j.seen = jobOf.seen /\ j.at = "remake" /\ j.sess = b[2]
        /\ j.topic = b[1] /\ j.old = jobOf.old
    BY <1>1, <1>3 DEF AgTasks, AgPlaces
  <2>2. Set("job", j) /\ links' = [links EXCEPT ![b[1]] = NoSess]
    BY <1>2, <1>4
  <2>3. links[b[1]] = b[2] /\ b[2] \in Held
    BY <1>3, <1>4 DEF Candidates, Probe
  <2> HIDE DEF j
  <2>4. Moves("job", "remake", b[2], b[1], jobOf.old)
    BY <1>1, <2>1, <2>2, SetMoves
  <2> QED
    BY <1>3, <2>2, <2>3, <2>4
<1>5. CASE b \notin Candidates(jobOf.dead, "yes")
  <2> DEFINE j == [jobOf EXCEPT !.dead = @ \ {b}]
  <2>1. /\ j \in AgTasks /\ j.seen = jobOf.seen /\ j.at = "repair" /\ j.sess = jobOf.sess
        /\ j.topic = jobOf.topic /\ j.old = jobOf.old
    BY <1>1, <1>3 DEF AgTasks, AgPlaces
  <2>2. Set("job", j) /\ UNCHANGED links
    BY <1>2, <1>5
  <2> HIDE DEF j
  <2> QED
    BY <1>1, <2>1, <2>2, SetMoves
<1> QED
  BY <1>4, <1>5

(* The actions of one step each *)
LEMMA RebindMoves ==
  ASSUME AgTypes, NEW k \in Doers, RebindByName(k)
  PROVE  \/ /\ Moves(k, IF k = "mon" THEN "listed" ELSE "adopt", NoSess, NoThread, NoSess)
            /\ Probe(tasks[k].old) = "no" /\ BindSession(tasks[k].topic, tasks[k].sess)
         \/ /\ Moves(k, "make", tasks[k].sess, tasks[k].topic, tasks[k].old)
            /\ UNCHANGED routed
            /\ links' \in {links, [links EXCEPT ![tasks[k].topic] = NoSess]}
BY GoMoves, OnwardMoves DEF RebindByName, AgPlaces

LEMMA CreateMoves ==
  ASSUME AgTypes, NEW k \in Doers, CreateTopicInChat(k)
  PROVE  Moves(k, IF k = "mon" THEN "listed" ELSE "adopt", NoSess, NoThread, NoSess)
BY OnwardMoves DEF CreateTopicInChat

LEMMA RealizeMoves ==
  ASSUME AgTypes, NEW enough \in BOOLEAN, AwaitRealized(enough)
  PROVE  \/ /\ Realized(jobOf.sess) /\ UNCHANGED <<agWorld, agForum, agBot>>
            /\ Moves("job", "enter", jobOf.sess, jobOf.topic, jobOf.old)
         \/ Abandon(jobOf.sess) /\ Moves("job", "idle", NoSess, NoThread, NoSess)
BY GoMoves, QuietMoves DEF AwaitRealized, Abandon, AgPlaces, Doers, jobOf

LEMMA SubmitMoves ==
  ASSUME AgTypes, SubmitCommand
  PROVE  \/ /\ Moves("job", "bind", jobOf.sess, jobOf.topic, jobOf.old)
            /\ sess' = (IF sess[jobOf.sess].up
                        THEN [sess EXCEPT ![jobOf.sess].agent = TRUE, ![jobOf.sess].ran = TRUE]
                        ELSE sess)
            /\ jobOf.sess \in Held /\ UNCHANGED <<agForum, agBot>>
         \/ Abandon(jobOf.sess) /\ Moves("job", "idle", NoSess, NoThread, NoSess)
BY GoMoves, QuietMoves DEF SubmitCommand, Abandon, AgPlaces, Doers, jobOf

(* What a task does when it is told to stop, to list or to go on *)
LEMMA PlainMoves ==
  ASSUME AgTypes, OnlyMade
  PROVE  /\ BindCreated => Moves("job", "idle", NoSess, NoThread, NoSess)
         /\ KillWindow => Moves("job", "idle", NoSess, NoThread, NoSess)
         /\ FixDone => Moves("job", "idle", NoSess, NoThread, NoSess)
         /\ MonitorCycle => Moves("mon", "list", NoSess, NoThread, NoSess)
         /\ SyncFix => Moves("job", "list", NoSess, NoThread, NoSess)
<1>1. "job" \in Doers /\ "mon" \in Doers
  BY DEF Doers
<1> QED
  BY <1>1, QuietMoves, ListingMoves DEF BindCreated, KillWindow, FixDone, MonitorCycle, SyncFix

LEMMA EmitMoves ==
  ASSUME AgTypes, OnlyMade, EmitUnbound
  PROVE  \/ Moves("mon", "idle", NoSess, NoThread, NoSess)
         \/ Moves("mon", "listed", NoSess, NoThread, NoSess)
         \/ \E s \in tasks["mon"].seen :
              /\ s \in AgSess
              /\ \/ \E t \in AgTopics \ unmade :
                      /\ links[t] \in AgSess /\ Over(links[t]) /\ ~Taken("mon", t)
                      /\ Moves("mon", "rebind", s, t, links[t])
                 \/ Moves("mon", "make", s, tasks["mon"].topic, tasks["mon"].old)
<1>1. "mon" \in Doers
  BY DEF Doers
<1>2. CASE Set("mon", Quiet)
  BY <1>1, <1>2, QuietMoves
<1>3. CASE \E s \in tasks["mon"].seen : HandleNewWindow("mon", s)
  <2> PICK s \in tasks["mon"].seen : HandleNewWindow("mon", s)
    BY <1>3
  <2> QED
    BY <1>1, FoundMoves
<1> QED
  BY <1>2, <1>3 DEF EmitUnbound

LEMMA AdoptMoves ==
  ASSUME AgTypes, OnlyMade, AdoptOrphan
  PROVE  \/ Moves("job", "repair", jobOf.sess, jobOf.topic, jobOf.old)
         \/ Moves("job", "adopt", NoSess, NoThread, NoSess)
         \/ \E s \in jobOf.seen :
              /\ s \in AgSess
              /\ \/ \E t \in AgTopics \ unmade :
                      /\ links[t] \in AgSess /\ Over(links[t]) /\ ~Taken("job", t)
                      /\ Moves("job", "rebind", s, t, links[t])
                 \/ Moves("job", "make", s, jobOf.topic, jobOf.old)
<1>1. "job" \in Doers /\ jobOf = tasks["job"] /\ "repair" \in AgPlaces
  BY DEF Doers, jobOf, AgPlaces
<1>2. CASE Go("job", "repair")
  BY <1>1, <1>2, GoMoves
<1>3. CASE \E s \in jobOf.seen : HandleNewWindow("job", s)
  <2> PICK s \in tasks["job"].seen : HandleNewWindow("job", s)
    BY <1>1, <1>3
  <2> QED
    BY <1>1, FoundMoves
<1> QED
  BY <1>2, <1>3 DEF AdoptOrphan

-----------------------------------------------------------------------------
(* What the actions make of the sessions.                                  *)

(* What is made or ended stays so, and an open session that is up, or that *)
(* ran its command, is so while it is open.                                *)
SessionsGoOn ==
  /\ sess' \in [AgSess -> AgStates] /\ Made \subseteq Made'
  /\ \A s \in AgSess : Over(s) => sess'[s].life = "ended"
  /\ \A s \in Made \cap Held' :
       (sess[s].up => sess'[s].up) /\ (sess[s].ran => sess'[s].ran)

LEMMA NewSession ==
  ASSUME AgTypes, NEW s \in AgSess, NEW w \in AgWins, sess[s] = Unused,
         NEW r \in {Opened(w), [Opened(w) EXCEPT !.up = TRUE, !.agent = TRUE]},
         sess' = [sess EXCEPT ![s] = r]
  PROVE  SessionsGoOn /\ Made' = Made \cup {s} /\ s \notin Made /\ Held' = Held \cup {s}
<1>1. Opened(w) \in AgStates /\ Opened(w).life = "open" /\ sess[s].life = "unused"
  <2>1. Unused \in AgStates /\ Unused.life = "unused"
    BY DEF Unused, AgStates
  <2>2. \A o \in AgStates :
          /\ [o EXCEPT !.life = "open", !.win = w] \in AgStates
          /\ [o EXCEPT !.life = "open", !.win = w].life = "open"
    BY DEF AgStates
  <2> QED
    BY <2>1, <2>2 DEF Opened
<1>2. \A o \in AgStates :
        /\ [o EXCEPT !.up = TRUE, !.agent = TRUE] \in AgStates
        /\ [o EXCEPT !.up = TRUE, !.agent = TRUE].life = o.life
  BY DEF AgStates
<1>3. r \in AgStates /\ r.life = "open"
  BY <1>1, <1>2
<1> QED
  BY <1>1, <1>3, AgtermAssumption DEF AgTypes, SessionsGoOn, Made, Over, Held

LEMMA SessionEnds ==
  ASSUME AgTypes, NEW s \in Held, sess' = [sess EXCEPT ![s] = Ended]
  PROVE  SessionsGoOn /\ Made' = Made /\ Held' = Held \ {s} /\ Over(s)'
<1>1. Ended \in AgStates /\ Ended.life = "ended"
  BY DEF Ended, Unused, AgStates
<1> QED
  BY <1>1, AgtermAssumption DEF AgTypes, SessionsGoOn, Made, Over, Held

LEMMA SessionChanges ==
  ASSUME AgTypes, NEW s \in Held, NEW a \in BOOLEAN,
         \/ sess' = [sess EXCEPT ![s].up = TRUE]
         \/ sess' = [sess EXCEPT ![s].agent = a]
         \/ sess' = [sess EXCEPT ![s].agent = TRUE, ![s].ran = TRUE]
  PROVE  SessionsGoOn /\ Made' = Made /\ Held' = Held
<1>1. s \in AgSess /\ sess[s] \in AgStates /\ sess[s].life = "open"
  BY DEF AgTypes, Held
<1>2. /\ \A x \in AgStates :
           /\ [x EXCEPT !.up = TRUE] \in AgStates /\ [x EXCEPT !.up = TRUE].life = x.life
           /\ [x EXCEPT !.up = TRUE].up = TRUE /\ [x EXCEPT !.up = TRUE].ran = x.ran
           /\ [x EXCEPT !.agent = a] \in AgStates /\ [x EXCEPT !.agent = a].life = x.life
           /\ [x EXCEPT !.agent = a].up = x.up /\ [x EXCEPT !.agent = a].ran = x.ran
  BY DEF AgStates
<1>3. CASE \/ sess' = [sess EXCEPT ![s].up = TRUE]
           \/ sess' = [sess EXCEPT ![s].agent = a]
  <2>1. /\ sess'[s] \in AgStates /\ sess'[s].life = "open"
        /\ (sess[s].up => sess'[s].up) /\ (sess[s].ran => sess'[s].ran)
    <3>1. \/ sess'[s] = [sess[s] EXCEPT !.up = TRUE]
          \/ sess'[s] = [sess[s] EXCEPT !.agent = a]
      BY <1>1, <1>3 DEF AgTypes
    <3> QED
      BY <1>1, <1>2, <3>1 DEF AgStates
  <2>2. sess' \in [AgSess -> AgStates] /\ \A x \in AgSess \ {s} : sess'[x] = sess[x]
    BY <1>3, <2>1 DEF AgTypes
  <2> QED
    BY <1>1, <2>1, <2>2, AgtermAssumption DEF AgTypes, SessionsGoOn, Made, Over, Held
<1>4. CASE sess' = [sess EXCEPT ![s].agent = TRUE, ![s].ran = TRUE]
  <2>1. /\ sess'[s] \in AgStates /\ sess'[s].life = "open"
        /\ (sess[s].up => sess'[s].up) /\ (sess[s].ran => sess'[s].ran)
    <3>1. sess'[s] = [sess[s] EXCEPT !.agent = TRUE, !.ran = TRUE]
      BY <1>1, <1>4 DEF AgTypes
    <3>2. \A x \in AgStates :
            /\ [x EXCEPT !.agent = TRUE, !.ran = TRUE] \in AgStates
            /\ [x EXCEPT !.agent = TRUE, !.ran = TRUE].life = x.life
            /\ [x EXCEPT !.agent = TRUE, !.ran = TRUE].up = x.up
            /\ [x EXCEPT !.agent = TRUE, !.ran = TRUE].ran = TRUE
      BY DEF AgStates
    <3> QED
      BY <1>1, <3>1, <3>2
  <2>2. sess' \in [AgSess -> AgStates] /\ \A x \in AgSess \ {s} : sess'[x] = sess[x]
    BY <1>4, <2>1 DEF AgTypes
  <2> QED
    BY <1>1, <2>1, <2>2, AgtermAssumption DEF AgTypes, SessionsGoOn, Made, Over, Held
<1> QED
  BY <1>3, <1>4

LEMMA AbandonEnds ==
  ASSUME AgTypes, NEW s \in AgSess, Abandon(s)
  PROVE  /\ SessionsGoOn /\ Made' = Made /\ Held' \subseteq Held
         /\ \A x \in Held' : sess'[x] = sess[x]
         /\ told' \in [what : {"closed", "left"}, sess : {s}]
         /\ told'.what = "closed" => Over(s)'
         /\ UNCHANGED <<socket, agForum, links, routed>>
<1>1. told' \in [what : {"closed", "left"}, sess : {s}]
  BY DEF Abandon, Tell
<1>2. CASE socket /\ s \in Held
  <2>1. sess' = [sess EXCEPT ![s] = Ended]
    BY <1>2 DEF Abandon
  <2>2. \A x \in AgSess : x # s => sess'[x] = sess[x]
    BY <2>1 DEF AgTypes
  <2>3. SessionsGoOn /\ Made' = Made /\ Held' = Held \ {s} /\ Over(s)'
    BY <1>2, <2>1, SessionEnds
  <2>4. \A x \in Held' : x \in AgSess /\ x # s
    BY <2>3 DEF Held
  <2>5. UNCHANGED <<socket, agForum, links, routed>>
    BY DEF Abandon
  <2> QED
    BY <1>1, <2>2, <2>3, <2>4, <2>5
<1>3. CASE ~(socket /\ s \in Held)
  <2>1. sess' = sess /\ told'.what = "left"
    BY <1>3 DEF Abandon, Tell
  <2> QED
    BY <1>1, <2>1, AgtermAssumption DEF Abandon, AgTypes, SessionsGoOn, Made, Held, Over
<1> QED
  BY <1>2, <1>3

LEMMA NothingChanges ==
  ASSUME AgTypes, UNCHANGED sess
  PROVE  SessionsGoOn /\ Made' = Made /\ Held' = Held
BY AgtermAssumption DEF AgTypes, SessionsGoOn, Made, Held, Over

(* Whatever happens, sessions go on: what is made stays made, what is over *)
(* stays over.                                                             *)
LEMMA GoingOn ==
  ASSUME AgTypes, OnlyMade, [AgtermNext]_agVars
  PROVE  SessionsGoOn
<1>1. ASSUME NEW s \in AgSess, NEW w \in AgWins, OpenSession(s, w)
      PROVE  SessionsGoOn
  <2>1. /\ sess[s] = Unused
        /\ sess' = [sess EXCEPT ![s] = [Opened(w) EXCEPT !.up = TRUE, !.agent = TRUE]]
    BY <1>1 DEF OpenSession, Sessions
  <2> QED
    BY <2>1, NewSession
<1>2. ASSUME NEW s \in AgSess, NEW w \in AgWins, NEW t \in AgTopics, SessionNew(s, w, t)
      PROVE  SessionsGoOn
  <2>1. sess[s] = Unused /\ (UNCHANGED sess \/ sess' = [sess EXCEPT ![s] = Opened(w)])
    BY <1>2 DEF SessionNew
  <2> QED
    BY <2>1, NewSession, NothingChanges
<1>3. ASSUME NEW s \in AgSess, CloseSession(s)
      PROVE  SessionsGoOn
  BY <1>3, SessionEnds DEF CloseSession, Sessions
<1>4. ASSUME NEW s \in AgSess, EligibilityChanges(s)
      PROVE  SessionsGoOn
  <2>1. s \in Held /\ sess[s].agent \in BOOLEAN
    BY <1>4 DEF EligibilityChanges, AgTypes, AgStates
  <2>2. sess' = [sess EXCEPT ![s].agent = ~sess[s].agent]
    BY <1>4 DEF EligibilityChanges, Sessions
  <2> QED
    BY <2>1, <2>2, SessionChanges
<1>5. ASSUME NEW s \in AgSess, TerminalUp(s)
      PROVE  SessionsGoOn
  BY <1>5, SessionChanges DEF TerminalUp, Sessions
<1>6. ASSUME NEW s \in AgSess, KillConfirm(s)
      PROVE  SessionsGoOn
  BY <1>6, NothingChanges DEF KillConfirm, agWorld
<1>7. ASSUME NEW t \in AgTopics, DeleteTopic(t)
      PROVE  SessionsGoOn
  BY <1>7, NothingChanges DEF DeleteTopic, agWorld, Moved
<1>8. ASSUME NEW k \in Doers, RebindByName(k)
      PROVE  SessionsGoOn
  BY <1>8, NothingChanges DEF RebindByName, agWorld
<1>9. ASSUME NEW k \in Doers, CreateTopicInChat(k)
      PROVE  SessionsGoOn
  BY <1>9, NothingChanges DEF CreateTopicInChat, agWorld
<1>10. ASSUME NEW k \in Doers, NEW w \in AgWins, ReadTree(k, w)
      PROVE  SessionsGoOn
  BY <1>10, NothingChanges DEF ReadTree, agWorld
<1>11. ASSUME NEW enough \in BOOLEAN, AwaitRealized(enough)
      PROVE  SessionsGoOn
  <2>1. CASE UNCHANGED <<agWorld, agForum, agBot>>
    BY <2>1, NothingChanges DEF agWorld
  <2>2. CASE Abandon(jobOf.sess)
    BY <1>11, <2>2, AbandonEnds DEF AwaitRealized, OnlyMade, LinksMade, TasksMade, Made, jobOf, Doers
  <2> QED
    BY <1>11, <2>1, <2>2 DEF AwaitRealized
<1>12. CASE SocketChanges
  BY <1>12, NothingChanges DEF SocketChanges, agWorld
<1>13. CASE MonitorCycle
  BY <1>13, NothingChanges DEF MonitorCycle, agWorld
<1>14. CASE EmitUnbound
  BY <1>14, NothingChanges DEF EmitUnbound, agWorld
<1>15. CASE SubmitCommand
  <2>0. jobOf.sess \in AgSess
    BY <1>15 DEF SubmitCommand, OnlyMade, LinksMade, TasksMade, Made, jobOf, Doers
  <2>1. CASE Abandon(jobOf.sess)
    BY <2>0, <2>1, AbandonEnds
  <2>2. CASE /\ sess' = (IF sess[jobOf.sess].up
                         THEN [sess EXCEPT ![jobOf.sess].agent = TRUE, ![jobOf.sess].ran = TRUE]
                         ELSE sess)
             /\ jobOf.sess \in Held
    BY <2>2, SessionChanges, NothingChanges
  <2> QED
    BY <1>15, <2>1, <2>2, SubmitMoves
<1>16. CASE BindCreated
  BY <1>16, NothingChanges DEF BindCreated, agWorld
<1>17. CASE KillWindow
  <2>1. \/ UNCHANGED sess
        \/ jobOf.sess \in Held /\ sess' = [sess EXCEPT ![jobOf.sess] = Ended]
    BY <1>17 DEF KillWindow
  <2> QED
    BY <2>1, SessionEnds, NothingChanges
<1>18. CASE SyncFix
  BY <1>18, NothingChanges DEF SyncFix, agWorld
<1>19. CASE Audit
  BY <1>19, NothingChanges DEF Audit, agWorld
<1>20. CASE AdoptOrphan
  BY <1>20, NothingChanges DEF AdoptOrphan, agWorld
<1>21. CASE CloseGhost
  BY <1>21, NothingChanges DEF CloseGhost, agWorld
<1>22. CASE RemoveTopic
  BY <1>22, NothingChanges DEF RemoveTopic, agWorld
<1>23. CASE RecreateDead
  BY <1>23, NothingChanges DEF RecreateDead, agWorld
<1>24. CASE RemakeTopic
  BY <1>24, NothingChanges DEF RemakeTopic, agWorld
<1>25. CASE FixDone
  BY <1>25, NothingChanges DEF FixDone, agWorld
<1>26. CASE UNCHANGED agVars
  BY <1>26, NothingChanges DEF agVars, agWorld
<1> QED
  BY <1>1, <1>2, <1>3, <1>4, <1>5, <1>6, <1>7, <1>8, <1>9, <1>10, <1>11,
     <1>12, <1>13, <1>14, <1>15, <1>16, <1>17, <1>18, <1>19, <1>20, <1>21,
     <1>22, <1>23, <1>24, <1>25, <1>26 DEF AgtermNext, Doers

(* A topic is bound *)
LEMMA Binds ==
  ASSUME AgTypes, NEW t \in AgTopics, NEW s \in AgSess, BindSession(t, s)
  PROVE  /\ links' \in [AgTopics -> AgSess \cup {NoSess}] /\ routed' = routed \cup {s}
         /\ links'[t] = s /\ \A x \in AgTopics \ {t} : links'[x] = links[x]
         /\ routed' \subseteq AgSess
BY DEF AgTypes, BindSession

LEMMA Makes ==
  ASSUME AgTypes, NEW t \in unmade, Make(t)
  PROVE  /\ forum' \subseteq AgTopics /\ unmade' = unmade \ {t} /\ forum' \cap unmade' = {}
         /\ unmade' \subseteq AgTopics /\ t \in AgTopics
BY DEF AgTypes, Make

(* The types are kept *)
LEMMA TypesStay ==
  ASSUME AgTypes, OnlyMade, RebindsAlone, HoldsTopic, [AgtermNext]_agVars
  PROVE  AgTypes'
<1>0. sess' \in [AgSess -> AgStates] /\ "job" \in Doers /\ "mon" \in Doers
  BY GoingOn DEF SessionsGoOn, Doers
<1> USE AgtermAssumption
<1>1. ASSUME NEW s \in AgSess, NEW w \in AgWins, OpenSession(s, w)
      PROVE  AgTypes'
  BY <1>1, <1>0 DEF OpenSession, Sessions, Moves, AgTypes, agWorld, agBot,
     agForum
<1>2. ASSUME NEW s \in AgSess, NEW w \in AgWins, NEW t \in AgTopics, SessionNew(s, w, t)
      PROVE  AgTypes'
  <2>1. told' \in [what : {"nothing", "created", "closed", "left", "refused"},
                 sess : AgSess \cup {NoSess}]
    BY <1>2, SessionNewMoves DEF AgTypes
  <2>2. tasks' \in [Doers -> AgTasks]
    BY <1>2, SessionNewMoves DEF AgTypes, Moves
  <2> QED
    BY <1>2, <1>0, <2>1, <2>2 DEF SessionNew, AgTypes, agForum
<1>3. ASSUME NEW s \in AgSess, CloseSession(s)
      PROVE  AgTypes'
  BY <1>3, <1>0 DEF CloseSession, Sessions, Moves, AgTypes, agWorld, agBot,
     agForum
<1>4. ASSUME NEW s \in AgSess, EligibilityChanges(s)
      PROVE  AgTypes'
  BY <1>4, <1>0 DEF EligibilityChanges, Sessions, Moves, AgTypes, agWorld, agBot,
     agForum
<1>5. ASSUME NEW s \in AgSess, TerminalUp(s)
      PROVE  AgTypes'
  BY <1>5, <1>0 DEF TerminalUp, Sessions, Moves, AgTypes, agWorld, agBot, agForum
<1>6. ASSUME NEW s \in AgSess, KillConfirm(s)
      PROVE  AgTypes'
  BY <1>6, <1>0, KillConfirmMoves DEF KillConfirm, Unrouted, Moves, AgTypes,
     agWorld, agBot, agForum
<1>7. ASSUME NEW t \in AgTopics, DeleteTopic(t)
      PROVE  AgTypes'
  BY <1>7, <1>0 DEF DeleteTopic, Moves, AgTypes, agWorld, agBot, agForum
<1>8. ASSUME NEW k \in Doers, RebindByName(k)
      PROVE  AgTypes'
  <2>1. tasks' \in [Doers -> AgTasks]
    BY <1>8, RebindMoves DEF Moves
  <2>2. tasks[k].topic \in AgTopics /\ tasks[k].sess \in AgSess
    BY <1>8 DEF RebindByName, RebindsAlone, OnlyMade, LinksMade, TasksMade, Made
  <2>3. links' \in [AgTopics -> AgSess \cup {NoSess}] /\ routed' \subseteq AgSess
    BY <1>8, <2>2, RebindMoves, Binds DEF AgTypes
  <2> QED
    BY <1>8, <1>0, <2>1, <2>3 DEF RebindByName, AgTypes, agWorld, agForum
<1>9. ASSUME NEW k \in Doers, CreateTopicInChat(k)
      PROVE  AgTypes'
  <2>1. tasks' \in [Doers -> AgTasks]
    BY <1>9, CreateMoves DEF Moves
  <2>2. tasks[k].sess \in AgSess
    BY <1>9 DEF CreateTopicInChat, OnlyMade, LinksMade, TasksMade, Made
  <2>3. CASE UNCHANGED <<agForum, links, routed>>
    BY <1>9, <1>0, <2>1, <2>3 DEF CreateTopicInChat, AgTypes, agWorld, agForum
  <2>4. CASE \E t \in unmade : Make(t) /\ BindSession(t, tasks[k].sess)
    BY <1>9, <1>0, <2>1, <2>2, <2>4, Binds, Makes DEF CreateTopicInChat, AgTypes, agWorld
  <2> QED
    BY <1>9, <2>3, <2>4 DEF CreateTopicInChat
<1>10. ASSUME NEW k \in Doers, NEW w \in AgWins, ReadTree(k, w)
      PROVE  AgTypes'
  BY <1>10, <1>0, ReadTreeMoves DEF ReadTree, Moves, AgTypes, agWorld, agBot,
     agForum
<1>11. ASSUME NEW enough \in BOOLEAN, AwaitRealized(enough)
      PROVE  AgTypes'
  <2>0. jobOf.sess \in AgSess
    BY <1>11 DEF AwaitRealized, OnlyMade, LinksMade, TasksMade, Made, jobOf, Doers
  <2>1. CASE /\ UNCHANGED <<agWorld, agForum, agBot>>
             /\ Moves("job", "enter", jobOf.sess, jobOf.topic, jobOf.old)
    BY <1>0, <2>1 DEF AgTypes, Moves, agWorld, agForum, agBot
  <2>2. CASE Abandon(jobOf.sess) /\ Moves("job", "idle", NoSess, NoThread, NoSess)
    BY <1>0, <2>0, <2>2, AbandonEnds DEF AgTypes, Moves, agForum
  <2> QED
    BY <1>11, <2>1, <2>2, RealizeMoves
<1>12. CASE SocketChanges
  BY <1>12, <1>0 DEF SocketChanges, Moves, AgTypes, agWorld, agBot, agForum
<1>13. CASE MonitorCycle
  BY <1>13, <1>0, PlainMoves DEF MonitorCycle, Moves, AgTypes, agWorld, agBot,
     agForum
<1>14. CASE EmitUnbound
  BY <1>14, <1>0, EmitMoves DEF EmitUnbound, Moves, AgTypes, agWorld, agBot,
     agForum
<1>15. CASE SubmitCommand
  <2>0. jobOf.sess \in AgSess
    BY <1>15 DEF SubmitCommand, OnlyMade, LinksMade, TasksMade, Made, jobOf, Doers
  <2>1. CASE /\ UNCHANGED <<agForum, agBot>> /\ UNCHANGED socket
             /\ Moves("job", "bind", jobOf.sess, jobOf.topic, jobOf.old)
    BY <1>0, <2>1 DEF AgTypes, Moves, agForum, agBot
  <2>2. CASE Abandon(jobOf.sess) /\ Moves("job", "idle", NoSess, NoThread, NoSess)
    BY <1>0, <2>0, <2>2, AbandonEnds DEF AgTypes, Moves, agForum
  <2>3. UNCHANGED socket
    BY <1>15 DEF SubmitCommand, Abandon
  <2> QED
    BY <1>15, <2>1, <2>2, <2>3, SubmitMoves
<1>16. CASE BindCreated
  <2>1. jobOf.topic \in AgTopics /\ jobOf.sess \in AgSess
    BY <1>16, <1>0 DEF BindCreated, OnlyMade, LinksMade, TasksMade, Made, HoldsTopic, AgTypes, jobOf
  <2>2. /\ links' \in [AgTopics -> AgSess \cup {NoSess}] /\ routed' \subseteq AgSess
    BY <1>16, <2>1, Binds DEF BindCreated
  <2>3. told' \in [what : {"nothing", "created", "closed", "left", "refused"},
                 sess : AgSess \cup {NoSess}]
    BY <1>16, <2>1 DEF BindCreated, Tell
  <2> QED
    BY <1>16, <1>0, <2>2, <2>3, PlainMoves DEF BindCreated, Moves, AgTypes, agWorld, agForum
<1>17. CASE KillWindow
  BY <1>17, <1>0, PlainMoves DEF KillWindow, Unrouted, Moves, AgTypes, agWorld,
     agBot, agForum
<1>18. CASE SyncFix
  BY <1>18, <1>0, PlainMoves DEF SyncFix, Moves, AgTypes, agWorld, agBot, agForum
<1>19. CASE Audit
  BY <1>19, <1>0, AuditMoves DEF Audit, Moves, AgTypes, agWorld, agBot, agForum
<1>20. CASE AdoptOrphan
  BY <1>20, <1>0, AdoptMoves DEF AdoptOrphan, Moves, AgTypes, agWorld, agBot,
     agForum
<1>21. CASE CloseGhost
  BY <1>21, <1>0, CloseGhostMoves DEF CloseGhost, Moves, AgTypes, agWorld, agBot,
     agForum
<1>22. CASE RemoveTopic
  BY <1>22, <1>0, RemoveTopicMoves DEF RemoveTopic, Moves, AgTypes, agWorld,
     agBot, agForum
<1>23. CASE RecreateDead
  BY <1>23, <1>0, RecreateDeadMoves DEF RecreateDead, Moves, AgTypes, agWorld,
     agBot, agForum
<1>24. CASE RemakeTopic
  <2>1. jobOf.topic \in AgTopics /\ jobOf.sess \in AgSess
    BY <1>24, <1>0 DEF RemakeTopic, OnlyMade, LinksMade, TasksMade, Made, HoldsTopic, AgTypes, jobOf
  <2>2. tasks' \in [Doers -> AgTasks]
    BY <1>24, RemakeTopicMoves DEF Moves
  <2>3. CASE UNCHANGED agForum /\ BindSession(jobOf.topic, jobOf.sess)
    BY <1>24, <1>0, <2>1, <2>2, <2>3, Binds DEF RemakeTopic, AgTypes, agWorld, agForum
  <2>4. CASE \E t \in unmade : Make(t) /\ BindSession(t, jobOf.sess)
    BY <1>24, <1>0, <2>1, <2>2, <2>4, Binds, Makes DEF RemakeTopic, AgTypes, agWorld
  <2> QED
    BY <1>24, <2>3, <2>4 DEF RemakeTopic
<1>25. CASE FixDone
  BY <1>25, <1>0, PlainMoves DEF FixDone, Moves, AgTypes, agWorld, agBot, agForum
<1>26. CASE UNCHANGED agVars
  BY <1>0, <1>26 DEF agVars, agWorld, agBot, agForum, AgTypes
<1> QED
  BY <1>1, <1>2, <1>3, <1>4, <1>5, <1>6, <1>7, <1>8, <1>9, <1>10, <1>11,
     <1>12, <1>13, <1>14, <1>15, <1>16, <1>17, <1>18, <1>19, <1>20, <1>21,
     <1>22, <1>23, <1>24, <1>25, <1>26 DEF AgtermNext, Doers

-----------------------------------------------------------------------------
(* What stays true of the links.                                           *)

(* A step leaves each topic its session or takes it away *)
LEMMA LinksDrop ==
  ASSUME AgTypes, LinksMade, SessionsGoOn, AgTypes', routed' = routed, unmade' = unmade,
         \A x \in AgTopics : links'[x] \in {links[x], NoSess}
  PROVE  LinksMade'
<1>1. Made \subseteq Made' /\ unmade \subseteq AgTopics
  BY DEF SessionsGoOn, AgTypes
<1>2. Routed' \subseteq Routed
  BY DEF Routed
<1> QED
  BY <1>1, <1>2 DEF LinksMade

(* or gives one topic that is made a session that is *)
LEMMA LinksGain ==
  ASSUME AgTypes, LinksMade, SessionsGoOn, AgTypes', NEW t \in AgTopics, NEW s \in Made,
         BindSession(t, s), t \notin unmade', unmade' \subseteq unmade
  PROVE  LinksMade'
<1>1. Made \subseteq Made' /\ unmade \subseteq AgTopics /\ s \in AgSess
  BY DEF SessionsGoOn, AgTypes, Made
<1>2. /\ routed' = routed \cup {s} /\ links'[t] = s
      /\ \A x \in AgTopics \ {t} : links'[x] = links[x]
  BY <1>1, Binds
<1>3. Routed' \subseteq Routed \cup {s}
  BY <1>2 DEF Routed
<1> QED
  BY <1>1, <1>2, <1>3 DEF LinksMade

(* The step takes sessions from topics and does no more to them: a session *)
(* that runs on loses its topic only to be given a new one, and who gives  *)
(* it one goes on to do so.                                                *)
Drops ==
  /\ routed' = routed /\ unmade' = unmade
  /\ \A x \in AgTopics :
       \/ links'[x] = links[x]
       \/ /\ links'[x] = NoSess
          /\ links[x] \notin Held' \/ (jobOf'.at = "remake" /\ jobOf'.sess = links[x])
  /\ jobOf.at = "remake" => jobOf'.at = "remake" /\ jobOf'.sess = jobOf.sess

(* Task k binds topic t, which has no running session, to session s, and *)
(* is done with it.                                                      *)
Gains(k, t, s) ==
  /\ BindSession(t, s) /\ links[t] \notin Held' /\ t \notin unmade'
  /\ \/ unmade' = unmade
     \/ unmade' = unmade \ {t}
  /\ tasks'[k].at \in {"listed", "adopt", "repair", "idle"}
  /\ \A j \in Doers \ {k} : tasks'[j] = tasks[j]

(* The steps that bind a topic: a rebind, a topic made, a creation, a remake *)
LEMMA WhatBinds ==
  ASSUME AgTypes, OnlyMade, RebindsAlone, HoldsTopic, [AgtermNext]_agVars
  PROVE  \/ Drops
         \/ \E k \in Doers :
              tasks[k].at = "rebind" /\ Gains(k, tasks[k].topic, tasks[k].sess)
         \/ \E k \in Doers, t \in unmade :
              tasks[k].at \in {"make", "remake"} /\ Gains(k, t, tasks[k].sess)
         \/ jobOf.at \in {"bind", "remake"} /\ Gains("job", jobOf.topic, jobOf.sess)
<1> DEFINE Goal ==
      \/ Drops
      \/ \E k \in Doers :
           tasks[k].at = "rebind" /\ Gains(k, tasks[k].topic, tasks[k].sess)
      \/ \E k \in Doers, t \in unmade :
           tasks[k].at \in {"make", "remake"} /\ Gains(k, t, tasks[k].sess)
      \/ jobOf.at \in {"bind", "remake"} /\ Gains("job", jobOf.topic, jobOf.sess)
<1> SUFFICES Goal
  OBVIOUS
<1>0. /\ "job" \in Doers /\ "mon" \in Doers /\ jobOf = tasks["job"] /\ jobOf' = tasks'["job"]
      /\ links \in [AgTopics -> AgSess \cup {NoSess}]
  BY DEF Doers, AgTypes, jobOf
<1>01. ASSUME UNCHANGED <<links, routed, unmade>>, jobOf.at # "remake" \/ UNCHANGED jobOf
       PROVE  Goal
  BY <1>01 DEF Drops
<1>02. /\ \A x \in AgSess \cup {NoSess} : Over(x) => x \notin Held'
       /\ NoSess \notin Held'
  <2>1. \A x \in AgSess : Over(x) => sess'[x].life = "ended"
    BY GoingOn DEF SessionsGoOn
  <2>2. NoSess \notin Held' /\ \A x \in Held' : x \in AgSess /\ sess'[x].life = "open"
    BY AgtermAssumption DEF Held
  <2> QED
    BY <2>1, <2>2
<1>03. \A t \in unmade : t \in AgTopics /\ links[t] = NoSess
  BY DEF AgTypes, OnlyMade, LinksMade
<1>1. ASSUME NEW s \in AgSess, NEW w \in AgWins, OpenSession(s, w)
      PROVE  Goal
  BY <1>1, <1>0, <1>01 DEF OpenSession, Sessions, agBot, agForum, jobOf
<1>2. ASSUME NEW s \in AgSess, NEW w \in AgWins, NEW t \in AgTopics, SessionNew(s, w, t)
      PROVE  Goal
  BY <1>2, <1>0, <1>01 DEF SessionNew, agBot, agForum, jobOf
<1>3. ASSUME NEW s \in AgSess, CloseSession(s)
      PROVE  Goal
  BY <1>3, <1>0, <1>01 DEF CloseSession, Sessions, agBot, agForum, jobOf
<1>4. ASSUME NEW s \in AgSess, EligibilityChanges(s)
      PROVE  Goal
  BY <1>4, <1>0, <1>01 DEF EligibilityChanges, Sessions, agBot, agForum, jobOf
<1>5. ASSUME NEW s \in AgSess, TerminalUp(s)
      PROVE  Goal
  BY <1>5, <1>0, <1>01 DEF TerminalUp, Sessions, agBot, agForum, jobOf
<1>6. ASSUME NEW s \in AgSess, KillConfirm(s)
      PROVE  Goal
  <2>1. jobOf.at = "idle" /\ UNCHANGED <<sess, routed, unmade>>
    BY <1>6 DEF KillConfirm, Start, agWorld, agForum
  <2>2. CASE Probe(s) = "no" /\ links' = Unrouted(s)
    <3>1. s \notin Held'
      BY <2>1, <2>2 DEF Probe, Held
    <3> QED
      BY <1>0, <2>1, <2>2, <3>1 DEF Unrouted, Drops
  <2> QED
    BY <1>6, <1>01, <2>1, <2>2, KillConfirmMoves
<1>7. ASSUME NEW t \in AgTopics, DeleteTopic(t)
      PROVE  Goal
  BY <1>7, <1>0, <1>01 DEF DeleteTopic, agBot, agForum, jobOf
<1>8. ASSUME NEW k \in Doers, RebindByName(k)
      PROVE  Goal
  <2>1. /\ tasks[k].at = "rebind" /\ tasks[k].topic \in AgTopics \ unmade
        /\ links[tasks[k].topic] \in {tasks[k].old, NoSess}
        /\ tasks[k].old \in AgSess /\ Over(tasks[k].old) /\ UNCHANGED agForum
    BY <1>8 DEF RebindByName, RebindsAlone
  <2>2. links[tasks[k].topic] \notin Held' /\ \A j \in Doers \ {k} : tasks'[j] = tasks[j]
    BY <1>8, <1>02, <2>1, RebindMoves DEF Moves
  <2>3. jobOf.at = "remake" => UNCHANGED jobOf
    BY <1>0, <2>1, <2>2
  <2>4. CASE routed' = routed /\ links' \in {links, [links EXCEPT ![tasks[k].topic] = NoSess]}
    BY <1>0, <2>1, <2>2, <2>3, <2>4 DEF Drops, agForum
  <2>5. CASE /\ Moves(k, IF k = "mon" THEN "listed" ELSE "adopt", NoSess, NoThread, NoSess)
             /\ BindSession(tasks[k].topic, tasks[k].sess)
    BY <2>1, <2>2, <2>5 DEF Gains, agForum, Moves
  <2> QED
    BY <1>8, <2>4, <2>5, RebindMoves
<1>9. ASSUME NEW k \in Doers, CreateTopicInChat(k)
      PROVE  Goal
  <2>1. /\ tasks[k].at = "make" /\ \A j \in Doers \ {k} : tasks'[j] = tasks[j]
        /\ tasks'[k].at \in {"listed", "adopt"}
    BY <1>9, CreateMoves DEF CreateTopicInChat, Moves
  <2>2. CASE UNCHANGED <<agForum, links, routed>>
    BY <1>0, <1>01, <2>1, <2>2 DEF agForum
  <2>3. CASE \E t \in unmade : Make(t) /\ BindSession(t, tasks[k].sess)
    BY <1>02, <1>03, <2>1, <2>3, Makes DEF Gains
  <2> QED
    BY <1>9, <2>2, <2>3 DEF CreateTopicInChat
<1>10. ASSUME NEW k \in Doers, NEW w \in AgWins, ReadTree(k, w)
      PROVE  Goal
  <2>1. jobOf.at = "remake" => k = "mon"
    BY <1>10, <1>0 DEF ReadTree, Doers
  <2>2. k = "mon" => tasks'["job"] = tasks["job"]
    BY <1>10, ReadTreeMoves DEF Moves, Doers
  <2> QED
    BY <1>10, <1>0, <1>01, <2>1, <2>2 DEF ReadTree, agBot, agForum
<1>11. ASSUME NEW enough \in BOOLEAN, AwaitRealized(enough)
      PROVE  Goal
  <2>1. jobOf.at = "realize"
    BY <1>11 DEF AwaitRealized
  <2>2. UNCHANGED <<links, routed, unmade>>
    BY <1>11 DEF AwaitRealized, Abandon, agForum, agBot
  <2> QED
    BY <1>01, <2>1, <2>2
<1>12. CASE SocketChanges
  BY <1>12, <1>0, <1>01 DEF SocketChanges, agBot, agForum, jobOf
<1>13. CASE MonitorCycle
  <2>0. \E at, s, t, o : Moves("mon", at, s, t, o)
    BY <1>13, PlainMoves
  <2>1. tasks'["job"] = tasks["job"]
    BY <2>0 DEF Moves, Doers
  <2> QED
    BY <1>13, <1>0, <1>01, <2>1 DEF MonitorCycle, agBot, agForum
<1>14. CASE EmitUnbound
  <2>0. \E at, s, t, o : Moves("mon", at, s, t, o)
    BY <1>14, EmitMoves
  <2>1. tasks'["job"] = tasks["job"]
    BY <2>0 DEF Moves, Doers
  <2> QED
    BY <1>14, <1>0, <1>01, <2>1 DEF EmitUnbound, agBot, agForum
<1>15. CASE SubmitCommand
  <2>1. jobOf.at = "enter"
    BY <1>15 DEF SubmitCommand
  <2>2. UNCHANGED <<links, routed, unmade>>
    BY <1>15 DEF SubmitCommand, Abandon, agForum, agBot
  <2> QED
    BY <1>01, <2>1, <2>2
<1>16. CASE BindCreated
  <2>1. /\ jobOf.at = "bind" /\ BindSession(jobOf.topic, jobOf.sess) /\ UNCHANGED agForum
        /\ tasks'["job"].at = "idle"
        /\ \A j \in Doers \ {"job"} : tasks'[j] = tasks[j]
    <3>1. Moves("job", "idle", NoSess, NoThread, NoSess)
      BY <1>16, PlainMoves
    <3> QED
      BY <1>16, <3>1 DEF BindCreated, Moves
  <2>2. jobOf.topic \in AgTopics \ unmade /\ links[jobOf.topic] \notin Held'
    BY <1>02, <2>1 DEF HoldsTopic
  <2> QED
    BY <2>1, <2>2 DEF Gains, agForum
<1>17. CASE KillWindow
  <2>1. jobOf.at = "kill" /\ UNCHANGED <<routed, unmade>>
    BY <1>17 DEF KillWindow, agForum
  <2>2. CASE jobOf.sess \in Held /\ links' = Unrouted(jobOf.sess)
             /\ sess' = [sess EXCEPT ![jobOf.sess] = Ended]
    <3>1. jobOf.sess \notin Held'
      BY <2>2, SessionEnds
    <3> QED
      BY <1>0, <2>1, <2>2, <3>1 DEF Unrouted, Drops
  <2> QED
    BY <1>17, <1>01, <2>1, <2>2 DEF KillWindow
<1>18. CASE SyncFix
  BY <1>18, <1>0, <1>01 DEF SyncFix, agBot, agForum, jobOf
<1>19. CASE Audit
  BY <1>19, <1>0, <1>01 DEF Audit, Listed, agBot, agForum, jobOf
<1>20. CASE AdoptOrphan
  BY <1>20, <1>0, <1>01 DEF AdoptOrphan, agBot, agForum, jobOf
<1>21. CASE CloseGhost
  BY <1>21, <1>0, <1>01 DEF CloseGhost, agBot, agForum, jobOf
<1>22. CASE RemoveTopic
  <2>1. /\ jobOf.at = "remove" /\ UNCHANGED <<routed, unmade>>
        /\ links' \in {links, [links EXCEPT ![jobOf.topic] = NoSess]}
    BY <1>22 DEF RemoveTopic
  <2>2. links[jobOf.topic] \notin Held'
    BY <1>0, <1>02, <2>1 DEF HoldsTopic
  <2> QED
    BY <1>0, <2>1, <2>2 DEF Drops
<1>23. CASE RecreateDead
  <2>1. jobOf.at = "repair" /\ UNCHANGED <<routed, unmade>>
    BY <1>23 DEF RecreateDead, agForum
  <2>2. CASE \E t \in AgTopics : /\ links' = [links EXCEPT ![t] = NoSess]
                                /\ Moves("job", "remake", links[t], t, jobOf.old)
    BY <1>0, <2>1, <2>2 DEF Drops, Moves
  <2> QED
    BY <1>23, <1>01, <2>1, <2>2, RecreateDeadMoves
<1>24. CASE RemakeTopic
  <2>1. /\ jobOf.at = "remake" /\ \A j \in Doers \ {"job"} : tasks'[j] = tasks[j]
        /\ tasks'["job"].at = "repair"
        /\ jobOf.topic \in AgTopics \ unmade /\ links[jobOf.topic] \notin Held'
    BY <1>24, <1>02, RemakeTopicMoves DEF RemakeTopic, HoldsTopic, Moves
  <2>2. CASE UNCHANGED agForum /\ BindSession(jobOf.topic, jobOf.sess)
    BY <2>1, <2>2 DEF Gains, agForum
  <2>3. CASE \E t \in unmade : Make(t) /\ BindSession(t, jobOf.sess)
    BY <1>0, <1>02, <1>03, <2>1, <2>3, Makes DEF Gains
  <2> QED
    BY <1>24, <2>2, <2>3 DEF RemakeTopic
<1>25. CASE FixDone
  BY <1>25, <1>0, <1>01 DEF FixDone, agBot, agForum, jobOf
<1>26. CASE UNCHANGED agVars
  BY <1>01, <1>26 DEF agVars, agBot, agForum, jobOf
<1> QED
  BY <1>1, <1>2, <1>3, <1>4, <1>5, <1>6, <1>7, <1>8, <1>9, <1>10, <1>11,
     <1>12, <1>13, <1>14, <1>15, <1>16, <1>17, <1>18, <1>19, <1>20, <1>21,
     <1>22, <1>23, <1>24, <1>25, <1>26 DEF AgtermNext, Doers

LEMMA LinksStayMade ==
  ASSUME AgTypes, OnlyMade, RebindsAlone, HoldsTopic, [AgtermNext]_agVars
  PROVE  LinksMade'
<1>0. AgTypes' /\ SessionsGoOn /\ LinksMade
  BY TypesStay, GoingOn DEF OnlyMade
<1>1. CASE Drops
  BY <1>0, <1>1, LinksDrop DEF Drops
<1>2. ASSUME NEW k \in Doers, tasks[k].at = "rebind", Gains(k, tasks[k].topic, tasks[k].sess)
      PROVE  LinksMade'
  <2>1. tasks[k].topic \in AgTopics /\ tasks[k].sess \in Made
    BY <1>2 DEF RebindsAlone, OnlyMade, TasksMade
  <2> QED
    BY <1>0, <1>2, <2>1, LinksGain DEF Gains
<1>3. ASSUME NEW k \in Doers, NEW t \in unmade, tasks[k].at \in {"make", "remake"},
             Gains(k, t, tasks[k].sess)
      PROVE  LinksMade'
  <2>1. t \in AgTopics /\ tasks[k].sess \in Made
    BY <1>3 DEF AgTypes, OnlyMade, TasksMade
  <2> QED
    BY <1>0, <1>3, <2>1, LinksGain DEF Gains
<1>4. CASE jobOf.at \in {"bind", "remake"} /\ Gains("job", jobOf.topic, jobOf.sess)
  <2>1. jobOf.topic \in AgTopics /\ jobOf.sess \in Made
    BY <1>4 DEF HoldsTopic, OnlyMade, TasksMade, jobOf, Doers
  <2> QED
    BY <1>0, <1>4, <2>1, LinksGain DEF Gains
<1> QED
  BY <1>1, <1>2, <1>3, <1>4, WhatBinds

-----------------------------------------------------------------------------
(* What stays true of the tasks.                                           *)

LEMMA MovesMade ==
  ASSUME AgTypes, OnlyMade, SessionsGoOn, NEW k \in Doers, NEW at, NEW s, NEW t, NEW o,
         Moves(k, at, s, t, o), told'.sess \in Made' \cup {NoSess},
         at \in {"rebind", "make", "remake", "realize", "enter", "bind", "kill"} => s \in Made'
  PROVE  TasksMade'
<1>1. Made \subseteq Made' /\ Held \subseteq Made
  BY DEF SessionsGoOn, Made, Held
<1>2. TasksMade
  BY DEF OnlyMade
<1> QED
  BY <1>1, <1>2 DEF Moves, TasksMade

LEMMA TasksMadeStays ==
  ASSUME AgTypes, OnlyMade, RebindsAlone, HoldsTopic, [AgtermNext]_agVars
  PROVE  TasksMade'
<1>0. /\ SessionsGoOn /\ Made \subseteq Made' /\ Held \subseteq Made
      /\ "job" \in Doers /\ "mon" \in Doers /\ jobOf = tasks["job"]
      /\ told.sess \in Made \cup {NoSess} /\ (UNCHANGED sess => Made' = Made)
  BY GoingOn DEF SessionsGoOn, Doers, Made, Held, OnlyMade, TasksMade, jobOf
<1>01. UNCHANGED tasks /\ (UNCHANGED told \/ told'.sess \in Made' \cup {NoSess}) => TasksMade'
  BY <1>0 DEF OnlyMade, TasksMade
<1>02. ASSUME NEW k \in Doers, NEW at, NEW s, NEW t, NEW o, Moves(k, at, s, t, o),
              UNCHANGED told \/ told'.sess \in Made' \cup {NoSess},
              at \in {"rebind", "make", "remake", "realize", "enter", "bind", "kill"}
                => s \in Made'
       PROVE  TasksMade'
  <2>1. told'.sess \in Made' \cup {NoSess}
    BY <1>0, <1>02
  <2> QED
    BY <1>0, <1>02, <2>1, MovesMade
<1>1. ASSUME NEW s \in AgSess, NEW w \in AgWins, OpenSession(s, w)
      PROVE  TasksMade'
  BY <1>1, <1>01 DEF OpenSession, Sessions, agBot
<1>2. ASSUME NEW s \in AgSess, NEW w \in AgWins, NEW t \in AgTopics, SessionNew(s, w, t)
      PROVE  TasksMade'
  <2>1. sess[s] = Unused
    BY <1>2 DEF SessionNew
  <2>2. CASE Moves("job", "realize", s, t, NoSess) /\ UNCHANGED told
             /\ sess' = [sess EXCEPT ![s] = Opened(w)]
    BY <1>0, <1>02, <2>1, <2>2, NewSession
  <2>3. CASE UNCHANGED <<tasks, sess>> /\ told' = [what |-> "refused", sess |-> NoSess]
    BY <1>01, <2>3
  <2>4. CASE UNCHANGED tasks /\ sess' = [sess EXCEPT ![s] = Opened(w)]
             /\ told' = [what |-> "refused", sess |-> s]
    <3>1. s \in Made'
      BY <2>1, <2>4, NewSession
    <3> QED
      BY <1>01, <2>4, <3>1
  <2> QED
    BY <1>2, <2>2, <2>3, <2>4, SessionNewMoves
<1>3. ASSUME NEW s \in AgSess, CloseSession(s)
      PROVE  TasksMade'
  BY <1>3, <1>01 DEF CloseSession, Sessions, agBot
<1>4. ASSUME NEW s \in AgSess, EligibilityChanges(s)
      PROVE  TasksMade'
  BY <1>4, <1>01 DEF EligibilityChanges, Sessions, agBot
<1>5. ASSUME NEW s \in AgSess, TerminalUp(s)
      PROVE  TasksMade'
  BY <1>5, <1>01 DEF TerminalUp, Sessions, agBot
<1>6. ASSUME NEW s \in AgSess, KillConfirm(s)
      PROVE  TasksMade'
  <2>1. UNCHANGED told /\ (s \in Routed => s \in Made)
    BY <1>6, <1>0 DEF KillConfirm, OnlyMade, LinksMade
  <2> QED
    BY <1>6, <1>0, <1>01, <1>02, <2>1, KillConfirmMoves
<1>7. ASSUME NEW t \in AgTopics, DeleteTopic(t)
      PROVE  TasksMade'
  BY <1>7, <1>01 DEF DeleteTopic, agBot
<1>8. ASSUME NEW k \in Doers, RebindByName(k)
      PROVE  TasksMade'
  <2>1. UNCHANGED told /\ tasks[k].sess \in Made
    BY <1>8 DEF RebindByName, OnlyMade, TasksMade
  <2> QED
    BY <1>8, <1>0, <1>02, <2>1, RebindMoves
<1>9. ASSUME NEW k \in Doers, CreateTopicInChat(k)
      PROVE  TasksMade'
  <2>1. UNCHANGED told
    BY <1>9 DEF CreateTopicInChat
  <2> QED
    BY <1>9, <1>0, <1>02, <2>1, CreateMoves
<1>10. ASSUME NEW k \in Doers, NEW w \in AgWins, ReadTree(k, w)
      PROVE  TasksMade'
  <2>1. UNCHANGED told
    BY <1>10 DEF ReadTree, agBot
  <2> QED
    BY <1>10, <1>0, <1>02, <2>1, ReadTreeMoves
<1>11. ASSUME NEW enough \in BOOLEAN, AwaitRealized(enough)
      PROVE  TasksMade'
  <2>1. jobOf.sess \in Made
    BY <1>11 DEF AwaitRealized, OnlyMade, TasksMade, jobOf, Doers
  <2>2. CASE UNCHANGED agBot /\ Moves("job", "enter", jobOf.sess, jobOf.topic, jobOf.old)
    BY <1>0, <1>02, <2>1, <2>2 DEF agBot
  <2>3. CASE Abandon(jobOf.sess) /\ Moves("job", "idle", NoSess, NoThread, NoSess)
    <3>1. jobOf.sess \in AgSess
      BY <2>1 DEF Made
    <3> QED
      BY <1>0, <1>02, <2>1, <2>3, <3>1, AbandonEnds
  <2> QED
    BY <1>11, <2>2, <2>3, RealizeMoves
<1>12. CASE SocketChanges
  BY <1>12, <1>01 DEF SocketChanges, agBot
<1>13. CASE MonitorCycle
  <2>1. UNCHANGED told
    BY <1>13 DEF MonitorCycle, agBot
  <2> QED
    BY <1>13, <1>0, <1>02, <2>1, PlainMoves
<1>14. CASE EmitUnbound
  <2>1. UNCHANGED told /\ tasks["mon"].seen \subseteq Made
    BY <1>14, <1>0 DEF EmitUnbound, agBot, OnlyMade, TasksMade
  <2> QED
    BY <1>14, <1>0, <1>02, <2>1, EmitMoves
<1>15. CASE SubmitCommand
  <2>1. jobOf.sess \in Made
    BY <1>15 DEF SubmitCommand, OnlyMade, TasksMade, jobOf, Doers
  <2>2. CASE UNCHANGED agBot /\ Moves("job", "bind", jobOf.sess, jobOf.topic, jobOf.old)
    BY <1>0, <1>02, <2>1, <2>2 DEF agBot
  <2>3. CASE Abandon(jobOf.sess) /\ Moves("job", "idle", NoSess, NoThread, NoSess)
    <3>1. jobOf.sess \in AgSess
      BY <2>1 DEF Made
    <3> QED
      BY <1>0, <1>02, <2>1, <2>3, <3>1, AbandonEnds
  <2> QED
    BY <1>15, <2>2, <2>3, SubmitMoves
<1>16. CASE BindCreated
  <2>1. jobOf.sess \in Made /\ told' = [what |-> "created", sess |-> jobOf.sess]
    BY <1>16 DEF BindCreated, OnlyMade, TasksMade, jobOf, Doers, Tell
  <2> QED
    BY <1>16, <1>0, <1>02, <2>1, PlainMoves
<1>17. CASE KillWindow
  <2>1. UNCHANGED told
    BY <1>17 DEF KillWindow, agBot
  <2> QED
    BY <1>17, <1>0, <1>02, <2>1, PlainMoves
<1>18. CASE SyncFix
  <2>1. UNCHANGED told
    BY <1>18 DEF SyncFix, agBot
  <2> QED
    BY <1>18, <1>0, <1>02, <2>1, PlainMoves
<1>19. CASE Audit
  <2>1. UNCHANGED told
    BY <1>19 DEF Audit, agBot
  <2> QED
    BY <1>19, <1>0, <1>02, <2>1, AuditMoves
<1>20. CASE AdoptOrphan
  <2>1. UNCHANGED told /\ tasks["job"].seen \subseteq Made
    BY <1>20, <1>0 DEF AdoptOrphan, agBot, OnlyMade, TasksMade
  <2> QED
    BY <1>20, <1>0, <1>02, <2>1, AdoptMoves
<1>21. CASE CloseGhost
  <2>1. UNCHANGED told
    BY <1>21 DEF CloseGhost, agBot
  <2> QED
    BY <1>21, <1>0, <1>02, <2>1, CloseGhostMoves
<1>22. CASE RemoveTopic
  <2>1. UNCHANGED told
    BY <1>22 DEF RemoveTopic, agBot
  <2> QED
    BY <1>22, <1>0, <1>02, <2>1, RemoveTopicMoves
<1>23. CASE RecreateDead
  <2>1. UNCHANGED told /\ \A t \in AgTopics : links[t] \in Held => links[t] \in Made
    BY <1>23, <1>0 DEF RecreateDead
  <2> QED
    BY <1>23, <1>0, <1>02, <2>1, RecreateDeadMoves
<1>24. CASE RemakeTopic
  <2>1. UNCHANGED told
    BY <1>24 DEF RemakeTopic, agBot
  <2> QED
    BY <1>24, <1>0, <1>02, <2>1, RemakeTopicMoves
<1>25. CASE FixDone
  <2>1. UNCHANGED told
    BY <1>25 DEF FixDone, agBot
  <2> QED
    BY <1>25, <1>0, <1>02, <2>1, PlainMoves
<1>26. CASE UNCHANGED agVars
  BY <1>01, <1>26 DEF agVars, agBot
<1> QED
  BY <1>1, <1>2, <1>3, <1>4, <1>5, <1>6, <1>7, <1>8, <1>9, <1>10, <1>11,
     <1>12, <1>13, <1>14, <1>15, <1>16, <1>17, <1>18, <1>19, <1>20, <1>21,
     <1>22, <1>23, <1>24, <1>25, <1>26 DEF AgtermNext, Doers

(* What a task that goes to a place has made sure of *)
Justified(k, at, s, t, o) ==
  /\ k = "mon" => at \in {"idle", "list", "listed", "rebind", "make"}
  /\ at = "rebind" =>
       /\ t \in AgTopics \ unmade /\ o \in AgSess /\ Over(o) /\ links[t] = o
       /\ UNCHANGED <<links, unmade>> /\ ~Taken(k, t)
  /\ at = "remove" =>
       /\ t \in AgTopics \ unmade /\ Over(links[t])
       /\ UNCHANGED <<links, unmade>> /\ ~Taken(k, t)
  /\ at = "realize" =>
       /\ t \in AgTopics \ unmade /\ links[t] = NoSess
       /\ UNCHANGED <<links, unmade>> /\ ~Taken(k, t)
  /\ at \in {"enter", "bind"} =>
       /\ tasks[k].at \in {"realize", "enter"} /\ t = tasks[k].topic
       /\ UNCHANGED <<links, unmade>>
  /\ at = "enter" /\ s \in Held' => sess'[s].up
  /\ at = "bind" /\ s \in Held' => sess'[s].ran
  /\ at = "remake" =>
       /\ t \in AgTopics \ unmade /\ links[t] \in Held /\ UNCHANGED unmade
       /\ links' = [links EXCEPT ![t] = NoSess]

LEMMA WhoMoves ==
  ASSUME AgTypes, OnlyMade, RebindsAlone, HoldsTopic, [AgtermNext]_agVars
  PROVE  \/ UNCHANGED tasks
         \/ \E k \in Doers : \E at, s, t, o : Moves(k, at, s, t, o) /\ Justified(k, at, s, t, o)
<1> DEFINE Goal ==
      \/ UNCHANGED tasks
      \/ \E k \in Doers : \E at, s, t, o : Moves(k, at, s, t, o) /\ Justified(k, at, s, t, o)
<1> SUFFICES Goal
  OBVIOUS
<1>0. "job" \in Doers /\ "mon" \in Doers /\ jobOf = tasks["job"] /\ NoSess \notin AgSess
  BY AgtermAssumption DEF Doers, jobOf
<1>1. ASSUME NEW s \in AgSess, NEW w \in AgWins, OpenSession(s, w)
      PROVE  Goal
  BY <1>1 DEF OpenSession, Sessions
<1>2. ASSUME NEW s \in AgSess, NEW w \in AgWins, NEW t \in AgTopics, SessionNew(s, w, t)
      PROVE  Goal
  <2>1. /\ t \in forum /\ links[t] = NoSess /\ ~Taken("job", t)
        /\ UNCHANGED <<links, unmade>>
    BY <1>2 DEF SessionNew, agForum
  <2>2. t \in AgTopics \ unmade
    BY <2>1 DEF AgTypes
  <2> QED
    BY <1>2, <1>0, <2>1, <2>2, SessionNewMoves DEF Justified
<1>3. ASSUME NEW s \in AgSess, CloseSession(s)
      PROVE  Goal
  BY <1>3 DEF CloseSession, Sessions
<1>4. ASSUME NEW s \in AgSess, EligibilityChanges(s)
      PROVE  Goal
  BY <1>4 DEF EligibilityChanges, Sessions
<1>5. ASSUME NEW s \in AgSess, TerminalUp(s)
      PROVE  Goal
  BY <1>5 DEF TerminalUp, Sessions
<1>6. ASSUME NEW s \in AgSess, KillConfirm(s)
      PROVE  Goal
  BY <1>6, <1>0, KillConfirmMoves DEF Justified
<1>7. ASSUME NEW t \in AgTopics, DeleteTopic(t)
      PROVE  Goal
  BY <1>7 DEF DeleteTopic
<1>8. ASSUME NEW k \in Doers, RebindByName(k)
      PROVE  Goal
  BY <1>8, <1>0, RebindMoves DEF Justified
<1>9. ASSUME NEW k \in Doers, CreateTopicInChat(k)
      PROVE  Goal
  BY <1>9, <1>0, CreateMoves DEF Justified
<1>10. ASSUME NEW k \in Doers, NEW w \in AgWins, ReadTree(k, w)
      PROVE  Goal
  BY <1>10, <1>0, ReadTreeMoves DEF Justified
<1>11. ASSUME NEW enough \in BOOLEAN, AwaitRealized(enough)
      PROVE  Goal
  <2>1. jobOf.at = "realize"
    BY <1>11 DEF AwaitRealized
  <2>2. CASE /\ Realized(jobOf.sess) /\ UNCHANGED <<agWorld, agForum, agBot>>
             /\ Moves("job", "enter", jobOf.sess, jobOf.topic, jobOf.old)
    BY <1>0, <2>1, <2>2 DEF Justified, Realized, agWorld, agForum, agBot
  <2>3. CASE Moves("job", "idle", NoSess, NoThread, NoSess)
    BY <1>0, <2>3 DEF Justified
  <2> QED
    BY <1>11, <2>2, <2>3, RealizeMoves
<1>12. CASE SocketChanges
  BY <1>12 DEF SocketChanges
<1>13. CASE MonitorCycle
  BY <1>13, <1>0, PlainMoves DEF Justified
<1>14. CASE EmitUnbound
  <2>1. UNCHANGED <<links, unmade>>
    BY <1>14 DEF EmitUnbound, agForum, agBot
  <2> QED
    BY <1>14, <1>0, <2>1, EmitMoves DEF Justified
<1>15. CASE SubmitCommand
  <2>1. jobOf.at = "enter"
    BY <1>15 DEF SubmitCommand
  <2>2. CASE /\ Moves("job", "bind", jobOf.sess, jobOf.topic, jobOf.old)
             /\ sess' = (IF sess[jobOf.sess].up
                         THEN [sess EXCEPT ![jobOf.sess].agent = TRUE, ![jobOf.sess].ran = TRUE]
                         ELSE sess)
             /\ jobOf.sess \in Held /\ UNCHANGED <<agForum, agBot>>
    <3>1. sess[jobOf.sess].up /\ sess[jobOf.sess] \in AgStates /\ jobOf.sess \in AgSess
      BY <2>1, <2>2 DEF HoldsTopic, AgTypes, Held
    <3>2. sess'[jobOf.sess].ran
      BY <2>2, <3>1 DEF AgTypes, AgStates
    <3>3. UNCHANGED <<links, unmade>>
      BY <2>2 DEF agForum, agBot
    <3>4. Justified("job", "bind", jobOf.sess, jobOf.topic, jobOf.old)
      BY <1>0, <2>1, <3>2, <3>3 DEF Justified
    <3> QED
      BY <1>0, <2>2, <3>4
  <2>3. CASE Moves("job", "idle", NoSess, NoThread, NoSess)
    BY <1>0, <2>3 DEF Justified
  <2> QED
    BY <1>15, <2>2, <2>3, SubmitMoves
<1>16. CASE BindCreated
  BY <1>16, <1>0, PlainMoves DEF Justified
<1>17. CASE KillWindow
  BY <1>17, <1>0, PlainMoves DEF Justified
<1>18. CASE SyncFix
  BY <1>18, <1>0, PlainMoves DEF Justified
<1>19. CASE Audit
  BY <1>19, <1>0, AuditMoves DEF Justified
<1>20. CASE AdoptOrphan
  <2>1. UNCHANGED <<links, unmade>>
    BY <1>20 DEF AdoptOrphan, agForum, agBot
  <2> QED
    BY <1>20, <1>0, <2>1, AdoptMoves DEF Justified
<1>21. CASE CloseGhost
  <2>1. UNCHANGED <<links, unmade>>
    BY <1>21 DEF CloseGhost, agForum, agBot
  <2>2. ASSUME NEW t \in AgTopics, links[t] \in AgSess, Probe(links[t]) = "no"
        PROVE  t \in AgTopics \ unmade /\ Over(links[t])
    <3>1. links[t] \in Made /\ t \notin unmade
      BY <1>0, <2>2 DEF OnlyMade, LinksMade, Routed
    <3> QED
      BY <2>2, <3>1 DEF Probe, Held, Over, Made, AgTypes, AgStates
  <2> QED
    BY <1>21, <1>0, <2>1, <2>2, CloseGhostMoves DEF Justified
<1>22. CASE RemoveTopic
  BY <1>22, <1>0, RemoveTopicMoves DEF Justified
<1>23. CASE RecreateDead
  <2>1. UNCHANGED unmade /\ links \in [AgTopics -> AgSess \cup {NoSess}]
    BY <1>23 DEF RecreateDead, agForum, AgTypes
  <2>2. ASSUME NEW t \in AgTopics, links[t] \in Held
        PROVE  t \in AgTopics \ unmade
    BY <1>0, <2>2 DEF OnlyMade, LinksMade, Held
  <2> QED
    BY <1>23, <1>0, <2>1, <2>2, RecreateDeadMoves DEF Justified
<1>24. CASE RemakeTopic
  BY <1>24, <1>0, RemakeTopicMoves DEF Justified
<1>25. CASE FixDone
  BY <1>25, <1>0, PlainMoves DEF Justified
<1>26. CASE UNCHANGED agVars
  BY <1>26 DEF agVars
<1> QED
  BY <1>1, <1>2, <1>3, <1>4, <1>5, <1>6, <1>7, <1>8, <1>9, <1>10, <1>11,
     <1>12, <1>13, <1>14, <1>15, <1>16, <1>17, <1>18, <1>19, <1>20, <1>21,
     <1>22, <1>23, <1>24, <1>25, <1>26 DEF AgtermNext, Doers

(* The topic that a task works on is not made, nor bound by another task *)
LEMMA TopicSafe ==
  ASSUME AgTypes, OnlyMade, RebindsAlone, HoldsTopic, [AgtermNext]_agVars, NEW k \in Doers,
         tasks[k].at \in {"rebind", "remove", "realize", "enter", "bind", "remake"},
         tasks'[k].at \notin {"listed", "adopt", "repair", "idle"}
  PROVE  /\ tasks[k].topic \in AgTopics \ unmade /\ tasks[k].topic \notin unmade'
         /\ links'[tasks[k].topic] \in {links[tasks[k].topic], NoSess}
<1> DEFINE T == tasks[k].topic
<1>0. "job" \in Doers /\ "mon" \in Doers /\ jobOf = tasks["job"] /\ Doers = {"mon", "job"}
  BY DEF Doers, jobOf
<1>1. T \in AgTopics \ unmade
  BY <1>0 DEF RebindsAlone, HoldsTopic
<1>2. CASE Drops
  BY <1>1, <1>2 DEF Drops
<1>3. ASSUME NEW j \in Doers, NEW t \in AgTopics, NEW s \in AgSess, Gains(j, t, s), t # T
      PROVE  T \notin unmade' /\ links'[T] = links[T]
  BY <1>1, <1>3, Binds DEF Gains
<1>4. ASSUME NEW j \in Doers, NEW t, NEW s, Gains(j, t, s)
      PROVE  j # k
  BY <1>4 DEF Gains
<1>5. ASSUME NEW j \in Doers, tasks[j].at = "rebind", Gains(j, tasks[j].topic, tasks[j].sess)
      PROVE  T \notin unmade' /\ links'[T] = links[T]
  <2>1. j # k
    BY <1>4, <1>5
  <2>2. tasks[j].topic \in AgTopics /\ tasks[j].sess \in AgSess /\ tasks[j].topic # T
    BY <1>5, <2>1 DEF RebindsAlone, OnlyMade, TasksMade, Made
  <2> QED
    BY <1>3, <1>5, <2>2
<1>6. ASSUME NEW j \in Doers, NEW t \in unmade, tasks[j].at \in {"make", "remake"},
             Gains(j, t, tasks[j].sess)
      PROVE  T \notin unmade' /\ links'[T] = links[T]
  <2>1. t \in AgTopics /\ tasks[j].sess \in AgSess /\ t # T
    BY <1>1, <1>6 DEF AgTypes, OnlyMade, TasksMade, Made
  <2> QED
    BY <1>3, <1>6, <2>1
<1>7. CASE jobOf.at \in {"bind", "remake"} /\ Gains("job", jobOf.topic, jobOf.sess)
  <2>1. k = "mon" /\ tasks["mon"].at = "rebind"
    BY <1>0, <1>4, <1>7 DEF HoldsTopic
  <2>2. jobOf.topic \in AgTopics /\ jobOf.sess \in AgSess
    BY <1>0, <1>7 DEF HoldsTopic, OnlyMade, TasksMade, Made
  <2>3. jobOf.topic # T
    BY <1>0, <1>7, <2>1 DEF RebindsAlone
  <2>4. T \notin unmade' /\ links'[T] = links[T]
    BY <1>0, <1>3, <1>7, <2>2, <2>3
  <2> QED
    BY <1>1, <2>4
<1> QED
  BY <1>1, <1>2, <1>5, <1>6, <1>7, WhatBinds

LEMMA RebindsStayAlone ==
  ASSUME AgTypes, OnlyMade, RebindsAlone, HoldsTopic, [AgtermNext]_agVars,
         "rebound" \notin AgHazards
  PROVE  RebindsAlone'
<1>0. "job" \in Doers /\ "mon" \in Doers /\ jobOf = tasks["job"] /\ Doers = {"mon", "job"}
  BY DEF Doers, jobOf
<1>1. ASSUME NEW k \in Doers, tasks'[k].at = "rebind"
      PROVE  /\ tasks'[k].topic \in AgTopics \ unmade'
             /\ tasks'[k].old \in AgSess /\ sess'[tasks'[k].old].life = "ended"
             /\ links'[tasks'[k].topic] \in {tasks'[k].old, NoSess}
  <2>1. CASE tasks'[k] = tasks[k]
    <3>1. /\ tasks[k].topic \in AgTopics \ unmade' /\ tasks[k].at = "rebind"
          /\ links'[tasks[k].topic] \in {links[tasks[k].topic], NoSess}
      BY <1>1, <2>1, TopicSafe
    <3>2. /\ tasks[k].old \in AgSess /\ Over(tasks[k].old)
          /\ links[tasks[k].topic] \in {tasks[k].old, NoSess}
      BY <3>1 DEF RebindsAlone
    <3>3. sess'[tasks[k].old].life = "ended"
      BY <3>2, GoingOn DEF SessionsGoOn
    <3> QED
      BY <2>1, <3>1, <3>2, <3>3
  <2>2. ASSUME NEW at, NEW s, NEW t, NEW o, Moves(k, at, s, t, o), Justified(k, at, s, t, o)
        PROVE  /\ tasks'[k].topic \in AgTopics \ unmade'
               /\ tasks'[k].old \in AgSess /\ sess'[tasks'[k].old].life = "ended"
               /\ links'[tasks'[k].topic] \in {tasks'[k].old, NoSess}
    <3>1. at = "rebind" /\ tasks'[k].topic = t /\ tasks'[k].old = o
      BY <1>1, <2>2 DEF Moves
    <3>2. t \in AgTopics \ unmade' /\ o \in AgSess /\ Over(o) /\ links'[t] = o
      BY <2>2, <3>1 DEF Justified
    <3>3. sess'[o].life = "ended"
      BY <3>2, GoingOn DEF SessionsGoOn
    <3> QED
      BY <3>1, <3>2, <3>3
  <2> QED
    BY <2>1, <2>2, WhoMoves DEF Moves
<1> DEFINE Works == {"rebind", "remove", "realize", "enter", "bind", "remake"}
<1>2. ASSUME NEW k \in Doers, NEW o \in Doers, k # o, tasks'[k].at = "rebind",
             tasks'[o].topic = tasks'[k].topic, tasks'[o].at \in Works
      PROVE  FALSE
  <2>1. CASE tasks'[k] = tasks[k] /\ tasks'[o] = tasks[o]
    BY <1>2, <2>1 DEF RebindsAlone
  <2>2. ASSUME NEW at, NEW s, NEW t, NEW old, Moves(k, at, s, t, old),
               Justified(k, at, s, t, old)
        PROVE  FALSE
    <3>1. at = "rebind" /\ tasks'[k].topic = t /\ tasks'[o] = tasks[o]
      BY <1>2, <2>2 DEF Moves
    <3>2. /\ links[t] \in AgSess /\ ~Taken(k, t)
      BY <2>2, <3>1 DEF Justified
    <3>3. tasks[o].topic = t /\ tasks[o].at \in Works \ {"remove", "rebind"}
      BY <1>0, <1>2, <3>1, <3>2 DEF Taken
    <3>4. o = "job"
      BY <1>0, <3>3 DEF HoldsTopic
    <3> QED
      BY <1>0, <3>2, <3>3, <3>4, AgtermAssumption DEF HoldsTopic
  <2>3. ASSUME NEW at, NEW s, NEW t, NEW old, Moves(o, at, s, t, old),
               Justified(o, at, s, t, old)
        PROVE  FALSE
    <3>1. at \in Works /\ tasks'[o].topic = t /\ tasks'[k] = tasks[k]
      BY <1>2, <2>3 DEF Moves
    <3>2. tasks[k].topic = t /\ tasks[k].at = "rebind"
      BY <1>2, <3>1
    <3>3. at \notin {"rebind", "remove", "realize"}
      BY <1>0, <1>2, <2>3, <3>2 DEF Justified, Taken
    <3>4. at \notin {"enter", "bind"}
      BY <1>2, <2>3, <3>2 DEF Justified, RebindsAlone
    <3>5. at # "remake"
      <4>1. links[t] \in {tasks[k].old, NoSess} /\ Over(tasks[k].old)
        BY <3>2 DEF RebindsAlone
      <4>2. links[t] \notin Held
        BY <4>1, AgtermAssumption DEF Over, Held
      <4> QED
        BY <2>3, <4>2 DEF Justified
    <3> QED
      BY <3>1, <3>3, <3>4, <3>5
  <2> QED
    <3>1. CASE UNCHANGED tasks
      BY <2>1, <3>1
    <3>2. ASSUME NEW j \in Doers, NEW at, NEW s, NEW t, NEW old, Moves(j, at, s, t, old),
                 Justified(j, at, s, t, old)
          PROVE  FALSE
      <4>1. j = k \/ j = o
        BY <1>0, <1>2
      <4> QED
        BY <2>2, <2>3, <3>2, <4>1
    <3> QED
      BY <3>1, <3>2, WhoMoves
<1> QED
  BY <1>1, <1>2 DEF RebindsAlone, Over

LEMMA HoldsTopicStays ==
  ASSUME AgTypes, OnlyMade, RebindsAlone, HoldsTopic, [AgtermNext]_agVars
  PROVE  HoldsTopic'
<1>0. /\ "job" \in Doers /\ "mon" \in Doers /\ jobOf = tasks["job"] /\ jobOf' = tasks'["job"]
      /\ NoSess \notin AgSess /\ links \in [AgTopics -> AgSess \cup {NoSess}]
  BY AgtermAssumption DEF Doers, jobOf, AgTypes
<1>1. tasks'["mon"].at \in {"idle", "list", "listed", "rebind", "make"}
  <2>1. CASE tasks'["mon"] = tasks["mon"]
    BY <2>1 DEF HoldsTopic
  <2>2. ASSUME NEW at, NEW s, NEW t, NEW o, Moves("mon", at, s, t, o),
               Justified("mon", at, s, t, o)
        PROVE  tasks'["mon"].at \in {"idle", "list", "listed", "rebind", "make"}
    BY <2>2 DEF Moves, Justified
  <2> QED
    BY <1>0, <2>1, <2>2, WhoMoves DEF Moves
<1> DEFINE j == tasks'["job"]
           Good ==
      /\ j.at = "remove" =>
           /\ j.topic \in AgTopics \ unmade'
           /\ links'[j.topic] = NoSess \/ sess'[links'[j.topic]].life = "ended"
      /\ j.at \in {"realize", "enter", "bind", "remake"} =>
           j.topic \in AgTopics \ unmade' /\ links'[j.topic] = NoSess
      /\ j.at = "enter" /\ j.sess \in Held' => sess'[j.sess].up
      /\ j.at = "bind" /\ j.sess \in Held' => sess'[j.sess].ran
<1>2. ASSUME j = jobOf
      PROVE  Good
  <2>1. ASSUME jobOf.at \in {"remove", "realize", "enter", "bind", "remake"}
        PROVE  /\ jobOf.topic \in AgTopics \ unmade'
               /\ links'[jobOf.topic] \in {links[jobOf.topic], NoSess}
    BY <1>0, <1>2, <2>1, TopicSafe
  <2>2. \A s \in AgSess : Over(s) => sess'[s].life = "ended"
    BY GoingOn DEF SessionsGoOn
  <2>3. jobOf.at = "remove" =>
          links'[jobOf.topic] = NoSess \/ sess'[links'[jobOf.topic]].life = "ended"
    BY <1>0, <2>1, <2>2 DEF HoldsTopic
  <2>4. jobOf.at \in {"realize", "enter", "bind", "remake"} => links'[jobOf.topic] = NoSess
    BY <2>1 DEF HoldsTopic
  <2>5. ASSUME jobOf.at \in {"enter", "bind"}, jobOf.sess \in Held'
        PROVE  /\ jobOf.sess \in Held
               /\ sess[jobOf.sess].up => sess'[jobOf.sess].up
               /\ sess[jobOf.sess].ran => sess'[jobOf.sess].ran
    <3>1. jobOf.sess \in Made /\ jobOf.sess \in AgSess
      BY <1>0, <2>5 DEF OnlyMade, TasksMade, Made
    <3>2. sess[jobOf.sess].life = "open"
      BY <2>2, <2>5, <3>1 DEF Over, Made, Held, AgTypes, AgStates
    <3> QED
      BY <2>5, <3>1, <3>2, GoingOn DEF SessionsGoOn, Held
  <2>6. /\ jobOf.at = "enter" /\ jobOf.sess \in Held' => sess'[jobOf.sess].up
        /\ jobOf.at = "bind" /\ jobOf.sess \in Held' => sess'[jobOf.sess].ran
    BY <2>5 DEF HoldsTopic
  <2>7. jobOf.at \in {"remove", "realize", "enter", "bind", "remake"} =>
          jobOf.topic \in AgTopics \ unmade'
    BY <2>1
  <2> QED
    BY <1>2, <2>3, <2>4, <2>6, <2>7
<1>3. ASSUME NEW at, NEW s, NEW t, NEW o, Moves("job", at, s, t, o),
             Justified("job", at, s, t, o)
      PROVE  Good
  <2>1. j.at = at /\ j.sess = s /\ j.topic = t
    BY <1>0, <1>3 DEF Moves
  <2>2. at = "remove" =>
          t \in AgTopics \ unmade' /\ (links'[t] = NoSess \/ sess'[links'[t]].life = "ended")
    <3> SUFFICES ASSUME at = "remove"
                 PROVE  /\ t \in AgTopics \ unmade'
                        /\ links'[t] = NoSess \/ sess'[links'[t]].life = "ended"
      OBVIOUS
    <3>1. t \in AgTopics \ unmade' /\ Over(links[t]) /\ links' = links
      BY <1>3 DEF Justified
    <3> QED
      BY <1>0, <3>1, GoingOn DEF SessionsGoOn, Over
  <2>3. at \in {"realize", "remake"} => t \in AgTopics \ unmade' /\ links'[t] = NoSess
    BY <1>0, <1>3 DEF Justified
  <2>4. at \in {"enter", "bind"} => t \in AgTopics \ unmade' /\ links'[t] = NoSess
    BY <1>0, <1>3 DEF Justified, HoldsTopic
  <2>5. /\ at = "enter" /\ s \in Held' => sess'[s].up
        /\ at = "bind" /\ s \in Held' => sess'[s].ran
    BY <1>3 DEF Justified
  <2> QED
    BY <2>1, <2>2, <2>3, <2>4, <2>5
<1>4. Good
  <2> HIDE DEF Good
  <2>1. CASE UNCHANGED tasks
    BY <1>0, <1>2, <2>1
  <2>2. ASSUME NEW k \in Doers, NEW at, NEW s, NEW t, NEW o, Moves(k, at, s, t, o),
               Justified(k, at, s, t, o)
        PROVE  Good
    <3>1. CASE k = "job"
      BY <1>3, <2>2, <3>1
    <3>2. CASE k # "job"
      BY <1>0, <1>2, <2>2, <3>2 DEF Moves
    <3> QED
      BY <3>1, <3>2
  <2> QED
    BY <2>1, <2>2, WhoMoves
<1> QED
  BY <1>0, <1>1, <1>4 DEF HoldsTopic, Over

(* A session that runs keeps its topic, or is being given another one *)
LEMMA LiveSessionStays ==
  ASSUME AgTypes, OnlyMade, RebindsAlone, HoldsTopic, LiveSessionKept, [AgtermNext]_agVars
  PROVE  LiveSessionKept'
<1> SUFFICES ASSUME NEW s \in routed' \cap Held'
             PROVE  s \in Routed' \/ (jobOf'.at = "remake" /\ jobOf'.sess = s)
  BY DEF LiveSessionKept
<1>0. /\ jobOf = tasks["job"] /\ jobOf' = tasks'["job"] /\ NoSess \notin AgSess
      /\ s \in AgSess /\ Doers = {"mon", "job"}
      /\ \A x \in AgTopics : links'[x] = s => s \in Routed'
  BY AgtermAssumption DEF Doers, jobOf, Held, Routed
<1>1. s \in routed => s \in Held
  <2>1. s \in routed => s \in Made
    BY DEF OnlyMade, LinksMade
  <2>2. ~Over(s)
    BY <1>0, GoingOn DEF SessionsGoOn, Held
  <2> QED
    BY <1>0, <2>1, <2>2 DEF Over, Made, Held, AgTypes, AgStates
<1>2. s \in routed => s \in Routed \/ (jobOf.at = "remake" /\ jobOf.sess = s)
  BY <1>1 DEF LiveSessionKept
<1>3. s \in Routed => \E x \in AgTopics : links[x] = s
  BY DEF Routed
<1>4. CASE Drops
  BY <1>0, <1>2, <1>3, <1>4 DEF Drops
<1>5. ASSUME NEW k \in Doers, NEW t \in AgTopics, Gains(k, t, tasks[k].sess),
             tasks[k].sess \in AgSess
      PROVE  s \in Routed' \/ (jobOf'.at = "remake" /\ jobOf'.sess = s)
  <2>1. /\ links'[t] = tasks[k].sess /\ routed' = routed \cup {tasks[k].sess}
        /\ \A x \in AgTopics \ {t} : links'[x] = links[x]
    BY <1>5, Binds DEF Gains
  <2>2. CASE s = tasks[k].sess
    BY <1>0, <2>1, <2>2
  <2>3. CASE s \in Routed
    BY <1>0, <1>3, <1>5, <2>1, <2>3 DEF Gains
  <2>4. CASE s # tasks[k].sess /\ jobOf.at = "remake" /\ jobOf.sess = s
    <3>1. k # "job"
      BY <1>0, <2>4
    <3> QED
      BY <1>0, <1>5, <2>4, <3>1 DEF Gains
  <2> QED
    BY <1>2, <2>1, <2>2, <2>3, <2>4
<1>6. \A k \in Doers :
        /\ tasks[k].at \in {"rebind", "make", "remake", "bind"} => tasks[k].sess \in AgSess
        /\ tasks[k].at = "rebind" => tasks[k].topic \in AgTopics
  BY DEF OnlyMade, TasksMade, Made, RebindsAlone
<1>7. \A t \in unmade : t \in AgTopics
  BY DEF AgTypes
<1>8. jobOf.at \in {"bind", "remake"} => jobOf.topic \in AgTopics
  BY DEF HoldsTopic
<1> QED
  BY <1>0, <1>4, <1>5, <1>6, <1>7, <1>8, WhatBinds

(* What a creation is reported to have done *)
Reports ==
  \/ UNCHANGED told
  \/ told' = [what |-> "refused", sess |-> NoSess]
  \/ told'.what \in {"closed", "left"} /\ (told'.what = "closed" => told'.sess \notin Held')
  \/ /\ told' = [what |-> "created", sess |-> jobOf.sess]
     /\ jobOf.at = "bind" /\ UNCHANGED sess

LEMMA WhatIsTold ==
  ASSUME AgTypes, OnlyMade, RebindsAlone, HoldsTopic, [AgtermNext]_agVars,
         "lostReply" \notin AgHazards
  PROVE  Reports
<1>0. \A s \in AgSess : Abandon(s) => Reports
  <2> SUFFICES ASSUME NEW s \in AgSess, Abandon(s)
               PROVE  Reports
    OBVIOUS
  <2>1. told'.what \in {"closed", "left"} /\ told'.sess = s
    BY DEF Abandon, Tell
  <2>2. told'.what = "closed" => s \notin Held'
    BY AbandonEnds, AgtermAssumption DEF Over, Held
  <2> QED
    BY <2>1, <2>2 DEF Reports
<1>01. jobOf = tasks["job"] /\ "job" \in Doers
  BY DEF jobOf, Doers
<1>1. ASSUME NEW s \in AgSess, NEW w \in AgWins, OpenSession(s, w)
      PROVE  Reports
  BY <1>1 DEF Reports, OpenSession, Sessions, agBot
<1>2. ASSUME NEW s \in AgSess, NEW w \in AgWins, NEW t \in AgTopics, SessionNew(s, w, t)
      PROVE  Reports
  BY <1>2, SessionNewMoves DEF Reports
<1>3. ASSUME NEW s \in AgSess, CloseSession(s)
      PROVE  Reports
  BY <1>3 DEF Reports, CloseSession, Sessions, agBot
<1>4. ASSUME NEW s \in AgSess, EligibilityChanges(s)
      PROVE  Reports
  BY <1>4 DEF Reports, EligibilityChanges, Sessions, agBot
<1>5. ASSUME NEW s \in AgSess, TerminalUp(s)
      PROVE  Reports
  BY <1>5 DEF Reports, TerminalUp, Sessions, agBot
<1>6. ASSUME NEW s \in AgSess, KillConfirm(s)
      PROVE  Reports
  BY <1>6 DEF Reports, KillConfirm, agBot
<1>7. ASSUME NEW t \in AgTopics, DeleteTopic(t)
      PROVE  Reports
  BY <1>7 DEF Reports, DeleteTopic, agBot
<1>8. ASSUME NEW k \in Doers, RebindByName(k)
      PROVE  Reports
  BY <1>8 DEF Reports, RebindByName, agBot
<1>9. ASSUME NEW k \in Doers, CreateTopicInChat(k)
      PROVE  Reports
  BY <1>9 DEF Reports, CreateTopicInChat, agBot
<1>10. ASSUME NEW k \in Doers, NEW w \in AgWins, ReadTree(k, w)
      PROVE  Reports
  BY <1>10 DEF Reports, ReadTree, agBot
<1>11. ASSUME NEW enough \in BOOLEAN, AwaitRealized(enough)
      PROVE  Reports
  <2>1. jobOf.sess \in AgSess
    BY <1>11, <1>01 DEF AwaitRealized, OnlyMade, TasksMade, Made
  <2>2. UNCHANGED told \/ Abandon(jobOf.sess)
    BY <1>11 DEF AwaitRealized, agBot
  <2> QED
    BY <1>0, <2>1, <2>2 DEF Reports
<1>12. CASE SocketChanges
  BY <1>12 DEF Reports, SocketChanges, agBot
<1>13. CASE MonitorCycle
  BY <1>13 DEF Reports, MonitorCycle, agBot
<1>14. CASE EmitUnbound
  BY <1>14 DEF Reports, EmitUnbound, agBot
<1>15. CASE SubmitCommand
  <2>1. jobOf.sess \in AgSess
    BY <1>15, <1>01 DEF SubmitCommand, OnlyMade, TasksMade, Made
  <2>2. UNCHANGED told \/ Abandon(jobOf.sess)
    BY <1>15 DEF SubmitCommand, agBot
  <2> QED
    BY <1>0, <2>1, <2>2 DEF Reports
<1>16. CASE BindCreated
  BY <1>16 DEF Reports, BindCreated, Tell, agWorld
<1>17. CASE KillWindow
  BY <1>17 DEF Reports, KillWindow, agBot
<1>18. CASE SyncFix
  BY <1>18 DEF Reports, SyncFix, agBot
<1>19. CASE Audit
  BY <1>19 DEF Reports, Audit, agBot
<1>20. CASE AdoptOrphan
  BY <1>20 DEF Reports, AdoptOrphan, agBot
<1>21. CASE CloseGhost
  BY <1>21 DEF Reports, CloseGhost, agBot
<1>22. CASE RemoveTopic
  BY <1>22 DEF Reports, RemoveTopic, agBot
<1>23. CASE RecreateDead
  BY <1>23 DEF Reports, RecreateDead, agBot
<1>24. CASE RemakeTopic
  BY <1>24 DEF Reports, RemakeTopic, agBot
<1>25. CASE FixDone
  BY <1>25 DEF Reports, FixDone, agBot
<1>26. CASE UNCHANGED agVars
  BY <1>26 DEF Reports, agVars, agBot
<1> QED
  BY <1>1, <1>2, <1>3, <1>4, <1>5, <1>6, <1>7, <1>8, <1>9, <1>10, <1>11,
     <1>12, <1>13, <1>14, <1>15, <1>16, <1>17, <1>18, <1>19, <1>20, <1>21,
     <1>22, <1>23, <1>24, <1>25, <1>26 DEF AgtermNext, Doers

LEMMA CreationToldStays ==
  ASSUME AgTypes, OnlyMade, RebindsAlone, HoldsTopic, CreationTold, [AgtermNext]_agVars,
         "lostReply" \notin AgHazards
  PROVE  CreationTold'
<1>0. NoSess \notin Held' /\ told.sess \in Made \cup {NoSess} /\ NoSess \notin AgSess
  BY AgtermAssumption DEF Held, OnlyMade, TasksMade
<1>1. CASE UNCHANGED told
  <2>1. ASSUME told.sess \in Held'
        PROVE  /\ told.sess \in Held
               /\ sess[told.sess].ran => sess'[told.sess].ran
    <3>1. told.sess \in Made /\ told.sess \in AgSess
      BY <1>0, <2>1 DEF Made
    <3>2. ~Over(told.sess)
      BY <2>1, <3>1, GoingOn DEF SessionsGoOn, Held
    <3>3. told.sess \in Held
      BY <3>1, <3>2 DEF Over, Made, Held, AgTypes, AgStates
    <3> QED
      BY <2>1, <3>1, <3>3, GoingOn DEF SessionsGoOn
  <2> QED
    BY <1>1, <2>1 DEF CreationTold
<1>2. CASE told' = [what |-> "refused", sess |-> NoSess]
  BY <1>0, <1>2 DEF CreationTold
<1>3. CASE told'.what \in {"closed", "left"} /\ (told'.what = "closed" => told'.sess \notin Held')
  BY <1>3 DEF CreationTold
<1>4. CASE /\ told' = [what |-> "created", sess |-> jobOf.sess]
           /\ jobOf.at = "bind" /\ UNCHANGED sess
  BY <1>4 DEF CreationTold, HoldsTopic, Held
<1> QED
  BY <1>1, <1>2, <1>3, <1>4, WhatIsTold DEF Reports

-----------------------------------------------------------------------------
LEMMA StartsInOrder ==
  ASSUME AgtermInit
  PROVE  SessionsInOrder
<1> USE AgtermAssumption DEF AgtermInit
<1>0. Unused \in AgStates /\ Unused.life = "unused"
  BY DEF Unused, AgStates
<1>1. Quiet \in AgTasks /\ Quiet.at = "idle" /\ Quiet.seen = {}
  BY DEF Quiet, AgTasks, AgPlaces
<1>2. AgTypes
  <2>1. sess \in [AgSess -> AgStates] /\ tasks \in [Doers -> AgTasks]
    BY <1>0, <1>1 DEF Doers
  <2>2. told \in [what : {"nothing", "created", "closed", "left", "refused"},
                 sess : AgSess \cup {NoSess}]
    OBVIOUS
  <2> QED
    BY <2>1, <2>2 DEF AgTypes
<1>3. OnlyMade
  BY <1>1 DEF OnlyMade, LinksMade, TasksMade, Routed, Doers
<1>4. RebindsAlone /\ HoldsTopic
  BY <1>1 DEF RebindsAlone, HoldsTopic, Doers, jobOf
<1>5. LiveSessionKept /\ CreationTold
  BY DEF LiveSessionKept, CreationTold
<1> QED
  BY <1>2, <1>3, <1>4, <1>5 DEF SessionsInOrder

(* When discovery does not give a topic away while another task works on   *)
(* it, and no answer to a creation is lost, a session that had a topic and *)
(* still runs has one, and creations report what became of their sessions  *)
(* (agterm.py, sync_command.py, topic_orchestration.py).                   *)
THEOREM LiveSessionsKeepTopics ==
  ASSUME AgHazards = {}
  PROVE  AgtermSpec => []AgtermInv
<1>1. AgtermInit => SessionsInOrder
  BY StartsInOrder
<1>2. SessionsInOrder /\ [AgtermNext]_agVars => SessionsInOrder'
  <2> SUFFICES ASSUME SessionsInOrder, [AgtermNext]_agVars
               PROVE  SessionsInOrder'
    OBVIOUS
  <2>1. AgTypes /\ OnlyMade /\ RebindsAlone /\ HoldsTopic /\ LiveSessionKept /\ CreationTold
    BY DEF SessionsInOrder
  <2>2. AgTypes'
    BY <2>1, TypesStay
  <2>3. OnlyMade'
    BY <2>1, LinksStayMade, TasksMadeStays DEF OnlyMade
  <2>4. RebindsAlone'
    BY <2>1, RebindsStayAlone
  <2>5. HoldsTopic'
    BY <2>1, HoldsTopicStays
  <2>6. LiveSessionKept' /\ CreationTold'
    BY <2>1, LiveSessionStays, CreationToldStays
  <2> QED
    BY <2>2, <2>3, <2>4, <2>5, <2>6 DEF SessionsInOrder
<1>3. SessionsInOrder => AgtermInv
  <2> SUFFICES ASSUME SessionsInOrder
               PROVE  AgtermTypeOK
    BY DEF SessionsInOrder, AgtermInv
  <2>1. \A s \in AgSess : sess[s].life \in {"unused", "open", "ended"} /\ sess[s].up \in BOOLEAN
    BY DEF SessionsInOrder, AgTypes, AgStates
  <2>2. \A k \in {"mon", "job"} : tasks[k].todo \subseteq AgWins /\ tasks[k].seen \subseteq AgSess
    BY DEF SessionsInOrder, AgTypes, AgTasks, Doers
  <2> QED
    BY <2>1, <2>2 DEF SessionsInOrder, AgTypes, AgtermTypeOK
<1> QED
  BY <1>1, <1>2, <1>3, PTL DEF AgtermSpec

-----------------------------------------------------------------------------
(* Tmux: a name tells which window is which.                               *)

LiveWindows == [agent : TwAgents, name : TwNames]
Creations == [topic : {{t} : t \in TwTopics}, agent : TwAgents, name : TwNames]

(* The types, with that of a creation, whose topic has no window yet *)
TwTypes ==
  /\ wins \in [Ids -> LiveWindows \cup {NoWindow}]
  /\ nextId \in 1..(MaxId + 1) /\ server \in BOOLEAN /\ running \in BOOLEAN
  /\ row \in [TwTopics -> 0..MaxId] /\ states \in [Ids -> TwAgents \cup {NoAgent}]
  /\ display \in [Ids -> TwNames \cup {NoName}]
  /\ owner \in [TwTopics -> TwAgents \cup {NoAgent}]
  /\ creating \in Creations \cup {NotCreating}
  /\ creating # NotCreating => running /\ \A t \in creating.topic : row[t] = 0

(* The ids that the bot has a state of; these are the ids it has a name of *)
Recorded == {i \in Ids : states[i] # NoAgent}

(* An id the server has not handed out is nobody's                         *)
IdsInOrder ==
  /\ \A i \in Ids : i >= nextId => i \notin TmuxLive \cup Recorded
  /\ \A i \in Ids : display[i] = NoName <=> i \notin Recorded

(* The state of a bound id is that of the topic's conversation             *)
RowsInOrder ==
  /\ \A t \in TwTopics : row[t] # 0 => states[row[t]] = owner[t] /\ owner[t] # NoAgent
  /\ OneTopicPerTmuxWindow

(* A name, of a window or recorded, belongs to one window: the window that *)
(* has the name recorded for an id runs the conversation of that id, and   *)
(* if the window has a record itself it is that one.                       *)
NamesTell ==
  /\ \A i, j \in TmuxLive : wins[i].name = wins[j].name => i = j
  /\ \A i, j \in Recorded : display[i] = display[j] => i = j
  /\ \A i \in TmuxLive \cap Recorded : states[i] = wins[i].agent
  /\ \A i \in TmuxLive, j \in Recorded :
       display[j] = wins[i].name => states[j] = wins[i].agent /\ (i \in Recorded => i = j)

(* The name that a creation chose is still nobody's                        *)
NameInHand ==
  creating # NotCreating =>
    /\ \A i \in TmuxLive : wins[i].name # creating.name
    /\ \A j \in Recorded : display[j] # creating.name

WindowsInOrder == TwTypes /\ IdsInOrder /\ RowsInOrder /\ NamesTell /\ NameInHand

LEMMA TmuxLiveTypes ==
  ASSUME TwTypes
  PROVE  /\ \A i \in TmuxLive : /\ i \in Ids /\ wins[i] \in LiveWindows
                                /\ wins[i].agent \in TwAgents /\ wins[i].agent # NoAgent
                                /\ wins[i].name \in TwNames /\ wins[i].name # NoName
         /\ \A i \in Ids \ TmuxLive : wins[i] = NoWindow /\ wins[i].name = NoName
         /\ \A i \in Recorded : i \in Ids /\ states[i] \in TwAgents
         /\ 0 \notin Ids /\ \A i \in Ids : i \in Nat /\ i > 0
         /\ creating # NotCreating =>
              creating.agent \in TwAgents /\ creating.name \in TwNames /\ \E t \in TwTopics : creating.topic = {t}
BY TmuxAssumption DEF TwTypes, TmuxLive, Recorded, LiveWindows, NoWindow, Ids, Creations

(* A name that is spare and like no other is on no window and no record    *)
LEMMA SpareName ==
  ASSUME TwHazards = {}, TwTypes, NamesTell, NEW n \in TwNames, Spare(n), n \notin Names
  PROVE  /\ \A i \in TmuxLive : wins[i].name # n
         /\ \A j \in Ids : display[j] # n
<1>1. \A i \in TmuxLive : wins[i].name # n
  BY DEF Names
<1>2. ASSUME NEW j \in Ids, display[j] = n
      PROVE  FALSE
  <2>1. wins[j].name # n
    BY <1>1, TmuxLiveTypes, TmuxAssumption
  <2> QED
    BY <1>2, <2>1, TmuxAssumption DEF Spare, Remembered
<1> QED
  BY <1>1, <1>2

LEMMA WindowsStart == TmuxInit => WindowsInOrder
<1> SUFFICES ASSUME TmuxInit
             PROVE  WindowsInOrder
  OBVIOUS
<1>1. TwTypes
  BY TmuxAssumption DEF TmuxInit, TwTypes, Ids
<1>2. TmuxLive = {} /\ Recorded = {}
  BY DEF TmuxInit, TmuxLive, Recorded
<1> QED
  BY <1>1, <1>2 DEF TmuxInit, WindowsInOrder, IdsInOrder, RowsInOrder, NamesTell, NameInHand,
     OneTopicPerTmuxWindow

(* The names of a server's windows after a restart: some that it had       *)
LEMMA RestartedServer ==
  ASSUME TwHazards = {}, TwTypes, IdsInOrder, NamesTell, NEW kept \in SUBSET TmuxLive, RestartServer(kept)
  PROVE  /\ wins' \in [Ids -> LiveWindows \cup {NoWindow}] /\ nextId' \in nextId..(MaxId + 1)
         /\ \A i \in TmuxLive' : i \in Ids /\ nextId <= i /\ i < nextId' /\ i \notin Recorded
         /\ \A i \in TmuxLive' : \E j \in TmuxLive : wins'[i] = wins[j]
         /\ \A i, j \in TmuxLive' : wins'[i].name = wins'[j].name => i = j
         /\ UNCHANGED <<server, twState, running, owner, creating>>
<1> DEFINE last == nextId + Cardinality(kept) - 1
<1>1. Cardinality(kept) \in Nat
  <2>1. IsFiniteSet(Ids)
    BY FS_Interval, TmuxAssumption DEF Ids
  <2>2. kept \subseteq Ids
    BY TmuxLiveTypes
  <2> QED
    BY <2>1, <2>2, FS_Subset, FS_CardinalityType
<1>2. /\ last <= MaxId /\ nextId' = last + 1
      /\ \E old \in [nextId..last -> kept] :
           /\ \A i, j \in nextId..last : i < j => old[i] < old[j]
           /\ wins' = [i \in Ids |-> IF i \in nextId..last THEN wins[old[i]] ELSE NoWindow]
      /\ UNCHANGED <<server, twState, running, owner, creating>>
  BY DEF RestartServer
<1>3. PICK old \in [nextId..last -> kept] :
           /\ \A i, j \in nextId..last : i < j => old[i] < old[j]
           /\ wins' = [i \in Ids |-> IF i \in nextId..last THEN wins[old[i]] ELSE NoWindow]
  BY <1>2
<1>4. nextId \in Nat /\ nextId > 0 /\ last \in Int /\ nextId..last \subseteq Ids
  BY <1>1, <1>2, TmuxAssumption DEF TwTypes, Ids
<1>5. \A i \in nextId..last : old[i] \in TmuxLive /\ wins'[i] = wins[old[i]]
  BY <1>3, <1>4
<1>6. \A i \in TmuxLive' : i \in nextId..last
  BY <1>3 DEF TmuxLive
<1>7. \A i, j \in nextId..last : old[i] = old[j] => i = j
  <2> SUFFICES ASSUME NEW i \in nextId..last, NEW j \in nextId..last, i # j
               PROVE  old[i] # old[j]
    OBVIOUS
  <2>1. old[i] \in Nat /\ old[j] \in Nat
    BY <1>5, TmuxLiveTypes
  <2>2. i < j \/ j < i
    BY <1>4, TmuxAssumption
  <2> QED
    BY <1>3, <2>1, <2>2
<1>8. wins' \in [Ids -> LiveWindows \cup {NoWindow}]
  BY <1>3, <1>5, TmuxLiveTypes
<1>9. \A i, j \in TmuxLive' : wins'[i].name = wins'[j].name => i = j
  BY <1>5, <1>6, <1>7 DEF NamesTell
<1>10. \A i \in TmuxLive' : i \in Ids /\ nextId <= i /\ i < nextId' /\ i \notin Recorded
  BY <1>1, <1>2, <1>4, <1>6 DEF IdsInOrder
<1>11. nextId' \in nextId..(MaxId + 1)
  BY <1>1, <1>2, <1>4, TmuxAssumption
<1> QED
  BY <1>2, <1>5, <1>6, <1>8, <1>9, <1>10, <1>11

(* The id under which the bot, when it starts, goes on with a recorded id  *)
NewIdOf(i) == IF ResolvedId(i) = 0 THEN i ELSE ResolvedId(i)

LEMMA Resolution ==
  ASSUME WindowsInOrder, NEW i \in Recorded
  PROVE  /\ NewIdOf(i) \in Ids
         /\ NewIdOf(i) = i \/ (i \notin TmuxLive /\ NewIdOf(i) \in TmuxLive \ Recorded)
         /\ NewIdOf(i) \in TmuxLive => wins[NewIdOf(i)].agent = states[i] /\ ResolvedId(i) = NewIdOf(i)
         /\ NewIdOf(i) \in TmuxLive /\ i \notin TmuxLive => wins[NewIdOf(i)].name = display[i]
         /\ NewIdOf(i) \notin TmuxLive => NewIdOf(i) = i /\ ResolvedId(i) = 0
                                          /\ \A j \in TmuxLive : wins[j].name # display[i]
<1>0. TwTypes /\ IdsInOrder /\ NamesTell
  BY DEF WindowsInOrder
<1>1. i \in Ids /\ i # 0
  BY <1>0, TmuxLiveTypes
<1>2. CASE i \in TmuxLive
  BY <1>0, <1>1, <1>2 DEF NewIdOf, ResolvedId, NamesTell
<1>3. CASE i \notin TmuxLive /\ display[i] \in Names
  <2>1. PICK j \in TmuxLive : wins[j].name = display[i]
    BY <1>3 DEF Names
  <2>2. {k \in TmuxLive : wins[k].name = display[i]} = {j}
    BY <1>0, <2>1 DEF NamesTell
  <2>3. j \in Ids /\ j \in Nat /\ j # 0
    BY <1>0, <2>1, TmuxLiveTypes
  <2>4. Max({j}) = j
    BY <2>3 DEF Max
  <2>5. ResolvedId(i) = j
    BY <1>1, <1>3, <2>2, <2>4 DEF ResolvedId, LiveByName
  <2> QED
    BY <1>0, <1>3, <2>1, <2>3, <2>5 DEF NewIdOf, NamesTell
<1>4. CASE i \notin TmuxLive /\ display[i] \notin Names
  <2>1. ResolvedId(i) = 0
    BY <1>1, <1>4 DEF ResolvedId, LiveByName
  <2> QED
    BY <1>1, <1>4, <2>1 DEF NewIdOf, Names
<1> QED
  BY <1>2, <1>3, <1>4

(* Two recorded ids never go on as one                                     *)
LEMMA ResolutionApart ==
  ASSUME WindowsInOrder, NEW i \in Recorded, NEW j \in Recorded, NewIdOf(i) = NewIdOf(j)
  PROVE  i = j
<1>1. CASE NewIdOf(i) = i /\ NewIdOf(j) = j
  BY <1>1
<1>2. CASE NewIdOf(i) # i /\ NewIdOf(j) = j
  BY <1>2, Resolution
<1>3. CASE NewIdOf(i) = i /\ NewIdOf(j) # j
  <2>1. NewIdOf(j) \notin Recorded
    BY <1>3, Resolution
  <2> QED
    BY <1>3, <2>1
<1>4. CASE NewIdOf(i) # i /\ NewIdOf(j) # j
  <2>1. display[i] = display[j]
    BY <1>4, Resolution
  <2> QED
    BY <2>1 DEF WindowsInOrder, NamesTell
<1> QED
  BY <1>1, <1>2, <1>3, <1>4

(* State and name of a recorded id move together; nothing else is recorded *)
LEMMA MovedTogether ==
  ASSUME WindowsInOrder
  PROVE  /\ \A i \in Recorded : MovedStates[NewIdOf(i)] = states[i] /\ MovedNames[NewIdOf(i)] = display[i]
         /\ \A j \in Ids : (\A i \in Recorded : NewIdOf(i) # j) => MovedStates[j] = NoAgent /\ MovedNames[j] = NoName
<1>0. TwTypes /\ IdsInOrder /\ NamesTell
  BY DEF WindowsInOrder
<1> DEFINE From(j) == {i \in Ids : states[i] # NoAgent /\ (ResolvedId(i) = j \/ (i = j /\ ResolvedId(i) = 0))}
           Gone2(j) == {i \in Ids : states[i] # NoAgent /\ i \notin TmuxLive /\ ResolvedId(i) = j}
<1>1. \A j \in Ids : MovedStates[j] = IF From(j) = {} THEN NoAgent ELSE states[Max(From(j))]
  BY DEF MovedStates
<1>2. \A j \in Ids : MovedNames[j] = IF Gone2(j) # {} THEN display[Max(Gone2(j))]
                       ELSE IF states[j] # NoAgent /\ j \notin TmuxLive /\ ResolvedId(j) # 0 THEN NoName
                       ELSE display[j]
  BY DEF MovedNames
<1>3. \A j \in Ids : From(j) = {i \in Recorded : NewIdOf(i) = j}
  BY <1>0, TmuxLiveTypes DEF Recorded, NewIdOf
<1>4. \A j \in Ids : Gone2(j) = {i \in Recorded : NewIdOf(i) = j /\ i # j}
  <2> SUFFICES ASSUME NEW j \in Ids, NEW i \in Recorded
               PROVE  (i \notin TmuxLive /\ ResolvedId(i) = j) <=> (NewIdOf(i) = j /\ i # j)
    BY <1>0, TmuxLiveTypes DEF Recorded
  <2>1. j # 0
    BY <1>0, TmuxLiveTypes
  <2>2. i \notin TmuxLive /\ ResolvedId(i) = j => NewIdOf(i) = j /\ i # j
    BY <2>1, Resolution DEF NewIdOf
  <2>3. NewIdOf(i) = j /\ i # j => i \notin TmuxLive /\ ResolvedId(i) = j
    BY Resolution
  <2> QED
    BY <2>2, <2>3
<1>5. \A i \in Recorded : Max({i}) = i
  BY <1>0, TmuxLiveTypes DEF Max
<1> HIDE DEF From, Gone2
<1>6. ASSUME NEW i \in Recorded
      PROVE  MovedStates[NewIdOf(i)] = states[i] /\ MovedNames[NewIdOf(i)] = display[i]
  <2>1. NewIdOf(i) \in Ids
    BY Resolution
  <2>2. From(NewIdOf(i)) = {i}
    BY <1>3, <2>1, ResolutionApart
  <2>3. MovedStates[NewIdOf(i)] = states[i]
    BY <1>1, <1>5, <2>1, <2>2
  <2>4. CASE NewIdOf(i) = i
    <3>1. Gone2(i) = {}
      BY <1>4, <2>1, <2>4, ResolutionApart
    <3>2. i \in TmuxLive \/ ResolvedId(i) = 0
      BY <2>4, Resolution
    <3> QED
      BY <1>2, <2>1, <2>3, <2>4, <3>1, <3>2
  <2>5. CASE NewIdOf(i) # i
    <3>1. Gone2(NewIdOf(i)) = {i}
      BY <1>4, <2>1, <2>5, ResolutionApart
    <3> QED
      BY <1>2, <1>5, <2>1, <2>3, <3>1
  <2> QED
    BY <2>4, <2>5
<1>7. ASSUME NEW j \in Ids, \A i \in Recorded : NewIdOf(i) # j
      PROVE  MovedStates[j] = NoAgent /\ MovedNames[j] = NoName
  <2>1. From(j) = {} /\ Gone2(j) = {}
    BY <1>3, <1>4, <1>7
  <2>2. CASE j \in Recorded
    <3>1. NewIdOf(j) # j
      BY <1>7, <2>2
    <3>2. states[j] # NoAgent /\ j \notin TmuxLive /\ ResolvedId(j) # 0
      BY <2>2, <3>1, Resolution DEF NewIdOf, Recorded
    <3> QED
      BY <1>1, <1>2, <2>1, <3>2
  <2>3. CASE j \notin Recorded
    BY <1>0, <1>1, <1>2, <2>1, <2>3 DEF IdsInOrder, Recorded
  <2> QED
    BY <2>2, <2>3
<1> QED
  BY <1>6, <1>7

LEMMA OpenedAtTerminal ==
  ASSUME TwHazards = {}, WindowsInOrder, NEW a \in TwAgents, NEW n \in TwNames, OpenAtTerminal(a, n)
  PROVE  WindowsInOrder'
<1>0. TwTypes /\ IdsInOrder /\ RowsInOrder /\ NamesTell /\ NameInHand
  BY DEF WindowsInOrder
<1>1. /\ wins' = [wins EXCEPT ![nextId] = [agent |-> a, name |-> n]] /\ nextId \in Ids /\ nextId' = nextId + 1
      /\ Spare(n) /\ n \notin Names /\ n # creating.name
      /\ UNCHANGED <<server, row, states, display, running, owner, creating>>
  BY DEF OpenAtTerminal, NewWindow, Unlike, twState
<1>2. nextId \notin TmuxLive /\ nextId \notin Recorded
  BY <1>0, <1>1, TmuxAssumption DEF IdsInOrder, TwTypes
<1>3. /\ \A i \in TmuxLive : wins[i].name # n
      /\ \A j \in Ids : display[j] # n
  BY <1>0, <1>1, SpareName
<1>5. \A i \in TmuxLive' : \/ i \in TmuxLive /\ wins'[i] = wins[i]
                           \/ i = nextId /\ wins'[i].name = n
  BY <1>0, <1>1 DEF TmuxLive, TwTypes
<1>4. Recorded' = Recorded
  BY <1>1 DEF Recorded
<1>11. TwTypes'
  BY <1>0, <1>1, <1>2, <1>3, <1>4, <1>5, TmuxLiveTypes, TmuxAssumption DEF
     TwTypes, LiveWindows, Ids
<1>12. IdsInOrder'
  BY <1>0, <1>1, <1>2, <1>3, <1>4, <1>5, TmuxLiveTypes, TmuxAssumption DEF
     IdsInOrder, Recorded, Ids, TwTypes
<1>13. RowsInOrder'
  BY <1>0, <1>1, <1>2, <1>3, <1>4, <1>5, TmuxLiveTypes, TmuxAssumption DEF
     RowsInOrder, OneTopicPerTmuxWindow
<1>14. NamesTell'
  BY <1>0, <1>1, <1>2, <1>3, <1>4, <1>5, TmuxLiveTypes, TmuxAssumption DEF
     NamesTell
<1>15. NameInHand'
  BY <1>0, <1>1, <1>2, <1>3, <1>4, <1>5, TmuxLiveTypes, TmuxAssumption DEF
     NameInHand
<1> QED
  BY <1>11, <1>12, <1>13, <1>14, <1>15 DEF WindowsInOrder

LEMMA CreationStarted ==
  ASSUME TwHazards = {}, WindowsInOrder, NEW t \in TwTopics, NEW a \in TwAgents, NEW n \in TwNames, CreateWindow(t, a, n)
  PROVE  WindowsInOrder'
<1>0. TwTypes /\ IdsInOrder /\ RowsInOrder /\ NamesTell /\ NameInHand
  BY DEF WindowsInOrder
<1>1. PICK m \in FreeName(n) : Spare(m) /\ creating' = [topic |-> {t}, agent |-> a, name |-> m]
  BY DEF CreateWindow
<1>2. running /\ row[t] = 0 /\ UNCHANGED <<wins, nextId, server, row, states, display, running, owner>>
  BY DEF CreateWindow, twTmux, twState
<1>3. m \in TwNames /\ m \notin Names
  BY DEF FreeName
<1>4. Recorded' = Recorded /\ TmuxLive' = TmuxLive
  BY <1>2 DEF Recorded, TmuxLive
<1>5. creating' \in Creations
  <2>1. [topic |-> {t}, agent |-> a, name |-> m] \in Creations
    BY <1>3 DEF Creations
  <2> QED
    BY <1>1, <2>1
<1>6. /\ \A i \in TmuxLive : wins[i].name # m
      /\ \A j \in Ids : display[j] # m
  BY <1>0, <1>1, <1>3, SpareName
<1>11. TwTypes'
  BY <1>0, <1>1, <1>2, <1>4, <1>5, <1>6, TmuxLiveTypes, TmuxAssumption DEF
     TwTypes
<1>12. IdsInOrder'
  BY <1>0, <1>1, <1>2, <1>4, <1>5, <1>6, TmuxLiveTypes, TmuxAssumption DEF
     IdsInOrder, Recorded
<1>13. RowsInOrder'
  BY <1>0, <1>1, <1>2, <1>4, <1>5, <1>6, TmuxLiveTypes, TmuxAssumption DEF
     RowsInOrder, OneTopicPerTmuxWindow
<1>14. NamesTell'
  BY <1>0, <1>1, <1>2, <1>4, <1>5, <1>6, TmuxLiveTypes, TmuxAssumption DEF
     NamesTell
<1>15. NameInHand'
  BY <1>0, <1>1, <1>2, <1>4, <1>5, <1>6, TmuxLiveTypes, TmuxAssumption DEF
     NameInHand
<1> QED
  BY <1>11, <1>12, <1>13, <1>14, <1>15 DEF WindowsInOrder

LEMMA WindowClosed ==
  ASSUME TwHazards = {}, WindowsInOrder, NEW i \in Ids, CloseWindow(i)
  PROVE  WindowsInOrder'
<1>0. TwTypes /\ IdsInOrder /\ RowsInOrder /\ NamesTell /\ NameInHand
  BY DEF WindowsInOrder
<1>1. wins' = [wins EXCEPT ![i] = NoWindow]
      /\ UNCHANGED <<nextId, server, row, states, display, running, owner, creating>>
  BY DEF CloseWindow, twState
<1>2. Recorded' = Recorded /\ \A j \in TmuxLive' : j \in TmuxLive /\ wins'[j] = wins[j]
  BY <1>0, <1>1 DEF Recorded, TmuxLive, TwTypes
<1>11. TwTypes'
  BY <1>0, <1>1, <1>2, TmuxLiveTypes, TmuxAssumption DEF TwTypes
<1>12. IdsInOrder'
  BY <1>0, <1>1, <1>2, TmuxLiveTypes, TmuxAssumption DEF IdsInOrder, Recorded
<1>13. RowsInOrder'
  BY <1>0, <1>1, <1>2, TmuxLiveTypes, TmuxAssumption DEF RowsInOrder,
     OneTopicPerTmuxWindow
<1>14. NamesTell'
  BY <1>0, <1>1, <1>2, TmuxLiveTypes, TmuxAssumption DEF NamesTell
<1>15. NameInHand'
  BY <1>0, <1>1, <1>2, TmuxLiveTypes, TmuxAssumption DEF NameInHand
<1> QED
  BY <1>11, <1>12, <1>13, <1>14, <1>15 DEF WindowsInOrder

LEMMA WindowRenamed ==
  ASSUME TwHazards = {}, WindowsInOrder, NEW i \in Ids, NEW n \in TwNames, RenameAtTerminal(i, n)
  PROVE  WindowsInOrder'
<1>0. TwTypes /\ IdsInOrder /\ RowsInOrder /\ NamesTell /\ NameInHand
  BY DEF WindowsInOrder
<1>1. /\ i \in TmuxLive /\ wins' = [wins EXCEPT ![i].name = n]
      /\ Spare(n) /\ n \notin Names /\ n # creating.name
      /\ UNCHANGED <<nextId, server, row, states, display, running, owner, creating>>
  BY DEF RenameAtTerminal, Unlike, twState
<1>2. wins'[i] = [agent |-> wins[i].agent, name |-> n] /\ \A j \in Ids \ {i} : wins'[j] = wins[j]
  BY <1>0, <1>1, TmuxLiveTypes DEF TwTypes, LiveWindows
<1>3. TmuxLive' = TmuxLive /\ Recorded' = Recorded
  BY <1>0, <1>1, <1>2, TmuxAssumption DEF TmuxLive, Recorded, NoWindow
<1>4. /\ \A j \in TmuxLive : wins[j].name # n
      /\ \A j \in Ids : display[j] # n
  BY <1>0, <1>1, SpareName
<1>5. wins'[i] \in LiveWindows
  BY <1>0, <1>1, <1>2, TmuxLiveTypes DEF LiveWindows
<1>6. wins' \in [Ids -> LiveWindows \cup {NoWindow}]
  BY <1>0, <1>1, <1>5 DEF TwTypes
<1>7. wins'[i].agent = wins[i].agent /\ wins'[i].name = n
  BY <1>2
<1>8. \A j \in TmuxLive : wins'[j].agent = wins[j].agent /\ wins'[j].name = IF j = i THEN n ELSE wins[j].name
  BY <1>2, <1>7, TmuxLiveTypes, <1>0
<1>11. TwTypes'
  BY <1>0, <1>1, <1>2, <1>3, <1>4, <1>6, <1>8, TmuxLiveTypes DEF TwTypes
<1>12. IdsInOrder'
  BY <1>0, <1>1, <1>2, <1>3, <1>4, <1>6, <1>8, TmuxLiveTypes DEF IdsInOrder,
     Recorded
<1>13. RowsInOrder'
  BY <1>0, <1>1, <1>2, <1>3, <1>4, <1>6, <1>8, TmuxLiveTypes DEF RowsInOrder,
     OneTopicPerTmuxWindow
<1>14. NamesTell'
  <2>1. \A j, k \in TmuxLive' : wins'[j].name = wins'[k].name => j = k
    BY <1>0, <1>3, <1>4, <1>8 DEF NamesTell
  <2>2. \A j, k \in Recorded' : display'[j] = display'[k] => j = k
    BY <1>0, <1>1, <1>3 DEF NamesTell
  <2>3. \A j \in TmuxLive' \cap Recorded' : states'[j] = wins'[j].agent
    BY <1>0, <1>1, <1>3, <1>8 DEF NamesTell
  <2>4. \A j \in TmuxLive', k \in Recorded' :
          display'[k] = wins'[j].name => states'[k] = wins'[j].agent /\ (j \in Recorded' => j = k)
    BY <1>0, <1>1, <1>3, <1>4, <1>8, TmuxLiveTypes DEF NamesTell
  <2> QED
    BY <2>1, <2>2, <2>3, <2>4 DEF NamesTell
<1>15. NameInHand'
  BY <1>0, <1>1, <1>2, <1>3, <1>4, <1>6, <1>8, TmuxLiveTypes DEF NameInHand
<1> QED
  BY <1>11, <1>12, <1>13, <1>14, <1>15 DEF WindowsInOrder

LEMMA ServerRestarted ==
  ASSUME TwHazards = {}, WindowsInOrder, NEW kept \in SUBSET TmuxLive, RestartServer(kept)
  PROVE  WindowsInOrder'
<1>0. TwTypes /\ IdsInOrder /\ RowsInOrder /\ NamesTell /\ NameInHand
  BY DEF WindowsInOrder
<1>1. /\ wins' \in [Ids -> LiveWindows \cup {NoWindow}] /\ nextId' \in nextId..(MaxId + 1)
      /\ \A i \in TmuxLive' : i \in Ids /\ nextId <= i /\ i < nextId' /\ i \notin Recorded
      /\ \A i \in TmuxLive' : \E j \in TmuxLive : wins'[i] = wins[j]
      /\ \A i, j \in TmuxLive' : wins'[i].name = wins'[j].name => i = j
      /\ UNCHANGED <<server, row, states, display, running, owner, creating>>
  BY <1>0, RestartedServer DEF twState
<1>2. Recorded' = Recorded
  BY <1>1 DEF Recorded
<1>11. TwTypes'
  BY <1>0, <1>1, <1>2, TmuxLiveTypes, TmuxAssumption DEF TwTypes
<1>12. IdsInOrder'
  <2>1. nextId \in Nat /\ nextId' \in Nat /\ nextId <= nextId'
    BY <1>0, <1>1, TmuxAssumption DEF TwTypes
  <2>2. \A i \in Ids : i \in Nat
    BY DEF Ids
  <2>3. \A i \in Ids : i >= nextId' => i \notin TmuxLive'
    BY <1>1, <2>1, <2>2
  <2>4. \A i \in Ids : i >= nextId' => i \notin Recorded'
    BY <1>0, <1>2, <2>1, <2>2 DEF IdsInOrder
  <2> QED
    BY <1>0, <1>1, <1>2, <2>3, <2>4 DEF IdsInOrder
<1>13. RowsInOrder'
  BY <1>0, <1>1, <1>2, TmuxLiveTypes, TmuxAssumption DEF RowsInOrder,
     OneTopicPerTmuxWindow
<1>14. NamesTell'
  BY <1>0, <1>1, <1>2, TmuxLiveTypes, TmuxAssumption DEF NamesTell
<1>15. NameInHand'
  BY <1>0, <1>1, <1>2, TmuxLiveTypes, TmuxAssumption DEF NameInHand
<1> QED
  BY <1>11, <1>12, <1>13, <1>14, <1>15 DEF WindowsInOrder

LEMMA TopicClosed ==
  ASSUME TwHazards = {}, WindowsInOrder, NEW t \in TwTopics, CloseTopic(t)
  PROVE  WindowsInOrder'
<1>0. TwTypes /\ IdsInOrder /\ RowsInOrder /\ NamesTell /\ NameInHand
  BY DEF WindowsInOrder
<1>1. row[t] # 0 /\ row' = [row EXCEPT ![t] = 0] /\ owner' = [owner EXCEPT ![t] = NoAgent]
      /\ UNCHANGED <<wins, nextId, server, states, display, running, creating>>
  BY DEF CloseTopic, twTmux
<1>2. TmuxLive' = TmuxLive /\ Recorded' = Recorded
  BY <1>1 DEF TmuxLive, Recorded
<1>11. TwTypes'
  BY <1>0, <1>1, <1>2, TmuxAssumption DEF TwTypes
<1>12. IdsInOrder'
  BY <1>0, <1>1, <1>2, TmuxAssumption DEF IdsInOrder, Recorded
<1>13. RowsInOrder'
  BY <1>0, <1>1, <1>2, TmuxAssumption DEF RowsInOrder, OneTopicPerTmuxWindow,
     TwTypes
<1>14. NamesTell'
  BY <1>0, <1>1, <1>2, TmuxAssumption DEF NamesTell
<1>15. NameInHand'
  BY <1>0, <1>1, <1>2, TmuxAssumption DEF NameInHand
<1> QED
  BY <1>11, <1>12, <1>13, <1>14, <1>15 DEF WindowsInOrder

LEMMA ServerFlipped ==
  ASSUME TwHazards = {}, WindowsInOrder, ServerAnswers
  PROVE  WindowsInOrder'
<1>0. TwTypes /\ IdsInOrder /\ RowsInOrder /\ NamesTell /\ NameInHand
  BY DEF WindowsInOrder
<1>1. server' \in BOOLEAN /\ UNCHANGED <<wins, nextId, row, states, display, running, owner, creating>>
  BY DEF ServerAnswers, twState
<1>2. TmuxLive' = TmuxLive /\ Recorded' = Recorded
  BY <1>1 DEF TmuxLive, Recorded
<1>11. TwTypes'
  BY <1>0, <1>1, <1>2 DEF TwTypes
<1>12. IdsInOrder'
  BY <1>0, <1>1, <1>2 DEF IdsInOrder, Recorded
<1>13. RowsInOrder'
  BY <1>0, <1>1, <1>2 DEF RowsInOrder, OneTopicPerTmuxWindow
<1>14. NamesTell'
  BY <1>0, <1>1, <1>2 DEF NamesTell
<1>15. NameInHand'
  BY <1>0, <1>1, <1>2 DEF NameInHand
<1> QED
  BY <1>11, <1>12, <1>13, <1>14, <1>15 DEF WindowsInOrder

LEMMA BotStopped ==
  ASSUME TwHazards = {}, WindowsInOrder, StopBot
  PROVE  WindowsInOrder'
<1>0. TwTypes /\ IdsInOrder /\ RowsInOrder /\ NamesTell /\ NameInHand
  BY DEF WindowsInOrder
<1>1. running' = FALSE /\ creating' = NotCreating /\ UNCHANGED <<wins, nextId, server, row, states, display, owner>>
  BY DEF StopBot, twTmux, twState
<1>2. TmuxLive' = TmuxLive /\ Recorded' = Recorded
  BY <1>1 DEF TmuxLive, Recorded
<1>11. TwTypes'
  BY <1>0, <1>1, <1>2 DEF TwTypes
<1>12. IdsInOrder'
  BY <1>0, <1>1, <1>2 DEF IdsInOrder, Recorded
<1>13. RowsInOrder'
  BY <1>0, <1>1, <1>2 DEF RowsInOrder, OneTopicPerTmuxWindow
<1>14. NamesTell'
  BY <1>0, <1>1, <1>2 DEF NamesTell
<1>15. NameInHand'
  BY <1>0, <1>1, <1>2 DEF NameInHand
<1> QED
  BY <1>11, <1>12, <1>13, <1>14, <1>15 DEF WindowsInOrder

(* The topic whose window was opened *)
LEMMA BoundWindow ==
  ASSUME WindowsInOrder, BindNewWindow, server
  PROVE  \E t \in TwTopics :
           /\ row[t] = 0 /\ creating # NotCreating /\ nextId \in Ids /\ nextId' = nextId + 1
           /\ wins' = [wins EXCEPT ![nextId] = [agent |-> creating.agent, name |-> creating.name]]
           /\ row' = [row EXCEPT ![t] = nextId] /\ owner' = [owner EXCEPT ![t] = creating.agent]
           /\ states' = [states EXCEPT ![nextId] = creating.agent]
           /\ display' = [display EXCEPT ![nextId] = creating.name]
           /\ creating' = NotCreating /\ UNCHANGED <<server, running>>
<1>0. TwTypes
  BY DEF WindowsInOrder
<1>1. creating # NotCreating
  BY DEF BindNewWindow
<1>2. PICK t \in TwTopics : creating.topic = {t}
  BY <1>0, <1>1, TmuxLiveTypes
<1>3. (CHOOSE x \in creating.topic : TRUE) = t
  BY <1>2
<1>4. row[t] = 0
  BY <1>0, <1>1, <1>2 DEF TwTypes
<1> QED
  BY <1>1, <1>3, <1>4 DEF BindNewWindow, NewWindow

LEMMA WindowBound ==
  ASSUME WindowsInOrder, server, BindNewWindow
  PROVE  WindowsInOrder'
<1>0. TwTypes /\ IdsInOrder /\ RowsInOrder /\ NamesTell /\ NameInHand
  BY DEF WindowsInOrder
<1>1. PICK t \in TwTopics :
           /\ row[t] = 0 /\ creating # NotCreating /\ nextId \in Ids /\ nextId' = nextId + 1
           /\ wins' = [wins EXCEPT ![nextId] = [agent |-> creating.agent, name |-> creating.name]]
           /\ row' = [row EXCEPT ![t] = nextId] /\ owner' = [owner EXCEPT ![t] = creating.agent]
           /\ states' = [states EXCEPT ![nextId] = creating.agent]
           /\ display' = [display EXCEPT ![nextId] = creating.name]
           /\ creating' = NotCreating /\ UNCHANGED <<server, running>>
  BY BoundWindow
<1>2. /\ creating.agent \in TwAgents /\ creating.agent # NoAgent
      /\ creating.name \in TwNames /\ creating.name # NoName
  BY <1>0, <1>1, TmuxLiveTypes, TmuxAssumption
<1>3. nextId \notin TmuxLive /\ nextId \notin Recorded /\ nextId \in Nat /\ nextId # 0
  BY <1>0, <1>1, TmuxLiveTypes DEF IdsInOrder
<1>4. /\ wins'[nextId] \in LiveWindows /\ wins'[nextId].agent = creating.agent
      /\ wins'[nextId].name = creating.name
      /\ \A i \in Ids \ {nextId} : wins'[i] = wins[i] /\ states'[i] = states[i] /\ display'[i] = display[i]
      /\ states'[nextId] = creating.agent /\ display'[nextId] = creating.name
  BY <1>0, <1>1, <1>2 DEF TwTypes, LiveWindows
<1>5. TmuxLive' = TmuxLive \cup {nextId} /\ Recorded' = Recorded \cup {nextId}
  BY <1>0, <1>1, <1>2, <1>4 DEF TmuxLive, Recorded, NoWindow, LiveWindows
<1>6. \A j \in Ids : display[j] # creating.name
  BY <1>0, <1>1, <1>2 DEF NameInHand, IdsInOrder
<1>7. \A i \in TmuxLive : wins[i].name # creating.name
  BY <1>0, <1>1 DEF NameInHand
<1>8. \A u \in TwTopics : /\ u # t => row'[u] = row[u] /\ owner'[u] = owner[u]
                          /\ u = t => row'[u] = nextId /\ owner'[u] = creating.agent
  BY <1>0, <1>1 DEF TwTypes
<1>9. \A u \in TwTopics : row[u] # 0 => row[u] \in Recorded
  BY <1>0 DEF RowsInOrder, TwTypes, Recorded, Ids
<1>11. TwTypes'
  BY <1>0, <1>1, <1>2, <1>3, <1>4, TmuxAssumption DEF TwTypes, Ids
<1>12. IdsInOrder'
  <2>1. \A i \in Ids : i >= nextId' => i >= nextId /\ i # nextId
    BY <1>1, <1>3 DEF Ids
  <2> QED
    BY <1>0, <1>1, <1>2, <1>3, <1>4, <1>5, <2>1 DEF IdsInOrder
<1>13. RowsInOrder'
  <2>1. \A u \in TwTopics : row'[u] # 0 => states'[row'[u]] = owner'[u] /\ owner'[u] # NoAgent
    BY <1>0, <1>2, <1>3, <1>4, <1>8, <1>9, TmuxLiveTypes DEF RowsInOrder
  <2>2. OneTopicPerTmuxWindow'
    BY <1>0, <1>3, <1>8, <1>9 DEF RowsInOrder, OneTopicPerTmuxWindow
  <2> QED
    BY <2>1, <2>2 DEF RowsInOrder
<1>14. NamesTell'
  <2>1. \A i, j \in TmuxLive' : wins'[i].name = wins'[j].name => i = j
    BY <1>0, <1>3, <1>4, <1>5, <1>7, TmuxLiveTypes DEF NamesTell
  <2>2. \A i, j \in Recorded' : display'[i] = display'[j] => i = j
    BY <1>0, <1>3, <1>4, <1>5, <1>6, TmuxLiveTypes DEF NamesTell
  <2>3. \A i \in TmuxLive' \cap Recorded' : states'[i] = wins'[i].agent
    BY <1>0, <1>3, <1>4, <1>5, TmuxLiveTypes DEF NamesTell
  <2>4. \A i \in TmuxLive', j \in Recorded' :
          display'[j] = wins'[i].name => states'[j] = wins'[i].agent /\ (i \in Recorded' => i = j)
    BY <1>0, <1>3, <1>4, <1>5, <1>6, <1>7, TmuxLiveTypes DEF NamesTell
  <2> QED
    BY <2>1, <2>2, <2>3, <2>4 DEF NamesTell
<1>15. NameInHand'
  BY <1>0, <1>1, <1>2, <1>3, <1>4, TmuxAssumption DEF NameInHand
<1> QED
  BY <1>11, <1>12, <1>13, <1>14, <1>15 DEF WindowsInOrder

LEMMA CreationFailed ==
  ASSUME WindowsInOrder, ~server, BindNewWindow
  PROVE  WindowsInOrder'
<1>0. TwTypes /\ IdsInOrder /\ RowsInOrder /\ NamesTell /\ NameInHand
  BY DEF WindowsInOrder
<1>1. creating' = NotCreating /\ UNCHANGED <<wins, nextId, server, row, states, display, owner, running>>
  BY DEF BindNewWindow
<1>2. TmuxLive' = TmuxLive /\ Recorded' = Recorded
  BY <1>1 DEF TmuxLive, Recorded
<1>11. TwTypes'
  BY <1>0, <1>1, <1>2 DEF TwTypes
<1>12. IdsInOrder'
  BY <1>0, <1>1, <1>2 DEF IdsInOrder, Recorded
<1>13. RowsInOrder'
  BY <1>0, <1>1, <1>2 DEF RowsInOrder, OneTopicPerTmuxWindow
<1>14. NamesTell'
  BY <1>0, <1>1, <1>2 DEF NamesTell
<1>15. NameInHand'
  BY <1>0, <1>1, <1>2 DEF NameInHand
<1> QED
  BY <1>11, <1>12, <1>13, <1>14, <1>15 DEF WindowsInOrder

LEMMA BotPolled ==
  ASSUME WindowsInOrder, PollCycle
  PROVE  WindowsInOrder'
<1>0. TwTypes /\ IdsInOrder /\ RowsInOrder /\ NamesTell /\ NameInHand
  BY DEF WindowsInOrder
<1> DEFINE used == {row[t] : t \in TwTopics}
<1>1. /\ states' = [i \in Ids |-> IF i \in used \cup TmuxLive THEN states[i] ELSE NoAgent]
      /\ display' = [i \in Ids |->
           IF (i \in TmuxLive \cup used) \/ (IF i \in used \cup TmuxLive THEN states[i] ELSE NoAgent) # NoAgent
           THEN SyncedNames(display)[i] ELSE NoName]
      /\ creating = NotCreating /\ UNCHANGED <<wins, nextId, server, row, running, owner, creating>>
  BY DEF PollCycle, twTmux
<1>2. \A i \in Ids : /\ i \in Recorded' <=> i \in Recorded /\ (i \in used \/ i \in TmuxLive)
                     /\ i \in Recorded' => states'[i] = states[i]
  BY <1>0, <1>1 DEF Recorded
<1>3. \A i \in Ids : display'[i] = IF i \in used \cup TmuxLive THEN SyncedNames(display)[i] ELSE NoName
  BY <1>1
<1>4. \A i \in Ids : SyncedNames(display)[i] = IF i \in TmuxLive /\ display[i] # NoName THEN wins[i].name ELSE display[i]
  BY DEF SyncedNames
<1>5. /\ \A i \in Recorded' : i \in Recorded /\ display'[i] = IF i \in TmuxLive THEN wins[i].name ELSE display[i]
      /\ \A i \in Ids \ Recorded' : display'[i] = NoName
  BY <1>0, <1>2, <1>3, <1>4 DEF IdsInOrder, Recorded
<1>6. TmuxLive' = TmuxLive
  BY <1>1 DEF TmuxLive
<1>7. \A t \in TwTopics : row[t] # 0 => row[t] \in Ids /\ row[t] \in used /\ row[t] \in Recorded
  BY <1>0 DEF RowsInOrder, TwTypes, Recorded, Ids
<1>8. \A i \in Recorded' : display'[i] # NoName /\ display'[i] \in TwNames
  BY <1>0, <1>5, TmuxLiveTypes DEF IdsInOrder, TwTypes
<1> HIDE DEF used
<1>11. TwTypes'
  <2>1. states' \in [Ids -> TwAgents \cup {NoAgent}] /\ display' \in [Ids -> TwNames \cup {NoName}]
    BY <1>0, <1>1, <1>5, <1>8 DEF TwTypes, Recorded
  <2> QED
    BY <1>0, <1>1, <2>1 DEF TwTypes
<1>12. IdsInOrder'
  BY <1>0, <1>1, <1>2, <1>5, <1>6, <1>8 DEF IdsInOrder
<1>13. RowsInOrder'
  BY <1>0, <1>1, <1>2, <1>7 DEF RowsInOrder, OneTopicPerTmuxWindow
<1>14. NamesTell'
  <2>1. \A i, j \in TmuxLive' : wins'[i].name = wins'[j].name => i = j
    BY <1>0, <1>1, <1>6 DEF NamesTell
  <2>2. \A i, j \in Recorded' : display'[i] = display'[j] => i = j
    BY <1>0, <1>5 DEF NamesTell
  <2>3. \A i \in TmuxLive' \cap Recorded' : states'[i] = wins'[i].agent
    BY <1>0, <1>1, <1>2, <1>5, <1>6 DEF NamesTell, Recorded
  <2>4. \A i \in TmuxLive', j \in Recorded' :
          display'[j] = wins'[i].name => states'[j] = wins'[i].agent /\ (i \in Recorded' => i = j)
    BY <1>0, <1>1, <1>2, <1>5, <1>6, TmuxLiveTypes DEF NamesTell, Recorded
  <2> QED
    BY <2>1, <2>2, <2>3, <2>4 DEF NamesTell
<1>15. NameInHand'
  BY <1>0, <1>1 DEF NameInHand
<1> QED
  BY <1>11, <1>12, <1>13, <1>14, <1>15 DEF WindowsInOrder

(* The bot starts and finds the windows of its records by their names      *)
LEMMA BotStarted ==
  ASSUME ChatTopics = {}, WindowsInOrder, server, StartBot
  PROVE  WindowsInOrder'
<1>0. TwTypes /\ IdsInOrder /\ RowsInOrder /\ NamesTell /\ NameInHand
  BY DEF WindowsInOrder
<1>1. /\ row' = MovedRows /\ states' = MovedStates /\ display' = SyncedNames(MovedNames) /\ running' = TRUE
      /\ UNCHANGED <<wins, nextId, server, owner, creating>> /\ ~running
  BY DEF StartBot, twTmux
<1>2. TmuxLive' = TmuxLive
  BY <1>1 DEF TmuxLive
<1>3. creating = NotCreating
  BY <1>0, <1>1 DEF TwTypes
<1>4. ASSUME NEW i \in Recorded
      PROVE  /\ NewIdOf(i) \in Ids /\ states'[NewIdOf(i)] = states[i] /\ states[i] \in TwAgents
             /\ display'[NewIdOf(i)] = IF NewIdOf(i) \in TmuxLive THEN wins[NewIdOf(i)].name ELSE display[i]
             /\ display'[NewIdOf(i)] \in TwNames
  <2>1. NewIdOf(i) \in Ids /\ MovedStates[NewIdOf(i)] = states[i] /\ MovedNames[NewIdOf(i)] = display[i]
    BY Resolution, MovedTogether
  <2>2. display[i] \in TwNames /\ display[i] # NoName /\ states[i] \in TwAgents
    BY <1>0, TmuxLiveTypes, TmuxAssumption DEF IdsInOrder, TwTypes
  <2> QED
    BY <1>0, <1>1, <2>1, <2>2, TmuxLiveTypes DEF SyncedNames
<1>5. ASSUME NEW j \in Ids, \A i \in Recorded : NewIdOf(i) # j
      PROVE  states'[j] = NoAgent /\ display'[j] = NoName
  <2>1. MovedStates[j] = NoAgent /\ MovedNames[j] = NoName
    BY <1>5, MovedTogether
  <2> QED
    BY <1>1, <2>1 DEF SyncedNames
<1>6. \A j \in Recorded' : \E i \in Recorded : NewIdOf(i) = j
  BY <1>5 DEF Recorded
<1>7. \A i \in Recorded : NewIdOf(i) \in Recorded'
  BY <1>4, TmuxAssumption DEF Recorded
<1>8. \A t \in TwTopics : /\ row[t] = 0 => row'[t] = 0
                          /\ row[t] # 0 => row[t] \in Recorded /\ row'[t] = NewIdOf(row[t])
  <2> SUFFICES ASSUME NEW t \in TwTopics
               PROVE  /\ row[t] = 0 => row'[t] = 0
                      /\ row[t] # 0 => row[t] \in Recorded /\ row'[t] = NewIdOf(row[t])
    OBVIOUS
  <2>1. row'[t] = IF ResolvedId(row[t]) = 0 THEN row[t] ELSE ResolvedId(row[t])
    BY <1>1 DEF MovedRows
  <2>2. row[t] # 0 => row[t] \in Recorded
    BY <1>0 DEF RowsInOrder, TwTypes, Recorded, Ids
  <2> QED
    BY <2>1, <2>2 DEF NewIdOf, ResolvedId
<1>9. \A j \in Recorded' : /\ j \in Ids /\ display'[j] \in TwNames /\ states'[j] \in TwAgents
                           /\ j \in TmuxLive => states'[j] = wins[j].agent /\ display'[j] = wins[j].name
                           /\ j \notin TmuxLive => j \in Recorded /\ display'[j] = display[j] /\ states'[j] = states[j]
                                                  /\ \A k \in TmuxLive : wins[k].name # display'[j]
  <2> SUFFICES ASSUME NEW j \in Recorded'
               PROVE  /\ j \in Ids /\ display'[j] \in TwNames /\ states'[j] \in TwAgents
                      /\ j \in TmuxLive => states'[j] = wins[j].agent /\ display'[j] = wins[j].name
                      /\ j \notin TmuxLive => j \in Recorded /\ display'[j] = display[j] /\ states'[j] = states[j]
                                             /\ \A k \in TmuxLive : wins[k].name # display'[j]
    OBVIOUS
  <2>1. PICK i \in Recorded : NewIdOf(i) = j
    BY <1>6
  <2>2. CASE j \in TmuxLive
    BY <1>4, <2>1, <2>2, Resolution
  <2>3. CASE j \notin TmuxLive
    BY <1>4, <2>1, <2>3, Resolution
  <2> QED
    BY <2>2, <2>3
<1>10. \A j \in Ids \ Recorded' : states'[j] = NoAgent /\ display'[j] = NoName
  BY <1>5, <1>7
<1>11. TwTypes'
  <2>1. states' \in [Ids -> TwAgents \cup {NoAgent}] /\ display' \in [Ids -> TwNames \cup {NoName}]
    <3>1. states' = [j \in Ids |-> states'[j]] /\ display' = [j \in Ids |-> display'[j]]
      BY <1>1 DEF MovedStates, SyncedNames
    <3>2. \A j \in Ids : states'[j] \in TwAgents \cup {NoAgent} /\ display'[j] \in TwNames \cup {NoName}
      BY <1>9, <1>10
    <3> QED
      BY <3>1, <3>2
  <2>2. row' \in [TwTopics -> 0..MaxId]
    <3>1. \A t \in TwTopics : row'[t] \in 0..MaxId
      BY <1>4, <1>8, TmuxAssumption DEF Ids
    <3> QED
      BY <1>1, <3>1 DEF MovedRows
  <2> QED
    BY <1>0, <1>1, <1>3, <2>1, <2>2 DEF TwTypes
<1>12. IdsInOrder'
  BY <1>0, <1>1, <1>2, <1>9, <1>10, TmuxAssumption DEF IdsInOrder
<1>13. RowsInOrder'
  <2>1. \A t \in TwTopics : row'[t] # 0 => states'[row'[t]] = owner'[t] /\ owner'[t] # NoAgent
    BY <1>0, <1>1, <1>4, <1>8 DEF RowsInOrder
  <2>2. ASSUME NEW t \in TwTopics, NEW u \in TwTopics, t # u, row'[t] = row'[u], row'[t] # 0
        PROVE  FALSE
    <3>1. row[t] \in Recorded /\ row[u] \in Recorded /\ row[t] # 0 /\ NewIdOf(row[t]) = NewIdOf(row[u])
      BY <1>8, <2>2
    <3>2. row[t] = row[u]
      BY <3>1, ResolutionApart
    <3> QED
      BY <1>0, <2>2, <3>1, <3>2 DEF RowsInOrder, OneTopicPerTmuxWindow
  <2> QED
    BY <2>1, <2>2 DEF RowsInOrder, OneTopicPerTmuxWindow
<1>14. NamesTell'
  <2>1. \A i, j \in TmuxLive' : wins'[i].name = wins'[j].name => i = j
    BY <1>0, <1>1, <1>2 DEF NamesTell
  <2>2. \A i, j \in Recorded' : display'[i] = display'[j] => i = j
    BY <1>0, <1>9 DEF NamesTell
  <2>3. \A i \in TmuxLive' \cap Recorded' : states'[i] = wins'[i].agent
    BY <1>1, <1>2, <1>9
  <2>4. \A i \in TmuxLive', j \in Recorded' :
          display'[j] = wins'[i].name => states'[j] = wins'[i].agent /\ (i \in Recorded' => i = j)
    BY <1>0, <1>1, <1>2, <1>9 DEF NamesTell
  <2> QED
    BY <2>1, <2>2, <2>3, <2>4 DEF NamesTell
<1>15. NameInHand'
  BY <1>1, <1>3 DEF NameInHand
<1> QED
  BY <1>11, <1>12, <1>13, <1>14, <1>15 DEF WindowsInOrder

LEMMA BotStartedBlind ==
  ASSUME WindowsInOrder, ~server, StartBot
  PROVE  WindowsInOrder'
<1>0. TwTypes /\ IdsInOrder /\ RowsInOrder /\ NamesTell /\ NameInHand
  BY DEF WindowsInOrder
<1>1. running' = TRUE /\ UNCHANGED <<wins, nextId, server, row, states, display, owner, creating>>
  BY DEF StartBot, twTmux, twState
<1>2. TmuxLive' = TmuxLive /\ Recorded' = Recorded
  BY <1>1 DEF TmuxLive, Recorded
<1>11. TwTypes'
  BY <1>0, <1>1, <1>2 DEF TwTypes
<1>12. IdsInOrder'
  BY <1>0, <1>1, <1>2 DEF IdsInOrder, Recorded
<1>13. RowsInOrder'
  BY <1>0, <1>1, <1>2 DEF RowsInOrder, OneTopicPerTmuxWindow
<1>14. NamesTell'
  BY <1>0, <1>1, <1>2 DEF NamesTell
<1>15. NameInHand'
  BY <1>0, <1>1, <1>2 DEF NameInHand
<1> QED
  BY <1>11, <1>12, <1>13, <1>14, <1>15 DEF WindowsInOrder

(* Through restarts of tmux and of the bot, renames at the terminal and    *)
(* polls, no topic is bound to the window of another conversation, its     *)
(* state is that of its conversation and no two topics share a window, as  *)
(* long as a name or an id is not used again and no row is kept per chat   *)
(* (tmux.py create_window, window_resolver.py resolve_stale_ids).          *)
THEOREM TopicsKeepTheirWindows ==
  ASSUME TwHazards = {}, ChatTopics = {}
  PROVE  TmuxSpec => []TmuxInv
<1>1. TmuxInit => WindowsInOrder
  BY WindowsStart
<1>2. WindowsInOrder /\ [TmuxNext]_twVars => WindowsInOrder'
  <2> SUFFICES ASSUME WindowsInOrder, [TmuxNext]_twVars
               PROVE  WindowsInOrder'
    OBVIOUS
  <2>1. CASE UNCHANGED twVars
    BY <2>1 DEF twVars, twTmux, twState, WindowsInOrder, TwTypes, IdsInOrder, RowsInOrder, NamesTell,
       NameInHand, TmuxLive, Recorded, OneTopicPerTmuxWindow
  <2>2. CASE BindNewWindow
    BY <2>2, WindowBound, CreationFailed
  <2>3. CASE StartBot
    BY <2>3, BotStarted, BotStartedBlind
  <2> QED
    BY <2>1, <2>2, <2>3, OpenedAtTerminal, CreationStarted, WindowClosed, WindowRenamed, ServerRestarted,
       TopicClosed, ServerFlipped, BotPolled, BotStopped DEF TmuxNext
<1>3. WindowsInOrder => TmuxInv
  <2> SUFFICES ASSUME WindowsInOrder
               PROVE  TmuxInv
    OBVIOUS
  <2>0. TwTypes /\ RowsInOrder /\ NamesTell
    BY DEF WindowsInOrder
  <2>1. TmuxTypeOK
    BY <2>0, TmuxLiveTypes DEF TwTypes, TmuxTypeOK, LiveWindows
  <2>2. TopicKeepsAgent
    BY <2>0, TmuxLiveTypes DEF TopicKeepsAgent, RowsInOrder, NamesTell, Recorded
  <2> QED
    BY <2>0, <2>1, <2>2 DEF TmuxInv, RowsInOrder, StateFollowsBinding
<1> QED
  BY <1>1, <1>2, <1>3, PTL DEF TmuxSpec

-----------------------------------------------------------------------------
(* Herdr: what the targets are.                                            *)

HbNowhere == HbTargets \cup {NoTarget}
HbPlaces == {"idle", "asked", "tab", "launched", "found", "done", "bound", "failed"}
HbMaking == [pc : HbPlaces, kind : {"none", "topic", "worktree"},
             space : {"none", "picked", "owned"}, target : HbNowhere, run : HbRuns \cup {NoRun}]
HbSnaps == [taken : BOOLEAN, complete : BOOLEAN,
            listed : SUBSET [pane : HbPanes, target : HbTargets],
            alive : SUBSET HbRuns, asked : [HbTopics -> HbNowhere]]

(* The types, with those of the creation and the listing *)
HbTypes ==
  /\ open \subseteq HbPanes /\ runs \in [HbPanes -> HbRuns \cup {NoRun}]
  /\ named \subseteq HbRuns /\ fault \in [HbPanes -> {"none", "malformed", "doubled"}]
  /\ spaces \subseteq {"picked", "owned"} /\ provisional \subseteq {NewPane}
  /\ making \in HbMaking /\ snap \in HbSnaps /\ listing \subseteq HbTargets
  /\ bound \in [HbTopics -> HbNowhere] /\ disk \in [HbTopics -> HbNowhere]
  /\ follows \in [HbTopics -> HbRuns \cup {NoRun}]

(* The stand-in that the creation may hand out, and the named records that *)
(* a listing has of its pane                                               *)
NewStandin == Standin(NewPane)
NewRecords == {rec \in snap.listed : rec.pane = NewPane /\ rec.target[1] = "id"}

(* What is stored is the target of a named run, or the stand-in while it   *)
(* waits for the name of the session that the creation started.            *)
StoredTargets ==
  /\ \A t \in HbTopics, b \in {bound, disk, snap.asked} :
       \/ b[t] = NoTarget \/ \E r \in named : b[t] = Named(r)
       \/ b[t] = NewStandin /\ making.pc = "bound" /\ making.target = NewStandin
  /\ \A t \in HbTopics :
       /\ bound[t] = NewStandin => NewPane \in provisional /\ follows[t] = making.run
       /\ disk[t] = NewStandin => NewPane \in provisional

(* The pane of the creation opens once, for one run; a failure closes it   *)
CreationInOrder ==
  /\ making.pc \in {"idle", "asked", "tab"} =>
       runs[NewPane] = NoRun /\ \A rec \in snap.listed : rec.pane # NewPane
  /\ making.pc \in {"idle", "asked", "failed"} => NewPane \notin open
  /\ making.pc = "launched" =>
       /\ \A rec \in NewRecords : rec.target = Named(runs[NewPane]) /\ runs[NewPane] \in named
       /\ runs[NewPane] \notin named \cup {NoRun} =>
            \A p \in HbPanes : runs[p] = runs[NewPane] => p = NewPane
  /\ making.pc \in {"found", "done", "bound"} =>
       /\ making.run \in HbRuns
       /\ making.target = NewStandin
            \/ (making.target = Named(making.run) /\ making.run \in named)
  /\ \A p \in HbPanes \ open : runs[p] = NoRun
  /\ "picked" \in spaces /\ spaces \subseteq {"picked", making.space}
  /\ making.pc \in {"idle", "failed"} => spaces = {"picked"}

(* Something waits under the stand-in *)
Awaited == \/ making.pc \in {"found", "done"} /\ making.target = NewStandin
           \/ \E t \in HbTopics : bound[t] = NewStandin

(* While something does, the session that it was made for runs in its pane *)
(* and nowhere else, and no listing saw another session there.             *)
StandinKeepsRun ==
  Awaited =>
    /\ NewPane \in provisional /\ runs[NewPane] \in {making.run, NoRun}
    /\ \A rec \in NewRecords : rec.target = Named(making.run) /\ making.run \in named
    /\ \A p \in HbPanes : runs[p] = making.run => p = NewPane

(* A complete listing has the target of every run that was alive, if a     *)
(* topic was bound to it: by its name, by the stand-in or by the record    *)
(* that replaces the stand-in.                                             *)
ListingSeesAll ==
  snap.taken /\ snap.complete =>
    \A t \in HbTopics :
      /\ \A r \in snap.alive : snap.asked[t] = Named(r) => Named(r) \in ListedIds
      /\ snap.asked[t] = NewStandin /\ making.run \in snap.alive =>
           (NewStandin \in ListedIds \/ NewRecords # {})

TargetsInOrder ==
  /\ HbTypes /\ StoredTargets /\ CreationInOrder /\ StandinKeepsRun /\ ListingSeesAll
  /\ ConversationKept

LEMMA HbNames ==
  /\ NewPane \in HbPanes /\ NewStandin \in HbTargets /\ NoRun \notin HbRuns
  /\ NewStandin # NoTarget /\ NewStandin[1] = "terminal"
  /\ \A r \in HbRuns : /\ Named(r) \in HbTargets /\ Named(r) # NoTarget /\ Named(r) # NewStandin
                       /\ Named(r)[1] = "id" /\ Named(r)[2] = r
  /\ \A r, q \in HbRuns : Named(r) = Named(q) => r = q
  /\ \A p \in HbPanes : /\ Standin(p) \in HbTargets /\ Standin(p) # NoTarget
                        /\ Standin(p)[1] = "terminal" /\ (Standin(p) = NewStandin => p = NewPane)
                        /\ \A r \in HbRuns : Standin(p) # Named(r)
  /\ \A x \in HbTargets : x[1] = "id" => \E r \in HbRuns : x = Named(r)
BY HbAssumption, HbApart DEF HbTargets, Named, Standin, NewStandin

LEMMA HbTypesInit == HbInit => HbTypes
BY HbNames, HbAssumption DEF HbInit, HbTypes, HbNowhere, HbPlaces, HbMaking, HbSnaps, NoJob, NoSnap

LEMMA TargetOfTypes ==
  ASSUME HbTypes, NEW p \in HbPanes
  PROVE  /\ TargetOf(p) \in HbTargets
         /\ (runs[p] \in named /\ TargetOf(p) = Named(runs[p])) \/ (runs[p] \notin named /\ TargetOf(p) = Standin(p))
BY HbNames DEF TargetOf, HbTypes

(* What a superseded target stands for is a target that the listing has.   *)
LEMMA FoldTypes ==
  ASSUME HbTypes, NEW a \in Aliases
  PROVE  \E rec \in snap.listed :
           /\ rec.target[1] = "id" /\ rec.pane \in provisional /\ rec.pane = NewPane /\ a = NewStandin
           /\ Canonical(a) = rec.target /\ rec.target \in HbTargets
<1>1. PICK rec \in snap.listed : a \in Superseded(rec)
  BY DEF Aliases
<1>2. Canonical(a) = (CHOOSE r \in snap.listed : a \in Superseded(r)).target
  BY DEF Canonical
<1>3. PICK c \in snap.listed : a \in Superseded(c) /\ Canonical(a) = c.target
  BY <1>1, <1>2
<1>4. c.target[1] = "id" /\ c.pane \in provisional /\ a = Standin(c.pane)
  BY <1>3 DEF Superseded
<1>5. c.pane = NewPane /\ c.target \in HbTargets
  BY <1>4 DEF HbTypes, HbSnaps
<1> QED
  BY <1>3, <1>4, <1>5 DEF NewStandin

LEMMA HbTypesStep ==
  ASSUME TargetsInOrder, [HbNext]_hbVars
  PROVE  HbTypes'
<1> USE DEF HbTypes
<1>0. HbTypes
  BY DEF TargetsInOrder
<1>1. ASSUME NEW p \in HbPanes, NEW r \in HbRuns, StartRun(p, r)
      PROVE  HbTypes'
  BY <1>1, <1>0, HbNames DEF StartRun, HbAgentMoves, serverVars, storeVars,
     NoJob, NoSnap, HbMaking, HbSnaps, HbPlaces, HbNowhere, Agents
<1>2. ASSUME NEW p \in HbPanes, NameSession(p)
      PROVE  HbTypes'
  BY <1>2, <1>0, HbNames DEF NameSession, HbAgentMoves, serverVars, storeVars,
     NoJob, NoSnap, HbMaking, HbSnaps, HbPlaces, HbNowhere, Agents
<1>3. ASSUME NEW p \in HbPanes, StopRun(p)
      PROVE  HbTypes'
  BY <1>3, <1>0, HbNames DEF StopRun, HbAgentMoves, serverVars, storeVars,
     NoJob, NoSnap, HbMaking, HbSnaps, HbPlaces, HbNowhere, Agents
<1>4. ASSUME NEW p \in HbPanes, NEW f \in {"none", "malformed", "doubled"}, Garble(p, f)
      PROVE  HbTypes'
  BY <1>4, <1>0, HbNames DEF Garble, HbAgentMoves, serverVars, storeVars,
     NoJob, NoSnap, HbMaking, HbSnaps, HbPlaces, HbNowhere, Agents
<1>5. ASSUME NEW t \in HbTopics, NEW p \in HbPanes, Adopt(t, p)
      PROVE  HbTypes'
  <2>1. TargetOf(p) \in HbTargets /\ runs[p] \in HbRuns
    BY <1>5, <1>0, TargetOfTypes, HbNames DEF Adopt, SafePanes, Agents
  <2> QED
    BY <1>5, <1>0, <2>1 DEF Adopt, serverVars, HbNowhere
<1>6. ASSUME NEW s \in {"picked", "owned"}, BeginTopic(s)
      PROVE  HbTypes'
  BY <1>6, <1>0, HbNames DEF BeginTopic, serverVars, storeVars, NoJob, NoSnap,
     HbMaking, HbSnaps, HbPlaces, HbNowhere, Agents
<1>7. ASSUME NEW t \in HbTopics, BindTarget(t)
      PROVE  HbTypes'
  BY <1>7, <1>0, HbNames DEF BindTarget, serverVars, storeVars, NoJob, NoSnap,
     HbMaking, HbSnaps, HbPlaces, HbNowhere, Agents
<1>8. ASSUME NEW t \in HbTopics, CloseHbGhost(t)
      PROVE  HbTypes'
  BY <1>8, <1>0, HbNames DEF CloseHbGhost, Confirm, serverVars, storeVars,
     NoJob, NoSnap, HbMaking, HbSnaps, HbPlaces, HbNowhere, Agents
<1>9. CASE CreateTab
  BY <1>9, <1>0, HbNames DEF CreateTab, serverVars, storeVars, NoJob, NoSnap,
     HbMaking, HbSnaps, HbPlaces, HbNowhere, Agents
<1>10. CASE BeginWorktree
  <2>1. making' \in HbMaking
    BY <1>10 DEF BeginWorktree, NoJob, HbMaking, HbPlaces, HbNowhere
  <2> QED
    BY <1>10, <1>0, <2>1, HbNames DEF BeginWorktree, storeVars
<1>11. CASE LaunchAgent
  BY <1>11, <1>0, HbNames DEF LaunchAgent, serverVars, storeVars, NoJob,
     NoSnap, HbMaking, HbSnaps, HbPlaces, HbNowhere, Agents
<1>12. CASE FindSession
  <2>1. TargetOf(NewPane) \in HbTargets
    BY <1>0, TargetOfTypes, HbNames
  <2>2. making' \in HbMaking
    BY <1>12, <1>0, <2>1, HbNames DEF FindSession, HbMaking, HbPlaces, HbNowhere
  <2> QED
    BY <1>12, <1>0, <2>2, HbNames DEF FindSession, serverVars, storeVars
<1>13. CASE LabelsFound
  BY <1>13, <1>0, HbNames DEF LabelsFound, serverVars, storeVars, NoJob,
     NoSnap, HbMaking, HbSnaps, HbPlaces, HbNowhere, Agents
<1>14. CASE TargetFails
  <2>1. making' \in HbMaking
    BY <1>14, <1>0 DEF TargetFails, HbMaking, HbPlaces
  <2>2. open' \subseteq HbPanes /\ runs' \in [HbPanes -> HbRuns \cup {NoRun}]
        /\ fault' \in [HbPanes -> {"none", "malformed", "doubled"}]
    BY <1>14, <1>0 DEF TargetFails
  <2> QED
    BY <1>14, <1>0, <2>1, <2>2 DEF TargetFails, storeVars, OwnSpaceClosed
<1>15. CASE ReadRecords
  <2>1. PICK R \in Representatives :
          snap' = [taken |-> TRUE, complete |-> Complete, alive |-> LiveRuns, asked |-> bound,
                   listed |-> {[pane |-> p, target |-> TargetOf(p)] : p \in SafePanes \cup R}]
    BY <1>15 DEF ReadRecords
  <2>2. SafePanes \cup R \subseteq HbPanes
    BY <1>0 DEF Representatives, SafePanes, SharedPanes, Agents
  <2>3. Complete \in BOOLEAN /\ LiveRuns \subseteq HbRuns
    BY <1>0 DEF Complete, LiveRuns, Agents
  <2>4. \A p \in HbPanes : TargetOf(p) \in HbTargets
    BY <1>0, TargetOfTypes
  <2>5. snap' \in HbSnaps
    BY <1>0, <2>1, <2>2, <2>3, <2>4 DEF HbSnaps
  <2> QED
    BY <1>15, <1>0, <2>5 DEF ReadRecords, serverVars, storeVars
<1>16. CASE ListingUnknown
  BY <1>16, <1>0, HbNames DEF ListingUnknown, serverVars, storeVars, NoJob,
     NoSnap, HbMaking, HbSnaps, HbPlaces, HbNowhere, Agents
<1>17. CASE Reconcile
  <2>1. \A t \in HbTopics : FoldedBinding(t) \in HbNowhere
    BY <1>0, FoldTypes DEF FoldedBinding, Folded, HbNowhere
  <2>2. ListedIds \subseteq HbTargets
    BY <1>0 DEF ListedIds, HbSnaps
  <2>3. NoSnap \in HbSnaps
    BY DEF NoSnap, HbSnaps, HbNowhere
  <2> QED
    BY <1>17, <1>0, <2>1, <2>2, <2>3 DEF Reconcile, Confirm, serverVars
<1>18. CASE ReconcileDeferred
  <2>1. ListedIds \subseteq HbTargets
    BY <1>0 DEF ListedIds, HbSnaps
  <2>2. NoSnap \in HbSnaps
    BY DEF NoSnap, HbSnaps, HbNowhere
  <2> QED
    BY <1>18, <1>0, <2>1, <2>2 DEF ReconcileDeferred, Confirm, serverVars, storeVars
<1>19. CASE SaveBindings
  BY <1>19, <1>0, HbNames DEF SaveBindings, serverVars, storeVars, NoJob,
     NoSnap, HbMaking, HbSnaps, HbPlaces, HbNowhere, Agents
<1>20. CASE HbRestart
  <2>1. \A t \in HbTopics : disk[t] # NoTarget /\ disk[t][1] = "id" => disk[t][2] \in HbRuns
    BY <1>0, HbNames DEF HbNowhere
  <2>2. NoSnap \in HbSnaps
    BY DEF NoSnap, HbSnaps, HbNowhere
  <2> QED
    BY <1>20, <1>0, <2>1, <2>2 DEF HbRestart, serverVars
<1>21. CASE UNCHANGED hbVars
  BY <1>21, <1>0, HbNames DEF hbVars, serverVars, storeVars, NoJob, NoSnap,
     HbMaking, HbSnaps, HbPlaces, HbNowhere, Agents
<1> QED
  BY <1>1, <1>2, <1>3, <1>4, <1>5, <1>6, <1>7, <1>8, <1>9, <1>10, <1>11,
     <1>12, <1>13, <1>14, <1>15, <1>16, <1>17, <1>18, <1>19, <1>20, <1>21 DEF
     HbNext

(* The records of a listing that is being read                             *)
LEMMA ListingRead ==
  ASSUME HbTypes, ReadRecords
  PROVE  \E R \in Representatives :
           /\ snap'.taken = TRUE /\ snap'.complete = Complete /\ snap'.alive = LiveRuns /\ snap'.asked = bound
           /\ \A rec \in snap'.listed : rec.pane \in Agents /\ rec.target = TargetOf(rec.pane)
           /\ \A p \in SafePanes \cup R : [pane |-> p, target |-> TargetOf(p)] \in snap'.listed
           /\ R \subseteq SharedPanes
           /\ UNCHANGED <<serverVars, provisional, making, listing, storeVars, hbCrashes>>
<1>1. PICK R \in Representatives :
        snap' = [taken |-> TRUE, complete |-> Complete, alive |-> LiveRuns, asked |-> bound,
                 listed |-> {[pane |-> p, target |-> TargetOf(p)] : p \in SafePanes \cup R}]
  BY DEF ReadRecords
<1>2. R \subseteq SharedPanes /\ SafePanes \cup R \subseteq Agents
  BY DEF Representatives, SafePanes, SharedPanes
<1>3. snap'.listed = {[pane |-> p, target |-> TargetOf(p)] : p \in SafePanes \cup R}
  BY <1>1
<1>4. /\ \A rec \in snap'.listed : rec.pane \in Agents /\ rec.target = TargetOf(rec.pane)
      /\ \A p \in SafePanes \cup R : [pane |-> p, target |-> TargetOf(p)] \in snap'.listed
  BY <1>2, <1>3
<1>5. snap'.taken = TRUE /\ snap'.complete = Complete /\ snap'.alive = LiveRuns /\ snap'.asked = bound
  BY <1>1
<1> QED
  BY <1>2, <1>4, <1>5 DEF ReadRecords

LEMMA CreationKept ==
  ASSUME HbHazards = {}, TargetsInOrder, [HbNext]_hbVars
  PROVE  CreationInOrder'
<1>0. HbTypes /\ StoredTargets /\ CreationInOrder /\ StandinKeepsRun
  BY DEF TargetsInOrder
<1>1. ASSUME NEW p \in HbPanes, NEW r \in HbRuns, StartRun(p, r)
      PROVE  CreationInOrder'
  <2>1. p \in open /\ runs' = [runs EXCEPT ![p] = r] /\ (r \in named \/ r \notin LiveRuns)
        /\ (p = NewPane /\ making.pc \in {"tab", "launched"} => making.pc = "launched" /\ runs[p] = NoRun)
        /\ UNCHANGED <<open, named, making, snap, spaces>>
    BY <1>1 DEF StartRun, Unaged
  <2>2. \A q \in HbPanes : runs[q] = r => r \in LiveRuns
    BY <1>0, HbNames DEF CreationInOrder, LiveRuns, Agents
  <2>3. making.pc = "launched" /\ runs'[NewPane] \notin named \cup {NoRun} =>
          \A q \in HbPanes : runs'[q] = runs'[NewPane] => q = NewPane
    BY <1>0, <2>1, <2>2, HbNames DEF CreationInOrder, HbTypes
  <2>4. making.pc = "launched" =>
          \A rec \in NewRecords : rec.target = Named(runs'[NewPane]) /\ runs'[NewPane] \in named
    <3>1. CASE p = NewPane
      BY <1>0, <2>1, <3>1, HbNames DEF CreationInOrder, HbTypes
    <3>2. CASE p # NewPane
      BY <1>0, <2>1, <3>2, HbNames DEF CreationInOrder, HbTypes
    <3> QED
      BY <3>1, <3>2
  <2>5. making.pc \in {"idle", "asked", "tab"} => runs'[NewPane] = NoRun
    BY <1>0, <2>1, HbNames DEF CreationInOrder, HbTypes
  <2>6. \A q \in HbPanes \ open : runs'[q] = NoRun
    BY <1>0, <2>1 DEF CreationInOrder, HbTypes
  <2> QED
    BY <1>0, <2>1, <2>3, <2>4, <2>5, <2>6 DEF CreationInOrder, NewRecords
<1>2. ASSUME NEW p \in HbPanes, NameSession(p)
      PROVE  CreationInOrder'
  BY <1>2, <1>0, HbNames DEF NameSession, HbAgentMoves, serverVars, storeVars,
     CreationInOrder, NewRecords, HbTypes, HbMaking, HbSnaps, HbPlaces,
     HbNowhere, NoJob, NoSnap, Agents
<1>3. ASSUME NEW p \in HbPanes, StopRun(p)
      PROVE  CreationInOrder'
  BY <1>3, <1>0, HbNames DEF StopRun, HbAgentMoves, serverVars, storeVars,
     CreationInOrder, NewRecords, HbTypes, HbMaking, HbSnaps, HbPlaces,
     HbNowhere, NoJob, NoSnap, Agents
<1>4. ASSUME NEW p \in HbPanes, NEW f \in {"none", "malformed", "doubled"}, Garble(p, f)
      PROVE  CreationInOrder'
  BY <1>4, <1>0, HbNames DEF Garble, HbAgentMoves, serverVars, storeVars,
     CreationInOrder, NewRecords, HbTypes, HbMaking, HbSnaps, HbPlaces,
     HbNowhere, NoJob, NoSnap, Agents
<1>5. ASSUME NEW t \in HbTopics, NEW p \in HbPanes, Adopt(t, p)
      PROVE  CreationInOrder'
  BY <1>5, <1>0, HbNames DEF Adopt, serverVars, storeVars, CreationInOrder,
     NewRecords, HbTypes, HbMaking, HbSnaps, HbPlaces, HbNowhere, NoJob,
     NoSnap, Agents
<1>6. ASSUME NEW s \in {"picked", "owned"}, BeginTopic(s)
      PROVE  CreationInOrder'
  BY <1>6, <1>0, HbNames DEF BeginTopic, serverVars, storeVars,
     CreationInOrder, NewRecords, HbTypes, HbMaking, HbSnaps, HbPlaces,
     HbNowhere, NoJob, NoSnap, Agents
<1>7. ASSUME NEW t \in HbTopics, BindTarget(t)
      PROVE  CreationInOrder'
  BY <1>7, <1>0, HbNames DEF BindTarget, serverVars, storeVars,
     CreationInOrder, NewRecords, HbTypes, HbMaking, HbSnaps, HbPlaces,
     HbNowhere, NoJob, NoSnap, Agents
<1>8. ASSUME NEW t \in HbTopics, CloseHbGhost(t)
      PROVE  CreationInOrder'
  BY <1>8, <1>0, HbNames DEF CloseHbGhost, Confirm, serverVars, storeVars,
     CreationInOrder, NewRecords, HbTypes, HbMaking, HbSnaps, HbPlaces,
     HbNowhere, NoJob, NoSnap, Agents
<1>9. CASE CreateTab
  BY <1>9, <1>0, HbNames DEF CreateTab, serverVars, storeVars,
     CreationInOrder, NewRecords, HbTypes, HbMaking, HbSnaps, HbPlaces,
     HbNowhere, NoJob, NoSnap, Agents
<1>10. CASE BeginWorktree
  BY <1>10, <1>0, HbNames DEF BeginWorktree, serverVars, storeVars,
     CreationInOrder, NewRecords, HbTypes, HbMaking, HbSnaps, HbPlaces,
     HbNowhere, NoJob, NoSnap, Agents
<1>11. CASE LaunchAgent
  BY <1>11, <1>0, HbNames DEF LaunchAgent, serverVars, storeVars,
     CreationInOrder, NewRecords, HbTypes, HbMaking, HbSnaps, HbPlaces,
     HbNowhere, NoJob, NoSnap, Agents
<1>12. CASE FindSession
  <2>1. runs[NewPane] \in HbRuns
    BY <1>12, <1>0, HbNames DEF FindSession, SafePanes, Agents, HbTypes
  <2>2. TargetOf(NewPane) = NewStandin
        \/ (TargetOf(NewPane) = Named(runs[NewPane]) /\ runs[NewPane] \in named)
    BY <1>0, HbNames, TargetOfTypes DEF NewStandin
  <2> QED
    BY <1>12, <1>0, <2>1, <2>2 DEF FindSession, CreationInOrder, NewRecords, serverVars, HbTypes, HbMaking
<1>13. CASE LabelsFound
  BY <1>13, <1>0, HbNames DEF LabelsFound, serverVars, storeVars,
     CreationInOrder, NewRecords, HbTypes, HbMaking, HbSnaps, HbPlaces,
     HbNowhere, NoJob, NoSnap, Agents
<1>14. CASE TargetFails
  <2>1. /\ making.pc \in {"asked", "tab", "launched", "found"} /\ spaces' = OwnSpaceClosed
        /\ making' = [making EXCEPT !.pc = "failed"]
        /\ open' = open \ {NewPane} /\ UNCHANGED snap
        /\ runs' = [q \in HbPanes |-> IF q \in {NewPane} THEN NoRun ELSE runs[q]]
    BY <1>14 DEF TargetFails, Escapes
  <2>2. making' \in HbMaking /\ making'.pc = "failed" /\ making'.space = making.space
    BY <1>0, <2>1 DEF HbTypes, HbMaking, HbPlaces
  <2>3. spaces' = {"picked"}
    BY <1>0, <2>1 DEF CreationInOrder, OwnSpaceClosed
  <2> QED
    BY <1>0, <2>1, <2>2, <2>3 DEF CreationInOrder, HbTypes
<1>15. CASE ReadRecords
  <2>1. /\ \A rec \in snap'.listed : rec.pane \in Agents /\ rec.target = TargetOf(rec.pane)
        /\ UNCHANGED <<serverVars, provisional, making, listing, storeVars, hbCrashes>>
    BY <1>15, <1>0, ListingRead
  <2>2. \A rec \in snap'.listed : rec.pane = NewPane =>
          /\ runs[NewPane] # NoRun
          /\ rec.target[1] = "id" => rec.target = Named(runs[NewPane]) /\ runs[NewPane] \in named
    BY <1>0, <2>1, HbNames, TargetOfTypes DEF Agents
  <2> QED
    BY <1>0, <2>1, <2>2 DEF CreationInOrder, NewRecords, serverVars
<1>16. CASE ListingUnknown
  BY <1>16, <1>0, HbNames DEF ListingUnknown, serverVars, storeVars,
     CreationInOrder, NewRecords, HbTypes, HbMaking, HbSnaps, HbPlaces,
     HbNowhere, NoJob, NoSnap, Agents
<1>17. CASE Reconcile
  BY <1>17, <1>0, HbNames DEF Reconcile, Confirm, serverVars, storeVars,
     CreationInOrder, NewRecords, HbTypes, HbMaking, HbSnaps, HbPlaces,
     HbNowhere, NoJob, NoSnap, Agents
<1>18. CASE ReconcileDeferred
  BY <1>18, <1>0, HbNames DEF ReconcileDeferred, Confirm, serverVars,
     storeVars, CreationInOrder, NewRecords, HbTypes, HbMaking, HbSnaps,
     HbPlaces, HbNowhere, NoJob, NoSnap, Agents
<1>19. CASE SaveBindings
  BY <1>19, <1>0, HbNames DEF SaveBindings, serverVars, storeVars,
     CreationInOrder, NewRecords, HbTypes, HbMaking, HbSnaps, HbPlaces,
     HbNowhere, NoJob, NoSnap, Agents
<1>20. CASE HbRestart
  BY <1>20, <1>0, HbNames DEF HbRestart, serverVars, storeVars,
     CreationInOrder, NewRecords, HbTypes, HbMaking, HbSnaps, HbPlaces,
     HbNowhere, NoJob, NoSnap, Agents
<1>21. CASE UNCHANGED hbVars
  BY <1>21, <1>0, HbNames DEF hbVars, serverVars, storeVars, CreationInOrder,
     NewRecords, HbTypes, HbMaking, HbSnaps, HbPlaces, HbNowhere, NoJob,
     NoSnap, Agents
<1> QED
  BY <1>1, <1>2, <1>3, <1>4, <1>5, <1>6, <1>7, <1>8, <1>9, <1>10, <1>11,
     <1>12, <1>13, <1>14, <1>15, <1>16, <1>17, <1>18, <1>19, <1>20, <1>21 DEF
     HbNext

(* A fold takes a topic from the stand-in to the run it was opened for.    *)
LEMMA FoldKeepsRun ==
  ASSUME TargetsInOrder, NEW t \in HbTopics
  PROVE  \/ FoldedBinding(t) = NoTarget
         \/ FoldedBinding(t) = bound[t] /\ bound[t] \notin Aliases
         \/ /\ bound[t] = NewStandin /\ FoldedBinding(t) = Named(making.run)
            /\ follows[t] = making.run /\ making.run \in named
<1>0. HbTypes /\ StoredTargets /\ StandinKeepsRun
  BY DEF TargetsInOrder
<1>1. CASE bound[t] \in Aliases /\ FoldedBinding(t) # NoTarget
  <2>1. PICK rec \in snap.listed :
           /\ rec.target[1] = "id" /\ rec.pane = NewPane /\ bound[t] = NewStandin
           /\ Canonical(bound[t]) = rec.target
    BY <1>0, <1>1, FoldTypes
  <2>2. Awaited /\ rec \in NewRecords
    BY <2>1 DEF Awaited, NewRecords
  <2>3. rec.target = Named(making.run) /\ making.run \in named
    BY <1>0, <2>2 DEF StandinKeepsRun
  <2>4. follows[t] = making.run
    BY <1>0, <2>1 DEF StoredTargets
  <2> QED
    BY <1>1, <2>1, <2>3, <2>4 DEF FoldedBinding, Folded
<1>2. CASE bound[t] \notin Aliases
  BY <1>2 DEF FoldedBinding, Folded
<1> QED
  BY <1>1, <1>2

LEMMA StoredKept ==
  ASSUME HbHazards = {}, TargetsInOrder, [HbNext]_hbVars
  PROVE  StoredTargets'
<1>0. HbTypes /\ StoredTargets /\ CreationInOrder /\ StandinKeepsRun
  BY DEF TargetsInOrder
<1>1. ASSUME NEW p \in HbPanes, NEW r \in HbRuns, StartRun(p, r)
      PROVE  StoredTargets'
  BY <1>1, <1>0, HbNames DEF StartRun, HbAgentMoves, serverVars, storeVars,
     StoredTargets, HbTypes, HbMaking, HbSnaps, HbPlaces, HbNowhere, NoJob,
     NoSnap, Agents
<1>2. ASSUME NEW p \in HbPanes, NameSession(p)
      PROVE  StoredTargets'
  BY <1>2, <1>0, HbNames DEF NameSession, HbAgentMoves, serverVars, storeVars,
     StoredTargets, HbTypes, HbMaking, HbSnaps, HbPlaces, HbNowhere, NoJob,
     NoSnap, Agents
<1>3. ASSUME NEW p \in HbPanes, StopRun(p)
      PROVE  StoredTargets'
  BY <1>3, <1>0, HbNames DEF StopRun, HbAgentMoves, serverVars, storeVars,
     StoredTargets, HbTypes, HbMaking, HbSnaps, HbPlaces, HbNowhere, NoJob,
     NoSnap, Agents
<1>4. ASSUME NEW p \in HbPanes, NEW f \in {"none", "malformed", "doubled"}, Garble(p, f)
      PROVE  StoredTargets'
  BY <1>4, <1>0, HbNames DEF Garble, HbAgentMoves, serverVars, storeVars,
     StoredTargets, HbTypes, HbMaking, HbSnaps, HbPlaces, HbNowhere, NoJob,
     NoSnap, Agents
<1>5. ASSUME NEW t \in HbTopics, NEW p \in HbPanes, Adopt(t, p)
      PROVE  StoredTargets'
  <2>1. runs[p] \in named /\ TargetOf(p) = Named(runs[p])
    BY <1>5, <1>0, TargetOfTypes DEF Adopt
  <2> QED
    BY <1>5, <1>0, <2>1, HbNames DEF Adopt, serverVars, StoredTargets, HbTypes
<1>6. ASSUME NEW s \in {"picked", "owned"}, BeginTopic(s)
      PROVE  StoredTargets'
  BY <1>6, <1>0, HbNames DEF BeginTopic, serverVars, storeVars, StoredTargets,
     HbTypes, HbMaking, HbSnaps, HbPlaces, HbNowhere, NoJob, NoSnap, Agents
<1>7. ASSUME NEW t \in HbTopics, BindTarget(t)
      PROVE  StoredTargets'
  <2>1. /\ making.pc = "done" /\ making' = [making EXCEPT !.pc = "bound"]
        /\ bound' = [u \in HbTopics |-> IF u = t THEN making.target
                                        ELSE IF bound[u] = making.target THEN NoTarget ELSE bound[u]]
        /\ follows' = [follows EXCEPT ![t] = making.run]
        /\ UNCHANGED <<serverVars, provisional, snap, disk>>
    BY <1>7 DEF BindTarget
  <2>2. making' \in HbMaking /\ making'.pc = "bound" /\ making'.target = making.target /\ making'.run = making.run
    BY <1>0, <2>1 DEF HbTypes, HbMaking, HbPlaces
  <2>3. \A u \in HbTopics, b \in {bound, disk, snap.asked} :
          b[u] = NoTarget \/ \E r \in named : b[u] = Named(r)
    BY <1>0, <2>1 DEF StoredTargets
  <2>4. \/ making.target = NewStandin /\ NewPane \in provisional
        \/ making.run \in named /\ making.target = Named(making.run)
    BY <1>0, <2>1 DEF CreationInOrder, StandinKeepsRun, Awaited
  <2>5. \A u \in HbTopics : \/ bound'[u] = NoTarget \/ (u # t /\ bound'[u] = bound[u])
                            \/ (u = t /\ bound'[u] = making.target /\ follows'[u] = making.run)
    BY <1>0, <2>1 DEF HbTypes
  <2>6. \A u \in HbTopics : \A b \in {disk, snap.asked} : b[u] # NewStandin
    BY <2>3, <1>0, HbNames DEF HbTypes
  <2>7. \A u \in HbTopics : bound[u] # NewStandin
    BY <2>3, <1>0, HbNames DEF HbTypes
  <2>8. snap' = snap /\ disk' = disk /\ named' = named /\ provisional' = provisional
    BY <2>1 DEF serverVars
  <2>9. \A u \in HbTopics, b \in {bound', disk', snap'.asked} :
          \/ b[u] = NoTarget \/ \E r \in named' : b[u] = Named(r)
          \/ b[u] = NewStandin /\ making'.pc = "bound" /\ making'.target = NewStandin
    <3> SUFFICES ASSUME NEW u \in HbTopics, NEW b \in {bound', disk', snap'.asked}
                 PROVE  \/ b[u] = NoTarget \/ \E r \in named' : b[u] = Named(r)
                        \/ b[u] = NewStandin /\ making'.pc = "bound" /\ making'.target = NewStandin
      OBVIOUS
    <3>1. CASE b = disk' \/ b = snap'.asked
      BY <2>3, <2>8, <3>1
    <3>2. CASE b = bound'
      BY <2>2, <2>3, <2>4, <2>5, <2>8, <3>2
    <3> QED
      BY <3>1, <3>2
  <2>10. \A u \in HbTopics : bound'[u] = NewStandin => NewPane \in provisional' /\ follows'[u] = making'.run
    BY <1>0, <2>2, <2>4, <2>5, <2>7, <2>8, HbNames DEF HbTypes
  <2>11. \A u \in HbTopics : disk'[u] # NewStandin
    BY <2>6, <2>8
  <2> QED
    BY <2>9, <2>10, <2>11 DEF StoredTargets, NewStandin
<1>8. ASSUME NEW t \in HbTopics, CloseHbGhost(t)
      PROVE  StoredTargets'
  BY <1>8, <1>0, HbNames DEF CloseHbGhost, Confirm, serverVars, storeVars,
     StoredTargets, HbTypes, HbMaking, HbSnaps, HbPlaces, HbNowhere, NoJob,
     NoSnap, Agents
<1>9. CASE CreateTab
  BY <1>9, <1>0, HbNames DEF CreateTab, serverVars, storeVars, StoredTargets,
     HbTypes, HbMaking, HbSnaps, HbPlaces, HbNowhere, NoJob, NoSnap, Agents
<1>10. CASE BeginWorktree
  BY <1>10, <1>0, HbNames DEF BeginWorktree, serverVars, storeVars,
     StoredTargets, HbTypes, HbMaking, HbSnaps, HbPlaces, HbNowhere, NoJob,
     NoSnap, Agents
<1>11. CASE LaunchAgent
  BY <1>11, <1>0, HbNames DEF LaunchAgent, serverVars, storeVars,
     StoredTargets, HbTypes, HbMaking, HbSnaps, HbPlaces, HbNowhere, NoJob,
     NoSnap, Agents
<1>12. CASE FindSession
  BY <1>12, <1>0, HbNames DEF FindSession, serverVars, storeVars,
     StoredTargets, HbTypes, HbMaking, HbSnaps, HbPlaces, HbNowhere, NoJob,
     NoSnap, Agents
<1>13. CASE LabelsFound
  BY <1>13, <1>0, HbNames DEF LabelsFound, serverVars, storeVars,
     StoredTargets, HbTypes, HbMaking, HbSnaps, HbPlaces, HbNowhere, NoJob,
     NoSnap, Agents
<1>14. CASE TargetFails
  BY <1>14, <1>0, HbNames DEF TargetFails, serverVars, storeVars,
     StoredTargets, HbTypes, HbMaking, HbSnaps, HbPlaces, HbNowhere, NoJob,
     NoSnap, Agents
<1>15. CASE ReadRecords
  BY <1>15, <1>0, HbNames DEF ReadRecords, serverVars, storeVars,
     StoredTargets, HbTypes, HbMaking, HbSnaps, HbPlaces, HbNowhere, NoJob,
     NoSnap, Agents
<1>16. CASE ListingUnknown
  BY <1>16, <1>0, HbNames DEF ListingUnknown, serverVars, storeVars,
     StoredTargets, HbTypes, HbMaking, HbSnaps, HbPlaces, HbNowhere, NoJob,
     NoSnap, Agents
<1>17. CASE Reconcile
  <2>1. bound' = [t \in HbTopics |-> FoldedBinding(t)]
        /\ UNCHANGED <<named, provisional, making, follows, disk>> /\ snap' = NoSnap
    BY <1>17 DEF Reconcile, Confirm, serverVars
  <2>2. \A t \in HbTopics : snap'.asked[t] = NoTarget
    BY <2>1 DEF NoSnap
  <2>3. \A t \in HbTopics :
          \/ bound'[t] = NoTarget \/ bound'[t] = bound[t]
          \/ \E r \in named : bound'[t] = Named(r)
    BY <2>1, FoldKeepsRun
  <2>4. \A t \in HbTopics, b \in {bound', disk', snap'.asked} :
          \/ b[t] = NoTarget \/ \E r \in named' : b[t] = Named(r)
          \/ b[t] = NewStandin /\ making'.pc = "bound" /\ making'.target = NewStandin
    <3> SUFFICES ASSUME NEW t \in HbTopics, NEW b \in {bound', disk', snap'.asked}
                 PROVE  \/ b[t] = NoTarget \/ \E r \in named' : b[t] = Named(r)
                        \/ b[t] = NewStandin /\ making'.pc = "bound" /\ making'.target = NewStandin
      OBVIOUS
    <3>1. CASE b = disk'
      BY <1>0, <2>1, <3>1 DEF StoredTargets
    <3>2. CASE b = bound'
      BY <1>0, <2>1, <2>3, <3>2 DEF StoredTargets
    <3>3. CASE b = snap'.asked
      BY <2>2, <3>3
    <3> QED
      BY <3>1, <3>2, <3>3
  <2>5. \A t \in HbTopics : bound'[t] = NewStandin => bound[t] = NewStandin
    BY <1>0, <2>3, HbNames DEF HbTypes
  <2> QED
    BY <1>0, <2>1, <2>4, <2>5 DEF StoredTargets, NewStandin
<1>18. CASE ReconcileDeferred
  BY <1>18, <1>0, HbNames DEF ReconcileDeferred, Confirm, serverVars,
     storeVars, StoredTargets, HbTypes, HbMaking, HbSnaps, HbPlaces,
     HbNowhere, NoJob, NoSnap, Agents
<1>19. CASE SaveBindings
  BY <1>19, <1>0, HbNames DEF SaveBindings, serverVars, storeVars,
     StoredTargets, HbTypes, HbMaking, HbSnaps, HbPlaces, HbNowhere, NoJob,
     NoSnap, Agents
<1>20. CASE HbRestart
  <2>1. bound' = disk /\ UNCHANGED <<named, making, disk>> /\ snap' = NoSnap
    BY <1>20 DEF HbRestart, serverVars
  <2>2. \A t \in HbTopics : snap'.asked[t] = NoTarget
    BY <2>1 DEF NoSnap
  <2>3. \A t \in HbTopics : disk[t] # NewStandin
    BY <1>20, <1>0 DEF HbRestart, StoredTargets, NewStandin
  <2>4. \A t \in HbTopics : disk[t] = NoTarget \/ \E r \in named : disk[t] = Named(r)
    BY <1>0, <2>3 DEF StoredTargets
  <2> QED
    BY <2>1, <2>2, <2>3, <2>4 DEF StoredTargets, NewStandin
<1>21. CASE UNCHANGED hbVars
  BY <1>21, <1>0, HbNames DEF hbVars, serverVars, storeVars, StoredTargets,
     HbTypes, HbMaking, HbSnaps, HbPlaces, HbNowhere, NoJob, NoSnap, Agents
<1> QED
  BY <1>1, <1>2, <1>3, <1>4, <1>5, <1>6, <1>7, <1>8, <1>9, <1>10, <1>11,
     <1>12, <1>13, <1>14, <1>15, <1>16, <1>17, <1>18, <1>19, <1>20, <1>21 DEF
     HbNext

LEMMA ConversationStep ==
  ASSUME HbHazards = {}, TargetsInOrder, [HbNext]_hbVars
  PROVE  ConversationKept'
<1>0. HbTypes /\ StoredTargets /\ CreationInOrder /\ StandinKeepsRun /\ ConversationKept
  BY DEF TargetsInOrder
<1>1. ASSUME NEW p \in HbPanes, NEW r \in HbRuns, StartRun(p, r)
      PROVE  ConversationKept'
  BY <1>1, <1>0, HbNames DEF StartRun, HbAgentMoves, serverVars, storeVars,
     ConversationKept, StoredTargets, HbTypes, HbMaking, HbSnaps, HbPlaces,
     HbNowhere, NoJob, NoSnap, Agents
<1>2. ASSUME NEW p \in HbPanes, NameSession(p)
      PROVE  ConversationKept'
  BY <1>2, <1>0, HbNames DEF NameSession, HbAgentMoves, serverVars, storeVars,
     ConversationKept, StoredTargets, HbTypes, HbMaking, HbSnaps, HbPlaces,
     HbNowhere, NoJob, NoSnap, Agents
<1>3. ASSUME NEW p \in HbPanes, StopRun(p)
      PROVE  ConversationKept'
  BY <1>3, <1>0, HbNames DEF StopRun, HbAgentMoves, serverVars, storeVars,
     ConversationKept, StoredTargets, HbTypes, HbMaking, HbSnaps, HbPlaces,
     HbNowhere, NoJob, NoSnap, Agents
<1>4. ASSUME NEW p \in HbPanes, NEW f \in {"none", "malformed", "doubled"}, Garble(p, f)
      PROVE  ConversationKept'
  BY <1>4, <1>0, HbNames DEF Garble, HbAgentMoves, serverVars, storeVars,
     ConversationKept, StoredTargets, HbTypes, HbMaking, HbSnaps, HbPlaces,
     HbNowhere, NoJob, NoSnap, Agents
<1>5. ASSUME NEW t \in HbTopics, NEW p \in HbPanes, Adopt(t, p)
      PROVE  ConversationKept'
  <2>1. runs[p] \in named /\ TargetOf(p) = Named(runs[p])
    BY <1>5, <1>0, TargetOfTypes DEF Adopt
  <2> QED
    BY <1>5, <1>0, <2>1, HbNames DEF Adopt, serverVars, ConversationKept, HbTypes
<1>6. ASSUME NEW s \in {"picked", "owned"}, BeginTopic(s)
      PROVE  ConversationKept'
  BY <1>6, <1>0, HbNames DEF BeginTopic, serverVars, storeVars,
     ConversationKept, StoredTargets, HbTypes, HbMaking, HbSnaps, HbPlaces,
     HbNowhere, NoJob, NoSnap, Agents
<1>7. ASSUME NEW t \in HbTopics, BindTarget(t)
      PROVE  ConversationKept'
  <2>1. /\ making.pc = "done" /\ follows' = [follows EXCEPT ![t] = making.run]
        /\ bound' = [u \in HbTopics |-> IF u = t THEN making.target
                                        ELSE IF bound[u] = making.target THEN NoTarget ELSE bound[u]]
    BY <1>7 DEF BindTarget
  <2>2. making.target[1] = "id" => making.target = Named(making.run)
    BY <1>0, <2>1, HbNames DEF CreationInOrder
  <2> QED
    BY <1>0, <2>1, <2>2 DEF ConversationKept, HbTypes
<1>8. ASSUME NEW t \in HbTopics, CloseHbGhost(t)
      PROVE  ConversationKept'
  BY <1>8, <1>0, HbNames DEF CloseHbGhost, Confirm, serverVars, storeVars,
     ConversationKept, StoredTargets, HbTypes, HbMaking, HbSnaps, HbPlaces,
     HbNowhere, NoJob, NoSnap, Agents
<1>9. CASE CreateTab
  BY <1>9, <1>0, HbNames DEF CreateTab, serverVars, storeVars,
     ConversationKept, StoredTargets, HbTypes, HbMaking, HbSnaps, HbPlaces,
     HbNowhere, NoJob, NoSnap, Agents
<1>10. CASE BeginWorktree
  BY <1>10, <1>0, HbNames DEF BeginWorktree, serverVars, storeVars,
     ConversationKept, StoredTargets, HbTypes, HbMaking, HbSnaps, HbPlaces,
     HbNowhere, NoJob, NoSnap, Agents
<1>11. CASE LaunchAgent
  BY <1>11, <1>0, HbNames DEF LaunchAgent, serverVars, storeVars,
     ConversationKept, StoredTargets, HbTypes, HbMaking, HbSnaps, HbPlaces,
     HbNowhere, NoJob, NoSnap, Agents
<1>12. CASE FindSession
  BY <1>12, <1>0, HbNames DEF FindSession, serverVars, storeVars,
     ConversationKept, StoredTargets, HbTypes, HbMaking, HbSnaps, HbPlaces,
     HbNowhere, NoJob, NoSnap, Agents
<1>13. CASE LabelsFound
  BY <1>13, <1>0, HbNames DEF LabelsFound, serverVars, storeVars,
     ConversationKept, StoredTargets, HbTypes, HbMaking, HbSnaps, HbPlaces,
     HbNowhere, NoJob, NoSnap, Agents
<1>14. CASE TargetFails
  BY <1>14, <1>0, HbNames DEF TargetFails, serverVars, storeVars,
     ConversationKept, StoredTargets, HbTypes, HbMaking, HbSnaps, HbPlaces,
     HbNowhere, NoJob, NoSnap, Agents
<1>15. CASE ReadRecords
  BY <1>15, <1>0, HbNames DEF ReadRecords, serverVars, storeVars,
     ConversationKept, StoredTargets, HbTypes, HbMaking, HbSnaps, HbPlaces,
     HbNowhere, NoJob, NoSnap, Agents
<1>16. CASE ListingUnknown
  BY <1>16, <1>0, HbNames DEF ListingUnknown, serverVars, storeVars,
     ConversationKept, StoredTargets, HbTypes, HbMaking, HbSnaps, HbPlaces,
     HbNowhere, NoJob, NoSnap, Agents
<1>17. CASE Reconcile
  <2>1. bound' = [t \in HbTopics |-> FoldedBinding(t)] /\ UNCHANGED follows
    BY <1>17 DEF Reconcile
  <2> QED
    BY <1>0, <2>1, FoldKeepsRun DEF ConversationKept
<1>18. CASE ReconcileDeferred
  BY <1>18, <1>0, HbNames DEF ReconcileDeferred, Confirm, serverVars,
     storeVars, ConversationKept, StoredTargets, HbTypes, HbMaking, HbSnaps,
     HbPlaces, HbNowhere, NoJob, NoSnap, Agents
<1>19. CASE SaveBindings
  BY <1>19, <1>0, HbNames DEF SaveBindings, serverVars, storeVars,
     ConversationKept, StoredTargets, HbTypes, HbMaking, HbSnaps, HbPlaces,
     HbNowhere, NoJob, NoSnap, Agents
<1>20. CASE HbRestart
  BY <1>20, <1>0, HbNames DEF HbRestart, serverVars, storeVars,
     ConversationKept, StoredTargets, HbTypes, HbMaking, HbSnaps, HbPlaces,
     HbNowhere, NoJob, NoSnap, Agents
<1>21. CASE UNCHANGED hbVars
  BY <1>21, <1>0, HbNames DEF hbVars, serverVars, storeVars, ConversationKept,
     StoredTargets, HbTypes, HbMaking, HbSnaps, HbPlaces, HbNowhere, NoJob,
     NoSnap, Agents
<1> QED
  BY <1>1, <1>2, <1>3, <1>4, <1>5, <1>6, <1>7, <1>8, <1>9, <1>10, <1>11,
     <1>12, <1>13, <1>14, <1>15, <1>16, <1>17, <1>18, <1>19, <1>20, <1>21 DEF
     HbNext

LEMMA AwaitedFor ==
  ASSUME HbTypes, StoredTargets, CreationInOrder
  PROVE  /\ (Awaited => making.run \in HbRuns)
         /\ (making.pc \notin {"found", "done", "bound"} => ~Awaited)
         /\ (Awaited => OnTopic(NewPane) /\ Unfolded(making.run))
<1>1. \A t \in HbTopics : bound[t] = NewStandin =>
        making.pc = "bound" /\ follows[t] = making.run
  BY HbNames DEF StoredTargets, HbTypes
<1>2. Awaited => OnTopic(NewPane) /\ Unfolded(making.run)
  BY <1>1, HbNames DEF Awaited, OnTopic, Unfolded, NewStandin
<1> QED
  BY <1>1, <1>2 DEF Awaited, CreationInOrder

LEMMA StandinStep ==
  ASSUME HbHazards = {}, TargetsInOrder, [HbNext]_hbVars
  PROVE  StandinKeepsRun'
<1>0. HbTypes /\ StoredTargets /\ CreationInOrder /\ StandinKeepsRun
  BY DEF TargetsInOrder
<1>1. ASSUME NEW p \in HbPanes, NEW r \in HbRuns, StartRun(p, r)
      PROVE  StandinKeepsRun'
  <2>1. p \in open /\ runs' = [runs EXCEPT ![p] = r]
        /\ UNCHANGED <<named, making, snap, provisional, bound>>
        /\ (Unaged(r) \/ ~Unfolded(r)) /\ (p \notin provisional \/ ~OnTopic(p))
    BY <1>1 DEF StartRun, storeVars
  <2>2. Awaited' = Awaited /\ NewRecords' = NewRecords
    BY <2>1 DEF Awaited, NewRecords
  <2> SUFFICES ASSUME Awaited
               PROVE  StandinKeepsRun'
    BY <2>2 DEF StandinKeepsRun
  <2>3. p # NewPane /\ r # making.run
    BY <1>0, <2>1, AwaitedFor DEF StandinKeepsRun, Unaged
  <2>4. runs'[NewPane] = runs[NewPane] /\ \A q \in HbPanes : runs'[q] = making.run => runs[q] = making.run
    BY <1>0, <2>1, <2>3, HbNames DEF HbTypes
  <2> QED
    BY <1>0, <2>1, <2>2, <2>4 DEF StandinKeepsRun
<1>2. ASSUME NEW p \in HbPanes, NameSession(p)
      PROVE  StandinKeepsRun'
  BY <1>2, <1>0, HbNames DEF NameSession, HbAgentMoves, serverVars, storeVars,
     StandinKeepsRun, Awaited, NewRecords, HbTypes, HbMaking, HbSnaps,
     HbPlaces, HbNowhere, NoJob, NoSnap, Agents
<1>3. ASSUME NEW p \in HbPanes, StopRun(p)
      PROVE  StandinKeepsRun'
  <2>1. runs' = [runs EXCEPT ![p] = NoRun] /\ UNCHANGED <<named, making, snap, provisional, bound>>
    BY <1>3 DEF StopRun, storeVars
  <2>2. Awaited' = Awaited /\ NewRecords' = NewRecords
    BY <2>1 DEF Awaited, NewRecords
  <2> SUFFICES ASSUME Awaited
               PROVE  StandinKeepsRun'
    BY <2>2 DEF StandinKeepsRun
  <2>3. making.run # NoRun
    BY <1>0, AwaitedFor, HbNames
  <2>4. runs'[NewPane] \in {runs[NewPane], NoRun} /\ \A q \in HbPanes : runs'[q] = making.run => runs[q] = making.run
    BY <1>0, <2>1, <2>3, HbNames DEF HbTypes
  <2> QED
    BY <1>0, <2>1, <2>2, <2>4 DEF StandinKeepsRun
<1>4. ASSUME NEW p \in HbPanes, NEW f \in {"none", "malformed", "doubled"}, Garble(p, f)
      PROVE  StandinKeepsRun'
  BY <1>4, <1>0, HbNames DEF Garble, HbAgentMoves, serverVars, storeVars,
     StandinKeepsRun, Awaited, NewRecords, HbTypes, HbMaking, HbSnaps,
     HbPlaces, HbNowhere, NoJob, NoSnap, Agents
<1>5. ASSUME NEW t \in HbTopics, NEW p \in HbPanes, Adopt(t, p)
      PROVE  StandinKeepsRun'
  <2>1. runs[p] \in named /\ TargetOf(p) = Named(runs[p]) /\ p \in HbPanes
    BY <1>5, <1>0, TargetOfTypes DEF Adopt
  <2>2. TargetOf(p) # NewStandin
    BY <1>0, <2>1, HbNames DEF HbTypes
  <2>3. Awaited' => Awaited
    BY <1>5, <1>0, <2>2 DEF Adopt, Awaited, HbTypes, NewStandin
  <2> QED
    BY <1>5, <1>0, <2>3 DEF Adopt, StandinKeepsRun, NewRecords, serverVars
<1>6. ASSUME NEW s \in {"picked", "owned"}, BeginTopic(s)
      PROVE  StandinKeepsRun'
  <2>1. ~Awaited /\ making'.pc \notin {"found", "done"}
    BY <1>6, <1>0, AwaitedFor DEF BeginTopic, NoJob
  <2> QED
    BY <1>6, <2>1 DEF BeginTopic, StandinKeepsRun, Awaited, NewStandin, storeVars
<1>7. ASSUME NEW t \in HbTopics, BindTarget(t)
      PROVE  StandinKeepsRun'
  BY <1>7, <1>0, HbNames DEF BindTarget, serverVars, storeVars,
     StandinKeepsRun, Awaited, NewRecords, HbTypes, HbMaking, HbSnaps,
     HbPlaces, HbNowhere, NoJob, NoSnap, Agents
<1>8. ASSUME NEW t \in HbTopics, CloseHbGhost(t)
      PROVE  StandinKeepsRun'
  BY <1>8, <1>0, HbNames DEF CloseHbGhost, Confirm, serverVars, storeVars,
     StandinKeepsRun, Awaited, NewRecords, HbTypes, HbMaking, HbSnaps,
     HbPlaces, HbNowhere, NoJob, NoSnap, Agents
<1>9. CASE CreateTab
  BY <1>9, <1>0, HbNames DEF CreateTab, serverVars, storeVars,
     StandinKeepsRun, Awaited, NewRecords, HbTypes, HbMaking, HbSnaps,
     HbPlaces, HbNowhere, NoJob, NoSnap, Agents
<1>10. CASE BeginWorktree
  <2>1. ~Awaited /\ making'.pc \notin {"found", "done"}
    BY <1>10, <1>0, AwaitedFor DEF BeginWorktree, NoJob
  <2> QED
    BY <1>10, <2>1 DEF BeginWorktree, StandinKeepsRun, Awaited, NewStandin, storeVars
<1>11. CASE LaunchAgent
  BY <1>11, <1>0, HbNames DEF LaunchAgent, serverVars, storeVars,
     StandinKeepsRun, Awaited, NewRecords, HbTypes, HbMaking, HbSnaps,
     HbPlaces, HbNowhere, NoJob, NoSnap, Agents
<1>12. CASE FindSession
  <2>1. /\ making.pc = "launched" /\ NewPane \in SafePanes
        /\ making' = [making EXCEPT !.pc = "found", !.target = TargetOf(NewPane), !.run = runs[NewPane]]
        /\ provisional' = IF runs[NewPane] \in named THEN provisional ELSE provisional \cup {NewPane}
        /\ UNCHANGED <<runs, named, snap, bound>>
    BY <1>12 DEF FindSession, serverVars, storeVars
  <2>2. making'.target = TargetOf(NewPane) /\ making'.run = runs[NewPane]
    BY <1>0, <2>1 DEF HbTypes, HbMaking
  <2>3. runs[NewPane] # NoRun
    BY <2>1 DEF SafePanes, Agents
  <2>4. \A t \in HbTopics : bound[t] # NewStandin
    BY <1>0, <2>1, AwaitedFor DEF Awaited
  <2>5. Awaited' => TargetOf(NewPane) = NewStandin
    BY <2>1, <2>2, <2>4 DEF Awaited, NewStandin
  <2>6. Awaited' => runs[NewPane] \notin named /\ NewPane \in provisional'
    BY <1>0, <2>1, <2>3, <2>5, TargetOfTypes, HbNames DEF HbTypes
  <2>7. NewRecords' = NewRecords
    BY <2>1 DEF NewRecords
  <2> QED
    BY <1>0, <2>1, <2>2, <2>3, <2>6, <2>7 DEF StandinKeepsRun, CreationInOrder
<1>13. CASE LabelsFound
  BY <1>13, <1>0, HbNames DEF LabelsFound, serverVars, storeVars,
     StandinKeepsRun, Awaited, NewRecords, HbTypes, HbMaking, HbSnaps,
     HbPlaces, HbNowhere, NoJob, NoSnap, Agents
<1>14. CASE TargetFails
  BY <1>14, <1>0, HbNames DEF TargetFails, serverVars, storeVars,
     StandinKeepsRun, Awaited, NewRecords, HbTypes, HbMaking, HbSnaps,
     HbPlaces, HbNowhere, NoJob, NoSnap, Agents
<1>15. CASE ReadRecords
  <2>1. /\ \A rec \in snap'.listed : rec.pane \in Agents /\ rec.target = TargetOf(rec.pane)
        /\ UNCHANGED <<serverVars, provisional, making, listing, storeVars, hbCrashes>>
    BY <1>15, <1>0, ListingRead
  <2>2. Awaited' = Awaited
    BY <2>1 DEF Awaited, storeVars
  <2>3. \A rec \in NewRecords' : rec.target = Named(runs[NewPane]) /\ runs[NewPane] \in named /\ runs[NewPane] # NoRun
    BY <1>0, <2>1, TargetOfTypes, HbNames DEF NewRecords, Agents
  <2> QED
    BY <1>0, <2>1, <2>2, <2>3 DEF StandinKeepsRun, serverVars
<1>16. CASE ListingUnknown
  BY <1>16, <1>0, HbNames DEF ListingUnknown, serverVars, storeVars,
     StandinKeepsRun, Awaited, NewRecords, HbTypes, HbMaking, HbSnaps,
     HbPlaces, HbNowhere, NoJob, NoSnap, Agents
<1>17. CASE Reconcile
  <2>1. bound' = [t \in HbTopics |-> FoldedBinding(t)]
        /\ UNCHANGED <<runs, named, provisional, making, follows>> /\ snap' = NoSnap
    BY <1>17 DEF Reconcile, Confirm, serverVars
  <2>2. NewRecords' = {}
    BY <2>1 DEF NewRecords, NoSnap
  <2>3. \A t \in HbTopics : FoldedBinding(t) = NewStandin => bound[t] = NewStandin
    BY <1>0, FoldKeepsRun, HbNames DEF HbTypes
  <2>4. Awaited' => Awaited
    BY <2>1, <2>3 DEF Awaited, NewStandin
  <2> QED
    BY <1>0, <2>1, <2>2, <2>4 DEF StandinKeepsRun
<1>18. CASE ReconcileDeferred
  BY <1>18, <1>0, HbNames DEF ReconcileDeferred, Confirm, serverVars,
     storeVars, StandinKeepsRun, Awaited, NewRecords, HbTypes, HbMaking,
     HbSnaps, HbPlaces, HbNowhere, NoJob, NoSnap, Agents
<1>19. CASE SaveBindings
  BY <1>19, <1>0, HbNames DEF SaveBindings, serverVars, storeVars,
     StandinKeepsRun, Awaited, NewRecords, HbTypes, HbMaking, HbSnaps,
     HbPlaces, HbNowhere, NoJob, NoSnap, Agents
<1>20. CASE HbRestart
  <2>1. bound' = disk /\ UNCHANGED making /\ making.pc \notin {"found", "done"}
    BY <1>20 DEF HbRestart
  <2>2. \A t \in HbTopics : disk[t] # NewStandin
    BY <1>20, <1>0 DEF HbRestart, StoredTargets, NewStandin
  <2> QED
    BY <2>1, <2>2 DEF StandinKeepsRun, Awaited, NewStandin
<1>21. CASE UNCHANGED hbVars
  BY <1>21, <1>0, HbNames DEF hbVars, serverVars, storeVars, StandinKeepsRun,
     Awaited, NewRecords, HbTypes, HbMaking, HbSnaps, HbPlaces, HbNowhere,
     NoJob, NoSnap, Agents
<1> QED
  BY <1>1, <1>2, <1>3, <1>4, <1>5, <1>6, <1>7, <1>8, <1>9, <1>10, <1>11,
     <1>12, <1>13, <1>14, <1>15, <1>16, <1>17, <1>18, <1>19, <1>20, <1>21 DEF
     HbNext

(* Every agent whose record is readable is in the listing, itself or by    *)
(* one that shares its target.                                             *)
LEMMA AgentListed ==
  ASSUME HbTypes, NEW p \in Agents, Complete, NEW R \in Representatives
  PROVE  \/ p \in SafePanes
         \/ p \in SharedPanes /\ \E q \in R : q \in Agents /\ TargetOf(q) = TargetOf(p)
<1>1. fault[p] = "none"
  BY DEF Complete
<1>2. p \in SameTarget(p) /\ IsFiniteSet(SameTarget(p))
  <2>1. SameTarget(p) \subseteq HbPanes
    BY DEF SameTarget, Agents, HbTypes
  <2> QED
    BY <1>1, <2>1, FS_Subset, HbAssumption DEF SameTarget
<1>3. CASE SameTarget(p) = {p}
  BY <1>1, <1>3 DEF SafePanes
<1>4. CASE SameTarget(p) # {p}
  <2>1. Cardinality(SameTarget(p)) \in Nat /\ Cardinality(SameTarget(p) \ {p}) = Cardinality(SameTarget(p)) - 1
    BY <1>2, FS_RemoveElement, FS_CardinalityType
  <2>2. IsFiniteSet(SameTarget(p) \ {p}) /\ SameTarget(p) \ {p} # {}
    BY <1>2, <1>4, FS_RemoveElement
  <2>3. Cardinality(SameTarget(p) \ {p}) \in Nat /\ Cardinality(SameTarget(p) \ {p}) # 0
    BY <2>2, FS_EmptySet, FS_CardinalityType
  <2>4. p \in SharedPanes
    BY <1>1, <2>1, <2>3 DEF SharedPanes
  <2>5. Cardinality(R \cap SameTarget(p)) = 1
    BY <2>4 DEF Representatives
  <2>6. R \cap SameTarget(p) # {}
    BY <2>5, FS_EmptySet
  <2> QED
    BY <2>4, <2>6 DEF SameTarget
<1> QED
  BY <1>3, <1>4

LEMMA ListingStep ==
  ASSUME HbHazards = {}, TargetsInOrder, [HbNext]_hbVars
  PROVE  ListingSeesAll'
<1>0. HbTypes /\ StoredTargets /\ CreationInOrder /\ StandinKeepsRun /\ ListingSeesAll
  BY DEF TargetsInOrder
<1>1. ASSUME NEW p \in HbPanes, NEW r \in HbRuns, StartRun(p, r)
      PROVE  ListingSeesAll'
  BY <1>1, <1>0, HbNames, AwaitedFor DEF StartRun, HbAgentMoves, serverVars,
     storeVars, ListingSeesAll, ListedIds, NewRecords, HbTypes, HbMaking,
     HbSnaps, HbPlaces, HbNowhere, NoJob, NoSnap, Agents
<1>2. ASSUME NEW p \in HbPanes, NameSession(p)
      PROVE  ListingSeesAll'
  BY <1>2, <1>0, HbNames, AwaitedFor DEF NameSession, HbAgentMoves,
     serverVars, storeVars, ListingSeesAll, ListedIds, NewRecords, HbTypes,
     HbMaking, HbSnaps, HbPlaces, HbNowhere, NoJob, NoSnap, Agents
<1>3. ASSUME NEW p \in HbPanes, StopRun(p)
      PROVE  ListingSeesAll'
  BY <1>3, <1>0, HbNames, AwaitedFor DEF StopRun, HbAgentMoves, serverVars,
     storeVars, ListingSeesAll, ListedIds, NewRecords, HbTypes, HbMaking,
     HbSnaps, HbPlaces, HbNowhere, NoJob, NoSnap, Agents
<1>4. ASSUME NEW p \in HbPanes, NEW f \in {"none", "malformed", "doubled"}, Garble(p, f)
      PROVE  ListingSeesAll'
  BY <1>4, <1>0, HbNames, AwaitedFor DEF Garble, HbAgentMoves, serverVars,
     storeVars, ListingSeesAll, ListedIds, NewRecords, HbTypes, HbMaking,
     HbSnaps, HbPlaces, HbNowhere, NoJob, NoSnap, Agents
<1>5. ASSUME NEW t \in HbTopics, NEW p \in HbPanes, Adopt(t, p)
      PROVE  ListingSeesAll'
  BY <1>5, <1>0, HbNames, AwaitedFor DEF Adopt, serverVars, storeVars,
     ListingSeesAll, ListedIds, NewRecords, HbTypes, HbMaking, HbSnaps,
     HbPlaces, HbNowhere, NoJob, NoSnap, Agents
<1>6. ASSUME NEW s \in {"picked", "owned"}, BeginTopic(s)
      PROVE  ListingSeesAll'
  BY <1>6, <1>0, HbNames, AwaitedFor DEF BeginTopic, serverVars, storeVars,
     ListingSeesAll, ListedIds, NewRecords, HbTypes, HbMaking, HbSnaps,
     HbPlaces, HbNowhere, NoJob, NoSnap, Agents
<1>7. ASSUME NEW t \in HbTopics, BindTarget(t)
      PROVE  ListingSeesAll'
  BY <1>7, <1>0, HbNames, AwaitedFor DEF BindTarget, serverVars, storeVars,
     ListingSeesAll, ListedIds, NewRecords, HbTypes, HbMaking, HbSnaps,
     HbPlaces, HbNowhere, NoJob, NoSnap, Agents
<1>8. ASSUME NEW t \in HbTopics, CloseHbGhost(t)
      PROVE  ListingSeesAll'
  BY <1>8, <1>0, HbNames, AwaitedFor DEF CloseHbGhost, Confirm, serverVars,
     storeVars, ListingSeesAll, ListedIds, NewRecords, HbTypes, HbMaking,
     HbSnaps, HbPlaces, HbNowhere, NoJob, NoSnap, Agents
<1>9. CASE CreateTab
  BY <1>9, <1>0, HbNames, AwaitedFor DEF CreateTab, serverVars, storeVars,
     ListingSeesAll, ListedIds, NewRecords, HbTypes, HbMaking, HbSnaps,
     HbPlaces, HbNowhere, NoJob, NoSnap, Agents
<1>10. CASE BeginWorktree
  BY <1>10, <1>0, HbNames, AwaitedFor DEF BeginWorktree, serverVars,
     storeVars, ListingSeesAll, ListedIds, NewRecords, HbTypes, HbMaking,
     HbSnaps, HbPlaces, HbNowhere, NoJob, NoSnap, Agents
<1>11. CASE LaunchAgent
  BY <1>11, <1>0, HbNames, AwaitedFor DEF LaunchAgent, serverVars, storeVars,
     ListingSeesAll, ListedIds, NewRecords, HbTypes, HbMaking, HbSnaps,
     HbPlaces, HbNowhere, NoJob, NoSnap, Agents
<1>12. CASE FindSession
  <2>1. \A t \in HbTopics : snap.asked[t] # NewStandin
    <3> SUFFICES ASSUME NEW t \in HbTopics, snap.asked[t] = NewStandin
                 PROVE  FALSE
      OBVIOUS
    <3> QED
      BY <1>12, <1>0, HbNames DEF FindSession, StoredTargets, HbTypes
  <2> QED
    BY <1>12, <1>0, <2>1 DEF FindSession, ListingSeesAll, ListedIds, NewStandin
<1>13. CASE LabelsFound
  BY <1>13, <1>0, HbNames, AwaitedFor DEF LabelsFound, serverVars, storeVars,
     ListingSeesAll, ListedIds, NewRecords, HbTypes, HbMaking, HbSnaps,
     HbPlaces, HbNowhere, NoJob, NoSnap, Agents
<1>14. CASE TargetFails
  BY <1>14, <1>0, HbNames, AwaitedFor DEF TargetFails, serverVars, storeVars,
     ListingSeesAll, ListedIds, NewRecords, HbTypes, HbMaking, HbSnaps,
     HbPlaces, HbNowhere, NoJob, NoSnap, Agents
<1>15. CASE ReadRecords
  <2>1. PICK R \in Representatives :
           /\ snap'.taken = TRUE /\ snap'.complete = Complete /\ snap'.alive = LiveRuns /\ snap'.asked = bound
           /\ \A rec \in snap'.listed : rec.pane \in Agents /\ rec.target = TargetOf(rec.pane)
           /\ \A p \in SafePanes \cup R : [pane |-> p, target |-> TargetOf(p)] \in snap'.listed
           /\ R \subseteq SharedPanes
           /\ UNCHANGED <<serverVars, provisional, making, listing, storeVars, hbCrashes>>
    BY <1>15, <1>0, ListingRead
  <2> SUFFICES ASSUME Complete, NEW t \in HbTopics
               PROVE  /\ \A r \in LiveRuns : bound[t] = Named(r) => Named(r) \in ListedIds'
                      /\ bound[t] = NewStandin /\ making.run \in LiveRuns =>
                            (NewStandin \in ListedIds' \/ NewRecords' # {})
    BY <2>1 DEF ListingSeesAll, NewStandin
  <2>2. \A q \in SafePanes \cup R : TargetOf(q) \in ListedIds'
    BY <2>1 DEF ListedIds
  <2>3. ASSUME NEW r \in LiveRuns, bound[t] = Named(r)
        PROVE  Named(r) \in ListedIds'
    <3>1. PICK p \in Agents : runs[p] = r
      BY DEF LiveRuns
    <3>2. r \in HbRuns /\ p \in HbPanes
      BY <1>0, <3>1 DEF HbTypes, Agents
    <3>3. r \in named
      BY <1>0, <2>3, <3>2, HbNames DEF StoredTargets, HbTypes
    <3>4. TargetOf(p) = Named(r)
      BY <3>1, <3>3 DEF TargetOf
    <3> QED
      BY <1>0, <2>2, <3>4, AgentListed
  <2>4. ASSUME bound[t] = NewStandin, making.run \in LiveRuns
        PROVE  NewStandin \in ListedIds' \/ NewRecords' # {}
    <3>1. Awaited
      BY <2>4 DEF Awaited
    <3>2. NewPane \in Agents
      BY <1>0, <2>4, <3>1 DEF StandinKeepsRun, LiveRuns, Agents, HbTypes
    <3>3. NewPane \in SafePanes \cup R
      BY <1>0, <3>1, <3>2, AgentListed DEF StandinKeepsRun, Representatives
    <3>4. [pane |-> NewPane, target |-> TargetOf(NewPane)] \in snap'.listed
      BY <2>1, <3>3
    <3>5. CASE runs[NewPane] \in named
      <4>1. TargetOf(NewPane)[1] = "id"
        BY <1>0, <3>5, HbNames DEF TargetOf, HbTypes
      <4> QED
        BY <3>4, <4>1 DEF NewRecords
    <3>6. CASE runs[NewPane] \notin named
      BY <2>2, <3>3, <3>6 DEF TargetOf, NewStandin
    <3> QED
      BY <3>5, <3>6
  <2> QED
    BY <2>3, <2>4
<1>16. CASE ListingUnknown
  BY <1>16, <1>0, HbNames, AwaitedFor DEF ListingUnknown, serverVars,
     storeVars, ListingSeesAll, ListedIds, NewRecords, HbTypes, HbMaking,
     HbSnaps, HbPlaces, HbNowhere, NoJob, NoSnap, Agents
<1>17. CASE Reconcile
  BY <1>17, <1>0, HbNames, AwaitedFor DEF Reconcile, Confirm, serverVars,
     storeVars, ListingSeesAll, ListedIds, NewRecords, HbTypes, HbMaking,
     HbSnaps, HbPlaces, HbNowhere, NoJob, NoSnap, Agents
<1>18. CASE ReconcileDeferred
  BY <1>18, <1>0, HbNames, AwaitedFor DEF ReconcileDeferred, Confirm,
     serverVars, storeVars, ListingSeesAll, ListedIds, NewRecords, HbTypes,
     HbMaking, HbSnaps, HbPlaces, HbNowhere, NoJob, NoSnap, Agents
<1>19. CASE SaveBindings
  BY <1>19, <1>0, HbNames, AwaitedFor DEF SaveBindings, serverVars, storeVars,
     ListingSeesAll, ListedIds, NewRecords, HbTypes, HbMaking, HbSnaps,
     HbPlaces, HbNowhere, NoJob, NoSnap, Agents
<1>20. CASE HbRestart
  BY <1>20, <1>0, HbNames, AwaitedFor DEF HbRestart, serverVars, storeVars,
     ListingSeesAll, ListedIds, NewRecords, HbTypes, HbMaking, HbSnaps,
     HbPlaces, HbNowhere, NoJob, NoSnap, Agents
<1>21. CASE UNCHANGED hbVars
  BY <1>21, <1>0, HbNames, AwaitedFor DEF hbVars, serverVars, storeVars,
     ListingSeesAll, ListedIds, NewRecords, HbTypes, HbMaking, HbSnaps,
     HbPlaces, HbNowhere, NoJob, NoSnap, Agents
<1> QED
  BY <1>1, <1>2, <1>3, <1>4, <1>5, <1>6, <1>7, <1>8, <1>9, <1>10, <1>11,
     <1>12, <1>13, <1>14, <1>15, <1>16, <1>17, <1>18, <1>19, <1>20, <1>21 DEF
     HbNext

(* What the listing answers about a binding that it is asked to close      *)
LEMMA ClosedIsDead ==
  ASSUME TargetsInOrder, NEW t \in HbTopics, CloseHbGhost(t)
  PROVE  follows[t] \notin snap.alive
<1>0. HbTypes /\ StoredTargets /\ CreationInOrder /\ StandinKeepsRun /\ ListingSeesAll /\ ConversationKept
  BY DEF TargetsInOrder
<1>1. /\ snap.taken /\ snap.complete /\ bound[t] # NoTarget /\ bound[t] = snap.asked[t]
      /\ bound[t] \notin ListedIds \cup Aliases
  BY DEF CloseHbGhost, Confirm, Gone
<1>2. CASE bound[t] = NewStandin
  <2>1. Awaited /\ follows[t] = making.run
    BY <1>0, <1>2 DEF Awaited, StoredTargets
  <2>2. NewRecords = {}
    <3> SUFFICES ASSUME NEW rec \in NewRecords
                 PROVE  FALSE
      OBVIOUS
    <3>1. rec \in snap.listed /\ bound[t] \in Superseded(rec)
      BY <1>0, <1>2, <2>1 DEF NewRecords, Superseded, StandinKeepsRun, NewStandin
    <3> QED
      BY <1>1, <3>1 DEF Aliases
  <2> QED
    BY <1>0, <1>1, <1>2, <2>1, <2>2 DEF ListingSeesAll
<1>3. CASE bound[t] # NewStandin
  <2>1. PICK r \in named : bound[t] = Named(r)
    BY <1>0, <1>1, <1>3 DEF StoredTargets
  <2>2. r \in HbRuns /\ follows[t] = r
    BY <1>0, <1>1, <2>1, HbNames DEF HbTypes, ConversationKept, Named
  <2> QED
    BY <1>0, <1>1, <2>1, <2>2 DEF ListingSeesAll
<1> QED
  BY <1>2, <1>3

LEMMA TargetsStart == HbInit => TargetsInOrder
<1> SUFFICES ASSUME HbInit
             PROVE  TargetsInOrder
  OBVIOUS
<1>1. HbTypes
  BY HbTypesInit
<1>2. StoredTargets
  BY HbNames DEF HbInit, StoredTargets, NoSnap
<1>3. CreationInOrder
  BY HbNames DEF HbInit, CreationInOrder, NewRecords, NoSnap, NoJob
<1>4. StandinKeepsRun
  BY HbNames DEF HbInit, StandinKeepsRun, Awaited, NoJob
<1>5. ListingSeesAll /\ ConversationKept
  BY DEF HbInit, ListingSeesAll, ConversationKept, NoSnap
<1> QED
  BY <1>1, <1>2, <1>3, <1>4, <1>5 DEF TargetsInOrder

(* Whatever names, clears, restarts and faults the agents, the records and *)
(* the bot go through, apart from the five behaviours the model sets       *)
(* aside, every stored target is the named target of the conversation its  *)
(* topic was opened for, or the stand-in of the one that was just created. *)
THEOREM TargetsStayInOrder ==
  ASSUME HbHazards = {}
  PROVE  HbSpec => []TargetsInOrder
<1>1. TargetsInOrder /\ [HbNext]_hbVars => TargetsInOrder'
  BY HbTypesStep, StoredKept, CreationKept, StandinStep, ListingStep, ConversationStep DEF TargetsInOrder
<1> QED
  BY TargetsStart, <1>1, PTL DEF HbSpec

(* A binding keeps its conversation through naming, folding, discovery and *)
(* restart, and a creation that fails leaves neither tab nor workspace     *)
(* (herdr.py _superseded_target_ids, create_topic_target).                 *)
THEOREM TopicsKeepTheirConversation ==
  ASSUME HbHazards = {}
  PROVE  HbSpec => []HerdrInv
<1>1. TargetsInOrder => HerdrInv
  BY HbNames DEF TargetsInOrder, HbTypes, CreationInOrder, HerdrInv, HbTypeOK,
     FailedCreationLeavesNothing, HbNowhere
<1> QED
  BY TargetsStayInOrder, <1>1, PTL

(* A topic that a repair closes as a ghost follows a conversation that ran *)
(* nowhere when the listing was read (reconciliation.py window_presence).  *)
THEOREM OnlyDeadTopicsAreClosed ==
  ASSUME HbHazards = {}
  PROVE  HbSpec => ClosedTopicIsDead
<1>1. TargetsInOrder => [\A t \in HbTopics : CloseHbGhost(t) => follows[t] \notin snap.alive]_hbVars
  BY ClosedIsDead
<1> QED
  BY TargetsStayInOrder, <1>1, PTL DEF HbSpec, ClosedTopicIsDead
=============================================================================
