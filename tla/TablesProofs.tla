---------------------------- MODULE TablesProofs ----------------------------
(***************************************************************************)
(* What holds of the session map and of the routing table for any windows, *)
(* sessions, users, chats, threads, steps and restarts.                    *)
(*                                                                         *)
(* The session map.  A bound window keeps its state unless windows appear  *)
(* between a listing and the prune that uses it.  When none of the hazards *)
(* of SmHazards happens, no hook's entry is pruned, no event is passed     *)
(* over and an ended session never holds a window against a running one.   *)
(* For the last, the invariant follows whose a session is: whoever runs it *)
(* or ended it has it alone, in the file, in the states and in the map     *)
(* that the cycle has read.                                                *)
(*                                                                         *)
(* The routing table.  Each window is shown by one topic of a chat, so the *)
(* index row of a window is the one topic that shows it, and every change  *)
(* by hand is shown to give the index that a rebuild would give.  The file *)
(* holds the table or a table that a load leaves as it is.  A topic whose  *)
(* deletion waits for its answer is bound by nobody.                       *)
(***************************************************************************)
EXTENDS SessionMap, ThreadRouter, FiniteSetTheorems, TLAPS

-----------------------------------------------------------------------------
(* The session map.                                                        *)

Named == SmSessions \cup {NoSession}
Ends == [window : Windows, session : SmSessions]
Cycles == [pc : {"idle", "listed", "mapped", "events", "loaded", "pruned"},
           ok : BOOLEAN, listed : SUBSET Windows, raw : [Windows -> Named]]
Probes == {NoProbe} \cup [kind : {"bootstrap"}, window : Windows]
            \cup [kind : {"seed"}, window : Windows, session : SmSessions]

(* The types, with those of the cycle, the events and the probe *)
MapTypes ==
  /\ smFile \in [Windows -> Named] /\ smKnown \in [Windows -> Named]
  /\ smAgent \in [Windows -> Named]
  /\ smState \in [Windows -> SmSessions \cup {Unset, Absent}]
  /\ smLife \in [Windows -> {"new", "live", "dead"}]
  /\ smBound \subseteq Windows /\ smCreating \subseteq Windows /\ smHeard \subseteq Windows
  /\ smTracked \subseteq SmSessions /\ smFresh \subseteq SmSessions
  /\ smEnded \subseteq SmSessions
  /\ smLog \in Seq(Ends) /\ smPending \in Seq(Ends)
  /\ smRead \in Nat /\ smSaved \in Nat /\ smSaved <= smRead /\ smRead <= Len(smLog)
  /\ smMon \in Cycles /\ smProbe \in Probes

(* What a load writes into a state is what was there, or what the map says *)
LEMMA EffectiveIsEither ==
  ASSUME NEW st, NEW w, NEW r
  PROVE  Effective(st, w, r) \in {st[w], r}
  BY DEF Effective

LEMMA LoadedIsEither ==
  ASSUME MapTypes, NEW map \in [Windows -> Named]
  PROVE  /\ LoadedState(map) \in [Windows -> SmSessions \cup {Unset, Absent}]
         /\ \A w \in Windows :
              /\ LoadedState(map)[w] \in {smState[w], map[w], Absent}
              /\ LoadedState(map)[w] # NoSession
              /\ w \in smBound \cup smCreating /\ smState[w] # Absent
                   => LoadedState(map)[w] # Absent
<1> DEFINE s == SyncedState(map)
<1>1. \A w \in Windows :
        /\ s[w] \in {smState[w], map[w]} /\ s[w] # NoSession
        /\ s[w] \in SmSessions \cup {Unset, Absent}
        /\ smState[w] # Absent => s[w] # Absent
  <2> TAKE w \in Windows
  <2>1. s[w] = IF map[w] = NoSession THEN smState[w] ELSE Effective(smState, w, map[w])
    BY DEF SyncedState
  <2>2. Effective(smState, w, map[w]) \in {smState[w], map[w]}
    BY EffectiveIsEither
  <2>3. smState[w] \in SmSessions \cup {Unset, Absent} /\ map[w] \in Named
    BY DEF MapTypes
  <2> QED
    BY <2>1, <2>2, <2>3, SessionsNamed DEF Named, NoSession, Unset, Absent
<1>2. CASE MapKeys(map) = {}
  <2>1. LoadedState(map) = smState
    BY <1>2 DEF LoadedState
  <2> QED
    BY <2>1, SessionsNamed DEF MapTypes, NoSession, Unset, Absent
<1>3. CASE MapKeys(map) # {}
  <2>1. LoadedState(map) = [w \in Windows |-> IF w \in StaleWindows(map) THEN Absent ELSE s[w]]
    BY <1>3 DEF LoadedState
  <2> HIDE DEF s
  <2>2. \A w \in smBound \cup smCreating : w \notin StaleWindows(map)
    BY DEF StaleWindows
  <2> QED
    BY <1>1, <2>1, <2>2, SessionsNamed DEF NoSession, Unset, Absent
<1> QED
  BY <1>2, <1>3

LEMMA ParsedTyped ==
  ASSUME NEW st \in [Windows -> SmSessions \cup {Unset, Absent}], NEW map \in [Windows -> Named]
  PROVE  Parsed(st, map) \in [Windows -> Named]
<1>1. \A w \in Windows : map[w] # NoSession => Effective(st, w, map[w]) \in Named
  BY SessionsNamed DEF Effective, Named, NoSession, Unset, Absent
<1> QED
  BY <1>1 DEF Parsed, Named

LEMMA MapBegins == SmInit => MapTypes
<1> SUFFICES ASSUME SmInit PROVE MapTypes
  OBVIOUS
<1>1. IdleCycle \in Cycles
  BY DEF IdleCycle, Cycles, Named
<1> QED
  BY <1>1 DEF SmInit, MapTypes, Probes, Named

LEMMA TypesKept ==
  ASSUME MapTypes, [SmNext]_smVars
  PROVE  MapTypes'
<1>1. ASSUME NEW w \in Windows, OpenWindow(w)
      PROVE  MapTypes'
  BY <1>1 DEF OpenWindow, Step, MayAppear, smWorld, smEvents, smBot, MapTypes,
     Named, Ends
<1>2. ASSUME NEW w \in Windows, WindowOpens(w)
      PROVE  MapTypes'
  BY <1>2 DEF WindowOpens, Step, MayAppear, smWorld, smEvents, smBot,
     MapTypes, Named, Ends
<1>3. ASSUME NEW w \in Windows, WindowCloses(w)
      PROVE  MapTypes'
  BY <1>3 DEF WindowCloses, Step, smWorld, smEvents, smBot, MapTypes, Named,
     Ends
<1>4. ASSUME NEW w \in Windows, FinishCreate(w)
      PROVE  MapTypes'
  <2>1. smFile \in [Windows -> Named]
    BY DEF MapTypes
  <2>2. smState' \in [Windows -> SmSessions \cup {Unset, Absent}]
    BY <1>4, <2>1, LoadedIsEither DEF FinishCreate, MapTypes
  <2> QED
    BY <1>4, <2>2 DEF FinishCreate, smWorld, smEvents, MapTypes
<1>5. ASSUME NEW w \in Windows, UnbindWindow(w)
      PROVE  MapTypes'
  BY <1>5 DEF UnbindWindow, Step, smWorld, smEvents, smBot, MapTypes, Named,
     Ends
<1>6. ASSUME NEW w \in Windows, AdoptWindow(w)
      PROVE  MapTypes'
  BY <1>6 DEF AdoptWindow, smWorld, smEvents, smBot, MapTypes, Named, Ends
<1>7. ASSUME NEW w \in Windows, EndAgent(w)
      PROVE  MapTypes'
  BY <1>7 DEF EndAgent, Step, SeedWritten, smWorld, smEvents, smBot, MapTypes,
     Named, Ends
<1>8. ASSUME NEW w \in Windows, BeginBootstrap(w)
      PROVE  MapTypes'
  <2>1. smProbe' \in Probes
    BY <1>8 DEF BeginBootstrap, Probes
  <2> QED
    BY <1>8, <2>1 DEF BeginBootstrap, smWorld, smEvents, MapTypes
<1>9. ASSUME NEW w \in Windows, SeedSession(w)
      PROVE  MapTypes'
  <2>1. smAgent[w] \in SmSessions
    BY <1>9 DEF SeedSession, MapTypes, Named
  <2>2. smProbe' \in Probes
    BY <1>9, <2>1 DEF SeedSession, Probes
  <2> QED
    BY <1>9, <2>1, <2>2 DEF SeedSession, smWorld, smEvents, MapTypes
<1>10. ASSUME NEW w \in Windows, NEW s \in SmSessions, RestartAgent(w, s)
      PROVE  MapTypes'
  BY <1>10 DEF RestartAgent, Step, Starts, SeedWritten, smWorld, smEvents,
     smBot, MapTypes, Named, Ends
<1>11. ASSUME NEW w \in Windows, NEW s \in SmSessions, FireHook(w, s)
      PROVE  MapTypes'
  BY <1>11 DEF FireHook, Step, smWorld, smEvents, smBot, MapTypes, Named, Ends
<1>12. ASSUME NEW w \in Windows, NEW s \in SmSessions, NEW hooked \in BOOLEAN, StartAgent(w, s, hooked)
      PROVE  MapTypes'
  BY <1>12 DEF StartAgent, Step, Starts, SeedWritten, smWorld, smEvents,
     smBot, MapTypes, Named, Ends
<1>13. ASSUME NEW s \in SmSessions, WriteTranscript(s)
      PROVE  MapTypes'
  BY <1>13 DEF WriteTranscript, Step, smWorld, smEvents, smBot, MapTypes,
     Named, Ends
<1>14. ASSUME NEW ok \in BOOLEAN, ListLive(ok)
      PROVE  MapTypes'
  <2>1. smMon' \in Cycles
    BY <1>14 DEF ListLive, IdleCycle, Cycles, AliveWindows, Named
  <2> QED
    BY <1>14, <2>1 DEF ListLive, smWorld, smEvents, MapTypes
<1>15. CASE GraceLapses
  BY <1>15 DEF GraceLapses, Step, smWorld, smEvents, smBot, MapTypes, Named,
     Ends
<1>16. CASE ReadMap
  <2>1. smMon' \in Cycles
    BY <1>16 DEF ReadMap, Cycles, MapTypes
  <2> QED
    BY <1>16, <2>1 DEF ReadMap, smWorld, smEvents, MapTypes
<1>17. CASE TakeEvents
  <2>1. smMon' \in Cycles
    BY <1>17 DEF TakeEvents, Cycles, MapTypes
  <2>2. smPending' \in Seq(Ends) /\ smRead' \in Nat /\ smSaved <= smRead'
    <3> DEFINE E == Ends
    <3>1. smLog \in Seq(E) /\ smRead + 1 \in 1..(Len(smLog) + 1) /\ Len(smLog) \in Nat
      BY DEF MapTypes
    <3> HIDE DEF E
    <3>2. SubSeq(smLog, smRead + 1, Len(smLog)) \in Seq(E)
      BY <3>1
    <3> QED
      BY <1>17, <3>1, <3>2 DEF TakeEvents, MapTypes, E
  <2> QED
    BY <1>17, <2>1, <2>2 DEF TakeEvents, smWorld, MapTypes
<1>18. CASE DispatchEnd
  <2>1. Head(smPending) \in Ends /\ Tail(smPending) \in Seq(Ends)
    <3> DEFINE E == Ends
    <3>1. smPending \in Seq(E) /\ smPending # << >>
      BY <1>18 DEF DispatchEnd, MapTypes
    <3> HIDE DEF E
    <3>2. Head(smPending) \in E /\ Tail(smPending) \in Seq(E)
      BY <3>1
    <3> QED
      BY <3>2 DEF E
  <2>2. Head(smPending).window \in Windows /\ Head(smPending).session \in SmSessions
    BY <2>1 DEF Ends
  <2>3. /\ smState' \in [Windows -> SmSessions \cup {Unset, Absent}]
        /\ smEnded' \subseteq SmSessions
    BY <1>18, <2>2 DEF DispatchEnd, MapTypes
  <2> QED
    BY <1>18, <2>1, <2>3 DEF DispatchEnd, smWorld, MapTypes
<1>19. CASE LoadAndReconcile
  <2>1. smMon.raw \in [Windows -> Named] /\ smMon' \in Cycles
    BY <1>19 DEF LoadAndReconcile, MapTypes, Cycles
  <2>2. smState' \in [Windows -> SmSessions \cup {Unset, Absent}]
    BY <1>19, <2>1, LoadedIsEither DEF LoadAndReconcile
  <2>3. smKnown' \in [Windows -> Named]
    BY <1>19, <2>1, <2>2, ParsedTyped DEF LoadAndReconcile
  <2>4. smSaved' \in Nat /\ smSaved' <= smRead
    BY <1>19 DEF LoadAndReconcile, MapTypes
  <2> QED
    BY <1>19, <2>1, <2>2, <2>3, <2>4 DEF LoadAndReconcile, smWorld, MapTypes
<1>20. CASE PruneMap
  <2>1. smMon' \in Cycles
    BY <1>20 DEF PruneMap, MapTypes, Cycles
  <2>2. /\ smFile' \in [Windows -> Named]
        /\ smState' \in [Windows -> SmSessions \cup {Unset, Absent}]
    BY <1>20 DEF PruneMap, MapTypes, Named
  <2> QED
    BY <1>20, <2>1, <2>2 DEF PruneMap, smWorld, smEvents, MapTypes
<1>21. CASE CheckUpdates
  <2>1. smMon' \in Cycles
    BY <1>21 DEF CheckUpdates, IdleCycle, Cycles, Named
  <2>2. smTracked' \subseteq SmSessions
    BY <1>21 DEF CheckUpdates, MapTypes, Named, MapKeys
  <2> QED
    BY <1>21, <2>1, <2>2 DEF CheckUpdates, smWorld, MapTypes
<1>22. CASE SaveMidCycle
  BY <1>22 DEF SaveMidCycle, smWorld, smEvents, smBot, MapTypes, Named, Ends
<1>23. CASE RestartBot
  <2>1. smMon' \in Cycles /\ smProbe' \in Probes
    BY <1>23 DEF RestartBot, IdleCycle, Cycles, Named, Probes
  <2>2. smKnown' \in [Windows -> Named]
    BY <1>23, ParsedTyped DEF RestartBot, MapTypes
  <2>3. smRead' \in Nat /\ smSaved' = smRead' /\ smRead' <= Len(smLog) /\ smPending' \in Seq(Ends)
    BY <1>23 DEF RestartBot, MapTypes
  <2> QED
    BY <1>23, <2>1, <2>2, <2>3 DEF RestartBot, smWorld, MapTypes
<1>24. CASE EndBootstrap
  <2>1. smProbe' \in Probes
    BY <1>24 DEF EndBootstrap, Probes
  <2>2. smState' \in [Windows -> SmSessions \cup {Unset, Absent}]
    BY <1>24 DEF EndBootstrap, MapTypes
  <2> QED
    BY <1>24, <2>1, <2>2 DEF EndBootstrap, smWorld, smEvents, MapTypes
<1>25. CASE WriteSeed
  <2>1. smProbe' \in Probes
    BY <1>25 DEF WriteSeed, Probes
  <2>2. smProbe.session \in SmSessions
    BY <1>25 DEF WriteSeed, MapTypes, Probes, NoProbe
  <2>3. smFile' \in [Windows -> Named]
    BY <1>25, <2>2 DEF WriteSeed, MapTypes, Named
  <2> QED
    BY <1>25, <2>1, <2>3 DEF WriteSeed, smWorld, smEvents, MapTypes
<1>26. CASE UNCHANGED smVars
  BY <1>26 DEF smVars, smWorld, smEvents, smBot, MapTypes, Named, Ends
<1> QED
  BY <1>1, <1>2, <1>3, <1>4, <1>5, <1>6, <1>7, <1>8, <1>9, <1>10, <1>11,
     <1>12, <1>13, <1>14, <1>15, <1>16, <1>17, <1>18, <1>19, <1>20, <1>21,
     <1>22, <1>23, <1>24, <1>25, <1>26 DEF SmNext

----------------------------------------------------------------------------
(* A listing that the cycle still uses misses no window that is alive      *)
ListingCovers == smMon.pc # "idle" /\ smMon.ok => AliveWindows \subseteq smMon.listed

LEMMA CoversKept ==
  ASSUME "pruneRace" \notin SmHazards, MapTypes, ListingCovers, [SmNext]_smVars
  PROVE  ListingCovers'
<1>0. smMon \in Cycles
  BY DEF MapTypes
<1>1. ASSUME NEW w \in Windows, OpenWindow(w)
      PROVE  ListingCovers'
  BY <1>1, <1>0 DEF OpenWindow, Step, MayAppear, smWorld, smEvents, smBot,
     ListingCovers, AliveWindows, MapTypes, Cycles
<1>2. ASSUME NEW w \in Windows, WindowOpens(w)
      PROVE  ListingCovers'
  BY <1>2, <1>0 DEF WindowOpens, Step, MayAppear, smWorld, smEvents, smBot,
     ListingCovers, AliveWindows, MapTypes, Cycles
<1>3. ASSUME NEW w \in Windows, WindowCloses(w)
      PROVE  ListingCovers'
  BY <1>3, <1>0 DEF WindowCloses, Step, smWorld, smEvents, smBot,
     ListingCovers, AliveWindows, MapTypes, Cycles
<1>4. ASSUME NEW w \in Windows, FinishCreate(w)
      PROVE  ListingCovers'
  BY <1>4, <1>0 DEF FinishCreate, smWorld, smEvents, smBot, ListingCovers,
     AliveWindows, MapTypes, Cycles
<1>5. ASSUME NEW w \in Windows, UnbindWindow(w)
      PROVE  ListingCovers'
  BY <1>5, <1>0 DEF UnbindWindow, Step, smWorld, smEvents, smBot,
     ListingCovers, AliveWindows, MapTypes, Cycles
<1>6. ASSUME NEW w \in Windows, AdoptWindow(w)
      PROVE  ListingCovers'
  BY <1>6, <1>0 DEF AdoptWindow, smWorld, smEvents, smBot, ListingCovers,
     AliveWindows, MapTypes, Cycles
<1>7. ASSUME NEW w \in Windows, EndAgent(w)
      PROVE  ListingCovers'
  BY <1>7, <1>0 DEF EndAgent, Step, SeedWritten, smWorld, smEvents, smBot,
     ListingCovers, AliveWindows, MapTypes, Cycles
<1>8. ASSUME NEW w \in Windows, BeginBootstrap(w)
      PROVE  ListingCovers'
  BY <1>8, <1>0 DEF BeginBootstrap, smWorld, smEvents, smBot, ListingCovers,
     AliveWindows, MapTypes, Cycles
<1>9. ASSUME NEW w \in Windows, SeedSession(w)
      PROVE  ListingCovers'
  BY <1>9, <1>0 DEF SeedSession, smWorld, smEvents, smBot, ListingCovers,
     AliveWindows, MapTypes, Cycles
<1>10. ASSUME NEW w \in Windows, NEW s \in SmSessions, RestartAgent(w, s)
      PROVE  ListingCovers'
  BY <1>10, <1>0 DEF RestartAgent, Step, Starts, SeedWritten, smWorld,
     smEvents, smBot, ListingCovers, AliveWindows, MapTypes, Cycles
<1>11. ASSUME NEW w \in Windows, NEW s \in SmSessions, FireHook(w, s)
      PROVE  ListingCovers'
  BY <1>11, <1>0 DEF FireHook, Step, smWorld, smEvents, smBot, ListingCovers,
     AliveWindows, MapTypes, Cycles
<1>12. ASSUME NEW w \in Windows, NEW s \in SmSessions, NEW hooked \in BOOLEAN, StartAgent(w, s, hooked)
      PROVE  ListingCovers'
  BY <1>12, <1>0 DEF StartAgent, Step, Starts, SeedWritten, smWorld, smEvents,
     smBot, ListingCovers, AliveWindows, MapTypes, Cycles
<1>13. ASSUME NEW s \in SmSessions, WriteTranscript(s)
      PROVE  ListingCovers'
  BY <1>13, <1>0 DEF WriteTranscript, Step, smWorld, smEvents, smBot,
     ListingCovers, AliveWindows, MapTypes, Cycles
<1>14. ASSUME NEW ok \in BOOLEAN, ListLive(ok)
      PROVE  ListingCovers'
  BY <1>14, <1>0 DEF ListLive, smWorld, smEvents, smBot, ListingCovers,
     AliveWindows, MapTypes, Cycles
<1>15. CASE GraceLapses
  BY <1>15, <1>0 DEF GraceLapses, Step, smWorld, smEvents, smBot,
     ListingCovers, AliveWindows, MapTypes, Cycles
<1>16. CASE ReadMap
  BY <1>16, <1>0 DEF ReadMap, smWorld, smEvents, smBot, ListingCovers,
     AliveWindows, MapTypes, Cycles
<1>17. CASE TakeEvents
  BY <1>17, <1>0 DEF TakeEvents, smWorld, smEvents, smBot, ListingCovers,
     AliveWindows, MapTypes, Cycles
<1>18. CASE DispatchEnd
  BY <1>18, <1>0 DEF DispatchEnd, smWorld, smEvents, smBot, ListingCovers,
     AliveWindows, MapTypes, Cycles
<1>19. CASE LoadAndReconcile
  BY <1>19, <1>0 DEF LoadAndReconcile, smWorld, smEvents, smBot,
     ListingCovers, AliveWindows, MapTypes, Cycles
<1>20. CASE PruneMap
  BY <1>20, <1>0 DEF PruneMap, smWorld, smEvents, smBot, ListingCovers,
     AliveWindows, MapTypes, Cycles
<1>21. CASE CheckUpdates
  BY <1>21 DEF CheckUpdates, IdleCycle, ListingCovers
<1>22. CASE SaveMidCycle
  BY <1>22, <1>0 DEF SaveMidCycle, smWorld, smEvents, smBot, ListingCovers,
     AliveWindows, MapTypes, Cycles
<1>23. CASE RestartBot
  BY <1>23 DEF RestartBot, IdleCycle, ListingCovers
<1>24. CASE EndBootstrap
  BY <1>24, <1>0 DEF EndBootstrap, smWorld, smEvents, smBot, ListingCovers,
     AliveWindows, MapTypes, Cycles
<1>25. CASE WriteSeed
  BY <1>25, <1>0 DEF WriteSeed, smWorld, smEvents, smBot, ListingCovers,
     AliveWindows, MapTypes, Cycles
<1>26. CASE UNCHANGED smVars
  BY <1>26, <1>0 DEF smVars, smWorld, smEvents, smBot, ListingCovers,
     AliveWindows, MapTypes, Cycles
<1> QED
  BY <1>1, <1>2, <1>3, <1>4, <1>5, <1>6, <1>7, <1>8, <1>9, <1>10, <1>11,
     <1>12, <1>13, <1>14, <1>15, <1>16, <1>17, <1>18, <1>19, <1>20, <1>21,
     <1>22, <1>23, <1>24, <1>25, <1>26 DEF SmNext

(* Who loses a state: a stale window in a load, a dead one in a prune *)
LEMMA StatesStay ==
  ASSUME MapTypes, ListingCovers, [SmNext]_smVars, NEW v \in Wanted, v \in Wanted', smState[v] # Absent
  PROVE  smState'[v] # Absent
<1>0. /\ smMon \in Cycles /\ smState \in [Windows -> SmSessions \cup {Unset, Absent}]
      /\ v \in Windows /\ v \in smBound \cup smCreating
      /\ SmSessions \cap {Unset, Absent} = {} /\ Unset # Absent
  BY SessionsNamed DEF MapTypes, Wanted, Unset, Absent
<1>1. ASSUME NEW w \in Windows, OpenWindow(w)
      PROVE  smState'[v] # Absent
  BY <1>1, <1>0 DEF OpenWindow, Step, MayAppear, smWorld, smEvents, smBot
<1>2. ASSUME NEW w \in Windows, WindowOpens(w)
      PROVE  smState'[v] # Absent
  BY <1>2, <1>0 DEF WindowOpens, Step, MayAppear, smWorld, smEvents, smBot
<1>3. ASSUME NEW w \in Windows, WindowCloses(w)
      PROVE  smState'[v] # Absent
  BY <1>3, <1>0 DEF WindowCloses, Step, smWorld, smEvents, smBot
<1>4. ASSUME NEW w \in Windows, FinishCreate(w)
      PROVE  smState'[v] # Absent
  <2>1. smFile \in [Windows -> Named]
    BY DEF MapTypes
  <2> QED
    BY <1>4, <1>0, <2>1, LoadedIsEither DEF FinishCreate
<1>5. ASSUME NEW w \in Windows, UnbindWindow(w)
      PROVE  smState'[v] # Absent
  BY <1>5, <1>0 DEF UnbindWindow, Step, smWorld, smEvents, smBot
<1>6. ASSUME NEW w \in Windows, AdoptWindow(w)
      PROVE  smState'[v] # Absent
  BY <1>6, <1>0 DEF AdoptWindow, smWorld, smEvents, smBot
<1>7. ASSUME NEW w \in Windows, EndAgent(w)
      PROVE  smState'[v] # Absent
  BY <1>7, <1>0 DEF EndAgent, Step, SeedWritten, smWorld, smEvents, smBot
<1>8. ASSUME NEW w \in Windows, BeginBootstrap(w)
      PROVE  smState'[v] # Absent
  BY <1>8, <1>0 DEF BeginBootstrap, smWorld, smEvents, smBot
<1>9. ASSUME NEW w \in Windows, SeedSession(w)
      PROVE  smState'[v] # Absent
  <2>1. smAgent[w] \in SmSessions
    BY <1>9 DEF SeedSession, MapTypes, Named
  <2> QED
    BY <1>9, <1>0, <2>1 DEF SeedSession
<1>10. ASSUME NEW w \in Windows, NEW s \in SmSessions, RestartAgent(w, s)
      PROVE  smState'[v] # Absent
  BY <1>10, <1>0 DEF RestartAgent, Step, Starts, SeedWritten, smWorld,
     smEvents, smBot
<1>11. ASSUME NEW w \in Windows, NEW s \in SmSessions, FireHook(w, s)
      PROVE  smState'[v] # Absent
  BY <1>11, <1>0 DEF FireHook, Step, smWorld, smEvents, smBot
<1>12. ASSUME NEW w \in Windows, NEW s \in SmSessions, NEW hooked \in BOOLEAN, StartAgent(w, s, hooked)
      PROVE  smState'[v] # Absent
  BY <1>12, <1>0 DEF StartAgent, Step, Starts, SeedWritten, smWorld, smEvents,
     smBot
<1>13. ASSUME NEW s \in SmSessions, WriteTranscript(s)
      PROVE  smState'[v] # Absent
  BY <1>13, <1>0 DEF WriteTranscript, Step, smWorld, smEvents, smBot
<1>14. ASSUME NEW ok \in BOOLEAN, ListLive(ok)
      PROVE  smState'[v] # Absent
  BY <1>14, <1>0 DEF ListLive, smWorld, smEvents, smBot
<1>15. CASE GraceLapses
  BY <1>15, <1>0 DEF GraceLapses, Step, smWorld, smEvents, smBot
<1>16. CASE ReadMap
  BY <1>16, <1>0 DEF ReadMap, smWorld, smEvents, smBot
<1>17. CASE TakeEvents
  BY <1>17, <1>0 DEF TakeEvents, smWorld, smEvents, smBot
<1>18. CASE DispatchEnd
  BY <1>18, <1>0 DEF DispatchEnd
<1>19. CASE LoadAndReconcile
  <2>1. smMon.raw \in [Windows -> Named]
    BY <1>0 DEF Cycles
  <2> QED
    BY <1>19, <1>0, <2>1, LoadedIsEither DEF LoadAndReconcile
<1>20. CASE PruneMap
  <2>1. ASSUME smMon.ok PROVE v \notin DeadEntries \ smBound
    BY <1>20, <2>1 DEF PruneMap, ListingCovers, Wanted, DeadEntries
  <2> QED
    BY <1>20, <1>0, <2>1 DEF PruneMap
<1>21. CASE CheckUpdates
  BY <1>21, <1>0 DEF CheckUpdates, smWorld, smEvents, smBot
<1>22. CASE SaveMidCycle
  BY <1>22, <1>0 DEF SaveMidCycle, smWorld, smEvents, smBot
<1>23. CASE RestartBot
  BY <1>23, <1>0 DEF RestartBot, smWorld, smEvents, smBot
<1>24. CASE EndBootstrap
  BY <1>24, <1>0 DEF EndBootstrap, smWorld, smEvents, smBot
<1>25. CASE WriteSeed
  BY <1>25, <1>0 DEF WriteSeed, smWorld, smEvents, smBot
<1>26. CASE UNCHANGED smVars
  BY <1>26, <1>0 DEF smVars, smWorld, smEvents, smBot
<1> QED
  BY <1>1, <1>2, <1>3, <1>4, <1>5, <1>6, <1>7, <1>8, <1>9, <1>10, <1>11,
     <1>12, <1>13, <1>14, <1>15, <1>16, <1>17, <1>18, <1>19, <1>20, <1>21,
     <1>22, <1>23, <1>24, <1>25, <1>26 DEF SmNext

(* A window that a topic is bound to, or that lives and is being created,  *)
(* keeps its state, however the hooks, the loads, the prunes and restarts  *)
(* of the bot interleave: BoundStateKept (_remove_stale_window_states,     *)
(* _dead_session_map_entries), unless a window appears inside a cycle.     *)
THEOREM BoundStatesAreKept ==
  ASSUME "pruneRace" \notin SmHazards
  PROVE  SmSpec => BoundStateKept
<1>1. SmInit => MapTypes /\ ListingCovers
  BY MapBegins DEF SmInit, ListingCovers, IdleCycle
<1>2. MapTypes /\ ListingCovers /\ [SmNext]_smVars => MapTypes' /\ ListingCovers'
  BY TypesKept, CoversKept
<1>3. MapTypes /\ ListingCovers /\ [SmNext]_smVars
        => [\A w \in Wanted \cap Wanted' : smState[w] # Absent => smState'[w] # Absent]_smVars
  BY StatesStay
<1> QED
  BY <1>1, <1>2, <1>3, PTL DEF SmSpec, BoundStateKept

----------------------------------------------------------------------------
(* A window that opens is new to every store; a listing, a topic and a     *)
(* probe are about windows that have opened                                *)
NewIsBlank ==
  /\ \A w \in Windows : smLife[w] = "new" =>
       /\ smFile[w] = NoSession /\ smMon.raw[w] = NoSession /\ smState[w] = Absent
       /\ w \notin smBound \cup smCreating \cup smMon.listed
  /\ smProbe # NoProbe => smLife[smProbe.window] # "new"

(* The raw map belongs to the rest of its cycle, the events to its start   *)
CycleClean ==
  /\ smMon.pc \in {"idle", "listed"} => \A w \in Windows : smMon.raw[w] = NoSession
  /\ smMon.pc \in {"loaded", "pruned"} => smPending = <<>>

(* Agents run in open windows, and what a hook has written stands          *)
AgentsLive ==
  /\ smHeard \subseteq AliveWindows
  /\ \A w \in Windows : smAgent[w] # NoSession => smLife[w] = "live"

(* A seed still names the agent of its window when it is written           *)
SeedHolds ==
  smProbe.kind = "seed" /\ smLife[smProbe.window] = "live" =>
    smAgent[smProbe.window] = smProbe.session

EndLogged(w, s) == \E i \in DOMAIN smLog : smLog[i].window = w /\ smLog[i].session = s
Owns(w, s) == smAgent[w] = s \/ EndLogged(w, s)

(* A session that a window runs or has ended is nobody else's              *)
Apart ==
  \A w, v \in Windows, s \in SmSessions : Owns(w, s) /\ v # w =>
    /\ ~Owns(v, s)
    /\ smLife[v] = "live" => s \notin {smFile[v], smState[v], smMon.raw[v]}

(* Once its window runs another, an ended session is gone from the map     *)
Succeeded ==
  \A w \in Windows, s \in SmSessions :
    EndLogged(w, s) /\ smAgent[w] \notin {NoSession, s} =>
      smFile[w] # s /\ smMon.raw[w] # s

(* An event that waits has been logged *)
PendingLogged ==
  \A i \in DOMAIN smPending : EndLogged(smPending[i].window, smPending[i].session)

(* A session whose end was handled ran, runs no more, and no window that   *)
(* runs an agent keeps it in its state                                     *)
EndsAreDone ==
  \A s \in smEnded :
    /\ \A w \in Windows : smAgent[w] # s
    /\ \E w \in Windows : EndLogged(w, s)
    /\ \A w \in Windows : smAgent[w] # NoSession => smState[w] # s

SessionsInOrder ==
  /\ MapTypes /\ ListingCovers /\ NewIsBlank /\ CycleClean /\ AgentsLive
  /\ HookEntrySurvives /\ EventsNotLost /\ SeedHolds
  /\ Apart /\ Succeeded /\ PendingLogged /\ EndsAreDone

LEMMA LogGrows ==
  ASSUME MapTypes, NEW w \in Windows, NEW s \in SmSessions,
         smLog' = Append(smLog, [window |-> w, session |-> s])
  PROVE  \A v \in Windows, t \in SmSessions :
           EndLogged(v, t)' <=> EndLogged(v, t) \/ (v = w /\ t = s)
<1> DEFINE e == [window |-> w, session |-> s]
           E == Ends
<1>1. e \in E /\ smLog \in Seq(E) /\ e.window = w /\ e.session = s
  BY DEF MapTypes, Ends
<1> HIDE DEF e, E
<1>2. /\ DOMAIN smLog = 1..Len(smLog) /\ Len(smLog) \in Nat
      /\ DOMAIN smLog' = 1..(Len(smLog) + 1) /\ smLog'[Len(smLog) + 1] = e
      /\ \A i \in 1..Len(smLog) : smLog'[i] = smLog[i]
  BY <1>1 DEF e
<1> QED
  BY <1>1, <1>2 DEF EndLogged

LEMMA LogStays ==
  ASSUME smLog' = smLog
  PROVE  \A v, t : EndLogged(v, t)' <=> EndLogged(v, t)
  BY DEF EndLogged

LEMMA OrderBegins == SmInit => SessionsInOrder
<1> SUFFICES ASSUME SmInit PROVE SessionsInOrder
  OBVIOUS
<1>1. MapTypes
  BY MapBegins
<1>2. /\ smMon.pc = "idle" /\ ~smMon.ok /\ smMon.listed = {} /\ smProbe.kind = "none"
      /\ \A w \in Windows : smMon.raw[w] = NoSession
  BY DEF SmInit, IdleCycle, NoProbe
<1>3. DOMAIN smLog = {} /\ DOMAIN smPending = {} /\ Len(smPending) = 0
  BY DEF SmInit
<1>4. \A w \in Windows, s \in SmSessions : ~EndLogged(w, s) /\ ~Owns(w, s)
  BY <1>3, SessionsNamed DEF EndLogged, Owns, SmInit
<1>5. ListingCovers /\ NewIsBlank /\ CycleClean /\ AgentsLive
  BY <1>2 DEF SmInit, ListingCovers, NewIsBlank, CycleClean, AgentsLive
<1>6. HookEntrySurvives /\ EventsNotLost /\ SeedHolds /\ PendingLogged /\ EndsAreDone
  BY <1>2, <1>3 DEF SmInit, HookEntrySurvives, EventsNotLost, SeedHolds, PendingLogged,
     EndsAreDone
<1>7. Apart /\ Succeeded
  BY <1>4 DEF Apart, Succeeded, Owns
<1> QED
  BY <1>1, <1>5, <1>6, <1>7 DEF SessionsInOrder

LEMMA NewKept ==
  ASSUME SmHazards = {}, SessionsInOrder, [SmNext]_smVars
  PROVE  NewIsBlank'
<1>0. /\ smMon \in Cycles /\ smProbe \in Probes /\ smHeard \subseteq Windows
      /\ smFile \in [Windows -> Named] /\ smAgent \in [Windows -> Named]
      /\ smLife \in [Windows -> {"new", "live", "dead"}]
      /\ smState \in [Windows -> SmSessions \cup {Unset, Absent}]
      /\ smBound \subseteq Windows /\ smCreating \subseteq Windows
      /\ \A w \in Windows : smMon.raw[w] \in Named
      /\ SmSessions \cap {Unset, Absent, NoSession} = {}
  BY SessionsNamed DEF SessionsInOrder, MapTypes, Cycles
<1>a. MapTypes /\ smFile \in [Windows -> Named] /\ smMon.raw \in [Windows -> Named]
  BY <1>0 DEF SessionsInOrder, Cycles
<1>1. ASSUME NEW w \in Windows, OpenWindow(w)
      PROVE  NewIsBlank'
  BY <1>1, <1>0 DEF OpenWindow, Step, MayAppear, smWorld, smEvents, smBot,
     SessionsInOrder, NewIsBlank, AgentsLive, Cycles, Probes, NoProbe, Named,
     IdleCycle, AliveWindows
<1>2. ASSUME NEW w \in Windows, WindowOpens(w)
      PROVE  NewIsBlank'
  BY <1>2, <1>0 DEF WindowOpens, Step, MayAppear, smWorld, smEvents, smBot,
     SessionsInOrder, NewIsBlank, AgentsLive, Cycles, Probes, NoProbe, Named,
     IdleCycle, AliveWindows
<1>3. ASSUME NEW w \in Windows, WindowCloses(w)
      PROVE  NewIsBlank'
  BY <1>3, <1>0 DEF WindowCloses, Step, smWorld, smEvents, smBot,
     SessionsInOrder, NewIsBlank, AgentsLive, Cycles, Probes, NoProbe, Named,
     IdleCycle, AliveWindows
<1>4. ASSUME NEW w \in Windows, FinishCreate(w)
      PROVE  NewIsBlank'
  <2>1. /\ smLife' = smLife /\ smFile' = smFile /\ smProbe' = smProbe
        /\ smMon'.raw = smMon.raw /\ smMon'.listed = smMon.listed
    BY <1>4, <1>0 DEF FinishCreate, smWorld, Cycles
  <2>2. \A v \in Windows : smLife[v] = "new" => smState'[v] = Absent
    BY <1>4, <1>0, <1>a, LoadedIsEither DEF FinishCreate, SessionsInOrder, NewIsBlank
  <2> QED
    BY <1>4, <1>0, <2>1, <2>2 DEF FinishCreate, SessionsInOrder, NewIsBlank
<1>5. ASSUME NEW w \in Windows, UnbindWindow(w)
      PROVE  NewIsBlank'
  BY <1>5, <1>0 DEF UnbindWindow, Step, smWorld, smEvents, smBot,
     SessionsInOrder, NewIsBlank, AgentsLive, Cycles, Probes, NoProbe, Named,
     IdleCycle, AliveWindows
<1>6. ASSUME NEW w \in Windows, AdoptWindow(w)
      PROVE  NewIsBlank'
  BY <1>6, <1>0 DEF AdoptWindow, smWorld, smEvents, smBot, SessionsInOrder,
     NewIsBlank, AgentsLive, Cycles, Probes, NoProbe, Named, IdleCycle,
     AliveWindows
<1>7. ASSUME NEW w \in Windows, EndAgent(w)
      PROVE  NewIsBlank'
  BY <1>7, <1>0 DEF EndAgent, Step, SeedWritten, smWorld, smEvents, smBot,
     SessionsInOrder, NewIsBlank, AgentsLive, Cycles, Probes, NoProbe, Named,
     IdleCycle, AliveWindows
<1>8. ASSUME NEW w \in Windows, BeginBootstrap(w)
      PROVE  NewIsBlank'
  BY <1>8, <1>0 DEF BeginBootstrap, smWorld, smEvents, smBot, SessionsInOrder,
     NewIsBlank, AgentsLive, Cycles, Probes, NoProbe, Named, IdleCycle,
     AliveWindows
<1>9. ASSUME NEW w \in Windows, SeedSession(w)
      PROVE  NewIsBlank'
  BY <1>9, <1>0 DEF SeedSession, smWorld, smEvents, smBot, SessionsInOrder,
     NewIsBlank, AgentsLive, Cycles, Probes, NoProbe, Named, IdleCycle,
     AliveWindows
<1>10. ASSUME NEW w \in Windows, NEW s \in SmSessions, RestartAgent(w, s)
      PROVE  NewIsBlank'
  BY <1>10, <1>0 DEF RestartAgent, Step, Starts, SeedWritten, smWorld,
     smEvents, smBot, SessionsInOrder, NewIsBlank, AgentsLive, Cycles, Probes,
     NoProbe, Named, IdleCycle, AliveWindows
<1>11. ASSUME NEW w \in Windows, NEW s \in SmSessions, FireHook(w, s)
      PROVE  NewIsBlank'
  BY <1>11, <1>0 DEF FireHook, Step, smWorld, smEvents, smBot,
     SessionsInOrder, NewIsBlank, AgentsLive, Cycles, Probes, NoProbe, Named,
     IdleCycle, AliveWindows
<1>12. ASSUME NEW w \in Windows, NEW s \in SmSessions, NEW hooked \in BOOLEAN, StartAgent(w, s, hooked)
      PROVE  NewIsBlank'
  BY <1>12, <1>0 DEF StartAgent, Step, Starts, SeedWritten, smWorld, smEvents,
     smBot, SessionsInOrder, NewIsBlank, AgentsLive, Cycles, Probes, NoProbe,
     Named, IdleCycle, AliveWindows
<1>13. ASSUME NEW s \in SmSessions, WriteTranscript(s)
      PROVE  NewIsBlank'
  BY <1>13, <1>0 DEF WriteTranscript, Step, smWorld, smEvents, smBot,
     SessionsInOrder, NewIsBlank, AgentsLive, Cycles, Probes, NoProbe, Named,
     IdleCycle, AliveWindows
<1>14. ASSUME NEW ok \in BOOLEAN, ListLive(ok)
      PROVE  NewIsBlank'
  BY <1>14, <1>0 DEF ListLive, smWorld, smEvents, smBot, SessionsInOrder,
     NewIsBlank, AgentsLive, Cycles, Probes, NoProbe, Named, IdleCycle,
     AliveWindows
<1>15. CASE GraceLapses
  BY <1>15, <1>0 DEF GraceLapses, Step, smWorld, smEvents, smBot,
     SessionsInOrder, NewIsBlank, AgentsLive, Cycles, Probes, NoProbe, Named,
     IdleCycle, AliveWindows
<1>16. CASE ReadMap
  BY <1>16, <1>0 DEF ReadMap, smWorld, smEvents, smBot, SessionsInOrder,
     NewIsBlank, AgentsLive, Cycles, Probes, NoProbe, Named, IdleCycle,
     AliveWindows
<1>17. CASE TakeEvents
  BY <1>17, <1>0 DEF TakeEvents, smWorld, smEvents, smBot, SessionsInOrder,
     NewIsBlank, AgentsLive, Cycles, Probes, NoProbe, Named, IdleCycle,
     AliveWindows
<1>18. CASE DispatchEnd
  BY <1>18, <1>0 DEF DispatchEnd, smWorld, smEvents, smBot, SessionsInOrder,
     NewIsBlank, AgentsLive, Cycles, Probes, NoProbe, Named, IdleCycle,
     AliveWindows
<1>19. CASE LoadAndReconcile
  <2>1. /\ smLife' = smLife /\ smFile' = smFile /\ smProbe' = smProbe
        /\ smMon'.raw = smMon.raw /\ smMon'.listed = smMon.listed
    BY <1>19, <1>0 DEF LoadAndReconcile, smWorld, Cycles
  <2>2. \A v \in Windows : smLife[v] = "new" => smState'[v] = Absent
    BY <1>19, <1>0, <1>a, LoadedIsEither DEF LoadAndReconcile, SessionsInOrder, NewIsBlank
  <2> QED
    BY <1>19, <1>0, <2>1, <2>2 DEF LoadAndReconcile, SessionsInOrder, NewIsBlank
<1>20. CASE PruneMap
  BY <1>20, <1>0 DEF PruneMap, smWorld, smEvents, smBot, SessionsInOrder,
     NewIsBlank, AgentsLive, Cycles, Probes, NoProbe, Named, IdleCycle,
     AliveWindows
<1>21. CASE CheckUpdates
  BY <1>21, <1>0 DEF CheckUpdates, smWorld, smEvents, smBot, SessionsInOrder,
     NewIsBlank, AgentsLive, Cycles, Probes, NoProbe, Named, IdleCycle,
     AliveWindows
<1>22. CASE SaveMidCycle
  BY <1>22, <1>0 DEF SaveMidCycle, smWorld, smEvents, smBot, SessionsInOrder,
     NewIsBlank, AgentsLive, Cycles, Probes, NoProbe, Named, IdleCycle,
     AliveWindows
<1>23. CASE RestartBot
  BY <1>23, <1>0 DEF RestartBot, smWorld, smEvents, smBot, SessionsInOrder,
     NewIsBlank, AgentsLive, Cycles, Probes, NoProbe, Named, IdleCycle,
     AliveWindows
<1>24. CASE EndBootstrap
  BY <1>24, <1>0 DEF EndBootstrap, smWorld, smEvents, smBot, SessionsInOrder,
     NewIsBlank, AgentsLive, Cycles, Probes, NoProbe, Named, IdleCycle,
     AliveWindows
<1>25. CASE WriteSeed
  BY <1>25, <1>0 DEF WriteSeed, smWorld, smEvents, smBot, SessionsInOrder,
     NewIsBlank, AgentsLive, Cycles, Probes, NoProbe, Named, IdleCycle,
     AliveWindows
<1>26. CASE UNCHANGED smVars
  BY <1>26, <1>0 DEF smVars, smWorld, smEvents, smBot, SessionsInOrder,
     NewIsBlank, AgentsLive, Cycles, Probes, NoProbe, Named, IdleCycle,
     AliveWindows
<1> QED
  BY <1>1, <1>2, <1>3, <1>4, <1>5, <1>6, <1>7, <1>8, <1>9, <1>10, <1>11,
     <1>12, <1>13, <1>14, <1>15, <1>16, <1>17, <1>18, <1>19, <1>20, <1>21,
     <1>22, <1>23, <1>24, <1>25, <1>26 DEF SmNext

LEMMA CleanKept ==
  ASSUME SmHazards = {}, SessionsInOrder, [SmNext]_smVars
  PROVE  CycleClean'
<1>0. /\ smMon \in Cycles /\ smProbe \in Probes /\ smHeard \subseteq Windows
      /\ smFile \in [Windows -> Named] /\ smAgent \in [Windows -> Named]
      /\ smLife \in [Windows -> {"new", "live", "dead"}]
      /\ smState \in [Windows -> SmSessions \cup {Unset, Absent}]
      /\ smBound \subseteq Windows /\ smCreating \subseteq Windows
      /\ \A w \in Windows : smMon.raw[w] \in Named
      /\ SmSessions \cap {Unset, Absent, NoSession} = {}
  BY SessionsNamed DEF SessionsInOrder, MapTypes, Cycles
<1>1. ASSUME NEW w \in Windows, OpenWindow(w)
      PROVE  CycleClean'
  BY <1>1, <1>0 DEF OpenWindow, Step, MayAppear, smWorld, smEvents, smBot,
     SessionsInOrder, CycleClean, Cycles, IdleCycle
<1>2. ASSUME NEW w \in Windows, WindowOpens(w)
      PROVE  CycleClean'
  BY <1>2, <1>0 DEF WindowOpens, Step, MayAppear, smWorld, smEvents, smBot,
     SessionsInOrder, CycleClean, Cycles, IdleCycle
<1>3. ASSUME NEW w \in Windows, WindowCloses(w)
      PROVE  CycleClean'
  BY <1>3, <1>0 DEF WindowCloses, Step, smWorld, smEvents, smBot,
     SessionsInOrder, CycleClean, Cycles, IdleCycle
<1>4. ASSUME NEW w \in Windows, FinishCreate(w)
      PROVE  CycleClean'
  BY <1>4, <1>0 DEF FinishCreate, smWorld, smEvents, smBot, SessionsInOrder,
     CycleClean, Cycles, IdleCycle
<1>5. ASSUME NEW w \in Windows, UnbindWindow(w)
      PROVE  CycleClean'
  BY <1>5, <1>0 DEF UnbindWindow, Step, smWorld, smEvents, smBot,
     SessionsInOrder, CycleClean, Cycles, IdleCycle
<1>6. ASSUME NEW w \in Windows, AdoptWindow(w)
      PROVE  CycleClean'
  BY <1>6, <1>0 DEF AdoptWindow, smWorld, smEvents, smBot, SessionsInOrder,
     CycleClean, Cycles, IdleCycle
<1>7. ASSUME NEW w \in Windows, EndAgent(w)
      PROVE  CycleClean'
  BY <1>7, <1>0 DEF EndAgent, Step, SeedWritten, smWorld, smEvents, smBot,
     SessionsInOrder, CycleClean, Cycles, IdleCycle
<1>8. ASSUME NEW w \in Windows, BeginBootstrap(w)
      PROVE  CycleClean'
  BY <1>8, <1>0 DEF BeginBootstrap, smWorld, smEvents, smBot, SessionsInOrder,
     CycleClean, Cycles, IdleCycle
<1>9. ASSUME NEW w \in Windows, SeedSession(w)
      PROVE  CycleClean'
  BY <1>9, <1>0 DEF SeedSession, smWorld, smEvents, smBot, SessionsInOrder,
     CycleClean, Cycles, IdleCycle
<1>10. ASSUME NEW w \in Windows, NEW s \in SmSessions, RestartAgent(w, s)
      PROVE  CycleClean'
  BY <1>10, <1>0 DEF RestartAgent, Step, Starts, SeedWritten, smWorld,
     smEvents, smBot, SessionsInOrder, CycleClean, Cycles, IdleCycle
<1>11. ASSUME NEW w \in Windows, NEW s \in SmSessions, FireHook(w, s)
      PROVE  CycleClean'
  BY <1>11, <1>0 DEF FireHook, Step, smWorld, smEvents, smBot,
     SessionsInOrder, CycleClean, Cycles, IdleCycle
<1>12. ASSUME NEW w \in Windows, NEW s \in SmSessions, NEW hooked \in BOOLEAN, StartAgent(w, s, hooked)
      PROVE  CycleClean'
  BY <1>12, <1>0 DEF StartAgent, Step, Starts, SeedWritten, smWorld, smEvents,
     smBot, SessionsInOrder, CycleClean, Cycles, IdleCycle
<1>13. ASSUME NEW s \in SmSessions, WriteTranscript(s)
      PROVE  CycleClean'
  BY <1>13, <1>0 DEF WriteTranscript, Step, smWorld, smEvents, smBot,
     SessionsInOrder, CycleClean, Cycles, IdleCycle
<1>14. ASSUME NEW ok \in BOOLEAN, ListLive(ok)
      PROVE  CycleClean'
  BY <1>14, <1>0 DEF ListLive, smWorld, smEvents, smBot, SessionsInOrder,
     CycleClean, Cycles, IdleCycle
<1>15. CASE GraceLapses
  BY <1>15, <1>0 DEF GraceLapses, Step, smWorld, smEvents, smBot,
     SessionsInOrder, CycleClean, Cycles, IdleCycle
<1>16. CASE ReadMap
  BY <1>16, <1>0 DEF ReadMap, smWorld, smEvents, smBot, SessionsInOrder,
     CycleClean, Cycles, IdleCycle
<1>17. CASE TakeEvents
  BY <1>17, <1>0 DEF TakeEvents, smWorld, smEvents, smBot, SessionsInOrder,
     CycleClean, Cycles, IdleCycle
<1>18. CASE DispatchEnd
  BY <1>18, <1>0 DEF DispatchEnd, smWorld, smEvents, smBot, SessionsInOrder,
     CycleClean, Cycles, IdleCycle
<1>19. CASE LoadAndReconcile
  BY <1>19, <1>0 DEF LoadAndReconcile, smWorld, smEvents, smBot,
     SessionsInOrder, CycleClean, Cycles, IdleCycle
<1>20. CASE PruneMap
  BY <1>20, <1>0 DEF PruneMap, smWorld, smEvents, smBot, SessionsInOrder,
     CycleClean, Cycles, IdleCycle
<1>21. CASE CheckUpdates
  BY <1>21, <1>0 DEF CheckUpdates, smWorld, smEvents, smBot, SessionsInOrder,
     CycleClean, Cycles, IdleCycle
<1>22. CASE SaveMidCycle
  BY <1>22, <1>0 DEF SaveMidCycle, smWorld, smEvents, smBot, SessionsInOrder,
     CycleClean, Cycles, IdleCycle
<1>23. CASE RestartBot
  BY <1>23, <1>0 DEF RestartBot, smWorld, smEvents, smBot, SessionsInOrder,
     CycleClean, Cycles, IdleCycle
<1>24. CASE EndBootstrap
  BY <1>24, <1>0 DEF EndBootstrap, smWorld, smEvents, smBot, SessionsInOrder,
     CycleClean, Cycles, IdleCycle
<1>25. CASE WriteSeed
  BY <1>25, <1>0 DEF WriteSeed, smWorld, smEvents, smBot, SessionsInOrder,
     CycleClean, Cycles, IdleCycle
<1>26. CASE UNCHANGED smVars
  BY <1>26, <1>0 DEF smVars, smWorld, smEvents, smBot, SessionsInOrder,
     CycleClean, Cycles, IdleCycle
<1> QED
  BY <1>1, <1>2, <1>3, <1>4, <1>5, <1>6, <1>7, <1>8, <1>9, <1>10, <1>11,
     <1>12, <1>13, <1>14, <1>15, <1>16, <1>17, <1>18, <1>19, <1>20, <1>21,
     <1>22, <1>23, <1>24, <1>25, <1>26 DEF SmNext

LEMMA AgentsKept ==
  ASSUME SmHazards = {}, SessionsInOrder, [SmNext]_smVars
  PROVE  AgentsLive'
<1>0. /\ smMon \in Cycles /\ smProbe \in Probes /\ smHeard \subseteq Windows
      /\ smFile \in [Windows -> Named] /\ smAgent \in [Windows -> Named]
      /\ smLife \in [Windows -> {"new", "live", "dead"}]
      /\ smState \in [Windows -> SmSessions \cup {Unset, Absent}]
      /\ smBound \subseteq Windows /\ smCreating \subseteq Windows
      /\ \A w \in Windows : smMon.raw[w] \in Named
      /\ SmSessions \cap {Unset, Absent, NoSession} = {}
  BY SessionsNamed DEF SessionsInOrder, MapTypes, Cycles
<1>1. ASSUME NEW w \in Windows, OpenWindow(w)
      PROVE  AgentsLive'
  BY <1>1, <1>0 DEF OpenWindow, Step, MayAppear, smWorld, smEvents, smBot,
     SessionsInOrder, AgentsLive, AliveWindows, Named, Cycles
<1>2. ASSUME NEW w \in Windows, WindowOpens(w)
      PROVE  AgentsLive'
  BY <1>2, <1>0 DEF WindowOpens, Step, MayAppear, smWorld, smEvents, smBot,
     SessionsInOrder, AgentsLive, AliveWindows, Named, Cycles
<1>3. ASSUME NEW w \in Windows, WindowCloses(w)
      PROVE  AgentsLive'
  BY <1>3, <1>0 DEF WindowCloses, Step, smWorld, smEvents, smBot,
     SessionsInOrder, AgentsLive, AliveWindows, Named, Cycles
<1>4. ASSUME NEW w \in Windows, FinishCreate(w)
      PROVE  AgentsLive'
  BY <1>4, <1>0 DEF FinishCreate, smWorld, smEvents, smBot, SessionsInOrder,
     AgentsLive, AliveWindows, Named, Cycles
<1>5. ASSUME NEW w \in Windows, UnbindWindow(w)
      PROVE  AgentsLive'
  BY <1>5, <1>0 DEF UnbindWindow, Step, smWorld, smEvents, smBot,
     SessionsInOrder, AgentsLive, AliveWindows, Named, Cycles
<1>6. ASSUME NEW w \in Windows, AdoptWindow(w)
      PROVE  AgentsLive'
  BY <1>6, <1>0 DEF AdoptWindow, smWorld, smEvents, smBot, SessionsInOrder,
     AgentsLive, AliveWindows, Named, Cycles
<1>7. ASSUME NEW w \in Windows, EndAgent(w)
      PROVE  AgentsLive'
  BY <1>7, <1>0 DEF EndAgent, Step, SeedWritten, smWorld, smEvents, smBot,
     SessionsInOrder, AgentsLive, AliveWindows, Named, Cycles
<1>8. ASSUME NEW w \in Windows, BeginBootstrap(w)
      PROVE  AgentsLive'
  BY <1>8, <1>0 DEF BeginBootstrap, smWorld, smEvents, smBot, SessionsInOrder,
     AgentsLive, AliveWindows, Named, Cycles
<1>9. ASSUME NEW w \in Windows, SeedSession(w)
      PROVE  AgentsLive'
  BY <1>9, <1>0 DEF SeedSession, smWorld, smEvents, smBot, SessionsInOrder,
     AgentsLive, AliveWindows, Named, Cycles
<1>10. ASSUME NEW w \in Windows, NEW s \in SmSessions, RestartAgent(w, s)
      PROVE  AgentsLive'
  BY <1>10, <1>0 DEF RestartAgent, Step, Starts, SeedWritten, smWorld,
     smEvents, smBot, SessionsInOrder, AgentsLive, AliveWindows, Named, Cycles
<1>11. ASSUME NEW w \in Windows, NEW s \in SmSessions, FireHook(w, s)
      PROVE  AgentsLive'
  BY <1>11, <1>0 DEF FireHook, Step, smWorld, smEvents, smBot,
     SessionsInOrder, AgentsLive, AliveWindows, Named, Cycles
<1>12. ASSUME NEW w \in Windows, NEW s \in SmSessions, NEW hooked \in BOOLEAN, StartAgent(w, s, hooked)
      PROVE  AgentsLive'
  BY <1>12, <1>0 DEF StartAgent, Step, Starts, SeedWritten, smWorld, smEvents,
     smBot, SessionsInOrder, AgentsLive, AliveWindows, Named, Cycles
<1>13. ASSUME NEW s \in SmSessions, WriteTranscript(s)
      PROVE  AgentsLive'
  BY <1>13, <1>0 DEF WriteTranscript, Step, smWorld, smEvents, smBot,
     SessionsInOrder, AgentsLive, AliveWindows, Named, Cycles
<1>14. ASSUME NEW ok \in BOOLEAN, ListLive(ok)
      PROVE  AgentsLive'
  BY <1>14, <1>0 DEF ListLive, smWorld, smEvents, smBot, SessionsInOrder,
     AgentsLive, AliveWindows, Named, Cycles
<1>15. CASE GraceLapses
  BY <1>15, <1>0 DEF GraceLapses, Step, smWorld, smEvents, smBot,
     SessionsInOrder, AgentsLive, AliveWindows, Named, Cycles
<1>16. CASE ReadMap
  BY <1>16, <1>0 DEF ReadMap, smWorld, smEvents, smBot, SessionsInOrder,
     AgentsLive, AliveWindows, Named, Cycles
<1>17. CASE TakeEvents
  BY <1>17, <1>0 DEF TakeEvents, smWorld, smEvents, smBot, SessionsInOrder,
     AgentsLive, AliveWindows, Named, Cycles
<1>18. CASE DispatchEnd
  BY <1>18, <1>0 DEF DispatchEnd, smWorld, smEvents, smBot, SessionsInOrder,
     AgentsLive, AliveWindows, Named, Cycles
<1>19. CASE LoadAndReconcile
  BY <1>19, <1>0 DEF LoadAndReconcile, smWorld, smEvents, smBot,
     SessionsInOrder, AgentsLive, AliveWindows, Named, Cycles
<1>20. CASE PruneMap
  BY <1>20, <1>0 DEF PruneMap, smWorld, smEvents, smBot, SessionsInOrder,
     AgentsLive, AliveWindows, Named, Cycles
<1>21. CASE CheckUpdates
  BY <1>21, <1>0 DEF CheckUpdates, smWorld, smEvents, smBot, SessionsInOrder,
     AgentsLive, AliveWindows, Named, Cycles
<1>22. CASE SaveMidCycle
  BY <1>22, <1>0 DEF SaveMidCycle, smWorld, smEvents, smBot, SessionsInOrder,
     AgentsLive, AliveWindows, Named, Cycles
<1>23. CASE RestartBot
  BY <1>23, <1>0 DEF RestartBot, smWorld, smEvents, smBot, SessionsInOrder,
     AgentsLive, AliveWindows, Named, Cycles
<1>24. CASE EndBootstrap
  BY <1>24, <1>0 DEF EndBootstrap, smWorld, smEvents, smBot, SessionsInOrder,
     AgentsLive, AliveWindows, Named, Cycles
<1>25. CASE WriteSeed
  BY <1>25, <1>0 DEF WriteSeed, smWorld, smEvents, smBot, SessionsInOrder,
     AgentsLive, AliveWindows, Named, Cycles
<1>26. CASE UNCHANGED smVars
  BY <1>26, <1>0 DEF smVars, smWorld, smEvents, smBot, SessionsInOrder,
     AgentsLive, AliveWindows, Named, Cycles
<1> QED
  BY <1>1, <1>2, <1>3, <1>4, <1>5, <1>6, <1>7, <1>8, <1>9, <1>10, <1>11,
     <1>12, <1>13, <1>14, <1>15, <1>16, <1>17, <1>18, <1>19, <1>20, <1>21,
     <1>22, <1>23, <1>24, <1>25, <1>26 DEF SmNext

LEMMA EntriesKept ==
  ASSUME SmHazards = {}, SessionsInOrder, [SmNext]_smVars
  PROVE  HookEntrySurvives'
<1>0. /\ smMon \in Cycles /\ smProbe \in Probes /\ smHeard \subseteq Windows
      /\ smFile \in [Windows -> Named] /\ smAgent \in [Windows -> Named]
      /\ smLife \in [Windows -> {"new", "live", "dead"}]
      /\ smState \in [Windows -> SmSessions \cup {Unset, Absent}]
      /\ smBound \subseteq Windows /\ smCreating \subseteq Windows
      /\ \A w \in Windows : smMon.raw[w] \in Named
      /\ SmSessions \cap {Unset, Absent, NoSession} = {}
  BY SessionsNamed DEF SessionsInOrder, MapTypes, Cycles
<1>1. ASSUME NEW w \in Windows, OpenWindow(w)
      PROVE  HookEntrySurvives'
  BY <1>1, <1>0 DEF OpenWindow, Step, MayAppear, smWorld, smEvents, smBot,
     SessionsInOrder, HookEntrySurvives, AgentsLive, ListingCovers,
     AliveWindows, Named, Probes, NoProbe, Cycles
<1>2. ASSUME NEW w \in Windows, WindowOpens(w)
      PROVE  HookEntrySurvives'
  BY <1>2, <1>0 DEF WindowOpens, Step, MayAppear, smWorld, smEvents, smBot,
     SessionsInOrder, HookEntrySurvives, AgentsLive, ListingCovers,
     AliveWindows, Named, Probes, NoProbe, Cycles
<1>3. ASSUME NEW w \in Windows, WindowCloses(w)
      PROVE  HookEntrySurvives'
  BY <1>3, <1>0 DEF WindowCloses, Step, smWorld, smEvents, smBot,
     SessionsInOrder, HookEntrySurvives, AgentsLive, ListingCovers,
     AliveWindows, Named, Probes, NoProbe, Cycles
<1>4. ASSUME NEW w \in Windows, FinishCreate(w)
      PROVE  HookEntrySurvives'
  BY <1>4, <1>0 DEF FinishCreate, smWorld, smEvents, smBot, SessionsInOrder,
     HookEntrySurvives, AgentsLive, ListingCovers, AliveWindows, Named,
     Probes, NoProbe, Cycles
<1>5. ASSUME NEW w \in Windows, UnbindWindow(w)
      PROVE  HookEntrySurvives'
  BY <1>5, <1>0 DEF UnbindWindow, Step, smWorld, smEvents, smBot,
     SessionsInOrder, HookEntrySurvives, AgentsLive, ListingCovers,
     AliveWindows, Named, Probes, NoProbe, Cycles
<1>6. ASSUME NEW w \in Windows, AdoptWindow(w)
      PROVE  HookEntrySurvives'
  BY <1>6, <1>0 DEF AdoptWindow, smWorld, smEvents, smBot, SessionsInOrder,
     HookEntrySurvives, AgentsLive, ListingCovers, AliveWindows, Named,
     Probes, NoProbe, Cycles
<1>7. ASSUME NEW w \in Windows, EndAgent(w)
      PROVE  HookEntrySurvives'
  BY <1>7, <1>0 DEF EndAgent, Step, SeedWritten, smWorld, smEvents, smBot,
     SessionsInOrder, HookEntrySurvives, AgentsLive, ListingCovers,
     AliveWindows, Named, Probes, NoProbe, Cycles
<1>8. ASSUME NEW w \in Windows, BeginBootstrap(w)
      PROVE  HookEntrySurvives'
  BY <1>8, <1>0 DEF BeginBootstrap, smWorld, smEvents, smBot, SessionsInOrder,
     HookEntrySurvives, AgentsLive, ListingCovers, AliveWindows, Named,
     Probes, NoProbe, Cycles
<1>9. ASSUME NEW w \in Windows, SeedSession(w)
      PROVE  HookEntrySurvives'
  BY <1>9, <1>0 DEF SeedSession, smWorld, smEvents, smBot, SessionsInOrder,
     HookEntrySurvives, AgentsLive, ListingCovers, AliveWindows, Named,
     Probes, NoProbe, Cycles
<1>10. ASSUME NEW w \in Windows, NEW s \in SmSessions, RestartAgent(w, s)
      PROVE  HookEntrySurvives'
  BY <1>10, <1>0 DEF RestartAgent, Step, Starts, SeedWritten, smWorld,
     smEvents, smBot, SessionsInOrder, HookEntrySurvives, AgentsLive,
     ListingCovers, AliveWindows, Named, Probes, NoProbe, Cycles
<1>11. ASSUME NEW w \in Windows, NEW s \in SmSessions, FireHook(w, s)
      PROVE  HookEntrySurvives'
  BY <1>11, <1>0 DEF FireHook, Step, smWorld, smEvents, smBot,
     SessionsInOrder, HookEntrySurvives, AgentsLive, ListingCovers,
     AliveWindows, Named, Probes, NoProbe, Cycles
<1>12. ASSUME NEW w \in Windows, NEW s \in SmSessions, NEW hooked \in BOOLEAN, StartAgent(w, s, hooked)
      PROVE  HookEntrySurvives'
  BY <1>12, <1>0 DEF StartAgent, Step, Starts, SeedWritten, smWorld, smEvents,
     smBot, SessionsInOrder, HookEntrySurvives, AgentsLive, ListingCovers,
     AliveWindows, Named, Probes, NoProbe, Cycles
<1>13. ASSUME NEW s \in SmSessions, WriteTranscript(s)
      PROVE  HookEntrySurvives'
  BY <1>13, <1>0 DEF WriteTranscript, Step, smWorld, smEvents, smBot,
     SessionsInOrder, HookEntrySurvives, AgentsLive, ListingCovers,
     AliveWindows, Named, Probes, NoProbe, Cycles
<1>14. ASSUME NEW ok \in BOOLEAN, ListLive(ok)
      PROVE  HookEntrySurvives'
  BY <1>14, <1>0 DEF ListLive, smWorld, smEvents, smBot, SessionsInOrder,
     HookEntrySurvives, AgentsLive, ListingCovers, AliveWindows, Named,
     Probes, NoProbe, Cycles
<1>15. CASE GraceLapses
  BY <1>15, <1>0 DEF GraceLapses, Step, smWorld, smEvents, smBot,
     SessionsInOrder, HookEntrySurvives, AgentsLive, ListingCovers,
     AliveWindows, Named, Probes, NoProbe, Cycles
<1>16. CASE ReadMap
  BY <1>16, <1>0 DEF ReadMap, smWorld, smEvents, smBot, SessionsInOrder,
     HookEntrySurvives, AgentsLive, ListingCovers, AliveWindows, Named,
     Probes, NoProbe, Cycles
<1>17. CASE TakeEvents
  BY <1>17, <1>0 DEF TakeEvents, smWorld, smEvents, smBot, SessionsInOrder,
     HookEntrySurvives, AgentsLive, ListingCovers, AliveWindows, Named,
     Probes, NoProbe, Cycles
<1>18. CASE DispatchEnd
  BY <1>18, <1>0 DEF DispatchEnd, smWorld, smEvents, smBot, SessionsInOrder,
     HookEntrySurvives, AgentsLive, ListingCovers, AliveWindows, Named,
     Probes, NoProbe, Cycles
<1>19. CASE LoadAndReconcile
  BY <1>19, <1>0 DEF LoadAndReconcile, smWorld, smEvents, smBot,
     SessionsInOrder, HookEntrySurvives, AgentsLive, ListingCovers,
     AliveWindows, Named, Probes, NoProbe, Cycles
<1>20. CASE PruneMap
  <2>1. ASSUME smMon.ok, NEW w \in smHeard PROVE w \notin DeadEntries
    BY <1>20, <1>0, <2>1 DEF PruneMap, SessionsInOrder, AgentsLive, ListingCovers, DeadEntries
  <2> QED
    BY <1>20, <1>0, <2>1 DEF PruneMap, smWorld, SessionsInOrder, HookEntrySurvives
<1>21. CASE CheckUpdates
  BY <1>21, <1>0 DEF CheckUpdates, smWorld, smEvents, smBot, SessionsInOrder,
     HookEntrySurvives, AgentsLive, ListingCovers, AliveWindows, Named,
     Probes, NoProbe, Cycles
<1>22. CASE SaveMidCycle
  BY <1>22, <1>0 DEF SaveMidCycle, smWorld, smEvents, smBot, SessionsInOrder,
     HookEntrySurvives, AgentsLive, ListingCovers, AliveWindows, Named,
     Probes, NoProbe, Cycles
<1>23. CASE RestartBot
  BY <1>23, <1>0 DEF RestartBot, smWorld, smEvents, smBot, SessionsInOrder,
     HookEntrySurvives, AgentsLive, ListingCovers, AliveWindows, Named,
     Probes, NoProbe, Cycles
<1>24. CASE EndBootstrap
  BY <1>24, <1>0 DEF EndBootstrap, smWorld, smEvents, smBot, SessionsInOrder,
     HookEntrySurvives, AgentsLive, ListingCovers, AliveWindows, Named,
     Probes, NoProbe, Cycles
<1>25. CASE WriteSeed
  BY <1>25, <1>0 DEF WriteSeed, smWorld, smEvents, smBot, SessionsInOrder,
     HookEntrySurvives, AgentsLive, ListingCovers, AliveWindows, Named,
     Probes, NoProbe, Cycles
<1>26. CASE UNCHANGED smVars
  BY <1>26, <1>0 DEF smVars, smWorld, smEvents, smBot, SessionsInOrder,
     HookEntrySurvives, AgentsLive, ListingCovers, AliveWindows, Named,
     Probes, NoProbe, Cycles
<1> QED
  BY <1>1, <1>2, <1>3, <1>4, <1>5, <1>6, <1>7, <1>8, <1>9, <1>10, <1>11,
     <1>12, <1>13, <1>14, <1>15, <1>16, <1>17, <1>18, <1>19, <1>20, <1>21,
     <1>22, <1>23, <1>24, <1>25, <1>26 DEF SmNext

LEMMA EventsKept ==
  ASSUME SmHazards = {}, SessionsInOrder, [SmNext]_smVars
  PROVE  EventsNotLost'
<1>0. /\ smMon \in Cycles /\ smProbe \in Probes /\ smHeard \subseteq Windows
      /\ smFile \in [Windows -> Named] /\ smAgent \in [Windows -> Named]
      /\ smLife \in [Windows -> {"new", "live", "dead"}]
      /\ smState \in [Windows -> SmSessions \cup {Unset, Absent}]
      /\ smBound \subseteq Windows /\ smCreating \subseteq Windows
      /\ \A w \in Windows : smMon.raw[w] \in Named
      /\ SmSessions \cap {Unset, Absent, NoSession} = {}
  BY SessionsNamed DEF SessionsInOrder, MapTypes, Cycles
<1>1. ASSUME NEW w \in Windows, OpenWindow(w)
      PROVE  EventsNotLost'
  BY <1>1, <1>0 DEF OpenWindow, Step, MayAppear, smWorld, smEvents, smBot,
     SessionsInOrder, EventsNotLost, CycleClean, MapTypes, Cycles
<1>2. ASSUME NEW w \in Windows, WindowOpens(w)
      PROVE  EventsNotLost'
  BY <1>2, <1>0 DEF WindowOpens, Step, MayAppear, smWorld, smEvents, smBot,
     SessionsInOrder, EventsNotLost, CycleClean, MapTypes, Cycles
<1>3. ASSUME NEW w \in Windows, WindowCloses(w)
      PROVE  EventsNotLost'
  BY <1>3, <1>0 DEF WindowCloses, Step, smWorld, smEvents, smBot,
     SessionsInOrder, EventsNotLost, CycleClean, MapTypes, Cycles
<1>4. ASSUME NEW w \in Windows, FinishCreate(w)
      PROVE  EventsNotLost'
  BY <1>4, <1>0 DEF FinishCreate, smWorld, smEvents, smBot, SessionsInOrder,
     EventsNotLost, CycleClean, MapTypes, Cycles
<1>5. ASSUME NEW w \in Windows, UnbindWindow(w)
      PROVE  EventsNotLost'
  BY <1>5, <1>0 DEF UnbindWindow, Step, smWorld, smEvents, smBot,
     SessionsInOrder, EventsNotLost, CycleClean, MapTypes, Cycles
<1>6. ASSUME NEW w \in Windows, AdoptWindow(w)
      PROVE  EventsNotLost'
  BY <1>6, <1>0 DEF AdoptWindow, smWorld, smEvents, smBot, SessionsInOrder,
     EventsNotLost, CycleClean, MapTypes, Cycles
<1>7. ASSUME NEW w \in Windows, EndAgent(w)
      PROVE  EventsNotLost'
  BY <1>7, <1>0 DEF EndAgent, Step, SeedWritten, smWorld, smEvents, smBot,
     SessionsInOrder, EventsNotLost, CycleClean, MapTypes, Cycles
<1>8. ASSUME NEW w \in Windows, BeginBootstrap(w)
      PROVE  EventsNotLost'
  BY <1>8, <1>0 DEF BeginBootstrap, smWorld, smEvents, smBot, SessionsInOrder,
     EventsNotLost, CycleClean, MapTypes, Cycles
<1>9. ASSUME NEW w \in Windows, SeedSession(w)
      PROVE  EventsNotLost'
  BY <1>9, <1>0 DEF SeedSession, smWorld, smEvents, smBot, SessionsInOrder,
     EventsNotLost, CycleClean, MapTypes, Cycles
<1>10. ASSUME NEW w \in Windows, NEW s \in SmSessions, RestartAgent(w, s)
      PROVE  EventsNotLost'
  BY <1>10, <1>0 DEF RestartAgent, Step, Starts, SeedWritten, smWorld,
     smEvents, smBot, SessionsInOrder, EventsNotLost, CycleClean, MapTypes,
     Cycles
<1>11. ASSUME NEW w \in Windows, NEW s \in SmSessions, FireHook(w, s)
      PROVE  EventsNotLost'
  BY <1>11, <1>0 DEF FireHook, Step, smWorld, smEvents, smBot,
     SessionsInOrder, EventsNotLost, CycleClean, MapTypes, Cycles
<1>12. ASSUME NEW w \in Windows, NEW s \in SmSessions, NEW hooked \in BOOLEAN, StartAgent(w, s, hooked)
      PROVE  EventsNotLost'
  BY <1>12, <1>0 DEF StartAgent, Step, Starts, SeedWritten, smWorld, smEvents,
     smBot, SessionsInOrder, EventsNotLost, CycleClean, MapTypes, Cycles
<1>13. ASSUME NEW s \in SmSessions, WriteTranscript(s)
      PROVE  EventsNotLost'
  BY <1>13, <1>0 DEF WriteTranscript, Step, smWorld, smEvents, smBot,
     SessionsInOrder, EventsNotLost, CycleClean, MapTypes, Cycles
<1>14. ASSUME NEW ok \in BOOLEAN, ListLive(ok)
      PROVE  EventsNotLost'
  BY <1>14, <1>0 DEF ListLive, smWorld, smEvents, smBot, SessionsInOrder,
     EventsNotLost, CycleClean, MapTypes, Cycles
<1>15. CASE GraceLapses
  BY <1>15, <1>0 DEF GraceLapses, Step, smWorld, smEvents, smBot,
     SessionsInOrder, EventsNotLost, CycleClean, MapTypes, Cycles
<1>16. CASE ReadMap
  BY <1>16, <1>0 DEF ReadMap, smWorld, smEvents, smBot, SessionsInOrder,
     EventsNotLost, CycleClean, MapTypes, Cycles
<1>17. CASE TakeEvents
  BY <1>17, <1>0 DEF TakeEvents, smWorld, smEvents, smBot, SessionsInOrder,
     EventsNotLost, CycleClean, MapTypes, Cycles
<1>18. CASE DispatchEnd
  BY <1>18, <1>0 DEF DispatchEnd, smWorld, smEvents, smBot, SessionsInOrder,
     EventsNotLost, CycleClean, MapTypes, Cycles
<1>19. CASE LoadAndReconcile
  BY <1>19, <1>0 DEF LoadAndReconcile, smWorld, smEvents, smBot,
     SessionsInOrder, EventsNotLost, CycleClean, MapTypes, Cycles
<1>20. CASE PruneMap
  BY <1>20, <1>0 DEF PruneMap, smWorld, smEvents, smBot, SessionsInOrder,
     EventsNotLost, CycleClean, MapTypes, Cycles
<1>21. CASE CheckUpdates
  BY <1>21, <1>0 DEF CheckUpdates, smWorld, smEvents, smBot, SessionsInOrder,
     EventsNotLost, CycleClean, MapTypes, Cycles
<1>22. CASE SaveMidCycle
  BY <1>22, <1>0 DEF SaveMidCycle, smWorld, smEvents, smBot, SessionsInOrder,
     EventsNotLost, CycleClean, MapTypes, Cycles
<1>23. CASE RestartBot
  BY <1>23, <1>0 DEF RestartBot, smWorld, smEvents, smBot, SessionsInOrder,
     EventsNotLost, CycleClean, MapTypes, Cycles
<1>24. CASE EndBootstrap
  BY <1>24, <1>0 DEF EndBootstrap, smWorld, smEvents, smBot, SessionsInOrder,
     EventsNotLost, CycleClean, MapTypes, Cycles
<1>25. CASE WriteSeed
  BY <1>25, <1>0 DEF WriteSeed, smWorld, smEvents, smBot, SessionsInOrder,
     EventsNotLost, CycleClean, MapTypes, Cycles
<1>26. CASE UNCHANGED smVars
  BY <1>26, <1>0 DEF smVars, smWorld, smEvents, smBot, SessionsInOrder,
     EventsNotLost, CycleClean, MapTypes, Cycles
<1> QED
  BY <1>1, <1>2, <1>3, <1>4, <1>5, <1>6, <1>7, <1>8, <1>9, <1>10, <1>11,
     <1>12, <1>13, <1>14, <1>15, <1>16, <1>17, <1>18, <1>19, <1>20, <1>21,
     <1>22, <1>23, <1>24, <1>25, <1>26 DEF SmNext

LEMMA SeedKept ==
  ASSUME SmHazards = {}, SessionsInOrder, [SmNext]_smVars
  PROVE  SeedHolds'
<1>0. /\ smMon \in Cycles /\ smProbe \in Probes /\ smHeard \subseteq Windows
      /\ smFile \in [Windows -> Named] /\ smAgent \in [Windows -> Named]
      /\ smLife \in [Windows -> {"new", "live", "dead"}]
      /\ smState \in [Windows -> SmSessions \cup {Unset, Absent}]
      /\ smBound \subseteq Windows /\ smCreating \subseteq Windows
      /\ \A w \in Windows : smMon.raw[w] \in Named
      /\ SmSessions \cap {Unset, Absent, NoSession} = {}
  BY SessionsNamed DEF SessionsInOrder, MapTypes, Cycles
<1>1. ASSUME NEW w \in Windows, OpenWindow(w)
      PROVE  SeedHolds'
  BY <1>1, <1>0 DEF OpenWindow, Step, MayAppear, smWorld, smEvents, smBot,
     SessionsInOrder, SeedHolds, NewIsBlank, AgentsLive, Named, Probes,
     NoProbe
<1>2. ASSUME NEW w \in Windows, WindowOpens(w)
      PROVE  SeedHolds'
  BY <1>2, <1>0 DEF WindowOpens, Step, MayAppear, smWorld, smEvents, smBot,
     SessionsInOrder, SeedHolds, NewIsBlank, AgentsLive, Named, Probes,
     NoProbe
<1>3. ASSUME NEW w \in Windows, WindowCloses(w)
      PROVE  SeedHolds'
  BY <1>3, <1>0 DEF WindowCloses, Step, smWorld, smEvents, smBot,
     SessionsInOrder, SeedHolds, NewIsBlank, AgentsLive, Named, Probes,
     NoProbe
<1>4. ASSUME NEW w \in Windows, FinishCreate(w)
      PROVE  SeedHolds'
  BY <1>4, <1>0 DEF FinishCreate, smWorld, smEvents, smBot, SessionsInOrder,
     SeedHolds, NewIsBlank, AgentsLive, Named, Probes, NoProbe
<1>5. ASSUME NEW w \in Windows, UnbindWindow(w)
      PROVE  SeedHolds'
  BY <1>5, <1>0 DEF UnbindWindow, Step, smWorld, smEvents, smBot,
     SessionsInOrder, SeedHolds, NewIsBlank, AgentsLive, Named, Probes,
     NoProbe
<1>6. ASSUME NEW w \in Windows, AdoptWindow(w)
      PROVE  SeedHolds'
  BY <1>6, <1>0 DEF AdoptWindow, smWorld, smEvents, smBot, SessionsInOrder,
     SeedHolds, NewIsBlank, AgentsLive, Named, Probes, NoProbe
<1>7. ASSUME NEW w \in Windows, EndAgent(w)
      PROVE  SeedHolds'
  BY <1>7, <1>0 DEF EndAgent, Step, SeedWritten, smWorld, smEvents, smBot,
     SessionsInOrder, SeedHolds, NewIsBlank, AgentsLive, Named, Probes,
     NoProbe
<1>8. ASSUME NEW w \in Windows, BeginBootstrap(w)
      PROVE  SeedHolds'
  BY <1>8, <1>0 DEF BeginBootstrap, smWorld, smEvents, smBot, SessionsInOrder,
     SeedHolds, NewIsBlank, AgentsLive, Named, Probes, NoProbe
<1>9. ASSUME NEW w \in Windows, SeedSession(w)
      PROVE  SeedHolds'
  BY <1>9, <1>0 DEF SeedSession, smWorld, smEvents, smBot, SessionsInOrder,
     SeedHolds, NewIsBlank, AgentsLive, Named, Probes, NoProbe
<1>10. ASSUME NEW w \in Windows, NEW s \in SmSessions, RestartAgent(w, s)
      PROVE  SeedHolds'
  BY <1>10, <1>0 DEF RestartAgent, Step, Starts, SeedWritten, smWorld,
     smEvents, smBot, SessionsInOrder, SeedHolds, NewIsBlank, AgentsLive,
     Named, Probes, NoProbe
<1>11. ASSUME NEW w \in Windows, NEW s \in SmSessions, FireHook(w, s)
      PROVE  SeedHolds'
  BY <1>11, <1>0 DEF FireHook, Step, smWorld, smEvents, smBot,
     SessionsInOrder, SeedHolds, NewIsBlank, AgentsLive, Named, Probes,
     NoProbe
<1>12. ASSUME NEW w \in Windows, NEW s \in SmSessions, NEW hooked \in BOOLEAN, StartAgent(w, s, hooked)
      PROVE  SeedHolds'
  BY <1>12, <1>0 DEF StartAgent, Step, Starts, SeedWritten, smWorld, smEvents,
     smBot, SessionsInOrder, SeedHolds, NewIsBlank, AgentsLive, Named, Probes,
     NoProbe
<1>13. ASSUME NEW s \in SmSessions, WriteTranscript(s)
      PROVE  SeedHolds'
  BY <1>13, <1>0 DEF WriteTranscript, Step, smWorld, smEvents, smBot,
     SessionsInOrder, SeedHolds, NewIsBlank, AgentsLive, Named, Probes,
     NoProbe
<1>14. ASSUME NEW ok \in BOOLEAN, ListLive(ok)
      PROVE  SeedHolds'
  BY <1>14, <1>0 DEF ListLive, smWorld, smEvents, smBot, SessionsInOrder,
     SeedHolds, NewIsBlank, AgentsLive, Named, Probes, NoProbe
<1>15. CASE GraceLapses
  BY <1>15, <1>0 DEF GraceLapses, Step, smWorld, smEvents, smBot,
     SessionsInOrder, SeedHolds, NewIsBlank, AgentsLive, Named, Probes,
     NoProbe
<1>16. CASE ReadMap
  BY <1>16, <1>0 DEF ReadMap, smWorld, smEvents, smBot, SessionsInOrder,
     SeedHolds, NewIsBlank, AgentsLive, Named, Probes, NoProbe
<1>17. CASE TakeEvents
  BY <1>17, <1>0 DEF TakeEvents, smWorld, smEvents, smBot, SessionsInOrder,
     SeedHolds, NewIsBlank, AgentsLive, Named, Probes, NoProbe
<1>18. CASE DispatchEnd
  BY <1>18, <1>0 DEF DispatchEnd, smWorld, smEvents, smBot, SessionsInOrder,
     SeedHolds, NewIsBlank, AgentsLive, Named, Probes, NoProbe
<1>19. CASE LoadAndReconcile
  BY <1>19, <1>0 DEF LoadAndReconcile, smWorld, smEvents, smBot,
     SessionsInOrder, SeedHolds, NewIsBlank, AgentsLive, Named, Probes,
     NoProbe
<1>20. CASE PruneMap
  BY <1>20, <1>0 DEF PruneMap, smWorld, smEvents, smBot, SessionsInOrder,
     SeedHolds, NewIsBlank, AgentsLive, Named, Probes, NoProbe
<1>21. CASE CheckUpdates
  BY <1>21, <1>0 DEF CheckUpdates, smWorld, smEvents, smBot, SessionsInOrder,
     SeedHolds, NewIsBlank, AgentsLive, Named, Probes, NoProbe
<1>22. CASE SaveMidCycle
  BY <1>22, <1>0 DEF SaveMidCycle, smWorld, smEvents, smBot, SessionsInOrder,
     SeedHolds, NewIsBlank, AgentsLive, Named, Probes, NoProbe
<1>23. CASE RestartBot
  BY <1>23, <1>0 DEF RestartBot, smWorld, smEvents, smBot, SessionsInOrder,
     SeedHolds, NewIsBlank, AgentsLive, Named, Probes, NoProbe
<1>24. CASE EndBootstrap
  BY <1>24, <1>0 DEF EndBootstrap, smWorld, smEvents, smBot, SessionsInOrder,
     SeedHolds, NewIsBlank, AgentsLive, Named, Probes, NoProbe
<1>25. CASE WriteSeed
  BY <1>25, <1>0 DEF WriteSeed, smWorld, smEvents, smBot, SessionsInOrder,
     SeedHolds, NewIsBlank, AgentsLive, Named, Probes, NoProbe
<1>26. CASE UNCHANGED smVars
  BY <1>26, <1>0 DEF smVars, smWorld, smEvents, smBot, SessionsInOrder,
     SeedHolds, NewIsBlank, AgentsLive, Named, Probes, NoProbe
<1> QED
  BY <1>1, <1>2, <1>3, <1>4, <1>5, <1>6, <1>7, <1>8, <1>9, <1>10, <1>11,
     <1>12, <1>13, <1>14, <1>15, <1>16, <1>17, <1>18, <1>19, <1>20, <1>21,
     <1>22, <1>23, <1>24, <1>25, <1>26 DEF SmNext

LEMMA ApartKept ==
  ASSUME SmHazards = {}, SessionsInOrder, [SmNext]_smVars
  PROVE  Apart'
<1>0. /\ smMon \in Cycles /\ smProbe \in Probes /\ smHeard \subseteq Windows
      /\ smFile \in [Windows -> Named] /\ smAgent \in [Windows -> Named]
      /\ smLife \in [Windows -> {"new", "live", "dead"}]
      /\ smState \in [Windows -> SmSessions \cup {Unset, Absent}]
      /\ smBound \subseteq Windows /\ smCreating \subseteq Windows
      /\ \A w \in Windows : smMon.raw[w] \in Named
      /\ SmSessions \cap {Unset, Absent, NoSession} = {}
  BY SessionsNamed DEF SessionsInOrder, MapTypes, Cycles
<1>a. MapTypes /\ smFile \in [Windows -> Named] /\ smMon.raw \in [Windows -> Named]
  BY <1>0 DEF SessionsInOrder, Cycles
<1>b. smLog' = smLog => \A v, t : EndLogged(v, t)' <=> EndLogged(v, t)
  BY LogStays
<1>1. ASSUME NEW w \in Windows, OpenWindow(w)
      PROVE  Apart'
  BY <1>1, <1>0, <1>b DEF OpenWindow, Step, MayAppear, smWorld, smEvents,
     smBot, SessionsInOrder, NewIsBlank, Apart, Owns, SeedHolds, AgentsLive,
     Named, Cycles, Probes, NoProbe, IdleCycle
<1>2. ASSUME NEW w \in Windows, WindowOpens(w)
      PROVE  Apart'
  BY <1>2, <1>0, <1>b DEF WindowOpens, Step, MayAppear, smWorld, smEvents,
     smBot, SessionsInOrder, NewIsBlank, Apart, Owns, SeedHolds, AgentsLive,
     Named, Cycles, Probes, NoProbe, IdleCycle
<1>3. ASSUME NEW w \in Windows, WindowCloses(w)
      PROVE  Apart'
  BY <1>3, <1>0, <1>b DEF WindowCloses, Step, smWorld, smEvents, smBot,
     SessionsInOrder, NewIsBlank, Apart, Owns, SeedHolds, AgentsLive, Named,
     Cycles, Probes, NoProbe, IdleCycle
<1>4. ASSUME NEW w \in Windows, FinishCreate(w)
      PROVE  Apart'
  <2>1. /\ smLife' = smLife /\ smFile' = smFile /\ smAgent' = smAgent /\ smLog' = smLog
        /\ smMon'.raw = smMon.raw
    BY <1>4, <1>0 DEF FinishCreate, smWorld, smEvents, Cycles
  <2>2. \A v \in Windows : smState'[v] \in {smState[v], smFile[v], smMon.raw[v], Absent}
    BY <1>4, <1>a, LoadedIsEither DEF FinishCreate
  <2> QED
    BY <1>0, <1>b, <2>1, <2>2 DEF SessionsInOrder, Apart, Owns
<1>5. ASSUME NEW w \in Windows, UnbindWindow(w)
      PROVE  Apart'
  BY <1>5, <1>0, <1>b DEF UnbindWindow, Step, smWorld, smEvents, smBot,
     SessionsInOrder, NewIsBlank, Apart, Owns, SeedHolds, AgentsLive, Named,
     Cycles, Probes, NoProbe, IdleCycle
<1>6. ASSUME NEW w \in Windows, AdoptWindow(w)
      PROVE  Apart'
  BY <1>6, <1>0, <1>b DEF AdoptWindow, smWorld, smEvents, smBot,
     SessionsInOrder, NewIsBlank, Apart, Owns, SeedHolds, AgentsLive, Named,
     Cycles, Probes, NoProbe, IdleCycle
<1>7. ASSUME NEW w \in Windows, EndAgent(w)
      PROVE  Apart'
  <2>1. smAgent[w] \in SmSessions
    BY <1>7, <1>0 DEF EndAgent, Named
  <2>2. \A v \in Windows, t \in SmSessions :
          EndLogged(v, t)' <=> EndLogged(v, t) \/ (v = w /\ t = smAgent[w])
    BY <1>7, <1>a, <2>1, LogGrows DEF EndAgent
  <2> QED
    BY <1>7, <1>0, <2>1, <2>2 DEF EndAgent, smBot, SessionsInOrder, Apart, Owns
<1>8. ASSUME NEW w \in Windows, BeginBootstrap(w)
      PROVE  Apart'
  BY <1>8, <1>0, <1>b DEF BeginBootstrap, smWorld, smEvents, smBot,
     SessionsInOrder, NewIsBlank, Apart, Owns, SeedHolds, AgentsLive, Named,
     Cycles, Probes, NoProbe, IdleCycle
<1>9. ASSUME NEW w \in Windows, SeedSession(w)
      PROVE  Apart'
  BY <1>9, <1>0, <1>b DEF SeedSession, smWorld, smEvents, smBot,
     SessionsInOrder, NewIsBlank, Apart, Owns, SeedHolds, AgentsLive, Named,
     Cycles, Probes, NoProbe, IdleCycle
<1>10. ASSUME NEW w \in Windows, NEW s \in SmSessions, RestartAgent(w, s)
      PROVE  Apart'
  <2>1. smAgent[w] \in SmSessions
    BY <1>10, <1>0 DEF RestartAgent, Named
  <2>2. \A v \in Windows, t \in SmSessions :
          EndLogged(v, t)' <=> EndLogged(v, t) \/ (v = w /\ t = smAgent[w])
    BY <1>10, <1>a, <2>1, LogGrows DEF RestartAgent
  <2>3. /\ \A v \in Windows \ {w} : s \notin {smFile[v], smState[v], smMon.raw[v]}
        /\ \A v \in Windows : smAgent[v] # s
        /\ \A v \in Windows : EndLogged(v, s) => v = w
    BY <1>10 DEF RestartAgent, Starts, Elsewhere, Attached, EndLogged
  <2> QED
    BY <1>10, <1>0, <2>1, <2>2, <2>3 DEF RestartAgent, Starts, smBot, SessionsInOrder, Apart, Owns
<1>11. ASSUME NEW w \in Windows, NEW s \in SmSessions, FireHook(w, s)
      PROVE  Apart'
  <2>1. s = smAgent[w] \/ (\A v \in Windows : smAgent[v] # s /\ ~EndLogged(v, s))
    BY <1>11 DEF FireHook, Attached, EndLogged
  <2> QED
    BY <1>11, <1>0, <1>b, <2>1 DEF FireHook, smWorld, smEvents, smBot, SessionsInOrder, Apart, Owns
<1>12. ASSUME NEW w \in Windows, NEW s \in SmSessions, NEW hooked \in BOOLEAN, StartAgent(w, s, hooked)
      PROVE  Apart'
  <2>3. /\ \A v \in Windows \ {w} : s \notin {smFile[v], smState[v], smMon.raw[v]}
        /\ \A v \in Windows : smAgent[v] # s
        /\ \A v \in Windows : EndLogged(v, s) => v = w
    BY <1>12 DEF StartAgent, Starts, Elsewhere, Attached, EndLogged
  <2> QED
    BY <1>12, <1>0, <1>b, <2>3 DEF StartAgent, Starts, smBot, SessionsInOrder, Apart, Owns
<1>13. ASSUME NEW s \in SmSessions, WriteTranscript(s)
      PROVE  Apart'
  BY <1>13, <1>0, <1>b DEF WriteTranscript, Step, smWorld, smEvents, smBot,
     SessionsInOrder, NewIsBlank, Apart, Owns, SeedHolds, AgentsLive, Named,
     Cycles, Probes, NoProbe, IdleCycle
<1>14. ASSUME NEW ok \in BOOLEAN, ListLive(ok)
      PROVE  Apart'
  BY <1>14, <1>0, <1>b DEF ListLive, smWorld, smEvents, smBot,
     SessionsInOrder, NewIsBlank, Apart, Owns, SeedHolds, AgentsLive, Named,
     Cycles, Probes, NoProbe, IdleCycle
<1>15. CASE GraceLapses
  BY <1>15, <1>0, <1>b DEF GraceLapses, Step, smWorld, smEvents, smBot,
     SessionsInOrder, NewIsBlank, Apart, Owns, SeedHolds, AgentsLive, Named,
     Cycles, Probes, NoProbe, IdleCycle
<1>16. CASE ReadMap
  BY <1>16, <1>0, <1>b DEF ReadMap, smWorld, smEvents, smBot, SessionsInOrder,
     NewIsBlank, Apart, Owns, SeedHolds, AgentsLive, Named, Cycles, Probes,
     NoProbe, IdleCycle
<1>17. CASE TakeEvents
  BY <1>17, <1>0, <1>b DEF TakeEvents, smWorld, smEvents, smBot,
     SessionsInOrder, NewIsBlank, Apart, Owns, SeedHolds, AgentsLive, Named,
     Cycles, Probes, NoProbe, IdleCycle
<1>18. CASE DispatchEnd
  BY <1>18, <1>0, <1>b DEF DispatchEnd, smWorld, smEvents, smBot,
     SessionsInOrder, NewIsBlank, Apart, Owns, SeedHolds, AgentsLive, Named,
     Cycles, Probes, NoProbe, IdleCycle
<1>19. CASE LoadAndReconcile
  <2>1. /\ smLife' = smLife /\ smFile' = smFile /\ smAgent' = smAgent /\ smLog' = smLog
        /\ smMon'.raw = smMon.raw
    BY <1>19, <1>0 DEF LoadAndReconcile, smWorld, smEvents, Cycles
  <2>2. \A v \in Windows : smState'[v] \in {smState[v], smFile[v], smMon.raw[v], Absent}
    BY <1>19, <1>a, LoadedIsEither DEF LoadAndReconcile
  <2> QED
    BY <1>0, <1>b, <2>1, <2>2 DEF SessionsInOrder, Apart, Owns
<1>20. CASE PruneMap
  BY <1>20, <1>0, <1>b DEF PruneMap, smWorld, smEvents, smBot,
     SessionsInOrder, NewIsBlank, Apart, Owns, SeedHolds, AgentsLive, Named,
     Cycles, Probes, NoProbe, IdleCycle
<1>21. CASE CheckUpdates
  BY <1>21, <1>0, <1>b DEF CheckUpdates, smWorld, smEvents, smBot,
     SessionsInOrder, NewIsBlank, Apart, Owns, SeedHolds, AgentsLive, Named,
     Cycles, Probes, NoProbe, IdleCycle
<1>22. CASE SaveMidCycle
  BY <1>22, <1>0, <1>b DEF SaveMidCycle, smWorld, smEvents, smBot,
     SessionsInOrder, NewIsBlank, Apart, Owns, SeedHolds, AgentsLive, Named,
     Cycles, Probes, NoProbe, IdleCycle
<1>23. CASE RestartBot
  BY <1>23, <1>0, <1>b DEF RestartBot, smWorld, smEvents, smBot,
     SessionsInOrder, NewIsBlank, Apart, Owns, SeedHolds, AgentsLive, Named,
     Cycles, Probes, NoProbe, IdleCycle
<1>24. CASE EndBootstrap
  BY <1>24, <1>0, <1>b DEF EndBootstrap, smWorld, smEvents, smBot,
     SessionsInOrder, NewIsBlank, Apart, Owns, SeedHolds, AgentsLive, Named,
     Cycles, Probes, NoProbe, IdleCycle
<1>25. CASE WriteSeed
  BY <1>25, <1>0, <1>b DEF WriteSeed, smWorld, smEvents, smBot,
     SessionsInOrder, NewIsBlank, Apart, Owns, SeedHolds, AgentsLive, Named,
     Cycles, Probes, NoProbe, IdleCycle
<1>26. CASE UNCHANGED smVars
  BY <1>26, <1>0, <1>b DEF smVars, smWorld, smEvents, smBot, SessionsInOrder,
     NewIsBlank, Apart, Owns, SeedHolds, AgentsLive, Named, Cycles, Probes,
     NoProbe, IdleCycle
<1> QED
  BY <1>1, <1>2, <1>3, <1>4, <1>5, <1>6, <1>7, <1>8, <1>9, <1>10, <1>11,
     <1>12, <1>13, <1>14, <1>15, <1>16, <1>17, <1>18, <1>19, <1>20, <1>21,
     <1>22, <1>23, <1>24, <1>25, <1>26 DEF SmNext

LEMMA SucceededKept ==
  ASSUME SmHazards = {}, SessionsInOrder, [SmNext]_smVars
  PROVE  Succeeded'
<1>0. /\ smMon \in Cycles /\ smProbe \in Probes /\ smHeard \subseteq Windows
      /\ smFile \in [Windows -> Named] /\ smAgent \in [Windows -> Named]
      /\ smLife \in [Windows -> {"new", "live", "dead"}]
      /\ smState \in [Windows -> SmSessions \cup {Unset, Absent}]
      /\ smBound \subseteq Windows /\ smCreating \subseteq Windows
      /\ \A w \in Windows : smMon.raw[w] \in Named
      /\ SmSessions \cap {Unset, Absent, NoSession} = {}
  BY SessionsNamed DEF SessionsInOrder, MapTypes, Cycles
<1>a. MapTypes /\ smFile \in [Windows -> Named] /\ smMon.raw \in [Windows -> Named]
  BY <1>0 DEF SessionsInOrder, Cycles
<1>b. smLog' = smLog => \A v, t : EndLogged(v, t)' <=> EndLogged(v, t)
  BY LogStays
<1>1. ASSUME NEW w \in Windows, OpenWindow(w)
      PROVE  Succeeded'
  BY <1>1, <1>0, <1>b DEF OpenWindow, Step, MayAppear, smWorld, smEvents,
     smBot, SessionsInOrder, Succeeded, CycleClean, SeedHolds, AgentsLive,
     Named, Cycles, Probes, NoProbe, IdleCycle
<1>2. ASSUME NEW w \in Windows, WindowOpens(w)
      PROVE  Succeeded'
  BY <1>2, <1>0, <1>b DEF WindowOpens, Step, MayAppear, smWorld, smEvents,
     smBot, SessionsInOrder, Succeeded, CycleClean, SeedHolds, AgentsLive,
     Named, Cycles, Probes, NoProbe, IdleCycle
<1>3. ASSUME NEW w \in Windows, WindowCloses(w)
      PROVE  Succeeded'
  BY <1>3, <1>0, <1>b DEF WindowCloses, Step, smWorld, smEvents, smBot,
     SessionsInOrder, Succeeded, CycleClean, SeedHolds, AgentsLive, Named,
     Cycles, Probes, NoProbe, IdleCycle
<1>4. ASSUME NEW w \in Windows, FinishCreate(w)
      PROVE  Succeeded'
  <2>1. /\ smLife' = smLife /\ smFile' = smFile /\ smAgent' = smAgent /\ smLog' = smLog
        /\ smMon'.raw = smMon.raw
    BY <1>4, <1>0 DEF FinishCreate, smWorld, smEvents, Cycles
  <2>2. \A v \in Windows : smState'[v] \in {smState[v], smFile[v], smMon.raw[v], Absent}
    BY <1>4, <1>a, LoadedIsEither DEF FinishCreate
  <2> QED
    BY <1>0, <1>b, <2>1, <2>2 DEF SessionsInOrder, Succeeded
<1>5. ASSUME NEW w \in Windows, UnbindWindow(w)
      PROVE  Succeeded'
  BY <1>5, <1>0, <1>b DEF UnbindWindow, Step, smWorld, smEvents, smBot,
     SessionsInOrder, Succeeded, CycleClean, SeedHolds, AgentsLive, Named,
     Cycles, Probes, NoProbe, IdleCycle
<1>6. ASSUME NEW w \in Windows, AdoptWindow(w)
      PROVE  Succeeded'
  BY <1>6, <1>0, <1>b DEF AdoptWindow, smWorld, smEvents, smBot,
     SessionsInOrder, Succeeded, CycleClean, SeedHolds, AgentsLive, Named,
     Cycles, Probes, NoProbe, IdleCycle
<1>7. ASSUME NEW w \in Windows, EndAgent(w)
      PROVE  Succeeded'
  <2>1. smAgent[w] \in SmSessions
    BY <1>7, <1>0 DEF EndAgent, Named
  <2>2. \A v \in Windows, t \in SmSessions :
          EndLogged(v, t)' <=> EndLogged(v, t) \/ (v = w /\ t = smAgent[w])
    BY <1>7, <1>a, <2>1, LogGrows DEF EndAgent
  <2> QED
    BY <1>7, <1>0, <2>1, <2>2 DEF EndAgent, smBot, SessionsInOrder, Succeeded
<1>8. ASSUME NEW w \in Windows, BeginBootstrap(w)
      PROVE  Succeeded'
  BY <1>8, <1>0, <1>b DEF BeginBootstrap, smWorld, smEvents, smBot,
     SessionsInOrder, Succeeded, CycleClean, SeedHolds, AgentsLive, Named,
     Cycles, Probes, NoProbe, IdleCycle
<1>9. ASSUME NEW w \in Windows, SeedSession(w)
      PROVE  Succeeded'
  BY <1>9, <1>0, <1>b DEF SeedSession, smWorld, smEvents, smBot,
     SessionsInOrder, Succeeded, CycleClean, SeedHolds, AgentsLive, Named,
     Cycles, Probes, NoProbe, IdleCycle
<1>10. ASSUME NEW w \in Windows, NEW s \in SmSessions, RestartAgent(w, s)
      PROVE  Succeeded'
  <2>1. smAgent[w] \in SmSessions
    BY <1>10, <1>0 DEF RestartAgent, Named
  <2>2. \A v \in Windows, t \in SmSessions :
          EndLogged(v, t)' <=> EndLogged(v, t) \/ (v = w /\ t = smAgent[w])
    BY <1>10, <1>a, <2>1, LogGrows DEF RestartAgent
  <2> QED
    BY <1>10, <1>0, <2>1, <2>2 DEF RestartAgent, Starts, smBot, SessionsInOrder, Succeeded, CycleClean
<1>11. ASSUME NEW w \in Windows, NEW s \in SmSessions, FireHook(w, s)
      PROVE  Succeeded'
  <2>1. s = smAgent[w] \/ ~EndLogged(w, s)
    BY <1>11 DEF FireHook, Attached, EndLogged
  <2> QED
    BY <1>11, <1>0, <1>b, <2>1 DEF FireHook, smWorld, smEvents, smBot, SessionsInOrder, Succeeded
<1>12. ASSUME NEW w \in Windows, NEW s \in SmSessions, NEW hooked \in BOOLEAN, StartAgent(w, s, hooked)
      PROVE  Succeeded'
  <2>1. \A t : ~EndLogged(w, t)
    BY <1>12 DEF StartAgent, EndLogged
  <2> QED
    BY <1>12, <1>0, <1>b, <2>1 DEF StartAgent, Starts, smBot, SessionsInOrder, Succeeded
<1>13. ASSUME NEW s \in SmSessions, WriteTranscript(s)
      PROVE  Succeeded'
  BY <1>13, <1>0, <1>b DEF WriteTranscript, Step, smWorld, smEvents, smBot,
     SessionsInOrder, Succeeded, CycleClean, SeedHolds, AgentsLive, Named,
     Cycles, Probes, NoProbe, IdleCycle
<1>14. ASSUME NEW ok \in BOOLEAN, ListLive(ok)
      PROVE  Succeeded'
  BY <1>14, <1>0, <1>b DEF ListLive, smWorld, smEvents, smBot,
     SessionsInOrder, Succeeded, CycleClean, SeedHolds, AgentsLive, Named,
     Cycles, Probes, NoProbe, IdleCycle
<1>15. CASE GraceLapses
  BY <1>15, <1>0, <1>b DEF GraceLapses, Step, smWorld, smEvents, smBot,
     SessionsInOrder, Succeeded, CycleClean, SeedHolds, AgentsLive, Named,
     Cycles, Probes, NoProbe, IdleCycle
<1>16. CASE ReadMap
  BY <1>16, <1>0, <1>b DEF ReadMap, smWorld, smEvents, smBot, SessionsInOrder,
     Succeeded, CycleClean, SeedHolds, AgentsLive, Named, Cycles, Probes,
     NoProbe, IdleCycle
<1>17. CASE TakeEvents
  BY <1>17, <1>0, <1>b DEF TakeEvents, smWorld, smEvents, smBot,
     SessionsInOrder, Succeeded, CycleClean, SeedHolds, AgentsLive, Named,
     Cycles, Probes, NoProbe, IdleCycle
<1>18. CASE DispatchEnd
  BY <1>18, <1>0, <1>b DEF DispatchEnd, smWorld, smEvents, smBot,
     SessionsInOrder, Succeeded, CycleClean, SeedHolds, AgentsLive, Named,
     Cycles, Probes, NoProbe, IdleCycle
<1>19. CASE LoadAndReconcile
  <2>1. /\ smLife' = smLife /\ smFile' = smFile /\ smAgent' = smAgent /\ smLog' = smLog
        /\ smMon'.raw = smMon.raw
    BY <1>19, <1>0 DEF LoadAndReconcile, smWorld, smEvents, Cycles
  <2>2. \A v \in Windows : smState'[v] \in {smState[v], smFile[v], smMon.raw[v], Absent}
    BY <1>19, <1>a, LoadedIsEither DEF LoadAndReconcile
  <2> QED
    BY <1>0, <1>b, <2>1, <2>2 DEF SessionsInOrder, Succeeded
<1>20. CASE PruneMap
  BY <1>20, <1>0, <1>b DEF PruneMap, smWorld, smEvents, smBot,
     SessionsInOrder, Succeeded, CycleClean, SeedHolds, AgentsLive, Named,
     Cycles, Probes, NoProbe, IdleCycle
<1>21. CASE CheckUpdates
  BY <1>21, <1>0, <1>b DEF CheckUpdates, smWorld, smEvents, smBot,
     SessionsInOrder, Succeeded, CycleClean, SeedHolds, AgentsLive, Named,
     Cycles, Probes, NoProbe, IdleCycle
<1>22. CASE SaveMidCycle
  BY <1>22, <1>0, <1>b DEF SaveMidCycle, smWorld, smEvents, smBot,
     SessionsInOrder, Succeeded, CycleClean, SeedHolds, AgentsLive, Named,
     Cycles, Probes, NoProbe, IdleCycle
<1>23. CASE RestartBot
  BY <1>23, <1>0, <1>b DEF RestartBot, smWorld, smEvents, smBot,
     SessionsInOrder, Succeeded, CycleClean, SeedHolds, AgentsLive, Named,
     Cycles, Probes, NoProbe, IdleCycle
<1>24. CASE EndBootstrap
  BY <1>24, <1>0, <1>b DEF EndBootstrap, smWorld, smEvents, smBot,
     SessionsInOrder, Succeeded, CycleClean, SeedHolds, AgentsLive, Named,
     Cycles, Probes, NoProbe, IdleCycle
<1>25. CASE WriteSeed
  BY <1>25, <1>0, <1>b DEF WriteSeed, smWorld, smEvents, smBot,
     SessionsInOrder, Succeeded, CycleClean, SeedHolds, AgentsLive, Named,
     Cycles, Probes, NoProbe, IdleCycle
<1>26. CASE UNCHANGED smVars
  BY <1>26, <1>0, <1>b DEF smVars, smWorld, smEvents, smBot, SessionsInOrder,
     Succeeded, CycleClean, SeedHolds, AgentsLive, Named, Cycles, Probes,
     NoProbe, IdleCycle
<1> QED
  BY <1>1, <1>2, <1>3, <1>4, <1>5, <1>6, <1>7, <1>8, <1>9, <1>10, <1>11,
     <1>12, <1>13, <1>14, <1>15, <1>16, <1>17, <1>18, <1>19, <1>20, <1>21,
     <1>22, <1>23, <1>24, <1>25, <1>26 DEF SmNext

LEMMA PendingKept ==
  ASSUME SmHazards = {}, SessionsInOrder, [SmNext]_smVars
  PROVE  PendingLogged'
<1>0. /\ smMon \in Cycles /\ smProbe \in Probes /\ smHeard \subseteq Windows
      /\ smFile \in [Windows -> Named] /\ smAgent \in [Windows -> Named]
      /\ smLife \in [Windows -> {"new", "live", "dead"}]
      /\ smState \in [Windows -> SmSessions \cup {Unset, Absent}]
      /\ smBound \subseteq Windows /\ smCreating \subseteq Windows
      /\ \A w \in Windows : smMon.raw[w] \in Named
      /\ SmSessions \cap {Unset, Absent, NoSession} = {}
  BY SessionsNamed DEF SessionsInOrder, MapTypes, Cycles
<1>a. MapTypes /\ smFile \in [Windows -> Named] /\ smMon.raw \in [Windows -> Named]
  BY <1>0 DEF SessionsInOrder, Cycles
<1>b. smLog' = smLog => \A v, t : EndLogged(v, t)' <=> EndLogged(v, t)
  BY LogStays
<1>c. /\ smPending \in Seq(Ends) /\ DOMAIN smPending = 1..Len(smPending) /\ Len(smPending) \in Nat
      /\ \A i \in DOMAIN smPending :
           smPending[i].window \in Windows /\ smPending[i].session \in SmSessions
  <2> DEFINE E == Ends
  <2>1. smPending \in Seq(E)
    BY <1>a DEF MapTypes
  <2>2. \A e \in E : e.window \in Windows /\ e.session \in SmSessions
    BY DEF Ends
  <2> HIDE DEF E
  <2>3. \A i \in 1..Len(smPending) : smPending[i] \in E
    BY <2>1
  <2>4. DOMAIN smPending = 1..Len(smPending) /\ Len(smPending) \in Nat
    BY <2>1
  <2> QED
    BY <1>a, <2>2, <2>3, <2>4 DEF MapTypes
<1>1. ASSUME NEW w \in Windows, OpenWindow(w)
      PROVE  PendingLogged'
  BY <1>1, <1>b DEF OpenWindow, Step, MayAppear, smWorld, smEvents, smBot,
     SessionsInOrder, PendingLogged
<1>2. ASSUME NEW w \in Windows, WindowOpens(w)
      PROVE  PendingLogged'
  BY <1>2, <1>b DEF WindowOpens, Step, MayAppear, smWorld, smEvents, smBot,
     SessionsInOrder, PendingLogged
<1>3. ASSUME NEW w \in Windows, WindowCloses(w)
      PROVE  PendingLogged'
  BY <1>3, <1>b DEF WindowCloses, Step, smWorld, smEvents, smBot,
     SessionsInOrder, PendingLogged
<1>4. ASSUME NEW w \in Windows, FinishCreate(w)
      PROVE  PendingLogged'
  BY <1>4, <1>b DEF FinishCreate, smWorld, smEvents, smBot, SessionsInOrder,
     PendingLogged
<1>5. ASSUME NEW w \in Windows, UnbindWindow(w)
      PROVE  PendingLogged'
  BY <1>5, <1>b DEF UnbindWindow, Step, smWorld, smEvents, smBot,
     SessionsInOrder, PendingLogged
<1>6. ASSUME NEW w \in Windows, AdoptWindow(w)
      PROVE  PendingLogged'
  BY <1>6, <1>b DEF AdoptWindow, smWorld, smEvents, smBot, SessionsInOrder,
     PendingLogged
<1>7. ASSUME NEW w \in Windows, EndAgent(w)
      PROVE  PendingLogged'
  <2>1. smAgent[w] \in SmSessions
    BY <1>7, <1>0 DEF EndAgent, Named
  <2>2. \A v \in Windows, t \in SmSessions :
          EndLogged(v, t)' <=> EndLogged(v, t) \/ (v = w /\ t = smAgent[w])
    BY <1>7, <1>a, <2>1, LogGrows DEF EndAgent
  <2> QED
    BY <1>7, <1>c, <2>2 DEF EndAgent, SessionsInOrder, PendingLogged
<1>8. ASSUME NEW w \in Windows, BeginBootstrap(w)
      PROVE  PendingLogged'
  BY <1>8, <1>b DEF BeginBootstrap, smWorld, smEvents, smBot, SessionsInOrder,
     PendingLogged
<1>9. ASSUME NEW w \in Windows, SeedSession(w)
      PROVE  PendingLogged'
  BY <1>9, <1>b DEF SeedSession, smWorld, smEvents, smBot, SessionsInOrder,
     PendingLogged
<1>10. ASSUME NEW w \in Windows, NEW s \in SmSessions, RestartAgent(w, s)
      PROVE  PendingLogged'
  <2>1. smAgent[w] \in SmSessions
    BY <1>10, <1>0 DEF RestartAgent, Named
  <2>2. \A v \in Windows, t \in SmSessions :
          EndLogged(v, t)' <=> EndLogged(v, t) \/ (v = w /\ t = smAgent[w])
    BY <1>10, <1>a, <2>1, LogGrows DEF RestartAgent
  <2> QED
    BY <1>10, <1>c, <2>2 DEF RestartAgent, Starts, SessionsInOrder, PendingLogged
<1>11. ASSUME NEW w \in Windows, NEW s \in SmSessions, FireHook(w, s)
      PROVE  PendingLogged'
  BY <1>11, <1>b DEF FireHook, Step, smWorld, smEvents, smBot,
     SessionsInOrder, PendingLogged
<1>12. ASSUME NEW w \in Windows, NEW s \in SmSessions, NEW hooked \in BOOLEAN, StartAgent(w, s, hooked)
      PROVE  PendingLogged'
  BY <1>12, <1>b DEF StartAgent, Step, Starts, SeedWritten, smWorld, smEvents,
     smBot, SessionsInOrder, PendingLogged
<1>13. ASSUME NEW s \in SmSessions, WriteTranscript(s)
      PROVE  PendingLogged'
  BY <1>13, <1>b DEF WriteTranscript, Step, smWorld, smEvents, smBot,
     SessionsInOrder, PendingLogged
<1>14. ASSUME NEW ok \in BOOLEAN, ListLive(ok)
      PROVE  PendingLogged'
  BY <1>14, <1>b DEF ListLive, smWorld, smEvents, smBot, SessionsInOrder,
     PendingLogged
<1>15. CASE GraceLapses
  BY <1>15, <1>b DEF GraceLapses, Step, smWorld, smEvents, smBot,
     SessionsInOrder, PendingLogged
<1>16. CASE ReadMap
  BY <1>16, <1>b DEF ReadMap, smWorld, smEvents, smBot, SessionsInOrder,
     PendingLogged
<1>17. CASE TakeEvents
  <2>1. smLog \in Seq(Ends) /\ smRead \in Nat /\ smRead <= Len(smLog) /\ Len(smLog) \in Nat
    BY <1>a DEF MapTypes
  <2>2. \A i \in DOMAIN smPending' : \E j \in DOMAIN smLog : smPending'[i] = smLog[j]
    <3> DEFINE E == Ends
    <3>1. smLog \in Seq(E)
      BY <2>1
    <3> HIDE DEF E
    <3>2. smPending' = SubSeq(smLog, smRead + 1, Len(smLog))
      BY <1>17 DEF TakeEvents
    <3> QED
      BY <2>1, <3>1, <3>2
  <2>3. smLog' = smLog
    BY <1>17 DEF TakeEvents
  <2> QED
    BY <2>2, <2>3 DEF PendingLogged, EndLogged
<1>18. CASE DispatchEnd
  <2>1. \A i \in DOMAIN smPending' : \E j \in DOMAIN smPending : smPending'[i] = smPending[j]
    <3> DEFINE E == Ends
    <3>1. smPending \in Seq(E) /\ smPending # << >> /\ smPending' = Tail(smPending)
      BY <1>18, <1>c DEF DispatchEnd
    <3> HIDE DEF E
    <3> QED
      BY <3>1
  <2>2. smLog' = smLog
    BY <1>18 DEF DispatchEnd
  <2> QED
    BY <1>b, <2>1, <2>2 DEF SessionsInOrder, PendingLogged
<1>19. CASE LoadAndReconcile
  BY <1>19, <1>b DEF LoadAndReconcile, smWorld, smEvents, smBot,
     SessionsInOrder, PendingLogged
<1>20. CASE PruneMap
  BY <1>20, <1>b DEF PruneMap, smWorld, smEvents, smBot, SessionsInOrder,
     PendingLogged
<1>21. CASE CheckUpdates
  BY <1>21, <1>b DEF CheckUpdates, smWorld, smEvents, smBot, SessionsInOrder,
     PendingLogged
<1>22. CASE SaveMidCycle
  BY <1>22, <1>b DEF SaveMidCycle, smWorld, smEvents, smBot, SessionsInOrder,
     PendingLogged
<1>23. CASE RestartBot
  BY <1>23 DEF RestartBot, PendingLogged
<1>24. CASE EndBootstrap
  BY <1>24, <1>b DEF EndBootstrap, smWorld, smEvents, smBot, SessionsInOrder,
     PendingLogged
<1>25. CASE WriteSeed
  BY <1>25, <1>b DEF WriteSeed, smWorld, smEvents, smBot, SessionsInOrder,
     PendingLogged
<1>26. CASE UNCHANGED smVars
  BY <1>26, <1>b DEF smVars, smWorld, smEvents, smBot, SessionsInOrder,
     PendingLogged
<1> QED
  BY <1>1, <1>2, <1>3, <1>4, <1>5, <1>6, <1>7, <1>8, <1>9, <1>10, <1>11,
     <1>12, <1>13, <1>14, <1>15, <1>16, <1>17, <1>18, <1>19, <1>20, <1>21,
     <1>22, <1>23, <1>24, <1>25, <1>26 DEF SmNext

LEMMA EndsKept ==
  ASSUME SmHazards = {}, SessionsInOrder, [SmNext]_smVars
  PROVE  EndsAreDone'
<1>0. /\ smMon \in Cycles /\ smProbe \in Probes /\ smHeard \subseteq Windows
      /\ smFile \in [Windows -> Named] /\ smAgent \in [Windows -> Named]
      /\ smLife \in [Windows -> {"new", "live", "dead"}]
      /\ smState \in [Windows -> SmSessions \cup {Unset, Absent}]
      /\ smBound \subseteq Windows /\ smCreating \subseteq Windows
      /\ \A w \in Windows : smMon.raw[w] \in Named
      /\ SmSessions \cap {Unset, Absent, NoSession} = {}
  BY SessionsNamed DEF SessionsInOrder, MapTypes, Cycles
<1>a. MapTypes /\ smFile \in [Windows -> Named] /\ smMon.raw \in [Windows -> Named]
  BY <1>0 DEF SessionsInOrder, Cycles
<1>b. smLog' = smLog => \A v, t : EndLogged(v, t)' <=> EndLogged(v, t)
  BY LogStays
<1>c. smEnded \subseteq SmSessions
  BY <1>a DEF MapTypes
<1>1. ASSUME NEW w \in Windows, OpenWindow(w)
      PROVE  EndsAreDone'
  BY <1>1, <1>0, <1>b, <1>c DEF OpenWindow, Step, MayAppear, smWorld,
     smEvents, smBot, SessionsInOrder, EndsAreDone, Named, Cycles, Probes,
     NoProbe
<1>2. ASSUME NEW w \in Windows, WindowOpens(w)
      PROVE  EndsAreDone'
  BY <1>2, <1>0, <1>b, <1>c DEF WindowOpens, Step, MayAppear, smWorld,
     smEvents, smBot, SessionsInOrder, EndsAreDone, Named, Cycles, Probes,
     NoProbe
<1>3. ASSUME NEW w \in Windows, WindowCloses(w)
      PROVE  EndsAreDone'
  BY <1>3, <1>0, <1>b, <1>c DEF WindowCloses, Step, smWorld, smEvents, smBot,
     SessionsInOrder, EndsAreDone, Named, Cycles, Probes, NoProbe
<1>4. ASSUME NEW w \in Windows, FinishCreate(w)
      PROVE  EndsAreDone'
  <2>1. /\ smLife' = smLife /\ smFile' = smFile /\ smAgent' = smAgent /\ smLog' = smLog
        /\ smMon'.raw = smMon.raw /\ smEnded' = smEnded
    BY <1>4, <1>0 DEF FinishCreate, smWorld, smEvents, Cycles
  <2>2. \A v \in Windows : smState'[v] \in {smState[v], smFile[v], smMon.raw[v], Absent}
    BY <1>4, <1>a, LoadedIsEither DEF FinishCreate
  <2>3. smEnded \subseteq SmSessions /\ \A t \in smEnded, v \in Windows :
          smAgent[v] # NoSession => t \notin {smFile[v], smMon.raw[v]}
    BY <1>0, <1>a DEF MapTypes, SessionsInOrder, EndsAreDone, Apart, Succeeded, Owns, AgentsLive
  <2> QED
    BY <2>3, <1>0, <1>b, <2>1, <2>2 DEF SessionsInOrder, EndsAreDone, Apart, Succeeded, Owns, AgentsLive
<1>5. ASSUME NEW w \in Windows, UnbindWindow(w)
      PROVE  EndsAreDone'
  BY <1>5, <1>0, <1>b, <1>c DEF UnbindWindow, Step, smWorld, smEvents, smBot,
     SessionsInOrder, EndsAreDone, Named, Cycles, Probes, NoProbe
<1>6. ASSUME NEW w \in Windows, AdoptWindow(w)
      PROVE  EndsAreDone'
  BY <1>6, <1>0, <1>b, <1>c DEF AdoptWindow, smWorld, smEvents, smBot,
     SessionsInOrder, EndsAreDone, Named, Cycles, Probes, NoProbe
<1>7. ASSUME NEW w \in Windows, EndAgent(w)
      PROVE  EndsAreDone'
  <2>1. smAgent[w] \in SmSessions
    BY <1>7, <1>0 DEF EndAgent, Named
  <2>2. \A v \in Windows, t \in SmSessions :
          EndLogged(v, t)' <=> EndLogged(v, t) \/ (v = w /\ t = smAgent[w])
    BY <1>7, <1>a, <2>1, LogGrows DEF EndAgent
  <2>3. smEnded \subseteq SmSessions
    BY <1>a DEF MapTypes
  <2> QED
    BY <1>7, <1>0, <2>1, <2>2, <2>3 DEF EndAgent, smBot, SessionsInOrder, EndsAreDone
<1>8. ASSUME NEW w \in Windows, BeginBootstrap(w)
      PROVE  EndsAreDone'
  BY <1>8, <1>0, <1>b, <1>c DEF BeginBootstrap, smWorld, smEvents, smBot,
     SessionsInOrder, EndsAreDone, Named, Cycles, Probes, NoProbe
<1>9. ASSUME NEW w \in Windows, SeedSession(w)
      PROVE  EndsAreDone'
  BY <1>9, <1>0, <1>b, <1>c DEF SeedSession, smWorld, smEvents, smBot,
     SessionsInOrder, EndsAreDone, Named, Cycles, Probes, NoProbe
<1>10. ASSUME NEW w \in Windows, NEW s \in SmSessions, RestartAgent(w, s)
      PROVE  EndsAreDone'
  <2>1. smAgent[w] \in SmSessions
    BY <1>10, <1>0 DEF RestartAgent, Named
  <2>2. \A v \in Windows, t \in SmSessions :
          EndLogged(v, t)' <=> EndLogged(v, t) \/ (v = w /\ t = smAgent[w])
    BY <1>10, <1>a, <2>1, LogGrows DEF RestartAgent
  <2>3. smEnded \subseteq SmSessions
    BY <1>a DEF MapTypes
  <2> QED
    BY <1>10, <1>0, <2>1, <2>2, <2>3 DEF RestartAgent, Starts, smBot, SessionsInOrder, EndsAreDone
<1>11. ASSUME NEW w \in Windows, NEW s \in SmSessions, FireHook(w, s)
      PROVE  EndsAreDone'
  BY <1>11, <1>0, <1>b, <1>c DEF FireHook, Step, smWorld, smEvents, smBot,
     SessionsInOrder, EndsAreDone, Named, Cycles, Probes, NoProbe
<1>12. ASSUME NEW w \in Windows, NEW s \in SmSessions, NEW hooked \in BOOLEAN, StartAgent(w, s, hooked)
      PROVE  EndsAreDone'
  <2>1. \A t : ~EndLogged(w, t)
    BY <1>12 DEF StartAgent, EndLogged
  <2>2. \A t \in smEnded : t \in SmSessions /\ smState[w] # t
    BY <1>12, <1>0, <1>a, <2>1 DEF StartAgent, Starts, MapTypes, SessionsInOrder, EndsAreDone, Apart, Owns
  <2> QED
    BY <1>12, <1>0, <1>b, <2>2 DEF StartAgent, Starts, smBot, SessionsInOrder, EndsAreDone
<1>13. ASSUME NEW s \in SmSessions, WriteTranscript(s)
      PROVE  EndsAreDone'
  BY <1>13, <1>0, <1>b, <1>c DEF WriteTranscript, Step, smWorld, smEvents,
     smBot, SessionsInOrder, EndsAreDone, Named, Cycles, Probes, NoProbe
<1>14. ASSUME NEW ok \in BOOLEAN, ListLive(ok)
      PROVE  EndsAreDone'
  BY <1>14, <1>0, <1>b, <1>c DEF ListLive, smWorld, smEvents, smBot,
     SessionsInOrder, EndsAreDone, Named, Cycles, Probes, NoProbe
<1>15. CASE GraceLapses
  BY <1>15, <1>0, <1>b, <1>c DEF GraceLapses, Step, smWorld, smEvents, smBot,
     SessionsInOrder, EndsAreDone, Named, Cycles, Probes, NoProbe
<1>16. CASE ReadMap
  BY <1>16, <1>0, <1>b, <1>c DEF ReadMap, smWorld, smEvents, smBot,
     SessionsInOrder, EndsAreDone, Named, Cycles, Probes, NoProbe
<1>17. CASE TakeEvents
  BY <1>17, <1>0, <1>b, <1>c DEF TakeEvents, smWorld, smEvents, smBot,
     SessionsInOrder, EndsAreDone, Named, Cycles, Probes, NoProbe
<1>18. CASE DispatchEnd
  <2> DEFINE e == Head(smPending)
  <2>1. e = smPending[1] /\ 1 \in DOMAIN smPending
    BY <1>18, <1>a DEF DispatchEnd, MapTypes
  <2>2. e.window \in Windows /\ e.session \in SmSessions /\ EndLogged(e.window, e.session)
    <3>1. e.window \in Windows /\ e.session \in SmSessions
      <4> DEFINE E == Ends
      <4>1. smPending \in Seq(E) /\ smPending # << >>
        BY <1>18, <1>a DEF DispatchEnd, MapTypes
      <4> HIDE DEF E
      <4>2. Head(smPending) \in E
        BY <4>1
      <4> QED
        BY <4>2 DEF E, Ends
    <3>2. EndLogged(smPending[1].window, smPending[1].session)
      BY <2>1 DEF SessionsInOrder, PendingLogged
    <3> QED
      BY <2>1, <3>1, <3>2
  <2>3. smLog' = smLog /\ smAgent' = smAgent
    BY <1>18 DEF DispatchEnd, smWorld
  <2>4. CASE e.window \in smBound
    <3>1. smState' = [smState EXCEPT ![e.window] = Unset]
      BY <1>18, <2>4 DEF DispatchEnd
    <3>2. smEnded' = smEnded \cup {t \in {e.session} : ~Attached(t)}
      BY <1>18, <2>4 DEF DispatchEnd
    <3> HIDE DEF e
    <3>3. \A v \in Windows : smAgent[v] # NoSession /\ v # e.window => smState[v] # e.session
      BY <1>0, <2>2 DEF SessionsInOrder, Apart, Owns, AgentsLive
    <3>4. smEnded \subseteq SmSessions
      BY <1>a DEF MapTypes
    <3> QED
      BY <1>0, <1>b, <2>2, <2>3, <3>1, <3>2, <3>3, <3>4 DEF SessionsInOrder, EndsAreDone, Attached
  <2>5. CASE e.window \notin smBound
    <3>1. smState' = smState /\ smEnded' = smEnded
      BY <1>18, <2>5 DEF DispatchEnd
    <3> QED
      BY <1>b, <2>3, <3>1 DEF SessionsInOrder, EndsAreDone
  <2> QED
    BY <2>4, <2>5
<1>19. CASE LoadAndReconcile
  <2>1. /\ smLife' = smLife /\ smFile' = smFile /\ smAgent' = smAgent /\ smLog' = smLog
        /\ smMon'.raw = smMon.raw /\ smEnded' = smEnded
    BY <1>19, <1>0 DEF LoadAndReconcile, smWorld, smEvents, Cycles
  <2>2. \A v \in Windows : smState'[v] \in {smState[v], smFile[v], smMon.raw[v], Absent}
    BY <1>19, <1>a, LoadedIsEither DEF LoadAndReconcile
  <2>3. smEnded \subseteq SmSessions /\ \A t \in smEnded, v \in Windows :
          smAgent[v] # NoSession => t \notin {smFile[v], smMon.raw[v]}
    BY <1>0, <1>a DEF MapTypes, SessionsInOrder, EndsAreDone, Apart, Succeeded, Owns, AgentsLive
  <2> QED
    BY <2>3, <1>0, <1>b, <2>1, <2>2 DEF SessionsInOrder, EndsAreDone, Apart, Succeeded, Owns, AgentsLive
<1>20. CASE PruneMap
  BY <1>20, <1>0, <1>b, <1>c DEF PruneMap, smWorld, smEvents, smBot,
     SessionsInOrder, EndsAreDone, Named, Cycles, Probes, NoProbe
<1>21. CASE CheckUpdates
  BY <1>21, <1>0, <1>b, <1>c DEF CheckUpdates, smWorld, smEvents, smBot,
     SessionsInOrder, EndsAreDone, Named, Cycles, Probes, NoProbe
<1>22. CASE SaveMidCycle
  BY <1>22, <1>0, <1>b, <1>c DEF SaveMidCycle, smWorld, smEvents, smBot,
     SessionsInOrder, EndsAreDone, Named, Cycles, Probes, NoProbe
<1>23. CASE RestartBot
  BY <1>23, <1>0, <1>b, <1>c DEF RestartBot, smWorld, smEvents, smBot,
     SessionsInOrder, EndsAreDone, Named, Cycles, Probes, NoProbe
<1>24. CASE EndBootstrap
  BY <1>24, <1>0, <1>b, <1>c DEF EndBootstrap, smWorld, smEvents, smBot,
     SessionsInOrder, EndsAreDone, Named, Cycles, Probes, NoProbe
<1>25. CASE WriteSeed
  BY <1>25, <1>0, <1>b, <1>c DEF WriteSeed, smWorld, smEvents, smBot,
     SessionsInOrder, EndsAreDone, Named, Cycles, Probes, NoProbe
<1>26. CASE UNCHANGED smVars
  BY <1>26, <1>0, <1>b, <1>c DEF smVars, smWorld, smEvents, smBot,
     SessionsInOrder, EndsAreDone, Named, Cycles, Probes, NoProbe
<1> QED
  BY <1>1, <1>2, <1>3, <1>4, <1>5, <1>6, <1>7, <1>8, <1>9, <1>10, <1>11,
     <1>12, <1>13, <1>14, <1>15, <1>16, <1>17, <1>18, <1>19, <1>20, <1>21,
     <1>22, <1>23, <1>24, <1>25, <1>26 DEF SmNext

LEMMA OrderKept ==
  ASSUME SmHazards = {}, SessionsInOrder, [SmNext]_smVars
  PROVE  SessionsInOrder'
<1>1. MapTypes /\ ListingCovers /\ "pruneRace" \notin SmHazards
  BY DEF SessionsInOrder
<1> QED
  BY <1>1, TypesKept, CoversKept, NewKept, CleanKept, AgentsKept, EntriesKept, EventsKept,
     SeedKept, ApartKept, SucceededKept, PendingKept, EndsKept DEF SessionsInOrder

(* While no hazard of SmHazards happens: the entry a hook wrote survives   *)
(* its agent, no event is passed over by the saved offset, and a session   *)
(* whose end was handled never keeps a window against the running one      *)
(* (session_map.py, event_reader.py, effective_session_map_info).          *)
THEOREM SessionsKeepTheirWindows ==
  ASSUME SmHazards = {}
  PROVE  SmSpec => []SessionMapInv
<1>1. SessionsInOrder => SessionMapInv
  <2> SUFFICES ASSUME SessionsInOrder PROVE SessionMapInv
    OBVIOUS
  <2>1. SessionMapTypeOK
    BY DEF SessionsInOrder, MapTypes, SessionMapTypeOK, Named, Cycles
  <2>2. EndedSessionYields
    BY DEF SessionsInOrder, MapTypes, EndsAreDone, EndedSessionYields
  <2> QED
    BY <2>1, <2>2 DEF SessionsInOrder, SessionMapInv
<1>2. SessionsInOrder /\ [SmNext]_smVars => SessionsInOrder'
  BY OrderKept
<1> QED
  BY <1>1, <1>2, OrderBegins, PTL DEF SmSpec

-----------------------------------------------------------------------------
(* The routing table.                                                      *)

(* A list of retired topics within its limit, every entry with a sequence  *)
(* of its own below n                                                      *)
InOrder(rs, n) ==
  /\ rs \subseteq RetiredTopic /\ IsFiniteSet(rs) /\ Cardinality(rs) <= RetiredLimit
  /\ \A r, q \in rs : r.sequence = q.sequence => r = q
  /\ n \in Nat /\ \A r \in rs : r.sequence < n

(* What state.json may hold, and what it holds where a load keeps every row *)
Loadable(d) ==
  /\ d \in [legacy : [Users2 -> Maybe(RtWindows)], scoped : [Users3 -> Maybe(RtWindows)],
            groups : [Users2 -> Maybe(RtChats)], names : SUBSET RtWindows,
            retired : SUBSET RetiredTopic]
  /\ \E n \in Nat : InOrder(d.retired, n)
LegacyOnce(leg) ==
  \A u \in RtUsers : \A s, t \in RtThreads :
    leg[<<u, s>>] = leg[<<u, t>>] /\ leg[<<u, s>>] # NoRoute => s = t
ScopedOnce(sc) ==
  \A c \in RtChats, u, v \in RtUsers, s, t \in RtThreads :
    sc[<<u, c, s>>] = sc[<<v, c, t>>] /\ sc[<<u, c, s>>] # NoRoute => u = v /\ s = t
ShownOnce(leg, sc) == LegacyOnce(leg) /\ ScopedOnce(sc)

(* What is not marked dirty is on disk, or was loaded without a repair     *)
CleanIsStored ==
  ~dirty => \/ stored = Rows
            \/ Deduped(Normalized(stored)) = stored /\ Rows = Unbound(stored)

RtTypes ==
  /\ legacy \in [Users2 -> Maybe(RtWindows)] /\ scoped \in [Users3 -> Maybe(RtWindows)]
  /\ groups \in [Users2 -> Maybe(RtChats)] /\ names \subseteq RtWindows
  /\ InOrder(retired, nextRetired) /\ Loadable(stored)
  /\ dirty \in BOOLEAN /\ armed \in BOOLEAN
  /\ fixing \in [todo : SUBSET RetiredTopic, stage : {"idle", "check", "delete", "close"}]
  /\ fixing.stage # "idle" => fixing.todo # {}
RouterInOrder ==
  /\ RtTypes /\ ShownOnce(legacy, scoped) /\ IndexesMirrorRows /\ CleanIsStored

(* A topic whose deletion waits for its answer is bound by nobody          *)
RequestedIsUnbound ==
  fixing.stage = "delete" =>
    ScopedOwners(InHand.chat, InHand.thread) \cup Unscoped(InHand.chat, InHand.thread) = {}

-----------------------------------------------------------------------------
(* Sequences of retired topics.                                            *)

LEMMA FewestFirst ==
  ASSUME NEW S \in SUBSET Nat, S # {}
  PROVE  \E m \in S : \A k \in S : m <= k
<1> DEFINE Below == {ss \in Nat \X Nat : ss[1] < ss[2]}
<1>1. IsWellFoundedOn(Below, Nat)
  BY NatLessThanWellFounded DEF OpToRel
<1>2. PICK m \in S : \A k \in S : ~(<<k, m>> \in Below)
  BY <1>1, WFMin
<1>3. \A k \in S : m <= k
  <2> TAKE k \in S
  <2>1. <<k, m>> \in Nat \X Nat /\ <<k, m>>[1] = k /\ <<k, m>>[2] = m
    OBVIOUS
  <2>2. ~(<<k, m>> \in Below)
    BY <1>2
  <2>3. ~(k < m)
    BY <2>1, <2>2
  <2> QED
    BY <2>3
<1> QED
  BY <1>3

(* A set of numbers below some bound has a greatest one.                   *)
LEMMA GreatestOf ==
  ASSUME NEW S \in SUBSET Nat, S # {}, NEW n \in Nat, \A k \in S : k < n
  PROVE  Max(S) \in S /\ \A k \in S : k <= Max(S)
<1> DEFINE Bounds == {m \in Nat : \A k \in S : k <= m}
<1>1. n \in Bounds
  OBVIOUS
<1>2. PICK m \in Bounds : \A b \in Bounds : m <= b
  BY <1>1, FewestFirst
<1>3. m \in S
  <2> SUFFICES ASSUME m \notin S PROVE FALSE
    OBVIOUS
  <2>1. PICK k \in S : TRUE
    OBVIOUS
  <2>2. m \in Nat /\ k \in Nat /\ k <= m /\ k # m
    BY <2>1
  <2>3. m - 1 \in Nat /\ \A j \in S : j <= m - 1
    BY <2>2
  <2> QED
    BY <1>2, <2>2, <2>3
<1> HIDE DEF Bounds
<1>4. \A k \in S : m >= k
  BY <1>2 DEF Bounds
<1> QED
  BY <1>3, <1>4 DEF Max

LEMMA FewerInOrder ==
  ASSUME NEW qs, NEW rs, NEW n, InOrder(qs, n), rs \subseteq qs
  PROVE  InOrder(rs, n)
<1>1. IsFiniteSet(rs) /\ Cardinality(rs) <= Cardinality(qs)
  BY FS_Subset DEF InOrder
<1>2. Cardinality(rs) \in Nat /\ Cardinality(qs) \in Nat /\ RetiredLimit \in Nat
  BY <1>1, FS_CardinalityType, RoutingAssumption DEF InOrder
<1> QED
  BY <1>1, <1>2 DEF InOrder

LEMMA LoadedInOrder ==
  ASSUME NEW rs, NEW n \in Nat, InOrder(rs, n)
  PROVE  InOrder(rs, 1 + Max({0} \cup {r.sequence : r \in rs}))
<1> DEFINE S == {0} \cup {r.sequence : r \in rs}
<1>1. S \in SUBSET Nat /\ S # {} /\ \A k \in S : k < n + 1
  BY DEF InOrder, RetiredTopic
<1> HIDE DEF S
<1>2. n + 1 \in Nat
  OBVIOUS
<1>3. Max(S) \in S /\ \A k \in S : k <= Max(S)
  BY <1>1, <1>2, GreatestOf
<1>5. Max(S) \in Nat /\ \A r \in rs : r.sequence \in Nat /\ r.sequence <= Max(S)
  BY <1>1, <1>3 DEF S
<1>4. 1 + Max(S) \in Nat /\ \A r \in rs : r.sequence < 1 + Max(S)
  BY <1>5
<1> QED
  BY <1>4 DEF InOrder, S

(* One more topic retires, and the oldest goes when there are too many.    *)
LEMMA NewestInOrder ==
  ASSUME NEW rs, NEW n, InOrder(rs, n), NEW topic \in RetiredTopic, topic.sequence = n
  PROVE  InOrder(Newest(rs \cup {topic}), n + 1)
<1> DEFINE all == rs \cup {topic}
           new == Newest(all)
<1>1. /\ n \in Nat /\ RetiredLimit \in Nat /\ all \subseteq RetiredTopic /\ IsFiniteSet(all)
      /\ \A r \in all : r.sequence \in Nat
  BY FS_AddElement, RoutingAssumption DEF InOrder, RetiredTopic
<1>2. topic \notin rs /\ Cardinality(all) = Cardinality(rs) + 1
  BY FS_AddElement DEF InOrder
<1>3. Cardinality(rs) \in Nat /\ Cardinality(rs) <= RetiredLimit
  BY FS_CardinalityType DEF InOrder
<1>4. new \subseteq all
  BY DEF Newest
<1>5. \A r, q \in all : r.sequence = q.sequence => r = q
  BY DEF InOrder
<1>6. Cardinality(new) <= RetiredLimit /\ IsFiniteSet(new)
  <2>1. IsFiniteSet(new) /\ Cardinality(new) \in Nat /\ Cardinality(new) <= Cardinality(all)
    BY <1>1, <1>4, FS_Subset, FS_CardinalityType
  <2>2. CASE Cardinality(rs) < RetiredLimit
    BY <1>2, <1>3, <2>1, <2>2, <1>1
  <2>3. CASE Cardinality(rs) = RetiredLimit
    <3>1. PICK o \in all : \A r \in all : o.sequence <= r.sequence
      <4> DEFINE S == {r.sequence : r \in all}
      <4>1. S \in SUBSET Nat /\ S # {}
        BY <1>1
      <4> HIDE DEF S
      <4>2. PICK m \in S : \A k \in S : m <= k
        BY <4>1, FewestFirst
      <4> QED
        BY <4>2 DEF S
    <3>2. {q \in all : q.sequence > o.sequence} = all \ {o}
      BY <3>1, <1>1, <1>5
    <3>3. IsFiniteSet(all \ {o}) /\ Cardinality(all \ {o}) = Cardinality(all) - 1
      BY <1>1, <3>1, FS_RemoveElement
    <3>4. Cardinality(all \ {o}) = RetiredLimit
      BY <3>3, <1>2, <1>3, <2>3, <1>1
    <3>5. o \notin new
      BY <3>2, <3>4, <1>1 DEF Newest
    <3>6. new \subseteq all \ {o}
      BY <1>4, <3>5
    <3> QED
      BY <3>3, <3>4, <3>6, <2>1, FS_Subset
  <2> QED
    BY <2>2, <2>3, <1>1, <1>3
<1>7. \A r \in all : r.sequence < n + 1
  BY <1>1 DEF InOrder
<1>8. n + 1 \in Nat
  BY <1>1
<1> HIDE DEF all, new
<1>9. InOrder(new, n + 1)
  BY <1>1, <1>4, <1>5, <1>6, <1>7, <1>8 DEF InOrder
<1> QED
  BY <1>9 DEF all, new

LEMMA RetireKeeps ==
  ASSUME InOrder(retired, nextRetired), NEW u \in RtUsers, NEW c \in RtChats,
         NEW t \in RtThreads, NEW e \in BOOLEAN, Retire(u, c, t, e)
  PROVE  InOrder(retired', nextRetired')
<1> DEFINE topic == [user |-> u, chat |-> c, thread |-> t, eligible |-> e,
                     sequence |-> nextRetired]
           rest == Forgotten(retired, c, t)
<1>1. topic \in RetiredTopic /\ topic.sequence = nextRetired
  BY DEF RetiredTopic, InOrder
<1>2. InOrder(rest, nextRetired)
  BY FewerInOrder DEF Forgotten
<1>3. retired' = Newest(rest \cup {topic}) /\ nextRetired' = nextRetired + 1
  BY DEF Retire
<1> HIDE DEF topic, rest
<1> QED
  BY <1>1, <1>2, <1>3, NewestInOrder

-----------------------------------------------------------------------------
(* Loading.                                                                *)

LEMMA FieldsOf ==
  ASSUME NEW d, Loadable(d)
  PROVE  /\ d.legacy \in [Users2 -> Maybe(RtWindows)]
         /\ d.scoped \in [Users3 -> Maybe(RtWindows)]
         /\ d.groups \in [Users2 -> Maybe(RtChats)] /\ d.names \subseteq RtWindows
         /\ d.retired \subseteq RetiredTopic /\ \E n \in Nat : InOrder(d.retired, n)
BY DEF Loadable

LEMMA FieldsTell ==
  ASSUME NEW d, Loadable(d)
  PROVE  d = [legacy |-> d.legacy, scoped |-> d.scoped, groups |-> d.groups,
              names |-> d.names, retired |-> d.retired]
BY DEF Loadable

(* Promotion and the removal of duplicates keep the types ...              *)
LEMMA NormalizedLoads ==
  ASSUME NEW d, Loadable(d)
  PROVE  Loadable(Normalized(d))
<1> DEFINE e == Normalized(d)
      leg == [k \in Users2 |-> IF k \in Promotable(d) THEN NoRoute ELSE d.legacy[k]]
      grp == [k \in Users2 |-> IF k \in Promotable(d) THEN NoRoute ELSE d.groups[k]]
      sc == [k \in Users3 |->
               LET row == <<k[1], k[3]>> IN
               IF /\ d.scoped[k] = NoRoute
                  /\ row \in Promotable(d) /\ d.groups[row] = k[2]
               THEN d.legacy[row] ELSE d.scoped[k]]
<1>0. e = [d EXCEPT !.legacy = leg, !.groups = grp, !.scoped = sc]
  BY DEF Normalized
<1>s. sc = [k \in Users3 |->
           IF /\ d.scoped[k] = NoRoute
              /\ <<k[1], k[3]>> \in Promotable(d) /\ d.groups[<<k[1], k[3]>>] = k[2]
           THEN d.legacy[<<k[1], k[3]>>] ELSE d.scoped[k]]
  OBVIOUS
<1>l. leg \in [Users2 -> Maybe(RtWindows)] /\ grp \in [Users2 -> Maybe(RtChats)]
  BY FieldsOf DEF Maybe
<1> HIDE DEF e, leg, grp, sc
<1>e. e = [legacy |-> leg, scoped |-> sc, groups |-> grp, names |-> d.names,
           retired |-> d.retired]
  <2>1. d = [legacy |-> d.legacy, scoped |-> d.scoped, groups |-> d.groups,
             names |-> d.names, retired |-> d.retired]
    BY FieldsTell
  <2> QED
    BY <1>0, <2>1
<1>1. /\ e.legacy \in [Users2 -> Maybe(RtWindows)]
      /\ e.groups \in [Users2 -> Maybe(RtChats)]
  BY <1>e, <1>l
<1>2. e.scoped \in [Users3 -> Maybe(RtWindows)]
  <2>1. e.scoped = [k \in Users3 |->
           IF /\ d.scoped[k] = NoRoute
              /\ <<k[1], k[3]>> \in Promotable(d) /\ d.groups[<<k[1], k[3]>>] = k[2]
           THEN d.legacy[<<k[1], k[3]>>] ELSE d.scoped[k]]
    BY <1>e, <1>s
  <2>2. \A k \in Users3 : d.scoped[k] \in Maybe(RtWindows)
    BY FieldsOf
  <2>3. \A k \in Promotable(d) : d.legacy[k] \in Maybe(RtWindows)
    BY FieldsOf DEF Promotable
  <2> QED
    BY <2>1, <2>2, <2>3
<1>3. e.names = d.names /\ e.retired = d.retired
      /\ e = [legacy |-> e.legacy, scoped |-> e.scoped, groups |-> e.groups,
              names |-> e.names, retired |-> e.retired]
  BY <1>e
<1>4. Loadable(e)
  BY <1>1, <1>2, <1>3, FieldsOf DEF Loadable
<1> QED
  BY <1>4 DEF e

LEMMA DedupedLoads ==
  ASSUME NEW d, Loadable(d)
  PROVE  Loadable(Deduped(d)) /\ ShownOnce(Deduped(d).legacy, Deduped(d).scoped)
<1> DEFINE e == Deduped(d)
      leg == [k \in Users2 |-> IF k \in LegacyDuplicates(d) THEN NoRoute
                               ELSE d.legacy[k]]
      sc == [k \in Users3 |-> IF k \in ScopedDuplicates(d) THEN NoRoute
                              ELSE d.scoped[k]]
      grp == [k \in Users2 |->
                IF \E l \in ScopedDuplicates(d) : <<l[1], l[3]>> = k THEN NoRoute
                ELSE d.groups[k]]
<1>0. e = [d EXCEPT !.legacy = leg, !.scoped = sc, !.groups = grp]
  BY DEF Deduped
<1> HIDE DEF e, leg, grp, sc
<1>e. e = [legacy |-> leg, scoped |-> sc, groups |-> grp, names |-> d.names,
           retired |-> d.retired]
  <2>1. d = [legacy |-> d.legacy, scoped |-> d.scoped, groups |-> d.groups,
             names |-> d.names, retired |-> d.retired]
    BY FieldsTell
  <2> QED
    BY <1>0, <2>1
<1>1. /\ e.legacy = [k \in Users2 |-> IF k \in LegacyDuplicates(d) THEN NoRoute
                                      ELSE d.legacy[k]]
      /\ e.scoped = [k \in Users3 |-> IF k \in ScopedDuplicates(d) THEN NoRoute
                                      ELSE d.scoped[k]]
      /\ e.groups = [k \in Users2 |->
           IF \E l \in ScopedDuplicates(d) : <<l[1], l[3]>> = k THEN NoRoute
           ELSE d.groups[k]]
      /\ e.names = d.names /\ e.retired = d.retired
      /\ e = [legacy |-> e.legacy, scoped |-> e.scoped, groups |-> e.groups,
              names |-> e.names, retired |-> e.retired]
  BY <1>e DEF leg, grp, sc
<1>2. /\ e.legacy \in [Users2 -> Maybe(RtWindows)]
      /\ e.scoped \in [Users3 -> Maybe(RtWindows)]
      /\ e.groups \in [Users2 -> Maybe(RtChats)]
  BY <1>1, FieldsOf DEF Maybe
<1>3. Loadable(e)
  BY <1>1, <1>2, FieldsOf DEF Loadable
<1>4. ASSUME NEW u \in RtUsers, NEW s \in RtThreads, NEW t \in RtThreads,
             e.legacy[<<u, s>>] = e.legacy[<<u, t>>], e.legacy[<<u, s>>] # NoRoute, s < t
      PROVE  FALSE
  <2>1. <<u, s>> \in Users2 /\ <<u, t>> \in Users2
    BY DEF Users2
  <2>2. e.legacy[<<u, s>>] = d.legacy[<<u, s>>] /\ e.legacy[<<u, t>>] = d.legacy[<<u, t>>]
        /\ <<u, s>> \notin LegacyDuplicates(d)
    BY <1>1, <1>4, <2>1
  <2>3. <<u, s>> \in LegacyDuplicates(d)
    BY <1>4, <2>1, <2>2 DEF LegacyDuplicates
  <2> QED
    BY <2>2, <2>3
<1>5. ASSUME NEW c \in RtChats, NEW u \in RtUsers, NEW v \in RtUsers,
             NEW s \in RtThreads, NEW t \in RtThreads,
             e.scoped[<<u, c, s>>] = e.scoped[<<v, c, t>>], e.scoped[<<u, c, s>>] # NoRoute,
             Outranks(<<v, c, t>>, <<u, c, s>>)
      PROVE  FALSE
  <2>1. <<u, c, s>> \in Users3 /\ <<v, c, t>> \in Users3
    BY DEF Users3
  <2>2. e.scoped[<<u, c, s>>] = d.scoped[<<u, c, s>>] /\ e.scoped[<<v, c, t>>] = d.scoped[<<v, c, t>>]
        /\ <<u, c, s>> \notin ScopedDuplicates(d)
    BY <1>1, <1>5, <2>1
  <2>3. <<u, c, s>> \in ScopedDuplicates(d)
    BY <1>5, <2>1, <2>2 DEF ScopedDuplicates
  <2> QED
    BY <2>2, <2>3
<1>6. \A u \in RtUsers : \A s, t \in RtThreads :
         e.legacy[<<u, s>>] = e.legacy[<<u, t>>] /\ e.legacy[<<u, s>>] # NoRoute => s = t
  <2> SUFFICES ASSUME NEW u \in RtUsers, NEW s \in RtThreads, NEW t \in RtThreads,
                      e.legacy[<<u, s>>] = e.legacy[<<u, t>>], e.legacy[<<u, s>>] # NoRoute
               PROVE  s = t
    OBVIOUS
  <2>1. ~(s < t) /\ ~(t < s)
    BY <1>4
  <2> QED
    BY <2>1, RoutingAssumption
<1>7. \A c \in RtChats, u, v \in RtUsers, s, t \in RtThreads :
         e.scoped[<<u, c, s>>] = e.scoped[<<v, c, t>>] /\ e.scoped[<<u, c, s>>] # NoRoute
           => u = v /\ s = t
  <2> SUFFICES ASSUME NEW c \in RtChats, NEW u \in RtUsers, NEW v \in RtUsers,
                      NEW s \in RtThreads, NEW t \in RtThreads,
                      e.scoped[<<u, c, s>>] = e.scoped[<<v, c, t>>], e.scoped[<<u, c, s>>] # NoRoute
               PROVE  u = v /\ s = t
    OBVIOUS
  <2>1. ~Outranks(<<v, c, t>>, <<u, c, s>>) /\ ~Outranks(<<u, c, s>>, <<v, c, t>>)
    BY <1>5
  <2>2. u \in Nat /\ v \in Nat /\ s \in Nat /\ t \in Nat
    BY RoutingAssumption
  <2> QED
    BY <2>1, <2>2 DEF Outranks
<1>8. ShownOnce(e.legacy, e.scoped)
  BY <1>6, <1>7 DEF ShownOnce, LegacyOnce, ScopedOnce
<1> QED
  BY <1>3, <1>8 DEF e

LEMMA UnboundLoads ==
  ASSUME NEW d, Loadable(d)
  PROVE  /\ Loadable(Unbound(d)) /\ Unbound(d).retired \subseteq d.retired
         /\ Unbound(d).legacy = d.legacy /\ Unbound(d).scoped = d.scoped
         /\ Unbound(d).groups = d.groups /\ Unbound(d).names = d.names
         /\ Unbound(Unbound(d)) = Unbound(d)
<1> DEFINE e == Unbound(d)
<1>1. /\ e.retired = {r \in d.retired :
             \A u \in RtUsers : d.scoped[<<u, r.chat, r.thread>>] = NoRoute}
      /\ e.legacy = d.legacy /\ e.scoped = d.scoped /\ e.groups = d.groups
      /\ e.names = d.names
      /\ e = [legacy |-> e.legacy, scoped |-> e.scoped, groups |-> e.groups,
              names |-> e.names, retired |-> e.retired]
  <2> DEFINE rs == {r \in d.retired :
                      \A u \in RtUsers : d.scoped[<<u, r.chat, r.thread>>] = NoRoute}
  <2>1. e = [d EXCEPT !.retired = rs]
    BY DEF Unbound
  <2>2. d = [legacy |-> d.legacy, scoped |-> d.scoped, groups |-> d.groups,
             names |-> d.names, retired |-> d.retired]
    BY DEF Loadable
  <2> HIDE DEF e, rs
  <2>3. e = [legacy |-> d.legacy, scoped |-> d.scoped, groups |-> d.groups,
             names |-> d.names, retired |-> rs]
    BY <2>1, <2>2
  <2> QED
    BY <2>3 DEF rs
<1> HIDE DEF e
<1>2. \E n \in Nat : InOrder(e.retired, n)
  BY <1>1, FieldsOf, FewerInOrder
<1>3. Loadable(e)
  BY <1>1, <1>2, FieldsOf DEF Loadable
<1>4. Unbound(e) = e
  <2>1. {r \in e.retired : \A u \in RtUsers : e.scoped[<<u, r.chat, r.thread>>] = NoRoute}
           = e.retired
    BY <1>1
  <2> QED
    BY <1>1, <2>1 DEF Unbound
<1> QED
  BY <1>1, <1>3, <1>4 DEF e

(* ... and a table without duplicates or rows to promote loads as it is.   *)
LEMMA NothingToRepair ==
  ASSUME NEW d, Loadable(d), Promotable(d) = {}, ShownOnce(d.legacy, d.scoped)
  PROVE  Deduped(Normalized(d)) = d
<1>1. d = [legacy |-> d.legacy, scoped |-> d.scoped, groups |-> d.groups,
           names |-> d.names, retired |-> d.retired]
  BY DEF Loadable
<1>2. Normalized(d) = d
  <2>1. d.legacy = [k \in Users2 |-> IF k \in Promotable(d) THEN NoRoute ELSE d.legacy[k]]
    BY FieldsOf
  <2>2. d.groups = [k \in Users2 |-> IF k \in Promotable(d) THEN NoRoute ELSE d.groups[k]]
    BY FieldsOf
  <2>3. d.scoped = [k \in Users3 |->
           LET row == <<k[1], k[3]>> IN
           IF /\ d.scoped[k] = NoRoute
              /\ row \in Promotable(d) /\ d.groups[row] = k[2]
           THEN d.legacy[row] ELSE d.scoped[k]]
    BY FieldsOf
  <2> QED
    BY <1>1, <2>1, <2>2, <2>3 DEF Normalized
<1>3. LegacyDuplicates(d) = {}
  <2> SUFFICES ASSUME NEW k \in LegacyDuplicates(d) PROVE FALSE
    OBVIOUS
  <2>1. PICK u \in RtUsers, s \in RtThreads : k = <<u, s>>
    BY DEF LegacyDuplicates, Users2
  <2>2. PICK t \in RtThreads : t > s /\ d.legacy[<<u, t>>] = d.legacy[<<u, s>>]
    BY <2>1 DEF LegacyDuplicates
  <2>3. d.legacy[<<u, s>>] # NoRoute
    BY <2>1 DEF LegacyDuplicates
  <2> QED
    BY <2>2, <2>3, RoutingAssumption DEF ShownOnce, LegacyOnce, ScopedOnce
<1>4. ScopedDuplicates(d) = {}
  <2> SUFFICES ASSUME NEW k \in ScopedDuplicates(d) PROVE FALSE
    OBVIOUS
  <2>1. PICK u \in RtUsers, c \in RtChats, s \in RtThreads : k = <<u, c, s>>
    BY DEF ScopedDuplicates, Users3
  <2>2. PICK l \in Users3 : l[2] = k[2] /\ d.scoped[l] = d.scoped[k] /\ Outranks(l, k)
    BY DEF ScopedDuplicates
  <2>3. PICK v \in RtUsers, t \in RtThreads : l = <<v, c, t>>
    BY <2>1, <2>2 DEF Users3
  <2>4. d.scoped[<<u, c, s>>] # NoRoute
    BY <2>1 DEF ScopedDuplicates
  <2>5. u = v /\ s = t
    BY <2>1, <2>2, <2>3, <2>4 DEF ShownOnce, LegacyOnce, ScopedOnce
  <2>6. u \in Nat /\ s \in Nat
    BY RoutingAssumption
  <2> QED
    BY <2>1, <2>2, <2>3, <2>5, <2>6 DEF Outranks
<1>5. Deduped(d) = d
  <2>1. d.legacy = [k \in Users2 |-> IF k \in LegacyDuplicates(d) THEN NoRoute
                                     ELSE d.legacy[k]]
    BY <1>3, FieldsOf
  <2>2. d.scoped = [k \in Users3 |-> IF k \in ScopedDuplicates(d) THEN NoRoute
                                     ELSE d.scoped[k]]
    BY <1>4, FieldsOf
  <2>3. d.groups = [k \in Users2 |->
           IF \E l \in ScopedDuplicates(d) : <<l[1], l[3]>> = k THEN NoRoute
           ELSE d.groups[k]]
    BY <1>4, FieldsOf
  <2> QED
    BY <1>1, <2>1, <2>2, <2>3 DEF Deduped
<1> QED
  BY <1>2, <1>5

LEMMA RowsLoad ==
  ASSUME RtTypes
  PROVE  Loadable(Rows)
BY DEF RtTypes, Rows, Loadable, InOrder

(* A restart reads the file.                                               *)
LEMMA ReloadInOrder ==
  ASSUME NEW d, Loadable(d), Reload(d)
  PROVE  RouterInOrder'
<1> DEFINE e == Deduped(Normalized(d))
<1>1. Loadable(e) /\ ShownOnce(e.legacy, e.scoped)
  BY NormalizedLoads, DedupedLoads
<1>2. e.retired = d.retired
  BY DEF Deduped, Normalized, Loadable
<1>3. /\ legacy' = e.legacy /\ scoped' = e.scoped /\ groups' = e.groups
      /\ names' = e.names /\ retired' = Unbound(e).retired
      /\ retired' \subseteq d.retired
      /\ idx' = IndexOf(legacy') /\ cidx' = ChatIndexOf(scoped')
  BY <1>1, <1>2, UnboundLoads DEF Reload, TakeRows, Loaded
<1>4. InOrder(retired', nextRetired')
  <2>1. PICK n \in Nat : InOrder(d.retired, n)
    BY FieldsOf
  <2>2. InOrder(d.retired, nextRetired')
    BY <2>1, LoadedInOrder DEF Reload
  <2> QED
    BY <1>3, <2>2, FewerInOrder
<1>5. stored' = d /\ dirty' = (e # d) /\ armed' = (e # d) /\ fixing' = RtIdle
  BY DEF Reload, Repaired
<1>6. Rows' = Unbound(e)
  <2>1. Unbound(e) \in [legacy : [Users2 -> Maybe(RtWindows)],
            scoped : [Users3 -> Maybe(RtWindows)], groups : [Users2 -> Maybe(RtChats)],
            names : SUBSET RtWindows, retired : SUBSET RetiredTopic]
    BY <1>1, UnboundLoads DEF Loadable
  <2>2. Unbound(e).legacy = e.legacy /\ Unbound(e).scoped = e.scoped
        /\ Unbound(e).groups = e.groups /\ Unbound(e).names = e.names
    BY <1>1, UnboundLoads
  <2> HIDE DEF e
  <2> QED
    BY <1>3, <2>1, <2>2 DEF Rows
<1> HIDE DEF e
<1>7. ~dirty' => Deduped(Normalized(stored')) = stored' /\ Rows' = Unbound(stored')
  BY <1>5, <1>6 DEF e
<1>8. RtTypes'
  BY <1>1, <1>3, <1>4, <1>5, FieldsOf DEF RtTypes, RtIdle
<1>9. ShownOnce(legacy', scoped')
  BY <1>1, <1>3
<1> QED
  BY <1>3, <1>7, <1>8, <1>9 DEF RouterInOrder, IndexesMirrorRows, CleanIsStored, ShownOnce, LegacyOnce, ScopedOnce

-----------------------------------------------------------------------------
(* The reverse indexes.                                                    *)

(* An index that tells for every window the topic that shows it            *)
Tells(ix, leg) ==
  \A u \in RtUsers, w \in RtWindows :
    /\ \A t \in RtThreads : leg[<<u, t>>] = w => ix[<<u, w>>] = t
    /\ (\A t \in RtThreads : leg[<<u, t>>] # w) => ix[<<u, w>>] = NoRoute
TellsChat(ix, sc) ==
  \A u \in RtUsers, c \in RtChats, w \in RtWindows :
    /\ \A t \in RtThreads : sc[<<u, c, t>>] = w => ix[<<u, c, w>>] = t
    /\ (\A t \in RtThreads : sc[<<u, c, t>>] # w) => ix[<<u, c, w>>] = NoRoute

Keyed(ix) == ix \in [RtUsers \X RtWindows -> Maybe(RtThreads)]
KeyedChat(ix) == ix \in [RtUsers \X RtChats \X RtWindows -> Maybe(RtThreads)]

(* The rows and the index when topic t of u gets the window w              *)
LegacyPut(leg, u, t, w) ==
  [k \in Users2 |-> IF k = <<u, t>> THEN w
                    ELSE IF k[1] = u /\ leg[k] = w THEN NoRoute ELSE leg[k]]
IndexPut(ix, leg, u, t, w) ==
  [p \in DOMAIN ix |-> IF p = <<u, w>> THEN t
                       ELSE IF p = <<u, leg[<<u, t>>]>> THEN NoRoute ELSE ix[p]]
Losers(sc, u, c, t, w) == {k \in Users3 : k[2] = c /\ sc[k] = w /\ k # <<u, c, t>>}
ScopedPut(sc, gone, u, c, t, w) ==
  [k \in Users3 |-> IF k = <<u, c, t>> THEN w ELSE IF k \in gone THEN NoRoute ELSE sc[k]]
ChatIndexPut(ix, sc, gone, u, c, t, w) ==
  [p \in DOMAIN ix |-> IF p = <<u, c, w>> THEN t
     ELSE IF p = <<u, c, sc[<<u, c, t>>]>> THEN NoRoute
     ELSE IF p[3] = w /\ \E g \in gone : <<g[1], g[2]>> = <<p[1], p[2]>>
     THEN NoRoute ELSE ix[p]]

Without(f, k) == [f EXCEPT ![k] = NoRoute]

LEMMA OnlyOne ==
  ASSUME NEW t \in RtThreads
  PROVE  Max({t}) = t
<1>1. t \in Nat
  BY RoutingAssumption
<1> QED
  BY <1>1 DEF Max

LEMMA IndexTells ==
  ASSUME NEW leg \in [Users2 -> Maybe(RtWindows)], LegacyOnce(leg), NEW ix
  PROVE  ix = IndexOf(leg) <=> Keyed(ix) /\ Tells(ix, leg)
<1> DEFINE On(p) == {t \in RtThreads : leg[<<p[1], t>>] = p[2]}
           New(p) == IF On(p) = {} THEN NoRoute ELSE Max(On(p))
<1>1. IndexOf(leg) = [p \in RtUsers \X RtWindows |-> New(p)]
  BY DEF IndexOf
<1>2. ASSUME NEW u \in RtUsers, NEW w \in RtWindows
      PROVE  /\ \A t \in RtThreads : leg[<<u, t>>] = w => New(<<u, w>>) = t
             /\ (\A t \in RtThreads : leg[<<u, t>>] # w) => New(<<u, w>>) = NoRoute
  <2>1. ASSUME NEW t \in RtThreads, leg[<<u, t>>] = w PROVE New(<<u, w>>) = t
    <3>1. w # NoRoute
      BY RoutingAssumption
    <3>2. On(<<u, w>>) = {t}
      BY <2>1, <3>1 DEF LegacyOnce
    <3> QED
      BY <3>2, OnlyOne
  <2>2. ASSUME \A t \in RtThreads : leg[<<u, t>>] # w PROVE New(<<u, w>>) = NoRoute
    BY <2>2
  <2> QED
    BY <2>1, <2>2
<1> HIDE DEF New
<1>3. ASSUME ix = IndexOf(leg) PROVE Keyed(ix) /\ Tells(ix, leg)
  <2>1. \A u \in RtUsers, w \in RtWindows : ix[<<u, w>>] = New(<<u, w>>)
    BY <1>1, <1>3
  <2>2. Tells(ix, leg)
    <3> SUFFICES ASSUME NEW u \in RtUsers, NEW w \in RtWindows
                 PROVE  /\ \A t \in RtThreads : leg[<<u, t>>] = w => ix[<<u, w>>] = t
                        /\ (\A t \in RtThreads : leg[<<u, t>>] # w) => ix[<<u, w>>] = NoRoute
      BY DEF Tells
    <3> QED
      BY <1>2, <2>1
  <2>3. \A u \in RtUsers, w \in RtWindows : New(<<u, w>>) \in Maybe(RtThreads)
    <3> TAKE u \in RtUsers, w \in RtWindows
    <3>1. CASE \E t \in RtThreads : leg[<<u, t>>] = w
      BY <1>2, <3>1 DEF Maybe
    <3>2. CASE \A t \in RtThreads : leg[<<u, t>>] # w
      BY <1>2, <3>2 DEF Maybe
    <3> QED
      BY <3>1, <3>2
  <2>4. \A p \in RtUsers \X RtWindows : New(p) \in Maybe(RtThreads)
    BY <2>3
  <2>5. Keyed(ix)
    BY <1>1, <1>3, <2>4 DEF Keyed
  <2> QED
    BY <2>2, <2>5
<1>4. ASSUME Keyed(ix), Tells(ix, leg) PROVE ix = IndexOf(leg)
  <2>1. \A u \in RtUsers, w \in RtWindows : ix[<<u, w>>] = New(<<u, w>>)
    <3> TAKE u \in RtUsers, w \in RtWindows
    <3>1. CASE \E t \in RtThreads : leg[<<u, t>>] = w
      BY <1>2, <1>4, <3>1 DEF Tells
    <3>2. CASE \A t \in RtThreads : leg[<<u, t>>] # w
      BY <1>2, <1>4, <3>2 DEF Tells
    <3> QED
      BY <3>1, <3>2
  <2>2. \A p \in RtUsers \X RtWindows : ix[p] = New(p)
    BY <2>1
  <2> QED
    BY <1>1, <1>4, <2>2 DEF Keyed
<1> QED
  BY <1>3, <1>4

LEMMA ChatIndexTells ==
  ASSUME NEW sc \in [Users3 -> Maybe(RtWindows)], ScopedOnce(sc), NEW ix
  PROVE  ix = ChatIndexOf(sc) <=> KeyedChat(ix) /\ TellsChat(ix, sc)
<1> DEFINE Domain == RtUsers \X RtChats \X RtWindows
           On(p) == {t \in RtThreads : sc[<<p[1], p[2], t>>] = p[3]}
           New(p) == IF On(p) = {} THEN NoRoute ELSE Max(On(p))
<1>1. ChatIndexOf(sc) = [p \in Domain |-> New(p)]
  BY DEF ChatIndexOf
<1>2. ASSUME NEW u \in RtUsers, NEW c \in RtChats, NEW w \in RtWindows
      PROVE  /\ \A t \in RtThreads : sc[<<u, c, t>>] = w => New(<<u, c, w>>) = t
             /\ (\A t \in RtThreads : sc[<<u, c, t>>] # w) => New(<<u, c, w>>) = NoRoute
  <2>1. ASSUME NEW t \in RtThreads, sc[<<u, c, t>>] = w PROVE New(<<u, c, w>>) = t
    <3>1. w # NoRoute
      BY RoutingAssumption
    <3>2. On(<<u, c, w>>) = {t}
      BY <2>1, <3>1 DEF ScopedOnce
    <3> QED
      BY <3>2, OnlyOne
  <2>2. ASSUME \A t \in RtThreads : sc[<<u, c, t>>] # w PROVE New(<<u, c, w>>) = NoRoute
    BY <2>2
  <2> QED
    BY <2>1, <2>2
<1> HIDE DEF New
<1>3. ASSUME ix = ChatIndexOf(sc) PROVE KeyedChat(ix) /\ TellsChat(ix, sc)
  <2>1. \A u \in RtUsers, c \in RtChats, w \in RtWindows : ix[<<u, c, w>>] = New(<<u, c, w>>)
    BY <1>1, <1>3
  <2>2. TellsChat(ix, sc)
    <3> SUFFICES ASSUME NEW u \in RtUsers, NEW c \in RtChats, NEW w \in RtWindows
                 PROVE  /\ \A t \in RtThreads : sc[<<u, c, t>>] = w => ix[<<u, c, w>>] = t
                        /\ (\A t \in RtThreads : sc[<<u, c, t>>] # w)
                             => ix[<<u, c, w>>] = NoRoute
      BY DEF TellsChat
    <3> QED
      BY <1>2, <2>1
  <2>3. \A u \in RtUsers, c \in RtChats, w \in RtWindows : New(<<u, c, w>>) \in Maybe(RtThreads)
    <3> TAKE u \in RtUsers, c \in RtChats, w \in RtWindows
    <3>1. CASE \E t \in RtThreads : sc[<<u, c, t>>] = w
      BY <1>2, <3>1 DEF Maybe
    <3>2. CASE \A t \in RtThreads : sc[<<u, c, t>>] # w
      BY <1>2, <3>2 DEF Maybe
    <3> QED
      BY <3>1, <3>2
  <2>4. \A p \in Domain : New(p) \in Maybe(RtThreads)
    BY <2>3
  <2>5. KeyedChat(ix)
    BY <1>1, <1>3, <2>4 DEF KeyedChat
  <2> QED
    BY <2>2, <2>5
<1>4. ASSUME KeyedChat(ix), TellsChat(ix, sc) PROVE ix = ChatIndexOf(sc)
  <2>1. \A u \in RtUsers, c \in RtChats, w \in RtWindows : ix[<<u, c, w>>] = New(<<u, c, w>>)
    <3> TAKE u \in RtUsers, c \in RtChats, w \in RtWindows
    <3>1. CASE \E t \in RtThreads : sc[<<u, c, t>>] = w
      BY <1>2, <1>4, <3>1 DEF TellsChat
    <3>2. CASE \A t \in RtThreads : sc[<<u, c, t>>] # w
      BY <1>2, <1>4, <3>2 DEF TellsChat
    <3> QED
      BY <3>1, <3>2
  <2>2. \A p \in Domain : ix[p] = New(p)
    BY <2>1
  <2> QED
    BY <1>1, <1>4, <2>2 DEF KeyedChat
<1> QED
  BY <1>3, <1>4

(* A topic loses its window.                                               *)
LEMMA LegacyRowGoes ==
  ASSUME NEW leg \in [Users2 -> Maybe(RtWindows)], LegacyOnce(leg),
         NEW ix, Keyed(ix), Tells(ix, leg),
         NEW u \in RtUsers, NEW t \in RtThreads, leg[<<u, t>>] # NoRoute,
         NEW leg2, leg2 = Without(leg, <<u, t>>),
         NEW ix2, ix2 = Without(ix, <<u, leg[<<u, t>>]>>)
  PROVE  leg2 \in [Users2 -> Maybe(RtWindows)] /\ LegacyOnce(leg2) /\ Keyed(ix2) /\ Tells(ix2, leg2)
<1>1. /\ leg2 \in [Users2 -> Maybe(RtWindows)]
      /\ \A v \in RtUsers, s \in RtThreads :
           leg2[<<v, s>>] = IF v = u /\ s = t THEN NoRoute ELSE leg[<<v, s>>]
  BY DEF Users2, Maybe, Without
<1>2. LegacyOnce(leg2)
  BY <1>1 DEF LegacyOnce
<1>3. /\ Keyed(ix2)
      /\ \A v \in RtUsers, w \in RtWindows :
           ix2[<<v, w>>] = IF v = u /\ w = leg[<<u, t>>] THEN NoRoute ELSE ix[<<v, w>>]
  BY DEF Keyed, Maybe, Without
<1>4. Tells(ix2, leg2)
  <2> SUFFICES ASSUME NEW v \in RtUsers, NEW w \in RtWindows
               PROVE  /\ \A s \in RtThreads : leg2[<<v, s>>] = w => ix2[<<v, w>>] = s
                      /\ (\A s \in RtThreads : leg2[<<v, s>>] # w) => ix2[<<v, w>>] = NoRoute
    BY <1>3 DEF Tells
  <2>1. w # NoRoute
    BY RoutingAssumption
  <2>2. ASSUME NEW s \in RtThreads, leg2[<<v, s>>] = w PROVE ix2[<<v, w>>] = s
    <3>1. leg[<<v, s>>] = w /\ ~(v = u /\ s = t)
      BY <1>1, <2>1, <2>2
    <3>2. ~(v = u /\ w = leg[<<u, t>>])
      BY <2>1, <3>1 DEF LegacyOnce
    <3> QED
      BY <1>3, <3>1, <3>2 DEF Tells
  <2>3. ASSUME \A s \in RtThreads : leg2[<<v, s>>] # w PROVE ix2[<<v, w>>] = NoRoute
    <3>1. CASE v = u /\ w = leg[<<u, t>>]
      BY <1>3, <3>1
    <3>2. CASE ~(v = u /\ w = leg[<<u, t>>])
      BY <1>1, <1>3, <2>3, <3>2 DEF Tells
    <3> QED
      BY <3>1, <3>2
  <2> QED
    BY <2>2, <2>3
<1> QED
  BY <1>1, <1>2, <1>3, <1>4

LEMMA ScopedRowGoes ==
  ASSUME NEW sc \in [Users3 -> Maybe(RtWindows)], ScopedOnce(sc),
         NEW ix, KeyedChat(ix), TellsChat(ix, sc),
         NEW u \in RtUsers, NEW c \in RtChats, NEW t \in RtThreads, sc[<<u, c, t>>] # NoRoute,
         NEW sc2, sc2 = Without(sc, <<u, c, t>>),
         NEW ix2, ix2 = Without(ix, <<u, c, sc[<<u, c, t>>]>>)
  PROVE  /\ sc2 \in [Users3 -> Maybe(RtWindows)] /\ ScopedOnce(sc2)
         /\ KeyedChat(ix2) /\ TellsChat(ix2, sc2)
<1>1. /\ sc2 \in [Users3 -> Maybe(RtWindows)]
      /\ \A v \in RtUsers, d \in RtChats, s \in RtThreads :
           sc2[<<v, d, s>>] = IF v = u /\ d = c /\ s = t THEN NoRoute ELSE sc[<<v, d, s>>]
  BY DEF Users3, Maybe, Without
<1>2. ScopedOnce(sc2)
  BY <1>1 DEF ScopedOnce
<1>3. /\ KeyedChat(ix2)
      /\ \A v \in RtUsers, d \in RtChats, w \in RtWindows :
           ix2[<<v, d, w>>] = IF v = u /\ d = c /\ w = sc[<<u, c, t>>] THEN NoRoute
                              ELSE ix[<<v, d, w>>]
  BY DEF KeyedChat, Maybe, Without
<1>4. TellsChat(ix2, sc2)
  <2> SUFFICES ASSUME NEW v \in RtUsers, NEW d \in RtChats, NEW w \in RtWindows
               PROVE  /\ \A s \in RtThreads : sc2[<<v, d, s>>] = w => ix2[<<v, d, w>>] = s
                      /\ (\A s \in RtThreads : sc2[<<v, d, s>>] # w) => ix2[<<v, d, w>>] = NoRoute
    BY <1>3 DEF TellsChat
  <2>1. w # NoRoute
    BY RoutingAssumption
  <2>2. ASSUME NEW s \in RtThreads, sc2[<<v, d, s>>] = w PROVE ix2[<<v, d, w>>] = s
    <3>1. sc[<<v, d, s>>] = w /\ ~(v = u /\ d = c /\ s = t)
      BY <1>1, <2>1, <2>2
    <3>2. ~(v = u /\ d = c /\ w = sc[<<u, c, t>>])
      BY <2>1, <3>1 DEF ScopedOnce
    <3> QED
      BY <1>3, <3>1, <3>2 DEF TellsChat
  <2>3. ASSUME \A s \in RtThreads : sc2[<<v, d, s>>] # w PROVE ix2[<<v, d, w>>] = NoRoute
    <3>1. CASE v = u /\ d = c /\ w = sc[<<u, c, t>>]
      BY <1>3, <3>1
    <3>2. CASE ~(v = u /\ d = c /\ w = sc[<<u, c, t>>])
      BY <1>1, <1>3, <2>3, <3>2 DEF TellsChat
    <3> QED
      BY <3>1, <3>2
  <2> QED
    BY <2>2, <2>3
<1> QED
  BY <1>1, <1>2, <1>3, <1>4

(* A topic gets a window, which leaves the topic that showed it.           *)
LEMMA LegacyRowComes ==
  ASSUME NEW leg \in [Users2 -> Maybe(RtWindows)], LegacyOnce(leg),
         NEW ix, Keyed(ix), Tells(ix, leg),
         NEW u \in RtUsers, NEW t \in RtThreads, NEW w \in RtWindows,
         NEW leg2, leg2 = LegacyPut(leg, u, t, w),
         NEW ix2, ix2 = IndexPut(ix, leg, u, t, w)
  PROVE  leg2 \in [Users2 -> Maybe(RtWindows)] /\ LegacyOnce(leg2) /\ Keyed(ix2) /\ Tells(ix2, leg2)
<1>1. /\ leg2 \in [Users2 -> Maybe(RtWindows)]
      /\ \A v \in RtUsers, s \in RtThreads :
           leg2[<<v, s>>] = IF v = u /\ s = t THEN w
                            ELSE IF v = u /\ leg[<<v, s>>] = w THEN NoRoute ELSE leg[<<v, s>>]
  BY DEF Users2, Maybe, LegacyPut
<1>2. LegacyOnce(leg2)
  BY <1>1 DEF LegacyOnce
<1>3. /\ Keyed(ix2)
      /\ \A v \in RtUsers, x \in RtWindows :
           ix2[<<v, x>>] = IF v = u /\ x = w THEN t
                           ELSE IF v = u /\ x = leg[<<u, t>>] THEN NoRoute ELSE ix[<<v, x>>]
  BY DEF Keyed, Maybe, IndexPut
<1>4. Tells(ix2, leg2)
  <2> SUFFICES ASSUME NEW v \in RtUsers, NEW x \in RtWindows
               PROVE  /\ \A s \in RtThreads : leg2[<<v, s>>] = x => ix2[<<v, x>>] = s
                      /\ (\A s \in RtThreads : leg2[<<v, s>>] # x) => ix2[<<v, x>>] = NoRoute
    BY <1>3 DEF Tells
  <2>1. x # NoRoute
    BY RoutingAssumption
  <2>2. CASE v = u /\ x = w
    BY <1>1, <1>3, <2>1, <2>2
  <2>3. CASE v = u /\ x # w /\ x = leg[<<u, t>>]
    <3>1. ix2[<<v, x>>] = NoRoute
      BY <1>3, <2>3
    <3>2. \A s \in RtThreads : leg2[<<v, s>>] # x
      BY <1>1, <2>1, <2>3 DEF LegacyOnce
    <3> QED
      BY <3>1, <3>2
  <2>4. CASE ~(v = u /\ x = w) /\ ~(v = u /\ x = leg[<<u, t>>])
    <3>1. ix2[<<v, x>>] = ix[<<v, x>>]
      BY <1>3, <2>4
    <3>2. \A s \in RtThreads : leg2[<<v, s>>] = x <=> leg[<<v, s>>] = x
      BY <1>1, <2>1, <2>4
    <3>3. /\ \A s \in RtThreads : leg[<<v, s>>] = x => ix[<<v, x>>] = s
          /\ (\A s \in RtThreads : leg[<<v, s>>] # x) => ix[<<v, x>>] = NoRoute
      BY DEF Tells
    <3> QED
      BY <3>1, <3>2, <3>3
  <2> QED
    BY <2>2, <2>3, <2>4
<1> QED
  BY <1>1, <1>2, <1>3, <1>4

LEMMA ScopedRowComes ==
  ASSUME NEW sc \in [Users3 -> Maybe(RtWindows)], ScopedOnce(sc),
         NEW ix, KeyedChat(ix), TellsChat(ix, sc),
         NEW u \in RtUsers, NEW c \in RtChats, NEW t \in RtThreads, NEW w \in RtWindows,
         NEW gone, gone = Losers(sc, u, c, t, w),
         NEW sc2, sc2 = ScopedPut(sc, gone, u, c, t, w),
         NEW ix2, ix2 = ChatIndexPut(ix, sc, gone, u, c, t, w)
  PROVE  /\ sc2 \in [Users3 -> Maybe(RtWindows)] /\ ScopedOnce(sc2)
         /\ KeyedChat(ix2) /\ TellsChat(ix2, sc2)
<1> DEFINE Lost(v, d) == \E s \in RtThreads :
                           d = c /\ sc[<<v, d, s>>] = w /\ ~(v = u /\ s = t)
<1>1. \A v \in RtUsers, d \in RtChats, s \in RtThreads :
        <<v, d, s>> \in gone <=> d = c /\ sc[<<v, d, s>>] = w /\ ~(v = u /\ s = t)
  BY DEF Users3, Losers
<1>2. \A v \in RtUsers, d \in RtChats :
        (\E g \in gone : <<g[1], g[2]>> = <<v, d>>) <=> Lost(v, d)
  <2> TAKE v \in RtUsers, d \in RtChats
  <2>1. ASSUME NEW g \in gone, <<g[1], g[2]>> = <<v, d>> PROVE Lost(v, d)
    <3>1. PICK s \in RtThreads : g = <<v, d, s>>
      BY <2>1 DEF Users3, Losers
    <3> QED
      BY <1>1, <3>1
  <2>2. ASSUME NEW s \in RtThreads, d = c /\ sc[<<v, d, s>>] = w /\ ~(v = u /\ s = t)
        PROVE  \E g \in gone : <<g[1], g[2]>> = <<v, d>>
    <3>1. <<v, d, s>> \in gone
      BY <1>1, <2>2
    <3> QED
      BY <3>1
  <2> QED
    BY <2>1, <2>2
<1>3. /\ sc2 \in [Users3 -> Maybe(RtWindows)]
      /\ \A v \in RtUsers, d \in RtChats, s \in RtThreads :
           sc2[<<v, d, s>>] = IF v = u /\ d = c /\ s = t THEN w
                              ELSE IF d = c /\ sc[<<v, d, s>>] = w THEN NoRoute
                              ELSE sc[<<v, d, s>>]
  <2>1. sc2 \in [Users3 -> Maybe(RtWindows)]
    BY DEF Maybe, ScopedPut
  <2>2. \A v \in RtUsers, d \in RtChats, s \in RtThreads :
          sc2[<<v, d, s>>] = IF <<v, d, s>> = <<u, c, t>> THEN w
                             ELSE IF <<v, d, s>> \in gone THEN NoRoute ELSE sc[<<v, d, s>>]
    BY DEF Users3, ScopedPut
  <2> QED
    BY <1>1, <2>1, <2>2
<1>4. ScopedOnce(sc2)
  BY <1>3 DEF ScopedOnce
<1>5. /\ KeyedChat(ix2)
      /\ \A v \in RtUsers, d \in RtChats, x \in RtWindows :
           ix2[<<v, d, x>>] = IF v = u /\ d = c /\ x = w THEN t
                              ELSE IF v = u /\ d = c /\ x = sc[<<u, c, t>>] THEN NoRoute
                              ELSE IF x = w /\ Lost(v, d) THEN NoRoute
                              ELSE ix[<<v, d, x>>]
  <2>1. DOMAIN ix = RtUsers \X RtChats \X RtWindows
    BY DEF KeyedChat
  <2>2. ASSUME NEW v \in RtUsers, NEW d \in RtChats, NEW x \in RtWindows
        PROVE  ix2[<<v, d, x>>] = IF <<v, d, x>> = <<u, c, w>> THEN t
                    ELSE IF <<v, d, x>> = <<u, c, sc[<<u, c, t>>]>> THEN NoRoute
                    ELSE IF x = w /\ \E g \in gone : <<g[1], g[2]>> = <<v, d>>
                    THEN NoRoute ELSE ix[<<v, d, x>>]
    BY <2>1 DEF ChatIndexPut
  <2>3. KeyedChat(ix2)
    BY <2>1 DEF KeyedChat, Maybe, ChatIndexPut
  <2> HIDE DEF Lost
  <2> QED
    BY <1>2, <2>2, <2>3
<1>6. TellsChat(ix2, sc2)
  <2> SUFFICES ASSUME NEW v \in RtUsers, NEW d \in RtChats, NEW x \in RtWindows
               PROVE  /\ \A s \in RtThreads : sc2[<<v, d, s>>] = x => ix2[<<v, d, x>>] = s
                      /\ (\A s \in RtThreads : sc2[<<v, d, s>>] # x) => ix2[<<v, d, x>>] = NoRoute
    BY <1>5 DEF TellsChat
  <2>1. x # NoRoute
    BY RoutingAssumption
  <2>2. CASE v = u /\ d = c /\ x = w
    <3>1. ix2[<<v, d, x>>] = t
      BY <1>5, <2>2
    <3>2. \A s \in RtThreads : sc2[<<v, d, s>>] = x <=> s = t
      BY <1>3, <2>1, <2>2
    <3> QED
      BY <3>1, <3>2
  <2>3. CASE v = u /\ d = c /\ x # w /\ x = sc[<<u, c, t>>]
    <3>1. ix2[<<v, d, x>>] = NoRoute
      BY <1>5, <2>3
    <3>2. \A s \in RtThreads : sc2[<<v, d, s>>] # x
      BY <1>3, <2>1, <2>3 DEF ScopedOnce
    <3> QED
      BY <3>1, <3>2
  <2>4. CASE ~(v = u /\ x = w) /\ d = c /\ x = w
    <3>1. \A s \in RtThreads : sc2[<<v, d, s>>] # x
      BY <1>3, <2>1, <2>4
    <3>2. ix2[<<v, d, x>>] = NoRoute
      <4>1. CASE Lost(v, d)
        BY <1>5, <2>4, <4>1
      <4>2. CASE ~Lost(v, d)
        <5>1. \A s \in RtThreads : sc[<<v, d, s>>] # x
          BY <2>4, <4>2
        <5>2. ix[<<v, d, x>>] = NoRoute
          BY <5>1 DEF TellsChat
        <5> QED
          BY <1>5, <2>4, <4>2, <5>2
      <4> QED
        BY <4>1, <4>2
    <3> QED
      BY <3>1, <3>2
  <2>5. CASE ~(d = c /\ x = w) /\ ~(v = u /\ d = c /\ x = sc[<<u, c, t>>])
    <3>0. ~Lost(v, d) \/ x # w
      BY <2>5
    <3>1. ix2[<<v, d, x>>] = ix[<<v, d, x>>]
      <4> HIDE DEF Lost
      <4>1. ix2[<<v, d, x>>] = IF v = u /\ d = c /\ x = w THEN t
                               ELSE IF v = u /\ d = c /\ x = sc[<<u, c, t>>] THEN NoRoute
                               ELSE IF x = w /\ Lost(v, d) THEN NoRoute
                               ELSE ix[<<v, d, x>>]
        BY <1>5
      <4> QED
        BY <2>5, <3>0, <4>1
    <3>2. \A s \in RtThreads : sc2[<<v, d, s>>] = x <=> sc[<<v, d, s>>] = x
      BY <1>3, <2>1, <2>5
    <3>3. /\ \A s \in RtThreads : sc[<<v, d, s>>] = x => ix[<<v, d, x>>] = s
          /\ (\A s \in RtThreads : sc[<<v, d, s>>] # x) => ix[<<v, d, x>>] = NoRoute
      BY DEF TellsChat
    <3> QED
      BY <3>1, <3>2, <3>3
  <2> QED
    BY <2>2, <2>3, <2>4, <2>5
<1> QED
  BY <1>3, <1>4, <1>5, <1>6

-----------------------------------------------------------------------------
(* The rows, their indexes and the file stay in order.                     *)

LEMMA Told ==
  ASSUME RouterInOrder
  PROVE  /\ legacy \in [Users2 -> Maybe(RtWindows)] /\ LegacyOnce(legacy)
         /\ scoped \in [Users3 -> Maybe(RtWindows)] /\ ScopedOnce(scoped)
         /\ Keyed(idx) /\ Tells(idx, legacy) /\ KeyedChat(cidx) /\ TellsChat(cidx, scoped)
<1>1. /\ legacy \in [Users2 -> Maybe(RtWindows)] /\ LegacyOnce(legacy)
      /\ scoped \in [Users3 -> Maybe(RtWindows)] /\ ScopedOnce(scoped)
  BY DEF RouterInOrder, RtTypes, ShownOnce
<1>2. idx = IndexOf(legacy) /\ cidx = ChatIndexOf(scoped)
  BY DEF RouterInOrder, IndexesMirrorRows
<1> QED
  BY <1>1, <1>2, IndexTells, ChatIndexTells

(* What a change of the table has to show                                  *)
LEMMA ChangeInOrder ==
  ASSUME RouterInOrder, ScheduleSave, UNCHANGED fixing,
         legacy' \in [Users2 -> Maybe(RtWindows)], LegacyOnce(legacy'),
         scoped' \in [Users3 -> Maybe(RtWindows)], ScopedOnce(scoped'),
         Keyed(idx'), Tells(idx', legacy'), KeyedChat(cidx'), TellsChat(cidx', scoped'),
         groups' \in [Users2 -> Maybe(RtChats)], names' \subseteq RtWindows,
         InOrder(retired', nextRetired')
  PROVE  RouterInOrder'
<1>1. idx' = IndexOf(legacy') /\ cidx' = ChatIndexOf(scoped')
  BY IndexTells, ChatIndexTells
<1>2. IndexesMirrorRows'
  BY <1>1 DEF IndexesMirrorRows
<1>3. RtTypes'
  BY DEF RouterInOrder, RtTypes, ScheduleSave
<1>4. ShownOnce(legacy, scoped)'
  BY DEF ShownOnce
<1>5. CleanIsStored'
  BY DEF CleanIsStored, ScheduleSave
<1> QED
  BY <1>2, <1>3, <1>4, <1>5 DEF RouterInOrder

LEMMA BindKeeps ==
  ASSUME RouterInOrder, NEW u \in RtUsers, NEW c \in RtChats, NEW t \in RtThreads,
         NEW w \in RtWindows, BindChatScoped(u, c, t, w)
  PROVE  /\ scoped' \in [Users3 -> Maybe(RtWindows)] /\ ScopedOnce(scoped')
         /\ KeyedChat(cidx') /\ TellsChat(cidx', scoped')
         /\ groups' \in [Users2 -> Maybe(RtChats)] /\ InOrder(retired', nextRetired)
<1>1. groups \in [Users2 -> Maybe(RtChats)] /\ InOrder(retired, nextRetired)
  BY DEF RouterInOrder, RtTypes
<1>2. groups' \in [Users2 -> Maybe(RtChats)]
  BY <1>1 DEF BindChatScoped, Maybe
<1>3. InOrder(retired', nextRetired)
  BY <1>1, FewerInOrder DEF BindChatScoped, Forgotten
<1>4. /\ scoped' = ScopedPut(scoped, Evicted(u, c, t, w), u, c, t, w)
      /\ cidx' = ChatIndexPut(cidx, scoped, Evicted(u, c, t, w), u, c, t, w)
  BY DEF BindChatScoped, ScopedPut, ChatIndexPut
<1>5. Evicted(u, c, t, w) = Losers(scoped, u, c, t, w)
  BY DEF Evicted, Losers
<1>6. /\ scoped \in [Users3 -> Maybe(RtWindows)] /\ ScopedOnce(scoped)
      /\ KeyedChat(cidx) /\ TellsChat(cidx, scoped)
  BY Told
<1>7. /\ scoped' \in [Users3 -> Maybe(RtWindows)] /\ ScopedOnce(scoped')
      /\ KeyedChat(cidx') /\ TellsChat(cidx', scoped')
  BY <1>4, <1>5, <1>6, ScopedRowComes
<1> QED
  BY <1>2, <1>3, <1>7

LEMMA BindScopedKeeps ==
  ASSUME RouterInOrder, NEW u \in RtUsers, NEW c \in RtChats, NEW t \in RtThreads,
         NEW w \in RtWindows, BindScoped(u, c, t, w)
  PROVE  RouterInOrder'
<1>1. BindChatScoped(u, c, t, w) /\ ScheduleSave /\ UNCHANGED <<legacy, idx, nextRetired, fixing>>
  BY DEF BindScoped, Routing
<1>2. names' \subseteq RtWindows
  BY DEF BindScoped, RouterInOrder, RtTypes
<1> QED
  BY <1>1, <1>2, BindKeeps, Told, ChangeInOrder

LEMMA BindLegacyKeeps ==
  ASSUME RouterInOrder, NEW u \in RtUsers, NEW t \in RtThreads, NEW w \in RtWindows,
         BindLegacy(u, t, w)
  PROVE  RouterInOrder'
<1>1. /\ ScheduleSave
      /\ UNCHANGED <<scoped, cidx, groups, names, retired, nextRetired, fixing>>
  BY DEF BindLegacy, Routing
<1>2. legacy' = LegacyPut(legacy, u, t, w) /\ idx' = IndexPut(idx, legacy, u, t, w)
  BY DEF BindLegacy, LegacyPut, IndexPut
<1>3. /\ legacy' \in [Users2 -> Maybe(RtWindows)] /\ LegacyOnce(legacy')
      /\ Keyed(idx') /\ Tells(idx', legacy')
  <2>1. /\ legacy \in [Users2 -> Maybe(RtWindows)] /\ LegacyOnce(legacy)
        /\ Keyed(idx) /\ Tells(idx, legacy)
    BY Told
  <2> QED
    BY <1>2, <2>1, LegacyRowComes
<1>4. /\ groups' \in [Users2 -> Maybe(RtChats)] /\ names' \subseteq RtWindows
      /\ InOrder(retired', nextRetired')
  BY <1>1 DEF RouterInOrder, RtTypes
<1> QED
  BY <1>1, <1>3, <1>4, Told, ChangeInOrder

LEMMA LegacyGoes ==
  ASSUME RouterInOrder, NEW u \in RtUsers, NEW t \in RtThreads, legacy[<<u, t>>] # NoRoute,
         legacy' = Without(legacy, <<u, t>>),
         idx' = Without(idx, <<u, legacy[<<u, t>>]>>)
  PROVE  /\ legacy' \in [Users2 -> Maybe(RtWindows)] /\ LegacyOnce(legacy')
         /\ Keyed(idx') /\ Tells(idx', legacy') /\ legacy[<<u, t>>] \in RtWindows
<1>1. legacy[<<u, t>>] \in RtWindows
  BY Told DEF Users2, Maybe
<1>2. /\ legacy \in [Users2 -> Maybe(RtWindows)] /\ LegacyOnce(legacy)
      /\ Keyed(idx) /\ Tells(idx, legacy)
  BY Told
<1> QED
  BY <1>1, <1>2, LegacyRowGoes

LEMMA SetGroupKeeps ==
  ASSUME RouterInOrder, NEW u \in RtUsers, NEW t \in RtThreads, NEW c \in RtChats,
         SetGroupChatId(u, t, c)
  PROVE  RouterInOrder'
<1>1. UNCHANGED fixing
  BY DEF SetGroupChatId, Routing
<1>2. CASE /\ legacy[<<u, t>>] # NoRoute
           /\ legacy' = [legacy EXCEPT ![<<u, t>>] = NoRoute]
           /\ idx' = [idx EXCEPT ![<<u, legacy[<<u, t>>]>>] = NoRoute]
           /\ BindChatScoped(u, c, t, legacy[<<u, t>>])
           /\ ScheduleSave /\ UNCHANGED <<names, nextRetired>>
  <2>1. /\ legacy' \in [Users2 -> Maybe(RtWindows)] /\ LegacyOnce(legacy')
        /\ Keyed(idx') /\ Tells(idx', legacy') /\ legacy[<<u, t>>] \in RtWindows
    BY <1>2, LegacyGoes DEF Without
  <2>2. names' \subseteq RtWindows
    BY <1>2 DEF RouterInOrder, RtTypes
  <2> QED
    BY <1>1, <1>2, <2>1, <2>2, BindKeeps, ChangeInOrder
<1>3. CASE /\ groups' = [groups EXCEPT ![<<u, t>>] = c]
           /\ ScheduleSave
           /\ UNCHANGED <<legacy, scoped, names, retired, nextRetired, idx, cidx>>
  <2>1. /\ groups' \in [Users2 -> Maybe(RtChats)] /\ names' \subseteq RtWindows
        /\ InOrder(retired', nextRetired')
    BY <1>3 DEF RouterInOrder, RtTypes, Maybe
  <2> QED
    BY <1>1, <1>3, <2>1, Told, ChangeInOrder
<1> QED
  BY <1>2, <1>3 DEF SetGroupChatId

LEMMA DropNameKeeps ==
  ASSUME RouterInOrder, NEW w, DropName(w)
  PROVE  names' \subseteq RtWindows
BY DEF RouterInOrder, RtTypes, DropName

LEMMA UnbindScopedKeeps ==
  ASSUME RouterInOrder, NEW u \in RtUsers, NEW c \in RtChats, NEW t \in RtThreads,
         NEW e \in BOOLEAN, UnbindScoped(u, c, t, e), ScheduleSave, UNCHANGED fixing
  PROVE  RouterInOrder'
<1>1. groups \in [Users2 -> Maybe(RtChats)] /\ InOrder(retired, nextRetired)
  BY DEF RouterInOrder, RtTypes
<1>2. groups' \in [Users2 -> Maybe(RtChats)]
  BY <1>1 DEF UnbindScoped, Maybe
<1>3. InOrder(retired', nextRetired')
  BY <1>1, RetireKeeps DEF UnbindScoped
<1>4. /\ scoped[<<u, c, t>>] # NoRoute
      /\ scoped' = Without(scoped, <<u, c, t>>)
      /\ cidx' = Without(cidx, <<u, c, scoped[<<u, c, t>>]>>)
      /\ UNCHANGED <<legacy, idx>> /\ DropName(scoped[<<u, c, t>>])
  BY DEF UnbindScoped, Without
<1>5. /\ scoped' \in [Users3 -> Maybe(RtWindows)] /\ ScopedOnce(scoped')
      /\ KeyedChat(cidx') /\ TellsChat(cidx', scoped')
  <2>1. /\ scoped \in [Users3 -> Maybe(RtWindows)] /\ ScopedOnce(scoped)
        /\ KeyedChat(cidx) /\ TellsChat(cidx, scoped)
    BY Told
  <2> QED
    BY <1>4, <2>1, ScopedRowGoes
<1>6. names' \subseteq RtWindows
  BY <1>4, DropNameKeeps
<1> QED
  BY <1>2, <1>3, <1>4, <1>5, <1>6, Told, ChangeInOrder

LEMMA UnbindLegacyKeeps ==
  ASSUME RouterInOrder, NEW u \in RtUsers, NEW t \in RtThreads,
         NEW e \in BOOLEAN, UnbindLegacy(u, t, e), ScheduleSave, UNCHANGED fixing
  PROVE  RouterInOrder'
<1>1. groups \in [Users2 -> Maybe(RtChats)] /\ InOrder(retired, nextRetired)
  BY DEF RouterInOrder, RtTypes
<1>2. groups' \in [Users2 -> Maybe(RtChats)]
  BY <1>1 DEF UnbindLegacy, Maybe
<1>3. InOrder(retired', nextRetired')
  <2>1. CASE groups[<<u, t>>] = NoRoute
    BY <1>1, <2>1 DEF UnbindLegacy
  <2>2. CASE groups[<<u, t>>] # NoRoute
    <3>1. groups[<<u, t>>] \in RtChats
      BY <1>1, <2>2 DEF Users2, Maybe
    <3>2. Retire(u, groups[<<u, t>>], t, e)
      BY <2>2 DEF UnbindLegacy
    <3> QED
      BY <1>1, <3>1, <3>2, RetireKeeps
  <2> QED
    BY <2>1, <2>2
<1>4. /\ legacy[<<u, t>>] # NoRoute
      /\ legacy' = Without(legacy, <<u, t>>)
      /\ idx' = Without(idx, <<u, legacy[<<u, t>>]>>)
      /\ UNCHANGED <<scoped, cidx>> /\ DropName(legacy[<<u, t>>])
  BY DEF UnbindLegacy, Without
<1>5. /\ legacy' \in [Users2 -> Maybe(RtWindows)] /\ LegacyOnce(legacy')
      /\ Keyed(idx') /\ Tells(idx', legacy')
  BY <1>4, LegacyGoes
<1>6. names' \subseteq RtWindows
  BY <1>4, DropNameKeeps
<1> QED
  BY <1>2, <1>3, <1>4, <1>5, <1>6, Told, ChangeInOrder

LEMMA UnbindUnscopedKeeps ==
  ASSUME RouterInOrder, NEW u \in RtUsers, NEW t \in RtThreads, NEW e \in BOOLEAN,
         UnbindUnscoped(u, t, e)
  PROVE  RouterInOrder'
<1>1. ScheduleSave /\ UNCHANGED fixing
  BY DEF UnbindUnscoped, Routing
<1>2. CASE UnbindLegacy(u, t, e)
  BY <1>1, <1>2, UnbindLegacyKeeps
<1>3. ASSUME NEW c \in RtChats, UnbindScoped(u, c, t, e) PROVE RouterInOrder'
  BY <1>1, <1>3, UnbindScopedKeeps
<1>4. CASE legacy[<<u, t>>] = NoRoute
  <2> DEFINE chats == {c \in RtChats : scoped[<<u, c, t>>] # NoRoute}
  <2>1. Cardinality(chats) = 1 /\ UnbindScoped(u, CHOOSE c \in chats : TRUE, t, e)
    BY <1>4 DEF UnbindUnscoped
  <2>2. ASSUME chats = {} PROVE FALSE
    <3>1. Cardinality(chats) = 0
      BY <2>2, FS_EmptySet
    <3> QED
      BY <2>1, <3>1
  <2>3. (CHOOSE c \in chats : TRUE) \in RtChats
    BY <2>2
  <2> QED
    BY <1>3, <2>1, <2>3
<1> QED
  BY <1>2, <1>4 DEF UnbindUnscoped

(* The loop over the retired topics                                        *)
LEMMA OldestIsOne ==
  ASSUME NEW rs \in SUBSET RetiredTopic, rs # {}
  PROVE  Oldest(rs) \in rs
<1> DEFINE S == {r.sequence : r \in rs}
<1>1. S \in SUBSET Nat /\ S # {}
  BY DEF RetiredTopic
<1> HIDE DEF S
<1>2. PICK m \in S : \A k \in S : m <= k
  BY <1>1, FewestFirst
<1>3. \E r \in rs : \A q \in rs : r.sequence <= q.sequence
  BY <1>2 DEF S
<1> QED
  BY <1>3 DEF Oldest

LEMMA AdvancedTypes ==
  ASSUME RtTypes
  PROVE  /\ Advanced \in [todo : SUBSET RetiredTopic,
                          stage : {"idle", "check", "delete", "close"}]
         /\ Advanced.stage # "idle" => Advanced.todo # {}
         /\ Advanced.stage \in {"idle", "check"}
BY DEF RtTypes, Advanced, RtIdle

(* A step of the loop that changes nothing but its place                   *)
LEMMA LoopKeeps ==
  ASSUME RouterInOrder, NoSave, UNCHANGED rtTable,
         fixing' \in [todo : SUBSET RetiredTopic,
                      stage : {"idle", "check", "delete", "close"}],
         fixing'.stage # "idle" => fixing'.todo # {}
  PROVE  RouterInOrder'
<1>1. RtTypes' /\ ShownOnce(legacy, scoped)' /\ IndexesMirrorRows'
  BY DEF RouterInOrder, RtTypes, NoSave, rtTable, ShownOnce, LegacyOnce, ScopedOnce,
         IndexesMirrorRows
<1>2. Rows' = Rows
  BY DEF rtTable, Rows
<1>3. CleanIsStored'
  BY <1>2 DEF RouterInOrder, CleanIsStored, NoSave
<1> QED
  BY <1>1, <1>3 DEF RouterInOrder

LEMMA DiscardKeeps ==
  ASSUME RouterInOrder, Discard
  PROVE  RouterInOrder'
<1>1. RtTypes
  BY DEF RouterInOrder
<1>2. InOrder(retired', nextRetired')
  BY <1>1, FewerInOrder DEF Discard, RtTypes
<1>3. CASE retired' = retired
  <2>1. NoSave /\ UNCHANGED rtTable /\ fixing' = Advanced
    BY <1>3 DEF Discard, rtTable
  <2> QED
    BY <1>1, <2>1, AdvancedTypes, LoopKeeps
<1>4. CASE retired' # retired
  <2>1. ScheduleSave /\ fixing' = Advanced
        /\ UNCHANGED <<legacy, scoped, groups, names, nextRetired, idx, cidx>>
    BY <1>4 DEF Discard
  <2>2. RtTypes'
    BY <1>1, <1>2, <2>1, AdvancedTypes DEF RtTypes, ScheduleSave
  <2>3. ShownOnce(legacy, scoped)' /\ IndexesMirrorRows'
    BY <2>1 DEF RouterInOrder, ShownOnce, LegacyOnce, ScopedOnce, IndexesMirrorRows
  <2>4. CleanIsStored'
    BY <2>1 DEF CleanIsStored, ScheduleSave
  <2> QED
    BY <2>2, <2>3, <2>4 DEF RouterInOrder
<1> QED
  BY <1>3, <1>4

LEMMA RouterStart ==
  ASSUME RoutingInit
  PROVE  RouterInOrder /\ RequestedIsUnbound
<1>1. PICK d \in SeedRows :
        /\ stored = d /\ dirty = Repaired(d) /\ armed = Repaired(d)
        /\ legacy = Loaded(d).legacy /\ scoped = Loaded(d).scoped
        /\ groups = Loaded(d).groups /\ names = Loaded(d).names
        /\ retired = Loaded(d).retired /\ nextRetired = 1
        /\ idx = IndexOf(Loaded(d).legacy) /\ cidx = ChatIndexOf(Loaded(d).scoped)
        /\ fixing = RtIdle
  BY DEF RoutingInit
<1>2. d.retired = {} /\ Loadable(d)
  <2>3. d \in [legacy : [Users2 -> Maybe(RtWindows)], groups : [Users2 -> Maybe(RtChats)],
               scoped : {[k \in Users3 |-> NoRoute]}, names : {{}}, retired : {{}}]
    BY DEF SeedRows, NoRows
  <2>5. [k \in Users3 |-> NoRoute] \in [Users3 -> Maybe(RtWindows)]
    BY DEF Maybe
  <2>6. InOrder({}, 0)
    BY FS_EmptySet, RoutingAssumption DEF InOrder
  <2> QED
    BY <2>3, <2>5, <2>6 DEF Loadable
<1> DEFINE e == Deduped(Normalized(d))
<1>3. Loadable(e) /\ ShownOnce(e.legacy, e.scoped)
  BY <1>2, NormalizedLoads, DedupedLoads
<1>4. e.retired = {}
  BY <1>2 DEF Deduped, Normalized, Loadable
<1>5. /\ legacy = e.legacy /\ scoped = e.scoped /\ groups = e.groups /\ names = e.names
      /\ retired = Unbound(e).retired /\ retired = {} /\ Loadable(Unbound(e))
  BY <1>1, <1>3, <1>4, UnboundLoads DEF Loaded
<1>6. Rows = Unbound(e)
  BY <1>3, <1>5, UnboundLoads, FieldsTell DEF Rows
<1>7. stored = d /\ dirty = (e # d) /\ armed = (e # d) /\ fixing = RtIdle /\ nextRetired = 1
  BY <1>1 DEF Repaired
<1>8. IndexesMirrorRows
  BY <1>1, <1>3, <1>5, UnboundLoads DEF IndexesMirrorRows, Loaded
<1> HIDE DEF e
<1>9. CleanIsStored
  BY <1>6, <1>7 DEF CleanIsStored, e
<1>10. InOrder({}, 1)
  BY FS_EmptySet, RoutingAssumption DEF InOrder
<1>11. RtTypes
  BY <1>2, <1>3, <1>5, <1>7, <1>10, FieldsOf DEF RtTypes, RtIdle
<1>12. ShownOnce(legacy, scoped)
  BY <1>3, <1>5
<1> QED
  BY <1>7, <1>8, <1>9, <1>11, <1>12 DEF RouterInOrder, RequestedIsUnbound, RtIdle

LEMMA RouterStep ==
  ASSUME RouterInOrder, [RoutingNext]_rtVars
  PROVE  RouterInOrder'
<1>0. RtTypes
  BY DEF RouterInOrder
<1>1. CASE SaveTimer
  <2>1. UNCHANGED <<rtTable, fixing>> /\ armed' = FALSE /\ stored' = Rows /\ dirty' = FALSE
    BY <1>1 DEF SaveTimer
  <2>2. Loadable(Rows) /\ Rows' = Rows
    BY <1>0, <2>1, RowsLoad DEF Rows, rtTable
  <2>3. RtTypes'
    BY <1>0, <2>1, <2>2 DEF RtTypes, rtTable
  <2>4. ShownOnce(legacy, scoped)' /\ IndexesMirrorRows'
    BY <2>1 DEF RouterInOrder, ShownOnce, LegacyOnce, ScopedOnce, IndexesMirrorRows, rtTable
  <2>5. CleanIsStored'
    BY <2>1, <2>2 DEF CleanIsStored
  <2> QED
    BY <2>3, <2>4, <2>5 DEF RouterInOrder
<1>2. CASE SaveFails
  <2>1. UNCHANGED <<rtTable, stored, dirty, fixing>> /\ armed' = FALSE
    BY <1>2 DEF SaveFails
  <2>2. Rows' = Rows
    BY <2>1 DEF Rows, rtTable
  <2>3. RtTypes'
    BY <1>0, <2>1 DEF RtTypes, rtTable
  <2>4. ShownOnce(legacy, scoped)' /\ IndexesMirrorRows'
    BY <2>1 DEF RouterInOrder, ShownOnce, LegacyOnce, ScopedOnce, IndexesMirrorRows, rtTable
  <2>5. CleanIsStored'
    BY <2>1, <2>2 DEF RouterInOrder, CleanIsStored
  <2> QED
    BY <2>3, <2>4, <2>5 DEF RouterInOrder
<1>3. CASE RestartRouter
  <2>1. Loadable(stored) /\ Loadable(Rows)
    BY <1>0, RowsLoad DEF RtTypes
  <2>2. CASE Reload(stored)
    BY <2>1, <2>2, ReloadInOrder
  <2>3. CASE Reload(Rows)
    BY <2>1, <2>3, ReloadInOrder
  <2> QED
    BY <1>3, <2>2, <2>3 DEF RestartRouter
<1>4. CASE BeginCleanup
  <2>1. NoSave /\ UNCHANGED rtTable /\ retired # {}
        /\ fixing' = [todo |-> retired, stage |-> "check"]
    BY <1>4 DEF BeginCleanup
  <2>2. retired \in SUBSET RetiredTopic
    BY <1>0 DEF RtTypes, InOrder
  <2> QED
    BY <2>1, <2>2, LoopKeeps
<1>5. CASE CheckTopic
  <2>1. NoSave /\ UNCHANGED rtTable
        /\ (fixing' = Advanced \/ fixing' = [fixing EXCEPT !.stage = "delete"])
        /\ fixing.stage = "check"
    BY <1>5 DEF CheckTopic
  <2>2. /\ [fixing EXCEPT !.stage = "delete"] \in
             [todo : SUBSET RetiredTopic, stage : {"idle", "check", "delete", "close"}]
        /\ [fixing EXCEPT !.stage = "delete"].todo # {}
    BY <1>0, <2>1 DEF RtTypes
  <2> QED
    BY <1>0, <2>1, <2>2, AdvancedTypes, LoopKeeps
<1>6. CASE DeleteAnswered
  <2>1. CASE Discard
    BY <2>1, DiscardKeeps
  <2>2. CASE fixing' = [fixing EXCEPT !.stage = "close"] /\ NoSave /\ UNCHANGED rtTable
    <3>1. /\ fixing' \in [todo : SUBSET RetiredTopic,
                          stage : {"idle", "check", "delete", "close"}]
          /\ fixing'.todo # {}
      BY <1>0, <1>6, <2>2 DEF RtTypes, DeleteAnswered
    <3> QED
      BY <2>2, <3>1, LoopKeeps
  <2> QED
    BY <1>6, <2>1, <2>2 DEF DeleteAnswered
<1>7. CASE CloseAnswered
  <2>1. CASE Discard
    BY <2>1, DiscardKeeps
  <2>2. CASE fixing' = Advanced /\ NoSave /\ UNCHANGED rtTable
    BY <1>0, <2>2, AdvancedTypes, LoopKeeps
  <2> QED
    BY <1>7, <2>1, <2>2 DEF CloseAnswered
<1>8. ASSUME NEW u \in RtUsers, NEW t \in RtThreads,
             \/ \E w \in RtWindows : BindLegacy(u, t, w)
             \/ \E c \in RtChats : SetGroupChatId(u, t, c)
             \/ \E c \in RtChats, w \in RtWindows : BindScoped(u, c, t, w)
             \/ \E c \in RtChats, e \in BOOLEAN : Unbind(u, c, t, e)
             \/ \E e \in BOOLEAN : UnbindUnscoped(u, t, e)
      PROVE  RouterInOrder'
  <2>1. ASSUME NEW w \in RtWindows, BindLegacy(u, t, w) PROVE RouterInOrder'
    BY <2>1, BindLegacyKeeps
  <2>2. ASSUME NEW c \in RtChats, SetGroupChatId(u, t, c) PROVE RouterInOrder'
    BY <2>2, SetGroupKeeps
  <2>3. ASSUME NEW c \in RtChats, NEW w \in RtWindows, BindScoped(u, c, t, w)
        PROVE  RouterInOrder'
    BY <2>3, BindScopedKeeps
  <2>4. ASSUME NEW c \in RtChats, NEW e \in BOOLEAN, Unbind(u, c, t, e) PROVE RouterInOrder'
    BY <2>4, UnbindScopedKeeps DEF Unbind, Routing
  <2>5. ASSUME NEW e \in BOOLEAN, UnbindUnscoped(u, t, e) PROVE RouterInOrder'
    BY <2>5, UnbindUnscopedKeeps
  <2> QED
    BY <1>8, <2>1, <2>2, <2>3, <2>4, <2>5
<1>9. CASE UNCHANGED rtVars
  <2>1. NoSave /\ UNCHANGED rtTable /\ UNCHANGED fixing
    BY <1>9 DEF rtVars, NoSave
  <2> QED
    BY <1>0, <2>1, LoopKeeps DEF RtTypes
<1> QED
  BY <1>1, <1>2, <1>3, <1>4, <1>5, <1>6, <1>7, <1>8, <1>9 DEF RoutingNext

(* The parts of RoutingInv follow.                                         *)
LEMMA InOrderMeansInv ==
  ASSUME RouterInOrder
  PROVE  RoutingInv
<1>0. RtTypes /\ ShownOnce(legacy, scoped) /\ IndexesMirrorRows /\ CleanIsStored
  BY DEF RouterInOrder
<1>1. RoutingTypeOK
  <2>1. Keyed(idx) /\ KeyedChat(cidx)
    BY Told
  <2> QED
    BY <1>0, <2>1 DEF RoutingTypeOK, RtTypes, InOrder, Keyed, KeyedChat
<1>2. OneTopicPerWindow
  <2>1. ASSUME NEW k \in Users3, NEW l \in Users3, k[2] = l[2], scoped[k] = scoped[l],
               scoped[k] # NoRoute
        PROVE  k = l
    <3>1. PICK u \in RtUsers, c \in RtChats, s \in RtThreads : k = <<u, c, s>>
      BY DEF Users3
    <3>2. PICK v \in RtUsers, t \in RtThreads : l = <<v, c, t>>
      BY <2>1, <3>1 DEF Users3
    <3> QED
      BY <1>0, <2>1, <3>1, <3>2 DEF ShownOnce, ScopedOnce
  <2>2. ASSUME NEW k \in Users2, NEW l \in Users2, k[1] = l[1], legacy[k] = legacy[l],
               legacy[k] # NoRoute
        PROVE  k = l
    <3>1. PICK u \in RtUsers, s \in RtThreads : k = <<u, s>>
      BY DEF Users2
    <3>2. PICK t \in RtThreads : l = <<u, t>>
      BY <2>2, <3>1 DEF Users2
    <3> QED
      BY <1>0, <2>2, <3>1, <3>2 DEF ShownOnce, LegacyOnce
  <2> QED
    BY <2>1, <2>2 DEF OneTopicPerWindow
<1>3. CleanMeansReloadable
  <2> SUFFICES ASSUME ~dirty, Promotable(Rows) = {} PROVE Loaded(stored) = Unbound(Rows)
    BY DEF CleanMeansReloadable
  <2>1. CASE stored = Rows
    <3>1. Loadable(Rows) /\ ShownOnce(Rows.legacy, Rows.scoped)
      BY <1>0, RowsLoad DEF Rows
    <3> QED
      BY <2>1, <3>1, NothingToRepair DEF Loaded
  <2>2. CASE Deduped(Normalized(stored)) = stored /\ Rows = Unbound(stored)
    <3>1. Unbound(Unbound(stored)) = Unbound(stored)
      BY <1>0, UnboundLoads DEF RtTypes
    <3> QED
      BY <2>2, <3>1 DEF Loaded
  <2> QED
    BY <1>0, <2>1, <2>2 DEF CleanIsStored
<1> QED
  BY <1>0, <1>1, <1>2, <1>3 DEF RoutingInv

(* Nobody binds the topic whose deletion waits for its answer.             *)
LEMMA CheckedIsUnbound ==
  ASSUME RtHazards = {}, RtTypes, CheckTopic, fixing'.stage = "delete"
  PROVE  /\ ScopedOwners(InHand.chat, InHand.thread) \cup Unscoped(InHand.chat, InHand.thread) = {}
         /\ fixing'.todo = fixing.todo
<1> DEFINE c == InHand.chat
           t == InHand.thread
<1>1. Cardinality(ScopedOwners(c, t)) <= 1
  BY DEF CheckTopic
<1>2. /\ WindowOfTopic(c, t) = NoRoute
      /\ fixing' = [fixing EXCEPT !.stage = "delete"]
  BY AdvancedTypes DEF CheckTopic
<1> HIDE DEF c, t
<1>3. IsFiniteSet(ScopedOwners(c, t)) /\ ScopedOwners(c, t) \subseteq RtUsers
  BY RoutingAssumption, FS_Subset DEF ScopedOwners
<1>4. ScopedOwners(c, t) = {}
  <2> SUFFICES ASSUME ScopedOwners(c, t) # {} PROVE FALSE
    OBVIOUS
  <2>1. Cardinality(ScopedOwners(c, t)) = 1
    BY <1>1, <1>3, FS_EmptySet, FS_CardinalityType
  <2>2. WindowOfTopic(c, t) = scoped[<<CHOOSE u \in ScopedOwners(c, t) : TRUE, c, t>>]
    BY <2>1 DEF WindowOfTopic
  <2>3. (CHOOSE u \in ScopedOwners(c, t) : TRUE) \in ScopedOwners(c, t)
    OBVIOUS
  <2> QED
    BY <1>2, <2>2, <2>3 DEF ScopedOwners
<1>5. Unscoped(c, t) = {}
  <2> SUFFICES ASSUME Unscoped(c, t) # {} PROVE FALSE
    OBVIOUS
  <2>1. Cardinality(ScopedOwners(c, t)) = 0
    BY <1>4, FS_EmptySet
  <2>2. WindowOfTopic(c, t) = legacy[<<Min(Unscoped(c, t)), t>>]
    BY <2>1 DEF WindowOfTopic
  <2>3. Unscoped(c, t) \in SUBSET Nat
    BY RoutingAssumption DEF Unscoped
  <2>4. Min(Unscoped(c, t)) \in Unscoped(c, t)
    BY <2>3, FewestFirst DEF Min
  <2> QED
    BY <1>2, <2>2, <2>4 DEF Unscoped
<1> QED
  BY <1>2, <1>4, <1>5 DEF c, t, RtTypes

LEMMA UnboundStep ==
  ASSUME RtHazards = {}, RouterInOrder, RequestedIsUnbound, [RoutingNext]_rtVars
  PROVE  RequestedIsUnbound'
<1>0. RtTypes
  BY DEF RouterInOrder
<1>1. CASE CheckTopic
  <2>1. UNCHANGED <<legacy, scoped, groups>>
    BY <1>1 DEF CheckTopic, rtTable
  <2> QED
    BY <1>0, <1>1, <2>1, CheckedIsUnbound DEF RequestedIsUnbound, InHand, ScopedOwners, Unscoped
<1>2. CASE fixing'.stage # "delete"
  BY <1>2 DEF RequestedIsUnbound
<1>3. ASSUME UNCHANGED fixing, fixing.stage = "delete",
             \A u \in RtUsers :
               LET k == <<u, InHand.chat, InHand.thread>>
                   l == <<u, InHand.thread>>
               IN  /\ scoped'[k] = scoped[k] \/ scoped'[k] = NoRoute
                   /\ \/ legacy'[l] = NoRoute
                      \/ groups'[l] # InHand.chat
                      \/ legacy'[l] = legacy[l] /\ groups'[l] = groups[l]
      PROVE  RequestedIsUnbound'
  BY <1>3 DEF RequestedIsUnbound, InHand, ScopedOwners, Unscoped
<1>4. ASSUME fixing.stage = "delete" PROVE InHand \in RetiredTopic
  <2>1. fixing.todo \in SUBSET RetiredTopic /\ fixing.todo # {}
    BY <1>0, <1>4 DEF RtTypes
  <2> QED
    BY <2>1, OldestIsOne DEF InHand
<1>5. ASSUME NEW u \in RtUsers, NEW c \in RtChats, NEW t \in RtThreads, NEW w,
             BindChatScoped(u, c, t, w), BindsFreely(c, t), fixing.stage = "delete"
      PROVE  \A v \in RtUsers :
               LET k == <<v, InHand.chat, InHand.thread>>
                   l == <<v, InHand.thread>>
               IN  /\ scoped'[k] = scoped[k] \/ scoped'[k] = NoRoute
                   /\ groups'[l] # InHand.chat \/ groups'[l] = groups[l]
  <2>1. InHand \in RetiredTopic /\ TopicOf(InHand) # <<c, t>>
    BY <1>4, <1>5 DEF BindsFreely, InHand
  <2>2. InHand.chat \in RtChats /\ InHand.thread \in RtThreads /\ InHand.chat # NoRoute
        /\ ~(InHand.chat = c /\ InHand.thread = t)
    BY <2>1, RoutingAssumption DEF RetiredTopic, TopicOf
  <2>3. ASSUME NEW v \in RtUsers
        PROVE  LET k == <<v, InHand.chat, InHand.thread>>
                   l == <<v, InHand.thread>>
               IN  /\ scoped'[k] = scoped[k] \/ scoped'[k] = NoRoute
                   /\ groups'[l] # InHand.chat \/ groups'[l] = groups[l]
    <3>1. <<v, InHand.chat, InHand.thread>> \in Users3 /\ <<v, InHand.thread>> \in Users2
      BY <2>2 DEF Users2, Users3
    <3> QED
      BY <1>5, <2>2, <3>1 DEF BindChatScoped
  <2> QED
    BY <2>3
<1>6. ASSUME NEW u \in RtUsers, NEW c \in RtChats, NEW t \in RtThreads, NEW w \in RtWindows,
             BindScoped(u, c, t, w), fixing.stage = "delete"
      PROVE  RequestedIsUnbound'
  BY <1>3, <1>5, <1>6 DEF BindScoped, Routing
<1>7. ASSUME NEW u \in RtUsers, NEW t \in RtThreads, NEW w \in RtWindows,
             BindLegacy(u, t, w), fixing.stage = "delete"
      PROVE  RequestedIsUnbound'
  <2>1. ~(InHand.chat = groups[<<u, t>>] /\ InHand.thread = t)
    BY <1>7 DEF BindLegacy, BindsFreely, InHand, TopicOf
  <2>2. InHand.thread \in RtThreads
    BY <1>4, <1>7 DEF RetiredTopic
  <2>3. ASSUME NEW v \in RtUsers
        PROVE  \/ legacy'[<<v, InHand.thread>>] = NoRoute
               \/ groups'[<<v, InHand.thread>>] # InHand.chat
               \/ /\ legacy'[<<v, InHand.thread>>] = legacy[<<v, InHand.thread>>]
                  /\ groups'[<<v, InHand.thread>>] = groups[<<v, InHand.thread>>]
    <3>1. <<v, InHand.thread>> \in Users2
      BY <2>2 DEF Users2
    <3> QED
      BY <1>7, <2>1, <3>1 DEF BindLegacy
  <2>4. UNCHANGED <<fixing, scoped>>
    BY <1>7 DEF BindLegacy, Routing
  <2> QED
    BY <1>3, <1>7, <2>3, <2>4
<1>8. ASSUME NEW u \in RtUsers, NEW t \in RtThreads, NEW c \in RtChats,
             SetGroupChatId(u, t, c), fixing.stage = "delete"
      PROVE  RequestedIsUnbound'
  <2>1. UNCHANGED fixing
    BY <1>8 DEF SetGroupChatId, Routing
  <2>2. InHand.thread \in RtThreads
    BY <1>4, <1>8 DEF RetiredTopic
  <2>3. legacy \in [Users2 -> Maybe(RtWindows)] /\ groups \in [Users2 -> Maybe(RtChats)]
    BY <1>0 DEF RtTypes
  <2>4. CASE /\ BindsFreely(c, t) /\ legacy' = [legacy EXCEPT ![<<u, t>>] = NoRoute]
             /\ BindChatScoped(u, c, t, legacy[<<u, t>>])
    <3>1. ASSUME NEW v \in RtUsers
          PROVE  \/ legacy'[<<v, InHand.thread>>] = NoRoute
                 \/ legacy'[<<v, InHand.thread>>] = legacy[<<v, InHand.thread>>]
      <4>1. <<v, InHand.thread>> \in Users2
        BY <2>2 DEF Users2
      <4> QED
        BY <2>3, <2>4, <4>1
    <3> QED
      BY <1>3, <1>5, <1>8, <2>1, <2>4, <3>1
  <2>5. CASE /\ legacy[<<u, t>>] = NoRoute /\ groups' = [groups EXCEPT ![<<u, t>>] = c]
             /\ UNCHANGED <<legacy, scoped>>
    <3>1. ASSUME NEW v \in RtUsers
          PROVE  \/ legacy'[<<v, InHand.thread>>] = NoRoute
                 \/ groups'[<<v, InHand.thread>>] = groups[<<v, InHand.thread>>]
      <4>1. <<v, InHand.thread>> \in Users2
        BY <2>2 DEF Users2
      <4> QED
        BY <2>3, <2>5, <4>1
    <3> QED
      BY <1>3, <1>8, <2>1, <2>5, <3>1
  <2> QED
    BY <1>8, <2>4, <2>5 DEF SetGroupChatId
<1>9. ASSUME UNCHANGED fixing, fixing.stage = "delete",
             NEW u \in RtUsers, NEW t \in RtThreads,
             \/ legacy' = legacy
             \/ legacy' = [legacy EXCEPT ![<<u, t>>] = NoRoute],
             \/ groups' = groups
             \/ groups' = [groups EXCEPT ![<<u, t>>] = NoRoute],
             \/ scoped' = scoped
             \/ \E c \in RtChats : scoped' = [scoped EXCEPT ![<<u, c, t>>] = NoRoute]
      PROVE  RequestedIsUnbound'
  <2>1. /\ InHand.thread \in RtThreads /\ InHand.chat \in RtChats /\ InHand.chat # NoRoute
        /\ legacy \in [Users2 -> Maybe(RtWindows)] /\ groups \in [Users2 -> Maybe(RtChats)]
        /\ scoped \in [Users3 -> Maybe(RtWindows)]
    BY <1>0, <1>4, <1>9, RoutingAssumption DEF RetiredTopic, RtTypes
  <2>2. ASSUME NEW v \in RtUsers
        PROVE  /\ \/ scoped'[<<v, InHand.chat, InHand.thread>>] = NoRoute
                  \/ scoped'[<<v, InHand.chat, InHand.thread>>]
                       = scoped[<<v, InHand.chat, InHand.thread>>]
               /\ \/ legacy'[<<v, InHand.thread>>] = NoRoute
                  \/ legacy'[<<v, InHand.thread>>] = legacy[<<v, InHand.thread>>]
               /\ \/ groups'[<<v, InHand.thread>>] # InHand.chat
                  \/ groups'[<<v, InHand.thread>>] = groups[<<v, InHand.thread>>]
    <3>1. <<v, InHand.chat, InHand.thread>> \in Users3 /\ <<v, InHand.thread>> \in Users2
      BY <2>1 DEF Users2, Users3
    <3>2. \/ scoped'[<<v, InHand.chat, InHand.thread>>] = NoRoute
          \/ scoped'[<<v, InHand.chat, InHand.thread>>]
               = scoped[<<v, InHand.chat, InHand.thread>>]
      BY <1>9, <2>1, <3>1
    <3>3. \/ legacy'[<<v, InHand.thread>>] = NoRoute
          \/ legacy'[<<v, InHand.thread>>] = legacy[<<v, InHand.thread>>]
      BY <1>9, <2>1, <3>1
    <3>4. \/ groups'[<<v, InHand.thread>>] # InHand.chat
          \/ groups'[<<v, InHand.thread>>] = groups[<<v, InHand.thread>>]
      BY <1>9, <2>1, <3>1
    <3> QED
      BY <3>2, <3>3, <3>4
  <2> QED
    BY <1>3, <1>9, <2>2
<1>10. ASSUME NEW u \in RtUsers, NEW c \in RtChats, NEW t \in RtThreads, NEW e \in BOOLEAN,
              UnbindScoped(u, c, t, e), UNCHANGED fixing, fixing.stage = "delete"
       PROVE  RequestedIsUnbound'
  BY <1>9, <1>10 DEF UnbindScoped
<1>11. ASSUME NEW u \in RtUsers, NEW c \in RtChats, NEW t \in RtThreads, NEW e \in BOOLEAN,
              Unbind(u, c, t, e), fixing.stage = "delete"
       PROVE  RequestedIsUnbound'
  BY <1>10, <1>11 DEF Unbind, Routing
<1>12. ASSUME NEW u \in RtUsers, NEW t \in RtThreads, NEW e \in BOOLEAN,
              UnbindUnscoped(u, t, e), fixing.stage = "delete"
       PROVE  RequestedIsUnbound'
  <2>1. UNCHANGED fixing
    BY <1>12 DEF UnbindUnscoped, Routing
  <2>2. CASE UnbindLegacy(u, t, e)
    BY <1>9, <1>12, <2>1, <2>2 DEF UnbindLegacy
  <2>3. CASE legacy[<<u, t>>] = NoRoute
    <3> DEFINE chats == {c \in RtChats : scoped[<<u, c, t>>] # NoRoute}
    <3>1. Cardinality(chats) = 1 /\ UnbindScoped(u, CHOOSE c \in chats : TRUE, t, e)
      BY <1>12, <2>3 DEF UnbindUnscoped
    <3>2. ASSUME chats = {} PROVE FALSE
      <4>1. Cardinality(chats) = 0
        BY <3>2, FS_EmptySet
      <4> QED
        BY <3>1, <4>1
    <3>3. (CHOOSE c \in chats : TRUE) \in RtChats
      BY <3>2
    <3> QED
      BY <1>10, <1>12, <2>1, <3>1, <3>3
  <2> QED
    BY <1>12, <2>2, <2>3 DEF UnbindUnscoped
<1>13. CASE \/ SaveTimer \/ SaveFails \/ UNCHANGED rtVars
  <2>1. UNCHANGED <<legacy, scoped, groups, fixing>>
    BY <1>13 DEF SaveTimer, SaveFails, rtVars, rtTable
  <2> QED
    BY <2>1 DEF RequestedIsUnbound, InHand, ScopedOwners, Unscoped
<1>14. CASE RestartRouter \/ BeginCleanup \/ DeleteAnswered \/ CloseAnswered
  <2>1. fixing'.stage # "delete"
    BY <1>0, <1>14, AdvancedTypes
       DEF RestartRouter, Reload, RtIdle, BeginCleanup, DeleteAnswered, CloseAnswered,
           Discard, RtTypes
  <2> QED
    BY <1>2, <2>1
<1>15. ASSUME NEW u \in RtUsers, NEW t \in RtThreads,
              \/ \E w \in RtWindows : BindLegacy(u, t, w)
              \/ \E c \in RtChats : SetGroupChatId(u, t, c)
              \/ \E c \in RtChats, w \in RtWindows : BindScoped(u, c, t, w)
              \/ \E c \in RtChats, e \in BOOLEAN : Unbind(u, c, t, e)
              \/ \E e \in BOOLEAN : UnbindUnscoped(u, t, e)
       PROVE  RequestedIsUnbound'
  <2>1. UNCHANGED fixing
    BY <1>15 DEF BindLegacy, SetGroupChatId, BindScoped, Unbind, UnbindUnscoped, Routing
  <2>2. CASE fixing.stage = "delete"
    BY <1>6, <1>7, <1>8, <1>11, <1>12, <1>15, <2>2
  <2> QED
    BY <1>2, <2>1, <2>2
<1> QED
  BY <1>1, <1>13, <1>14, <1>15 DEF RoutingNext

(* The table is consistent with its indexes and with its file, whatever is *)
(* bound, unbound, saved, lost or loaded (thread_router.py).               *)
THEOREM RoutingTableIsKept == RoutingSpec => []RoutingInv
<1>1. RoutingInit => RouterInOrder
  BY RouterStart
<1>2. RouterInOrder /\ [RoutingNext]_rtVars => RouterInOrder'
  BY RouterStep
<1>3. RouterInOrder => RoutingInv
  BY InOrderMeansInv
<1> QED
  BY <1>1, <1>2, <1>3, PTL DEF RoutingSpec

(* /sync deletes or closes only a topic that no user has bound when the    *)
(* request is sent, while no two users have bound a retired topic.         *)
THEOREM FixSparesBoundTopics ==
  ASSUME RtHazards = {}
  PROVE  RoutingSpec => CleanupSparesActive
<1> DEFINE Spares == (fixing'.stage \in {"delete", "close"} /\ fixing' # fixing)
                       => LET r == Oldest(fixing'.todo)
                          IN  ScopedOwners(r.chat, r.thread) \cup Unscoped(r.chat, r.thread) = {}
           Kept == RouterInOrder /\ RequestedIsUnbound
<1>1. RoutingInit => Kept
  BY RouterStart
<1>2. Kept /\ [RoutingNext]_rtVars => Kept'
  BY RouterStep, UnboundStep
<1>3. Kept /\ [RoutingNext]_rtVars => Spares
  <2> SUFFICES ASSUME Kept, [RoutingNext]_rtVars, fixing'.stage \in {"delete", "close"},
                      fixing' # fixing
               PROVE  LET r == Oldest(fixing'.todo)
                      IN  ScopedOwners(r.chat, r.thread) \cup Unscoped(r.chat, r.thread) = {}
    OBVIOUS
  <2>0. RtTypes
    BY DEF RouterInOrder
  <2>1. CASE CheckTopic
    <3>1. fixing'.stage = "delete"
      BY <2>0, <2>1, AdvancedTypes DEF CheckTopic, RtTypes
    <3> QED
      BY <2>0, <2>1, <3>1, CheckedIsUnbound DEF InHand
  <2>2. CASE DeleteAnswered
    <3>1. fixing.stage = "delete" /\ fixing' = [fixing EXCEPT !.stage = "close"]
      BY <2>0, <2>2, AdvancedTypes DEF DeleteAnswered, Discard
    <3>2. fixing'.todo = fixing.todo
      BY <2>0, <3>1 DEF RtTypes
    <3> QED
      BY <3>1, <3>2 DEF RequestedIsUnbound, InHand
  <2>3. CASE CloseAnswered \/ BeginCleanup \/ RestartRouter
    BY <2>0, <2>3, AdvancedTypes
       DEF CloseAnswered, Discard, BeginCleanup, RestartRouter, Reload, RtIdle
  <2>4. CASE SaveTimer \/ SaveFails \/ UNCHANGED rtVars
    BY <2>4 DEF SaveTimer, SaveFails, rtVars
  <2>5. ASSUME NEW u \in RtUsers, NEW t \in RtThreads,
              \/ \E w \in RtWindows : BindLegacy(u, t, w)
              \/ \E c \in RtChats : SetGroupChatId(u, t, c)
              \/ \E c \in RtChats, w \in RtWindows : BindScoped(u, c, t, w)
              \/ \E c \in RtChats, e \in BOOLEAN : Unbind(u, c, t, e)
              \/ \E e \in BOOLEAN : UnbindUnscoped(u, t, e)
        PROVE FALSE
    BY <2>5 DEF BindLegacy, SetGroupChatId, BindScoped, Unbind, UnbindUnscoped, Routing
  <2> QED
    BY <2>1, <2>2, <2>3, <2>4, <2>5 DEF RoutingNext
<1> QED
  BY <1>1, <1>2, <1>3, PTL DEF RoutingSpec, CleanupSparesActive
=============================================================================
