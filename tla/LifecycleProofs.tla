--------------------------- MODULE LifecycleProofs ---------------------------
(***************************************************************************)
(* For any number of sessions, of threads that ask for the stop and of     *)
(* processes: no wake-up is lost, what started is torn down in reverse,    *)
(* and the save is whole, complete and never older than the last one.      *)
(***************************************************************************)
EXTENDS Lifecycle, SequenceTheorems, TLAPS

\* The four phases, in their order (server.rs, Phase).
LEMMA PhaseSet ==
  /\ ToSet(Phases) = {"config", "dirs", "network", "loop"}
  /\ Phases[1] = "config" /\ Phases[2] = "dirs" /\ Phases[3] = "network" /\ Phases[4] = "loop"
BY DEF ToSet, Phases

\* A phase has one place in that order.
LEMMA WhichPhase ==
  ASSUME NEW k \in 1..4
  PROVE  /\ Phases[k] = "config" => k = 1
         /\ Phases[k] = "dirs" => k = 2
         /\ Phases[k] = "network" => k = 3
         /\ Phases[k] = "loop" => k = 4
BY DEF Phases

\* Each place in the order is taken.
LEMMA PhaseIn ==
  ASSUME NEW k \in 1..4
  PROVE  Phases[k] \in ToSet(Phases) /\ k \in Nat /\ k > 0
BY PhaseSet

\* No two places hold the same phase.
LEMMA PhasesApart ==
  ASSUME NEW m \in 1..4, NEW n \in 1..4, Phases[m] = Phases[n]
  PROVE  m = n
BY DEF Phases

\* A world nobody has touched can be saved.
LEMMA FreshIsSave == Fresh \in Saves
BY LifeAssumption DEF Fresh, Saves

\* A change adds to the parts it is about, and takes from none.
LEMMA ChangingGrows ==
  ASSUME live \in Saves, NEW changed
  PROVE  Changing(changed) \in Saves /\ \A p \in Parts : Changing(changed)[p] >= live[p]
BY LifeAssumption DEF Changing, Saves

\* What a start restores is what the last process saved, if it saved.
LEMMA RestoredIsSave ==
  ASSUME LifeTypeOK, SaveInv
  PROVE  /\ Restored \in Saves
         /\ disk.file \in Saves => Restored = disk.file
<1>1. disk.file \in Saves \cup {None} /\ disk.level \in 0..MaxChanges \cup {None}
  BY DEF LifeTypeOK, DiskOK, SaveInv, Growing
<1>2. \A n \in 0..MaxChanges : [Fresh EXCEPT !.time = n] \in Saves
  BY FreshIsSave DEF Saves, Parts
<1>3. disk.file \in Saves => disk.file # None
  BY NamesAssumption
<1> QED BY <1>1, <1>2, <1>3, FreshIsSave DEF Restored

\* The steps that write on the disk.
LEMMA DiskSteps ==
  ASSUME [LifeNext]_lifeVars
  PROVE  StoreTime \/ StoreCreate \/ StoreWrite \/ StoreSync \/ StoreRename \/ Reboot \/ disk' = disk
<1> USE DEF runVars, stopVars, dogVars, tickVars, worldVars, saveVars, pastVars
<1>1. CASE Run
  BY <1>1 DEF Run, StartConfigLoad, StartWorldDirs, StartNetwork, StartTickLoop,
              Advance, RunOneTick, AfterAdvance, Unparked
<1>2. CASE TearDownPlain \/ ReleaseListener \/ SaveBegins \/ (\E part \in Parts : Snapshot(part))
           \/ StoreFails
  BY <1>2 DEF TearDownPlain, ReleaseListener, SaveBegins, Snapshot, StoreFails
<1>3. CASE Ending \/ Watching \/ DogExpired
  BY <1>3 DEF Ending, Watching, TornDown, ReleaseWatchdog, JoinAll, DogLook, DogFires,
              DogUnparked, DogExpired
<1>4. CASE \/ \E a \in Askers : Request(a) \/ Wake(a)
           \/ \E t \in Threads : Parking(t)
           \/ \E s \in Players : Join(s) \/ SessionEnds(s) \/ SessionChanges(s)
  BY <1>4 DEF Request, Wake, Parking, ParkLook, ParkWait, Join, SessionEnds, SessionChanges
<1>5. CASE UNCHANGED lifeVars
  BY <1>5 DEF lifeVars
<1> QED BY <1>1, <1>2, <1>3, <1>4, <1>5 DEF LifeNext, Teardown

\* The steps that touch the world and what is kept of it.
LEMMA WorldSteps ==
  ASSUME [LifeNext]_lifeVars
  PROVE  \/ StartNetwork \/ RunOneTick \/ ReleaseListener \/ Reboot
         \/ \E part \in Parts : Snapshot(part)
         \/ \E s \in Players : SessionChanges(s)
         \/ UNCHANGED <<live, served, shot>>
<1> USE DEF runVars, stopVars, dogVars, tickVars, worldVars, saveVars, pastVars
<1>1. CASE Run
  BY <1>1 DEF Run, StartConfigLoad, StartWorldDirs, StartTickLoop, Advance, AfterAdvance, Unparked
<1>2. CASE Teardown
  BY <1>2 DEF Teardown, TearDownPlain, SaveBegins, StoreTime, StoreCreate, StoreWrite,
              StoreSync, StoreRename, StoreFails
<1>3. CASE Ending \/ Watching \/ DogExpired
  BY <1>3 DEF Ending, Watching, TornDown, ReleaseWatchdog, JoinAll, DogLook, DogFires,
              DogUnparked, DogExpired
<1>4. CASE \/ \E a \in Askers : Request(a) \/ Wake(a)
           \/ \E t \in Threads : Parking(t)
           \/ \E s \in Players : Join(s) \/ SessionEnds(s)
  BY <1>4 DEF Request, Wake, Parking, ParkLook, ParkWait, Join, SessionEnds
<1>5. CASE UNCHANGED lifeVars
  BY <1>5 DEF lifeVars
<1> QED BY <1>1, <1>2, <1>3, <1>4, <1>5 DEF LifeNext

\* The steps of the stop request and of the threads it wakes.
LEMMA SleepSteps ==
  ASSUME [LifeNext]_lifeVars
  PROVE  \/ ReleaseWatchdog \/ AfterAdvance \/ DogLook \/ Reboot
         \/ \E a \in Askers : Request(a) \/ Wake(a)
         \/ \E t \in Threads : ParkLook(t) \/ ParkWait(t)
         \/ UNCHANGED <<stop, asker, sleeper, park>>
<1> USE DEF runVars, stopVars, dogVars, tickVars, worldVars, saveVars, pastVars
<1>1. CASE Run
  BY <1>1 DEF Run, StartConfigLoad, StartWorldDirs, StartNetwork, StartTickLoop, Advance,
              RunOneTick, Unparked
<1>2. CASE Teardown
  BY <1>2 DEF Teardown, TearDownPlain, ReleaseListener, SaveBegins, Snapshot, StoreTime,
              StoreCreate, StoreWrite, StoreSync, StoreRename, StoreFails
<1>3. CASE Ending \/ Watching \/ DogExpired
  BY <1>3 DEF Ending, Watching, TornDown, JoinAll, DogFires, DogUnparked, DogExpired
<1>4. CASE \/ \E t \in Threads : Parking(t)
           \/ \E s \in Players : Join(s) \/ SessionEnds(s) \/ SessionChanges(s)
  BY <1>4 DEF Parking, Join, SessionEnds, SessionChanges
<1>5. CASE UNCHANGED lifeVars
  BY <1>5 DEF lifeVars
<1> QED BY <1>1, <1>2, <1>3, <1>4, <1>5 DEF LifeNext

\* Once the store has begun, all parts have been read.
LEMMA ShotIsSave ==
  ASSUME LifeTypeOK, SaveInv, main \in Storing
  PROVE  shot \in Saves
BY DEF LifeTypeOK, WorldOK, SaveInv, Reading, ReadBy, Saves

\* The first process starts with everything in its place.
LEMMA LifeInitTyped == Init => LifeTypeOK
<1> SUFFICES ASSUME Init PROVE LifeTypeOK
  OBVIOUS
<1>1. 1 \in 1..MaxBoots
  BY LifeAssumption
<1>2. <<>> \in PhaseLists /\ <<>> \in Transcripts
  BY EmptySeq DEF PhaseLists, Transcripts
<1> QED BY <1>1, <1>2 DEF Init, LifeTypeOK, ListsOK, DiskOK, ThreadsOK, WorldOK

\* A list of members of S stays one when it grows at its end or loses it.
LEMMA GrowsTyped ==
  ASSUME NEW S, NEW c \in Seq(S), NEW e \in S
  PROVE  Append(c, e) \in Seq(S)
OBVIOUS

\* Losing the last of a list keeps it a list.
LEMMA FrontTyped ==
  ASSUME NEW S, NEW c \in Seq(S), c # <<>>
  PROVE  Front(c) \in Seq(S)
<1>1. Len(c) \in Nat /\ Len(c) > 0
  OBVIOUS
<1> QED BY <1>1, SubSeqProperties DEF Front

\* The details a transcript entry may carry.
LEMMA DetailSet == "" \in Details /\ "saved" \in Details /\ "FAILED" \in Details
BY DEF Details

\* Both lists grow by what belongs in them.
LEMMA ListsTyped ==
  ASSUME LifeTypeOK, NEW phase \in ToSet(Phases), NEW way \in {"start", "stop"},
         NEW detail \in Details
  PROVE  /\ Append(completed, phase) \in PhaseLists
         /\ Append(transcript, <<phase, way, detail>>) \in Transcripts
         /\ completed # <<>> => Front(completed) \in PhaseLists
<1> DEFINE P == ToSet(Phases)
           E == Entries
           entry == <<phase, way, detail>>
<1>1. entry \in E /\ phase \in P
  BY DEF Entries
<1>2. PhaseLists = Seq(P) /\ Transcripts = Seq(E)
  BY DEF PhaseLists, Transcripts
<1>3. completed \in Seq(P) /\ transcript \in Seq(E)
  BY <1>2 DEF LifeTypeOK, ListsOK
<1> HIDE DEF P, E, entry
<1>4. Append(completed, phase) \in Seq(P) /\ Append(transcript, entry) \in Seq(E)
  BY <1>1, <1>3, GrowsTyped
<1>5. completed # <<>> => Front(completed) \in Seq(P)
  BY <1>3, FrontTyped
<1> QED BY <1>2, <1>4, <1>5 DEF entry

\* What a phase that is complete, and one that is torn down, leave typed.
LEMMA StartedTyped ==
  ASSUME LifeTypeOK, NEW phase \in ToSet(Phases), NEW next, Started(phase, next)
  PROVE  /\ completed' \in PhaseLists /\ transcript' \in Transcripts
         /\ main' \in {"teardown", next} /\ cut' \in {"no", "abort", "error"}
<1>1. Append(completed, phase) \in PhaseLists /\ Append(transcript, <<phase, "start", "">>) \in Transcripts
  BY ListsTyped, DetailSet
<1>2. cut \in {"no", "abort", "error"}
  BY DEF LifeTypeOK, ThreadsOK
<1> QED BY <1>1, <1>2 DEF Started

\* A teardown entry keeps the transcript one.
LEMMA StoppedTyped ==
  ASSUME LifeTypeOK, NEW phase \in ToSet(Phases), NEW detail \in Details,
         Stopped(phase, detail), completed # <<>>
  PROVE  /\ completed' \in PhaseLists /\ transcript' \in Transcripts
         /\ main' = "teardown" /\ cut' = cut
<1>1. Front(completed) \in PhaseLists /\ Append(transcript, <<phase, "stop", detail>>) \in Transcripts
  BY ListsTyped
<1> QED BY <1>1 DEF Stopped

\* The steps that write in the lists, and how.
LEMMA ListSteps ==
  ASSUME LifeTypeOK, PhaseInv, [LifeNext]_lifeVars
  PROVE  \/ UNCHANGED <<completed, transcript>>
         \/ \E phase \in ToSet(Phases) : \E next \in {"dirs", "network", "loop"} : Started(phase, next)
         \/ completed' = completed /\ transcript' = Append(transcript, <<"loop", "start", "">>)
         \/ completed' = Append(completed, "loop") /\ transcript' = transcript
         \/ /\ completed # <<>>
            /\ \E phase \in ToSet(Phases), detail \in Details :
                 Stopped(phase, detail) /\ (detail = "saved" => StoreRename)
         \/ completed' = <<>> /\ transcript' = <<>>
<1> USE DEF runVars, stopVars, dogVars, tickVars, worldVars, saveVars, pastVars
<1>0. "config" \in ToSet(Phases) /\ "dirs" \in ToSet(Phases)
      /\ "network" \in ToSet(Phases) /\ "loop" \in ToSet(Phases)
  BY PhaseSet
<1>1. CASE StartConfigLoad \/ StartWorldDirs \/ StartNetwork
  BY <1>0, <1>1 DEF StartConfigLoad, StartWorldDirs, StartNetwork, StartFailed
<1>2. CASE StartTickLoop \/ Advance \/ RunOneTick \/ AfterAdvance \/ Unparked
  BY <1>2 DEF StartTickLoop, Advance, RunOneTick, AfterAdvance, Unparked, LoopEnds
<1>3. CASE TearDownPlain \/ ReleaseListener
  BY <1>0, <1>3, DetailSet DEF TearDownPlain, ReleaseListener, TearingDown
<1>4. CASE SaveBegins \/ (\E part \in Parts : Snapshot(part)) \/ StoreTime \/ StoreCreate
           \/ StoreWrite \/ StoreSync
  BY <1>4 DEF SaveBegins, Snapshot, StoreTime, StoreCreate, StoreWrite, StoreSync
<1>5. CASE StoreRename \/ StoreFails
  <2>1. completed # <<>>
    BY <1>5 DEF StoreRename, StoreFails, PhaseInv, Storing
  <2> QED BY <1>0, <1>5, <2>1, DetailSet DEF StoreRename, StoreFails
<1>6. CASE Ending \/ Watching \/ DogExpired
  BY <1>6 DEF Ending, Watching, TornDown, ReleaseWatchdog, JoinAll, DogLook, DogFires,
              DogUnparked, DogExpired, BroadcastStop
<1>7. CASE \/ \E a \in Askers : Request(a) \/ Wake(a)
           \/ \E t \in Threads : Parking(t)
           \/ \E s \in Players : Join(s) \/ SessionEnds(s) \/ SessionChanges(s)
  BY <1>7 DEF Request, Wake, Parking, ParkLook, ParkWait, Join, SessionEnds, SessionChanges
<1>8. CASE Reboot
  BY <1>8 DEF Reboot
<1>9. CASE UNCHANGED lifeVars
  BY <1>9 DEF lifeVars
<1> QED BY <1>1, <1>2, <1>3, <1>4, <1>5, <1>6, <1>7, <1>8, <1>9 DEF LifeNext, Run, Teardown

\* Every step keeps the completed phases and the transcript lists.
LEMMA ListsStep ==
  ASSUME LifeTypeOK, PhaseInv, [LifeNext]_lifeVars
  PROVE  ListsOK'
<1>0. "loop" \in ToSet(Phases)
  BY PhaseSet
<1>1. completed \in PhaseLists /\ transcript \in Transcripts
  BY DEF LifeTypeOK, ListsOK
<1>2. CASE UNCHANGED <<completed, transcript>>
  BY <1>1, <1>2 DEF ListsOK
<1>3. ASSUME NEW phase \in ToSet(Phases), NEW next, Started(phase, next)
      PROVE  ListsOK'
  BY <1>3, StartedTyped DEF ListsOK
<1>4. CASE completed' = completed /\ transcript' = Append(transcript, <<"loop", "start", "">>)
  <2>1. Append(transcript, <<"loop", "start", "">>) \in Transcripts
    BY <1>0, ListsTyped, DetailSet
  <2> QED BY <1>1, <1>4, <2>1 DEF ListsOK
<1>5. CASE completed' = Append(completed, "loop") /\ transcript' = transcript
  <2>1. Append(completed, "loop") \in PhaseLists
    BY <1>0, ListsTyped, DetailSet
  <2> QED BY <1>1, <1>5, <2>1 DEF ListsOK
<1>6. ASSUME NEW phase \in ToSet(Phases), NEW detail \in Details,
             Stopped(phase, detail), completed # <<>>
      PROVE  ListsOK'
  BY <1>6, StoppedTyped DEF ListsOK
<1>7. CASE completed' = <<>> /\ transcript' = <<>>
  <2>1. <<>> \in PhaseLists /\ <<>> \in Transcripts
    BY EmptySeq DEF PhaseLists, Transcripts
  <2> QED BY <1>7, <2>1 DEF ListsOK
<1> QED BY <1>2, <1>3, <1>4, <1>5, <1>6, <1>7, ListSteps

\* The disk: the steps of a save, and the power.
LEMMA DiskStep ==
  ASSUME LifeTypeOK, SaveInv, [LifeNext]_lifeVars
  PROVE  DiskOK'
<1> USE DEF runVars, stopVars, dogVars, tickVars, worldVars, saveVars, pastVars
<1>0. DiskOK
  BY DEF LifeTypeOK
<1>1. CASE StoreTime
  <2>1. shot["time"] \in 0..MaxChanges \cup {None}
    BY DEF LifeTypeOK, WorldOK, Parts
  <2> QED BY <1>0, <1>1, <2>1 DEF StoreTime, DiskOK
<1>2. CASE StoreCreate
  BY <1>0, <1>2 DEF StoreCreate, DiskOK
<1>3. CASE StoreWrite
  <2>1. shot \in Saves
    BY <1>3, ShotIsSave DEF StoreWrite, Storing
  <2> QED BY <1>0, <1>3, <2>1 DEF StoreWrite, DiskOK
<1>4. CASE StoreSync
  BY <1>0, <1>4 DEF StoreSync, DiskOK
<1>5. CASE StoreRename
  BY <1>0, <1>5 DEF StoreRename, DiskOK
<1>6. CASE Reboot
  BY <1>0, <1>6 DEF Reboot, DiskOK
<1>7. ASSUME disk' = disk
      PROVE  DiskOK'
  BY <1>0, <1>7 DEF DiskOK
<1> QED BY <1>1, <1>2, <1>3, <1>4, <1>5, <1>6, <1>7, DiskSteps

\* What the world is, what has been read of it and what was served of it.
LEMMA WorldStep ==
  ASSUME LifeTypeOK, WorldInv, SaveInv, [LifeNext]_lifeVars
  PROVE  WorldOK'
<1> USE DEF runVars, stopVars, dogVars, tickVars, worldVars, saveVars, pastVars
<1>0. WorldOK
  BY DEF LifeTypeOK
<1>1. CASE StartNetwork
  BY <1>0, <1>1, RestoredIsSave DEF StartNetwork, WorldOK
<1>2. CASE RunOneTick
  <2>1. live \in Saves
    BY <1>2 DEF RunOneTick, WorldInv, Serving
  <2> QED BY <1>0, <1>2, <2>1, ChangingGrows DEF RunOneTick, WorldOK
<1>3. ASSUME NEW s \in Players, SessionChanges(s)
      PROVE  WorldOK'
  <2>1. live \in Saves
    BY <1>3 DEF SessionChanges, WorldInv
  <2> QED BY <1>0, <1>3, <2>1, ChangingGrows DEF SessionChanges, WorldOK
<1>4. CASE ReleaseListener
  BY <1>0, <1>4 DEF ReleaseListener, WorldOK
<1>5. ASSUME NEW part \in Parts, Snapshot(part)
      PROVE  WorldOK'
  <2>1. live[part] \in 0..MaxChanges
    BY <1>5 DEF Snapshot, WorldInv, Saves
  <2> QED BY <1>0, <1>5, <2>1 DEF Snapshot, WorldOK
<1>6. CASE Reboot
  BY <1>6 DEF Reboot, WorldOK
<1>7. ASSUME UNCHANGED <<live, served, shot>>
      PROVE  WorldOK'
  BY <1>0, <1>7 DEF WorldOK
<1> QED BY <1>1, <1>2, <1>3, <1>4, <1>5, <1>6, <1>7, WorldSteps

\* Where every thread is.
LEMMA ThreadsStep ==
  ASSUME LifeTypeOK, PhaseInv, [LifeNext]_lifeVars
  PROVE  ThreadsOK'
<1> USE DEF runVars, stopVars, dogVars, tickVars, worldVars, saveVars, pastVars
<1>0. ThreadsOK
  BY DEF LifeTypeOK
<1>1. CASE StartConfigLoad
  BY <1>0, <1>1 DEF StartConfigLoad, Started, StartFailed, ThreadsOK, Finished
<1>2. CASE StartWorldDirs
  BY <1>0, <1>2 DEF StartWorldDirs, Started, StartFailed, ThreadsOK, Finished
<1>3. CASE StartNetwork
  BY <1>0, <1>3 DEF StartNetwork, Started, StartFailed, ThreadsOK, Serving, Finished
<1>4. CASE StartTickLoop
  BY <1>0, <1>4 DEF StartTickLoop, ThreadsOK, Serving
<1>5. CASE Advance
  <2>1. 0..CatchupCap \subseteq Nat
    BY LifeAssumption
  <2> QED BY <1>0, <1>5, <2>1 DEF Advance, LoopEnds, ThreadsOK, Serving
<1>6. CASE RunOneTick
  BY <1>0, <1>6 DEF RunOneTick, ThreadsOK
<1>7. CASE AfterAdvance
  BY <1>0, <1>7 DEF AfterAdvance, LoopEnds, ThreadsOK, Serving
<1>8. CASE Unparked
  BY <1>0, <1>8 DEF Unparked, ThreadsOK, Serving
<1>9. CASE TearDownPlain \/ ReleaseListener \/ StoreRename \/ StoreFails
  BY <1>0, <1>9 DEF TearDownPlain, ReleaseListener, StoreRename, StoreFails, Stopped, ThreadsOK
<1>10. CASE SaveBegins
  BY <1>0, <1>10 DEF SaveBegins, ThreadsOK, Parts
<1>11. ASSUME NEW part \in Parts, Snapshot(part)
       PROVE  ThreadsOK'
  <2>1. AfterPart[part] \in Parts \cup Storing
    BY DEF AfterPart, Parts, Storing
  <2> QED BY <1>0, <1>11, <2>1 DEF Snapshot, ThreadsOK
<1>12. CASE StoreTime \/ StoreCreate \/ StoreWrite \/ StoreSync
  BY <1>0, <1>12 DEF StoreTime, StoreCreate, StoreWrite, StoreSync, ThreadsOK, Storing
<1>13. CASE TornDown
  BY <1>0, <1>13 DEF TornDown, ThreadsOK, Finished
<1>14. Roused \in [Threads -> {"out", "in", "about", "asleep", "roused"}]
  BY <1>0 DEF Roused, ThreadsOK
<1>15. CASE ReleaseWatchdog
  BY <1>0, <1>14, <1>15 DEF ReleaseWatchdog, BroadcastStop, ThreadsOK, Finished
<1>16. CASE JoinAll
  BY <1>0, <1>16 DEF JoinAll, ThreadsOK, Finished
<1>17. CASE Watching \/ DogExpired
  BY <1>0, <1>17 DEF Watching, DogLook, DogFires, DogUnparked, DogExpired, ThreadsOK
<1>18. ASSUME NEW a \in Askers, Request(a) \/ Wake(a)
       PROVE  ThreadsOK'
  BY <1>0, <1>14, <1>18 DEF Request, Wake, BroadcastStop, ThreadsOK
<1>19. ASSUME NEW t \in Threads, Parking(t)
       PROVE  ThreadsOK'
  BY <1>0, <1>19 DEF Parking, ParkLook, ParkWait, ThreadsOK
<1>20. ASSUME NEW s \in Players, Join(s) \/ SessionEnds(s) \/ SessionChanges(s)
       PROVE  ThreadsOK'
  BY <1>0, <1>20 DEF Join, SessionEnds, SessionChanges, ThreadsOK
<1>21. CASE Reboot
  <2>1. boot' \in 1..MaxBoots
    BY <1>0, <1>21, LifeAssumption DEF Reboot, ThreadsOK
  <2> QED BY <1>0, <1>21, <2>1 DEF Reboot, ThreadsOK
<1>22. CASE UNCHANGED lifeVars
  BY <1>0, <1>22 DEF lifeVars, ThreadsOK
<1> QED BY <1>1, <1>2, <1>3, <1>4, <1>5, <1>6, <1>7, <1>8, <1>9, <1>10, <1>11, <1>12, <1>13,
           <1>15, <1>16, <1>17, <1>18, <1>19, <1>20, <1>21, <1>22
        DEF LifeNext, Run, Teardown, Ending

-----------------------------------------------------------------------------
(***************************************************************************)
(* No wake-up is lost.                                                     *)
(***************************************************************************)
LEMMA SleepStep ==
  ASSUME LifeTypeOK, SleepInv, [LifeNext]_lifeVars
  PROVE  SleepInv'
<1> USE DEF runVars, stopVars, dogVars, tickVars, worldVars, saveVars, pastVars
<1>0. /\ park \in [Threads -> {"out", "in", "about", "asleep", "roused"}]
      /\ asker \in [Askers -> {"idle", "waking", "done"}]
      /\ None \notin Threads /\ "main" \in Threads /\ "dog" \in Threads
  BY NamesAssumption DEF LifeTypeOK, ThreadsOK, Threads
<1>1. \A t \in Threads : sleeper = None => park[t] # "about"
  BY <1>0 DEF SleepInv
\* Who woke the sleepers had the mutex: nobody was about to wait.
<1>2. ASSUME BroadcastStop
      PROVE  \A t \in Threads : park'[t] \notin {"about", "asleep"}
  BY <1>0, <1>1, <1>2 DEF BroadcastStop, Roused
<1>3. ASSUME NEW a \in Askers, Request(a)
      PROVE  SleepInv'
  BY <1>0, <1>3 DEF Request, SleepInv, NobodySleepsThroughStop
<1>4. ASSUME NEW a \in Askers, Wake(a)
      PROVE  SleepInv'
  BY <1>2, <1>4 DEF Wake, SleepInv, NobodySleepsThroughStop
<1>5. CASE ReleaseWatchdog
  BY <1>2, <1>5 DEF ReleaseWatchdog, SleepInv, NobodySleepsThroughStop
<1>6. ASSUME NEW t \in Threads, ParkLook(t)
      PROVE  SleepInv'
  BY <1>0, <1>1, <1>6 DEF ParkLook, SleepInv, NobodySleepsThroughStop
<1>7. ASSUME NEW t \in Threads, ParkWait(t)
      PROVE  SleepInv'
  BY <1>0, <1>7 DEF ParkWait, SleepInv, NobodySleepsThroughStop
<1>8. CASE AfterAdvance \/ DogLook
  BY <1>0, <1>8 DEF AfterAdvance, DogLook, SleepInv, NobodySleepsThroughStop
<1>9. CASE Reboot
  BY <1>9 DEF Reboot, SleepInv, NobodySleepsThroughStop
<1>10. ASSUME UNCHANGED <<stop, asker, sleeper, park>>
       PROVE  SleepInv'
  BY <1>10 DEF SleepInv, NobodySleepsThroughStop
<1> QED BY <1>3, <1>4, <1>5, <1>6, <1>7, <1>8, <1>9, <1>10, SleepSteps

-----------------------------------------------------------------------------
(***************************************************************************)
(* What is complete, and in which order it is undone.                      *)
(***************************************************************************)
LEMMA CompletedGrows ==
  ASSUME LifeTypeOK, PhaseInv, Len(completed) < 4,
         completed' = Append(completed, Phases[Len(completed) + 1])
  PROVE  /\ Len(completed') = Len(completed) + 1
         /\ \A n \in 1..Len(completed') : completed'[n] = Phases[n]
<1> DEFINE P == ToSet(Phases)
           e == Phases[Len(completed) + 1]
<1>1. completed \in Seq(P)
  BY DEF LifeTypeOK, ListsOK, PhaseLists
<1>2. Len(completed) \in Nat
  BY <1>1, LenProperties
<1>3. e \in P
  <2>1. Len(completed) + 1 \in 1..4
    BY <1>2
  <2> QED BY <2>1, PhaseSet
<1>4. completed' = Append(completed, e) /\ e = Phases[Len(completed) + 1]
  OBVIOUS
<1>5. \A n \in 1..Len(completed) : completed[n] = Phases[n]
  BY DEF PhaseInv
<1> HIDE DEF P, e
<1>6. /\ Len(Append(completed, e)) = Len(completed) + 1
      /\ \A i \in 1..Len(completed) : Append(completed, e)[i] = completed[i]
      /\ Append(completed, e)[Len(completed) + 1] = e
  BY <1>1, <1>3, AppendProperties
<1> QED BY <1>2, <1>4, <1>5, <1>6

\* Without its last member the list is still a prefix of the phases.
LEMMA CompletedShrinks ==
  ASSUME LifeTypeOK, PhaseInv, completed # <<>>, completed' = Front(completed)
  PROVE  /\ Len(completed') = Len(completed) - 1
         /\ \A n \in 1..Len(completed') : completed'[n] = Phases[n]
<1> DEFINE P == ToSet(Phases)
<1>1. completed \in Seq(P) /\ \A n \in 1..Len(completed) : completed[n] = Phases[n]
  BY DEF LifeTypeOK, ListsOK, PhaseLists, PhaseInv
<1> HIDE DEF P
<1>2. Len(completed) \in Nat /\ Len(completed) > 0
  BY <1>1
<1>3. completed' = SubSeq(completed, 1, Len(completed) - 1)
  BY DEF Front
<1> DEFINE c == completed
           k == Len(c) - 1
<1>4. c \in Seq(P) /\ 1 \in 1..Len(c)+1 /\ k \in 0..Len(c) /\ k - 1 + 1 = k
  BY <1>1, <1>2
<1>5. Len(SubSeq(c, 1, k)) = k /\ \A n \in 1..k : SubSeq(c, 1, k)[n] = c[n]
  <2> HIDE DEF c, k
  <2> QED BY <1>4
<1>6. /\ Len(completed') = Len(completed) - 1
      /\ \A n \in 1..Len(completed) - 1 : completed'[n] = completed[n]
  BY <1>3, <1>5
<1> QED BY <1>1, <1>2, <1>6

\* A number of phases that is not zero is a place among the four.
LEMMA FourAtMost ==
  ASSUME NEW k \in Nat, k > 0, k <= 4
  PROVE  k \in 1..4 /\ k \in 1..k
OBVIOUS

\* The newest phase is the one that is torn down.
LEMMA NewestPhase ==
  ASSUME LifeTypeOK, PhaseInv, NEW phase, TearingDown(phase)
  PROVE  Len(completed) \in 1..4 /\ Phases[Len(completed)] = phase /\ completed # <<>>
<1> DEFINE P == ToSet(Phases)
<1>1. completed \in Seq(P) /\ completed # <<>> /\ Len(completed) <= 4
  BY DEF LifeTypeOK, ListsOK, PhaseLists, PhaseInv, TearingDown
<1>a. (\A n \in 1..Len(completed) : completed[n] = Phases[n]) /\ completed[Len(completed)] = phase
  BY DEF LifeTypeOK, ListsOK, PhaseLists, PhaseInv, TearingDown, Last
<1> HIDE DEF P
<1>2. Len(completed) \in Nat /\ Len(completed) > 0
  BY <1>1
<1>b. Len(completed) <= 4
  BY <1>1
<1>3. Len(completed) \in 1..4 /\ Len(completed) \in 1..Len(completed)
  BY <1>2, <1>b, FourAtMost
<1> QED BY <1>1, <1>a, <1>3

\* The empty list has length 0.
LEMMA EmptyLists == Len(<<>>) = 0
OBVIOUS

\* The list of completed phases has a length, which is 0 for the empty one.
LEMMA CompletedLen ==
  ASSUME LifeTypeOK
  PROVE  Len(completed) \in Nat /\ (completed = <<>> <=> Len(completed) = 0)
<1> DEFINE P == ToSet(Phases)
<1>1. completed \in Seq(P)
  BY DEF LifeTypeOK, ListsOK, PhaseLists
<1> HIDE DEF P
<1> QED BY <1>1

\* The steps that are one more phase, or one less.
LEMMA StartedPhase ==
  ASSUME LifeTypeOK, PhaseInv, Len(completed) < 4, NEW next,
         Started(Phases[Len(completed) + 1], next)
  PROVE  /\ Len(completed') = Len(completed) + 1
         /\ \A n \in 1..Len(completed') : completed'[n] = Phases[n]
         /\ main' \in {"teardown", next}
BY CompletedGrows DEF Started

\* A teardown step leaves one phase less complete.
LEMMA StoppedPhase ==
  ASSUME LifeTypeOK, PhaseInv, completed # <<>>, NEW phase, NEW detail, Stopped(phase, detail)
  PROVE  /\ Len(completed') = Len(completed) - 1
         /\ \A n \in 1..Len(completed') : completed'[n] = Phases[n]
         /\ main' = "teardown"
BY CompletedShrinks DEF Stopped

\* Every step keeps the phases complete in the order of start-up.
LEMMA PhaseStep ==
  ASSUME LifeTypeOK, PhaseInv, [LifeNext]_lifeVars
  PROVE  PhaseInv'
<1> USE DEF runVars, stopVars, dogVars, tickVars, worldVars, saveVars, pastVars
<1>0. Len(completed) \in Nat /\ (completed = <<>> <=> Len(completed) = 0) /\ Len(completed) <= 4
  BY CompletedLen DEF PhaseInv
<1>1. CASE StartConfigLoad
  <2>1. Len(completed) = 0 /\ Phases[Len(completed) + 1] = "config"
    BY <1>1, PhaseSet DEF StartConfigLoad, PhaseInv
  <2>2. CASE Started("config", "dirs")
    BY <2>1, <2>2, StartedPhase DEF PhaseInv, Finished, Serving, Parts, Storing
  <2>3. CASE StartFailed
    BY <1>0, <2>1, <2>3 DEF StartFailed, PhaseInv, Finished, Serving, Parts, Storing
  <2> QED BY <1>1, <2>2, <2>3 DEF StartConfigLoad
<1>2. CASE StartWorldDirs
  <2>b. Len(completed) = 1
    BY <1>2 DEF StartWorldDirs, PhaseInv
  <2>a. Len(completed) = 1 /\ Len(completed) + 1 = 2
    BY <2>b
  <2>1. Len(completed) = 1 /\ Phases[Len(completed) + 1] = "dirs"
    BY <2>a, PhaseSet
  <2>2. CASE Started("dirs", "network")
    BY <2>1, <2>2, StartedPhase DEF PhaseInv, Finished, Serving, Parts, Storing
  <2>3. CASE StartFailed
    BY <1>0, <2>1, <2>3 DEF StartFailed, PhaseInv, Finished, Serving, Parts, Storing
  <2> QED BY <1>2, <2>2, <2>3 DEF StartWorldDirs
<1>3. CASE StartNetwork
  <2>a. Len(completed) = 2 /\ Len(completed) + 1 = 3
    BY <1>0, <1>3 DEF StartNetwork, PhaseInv
  <2>1. Len(completed) = 2 /\ Phases[Len(completed) + 1] = "network"
    BY <2>a, PhaseSet
  <2>2. CASE Started("network", "loop")
    BY <2>1, <2>2, StartedPhase DEF PhaseInv, Finished, Serving, Parts, Storing
  <2>3. CASE StartFailed
    BY <1>0, <2>1, <2>3 DEF StartFailed, PhaseInv, Finished, Serving, Parts, Storing
  <2> QED BY <1>3, <2>2, <2>3 DEF StartNetwork
<1>4. CASE StartTickLoop \/ RunOneTick \/ Unparked
  BY <1>4 DEF StartTickLoop, RunOneTick, Unparked, PhaseInv, Finished, Serving, Parts, Storing
<1>5. CASE Advance \/ AfterAdvance
  <2>a. Len(completed) = 3 /\ Len(completed) + 1 = 4
    BY <1>5 DEF Advance, AfterAdvance, PhaseInv, Serving
  <2>1. Len(completed) = 3 /\ Phases[Len(completed) + 1] = "loop"
    BY <2>a, PhaseSet
  <2>2. CASE LoopEnds
    <3>1. Len(completed') = 4 /\ \A n \in 1..Len(completed') : completed'[n] = Phases[n]
      BY <2>1, <2>2, CompletedGrows DEF LoopEnds
    <3> QED BY <2>2, <3>1 DEF LoopEnds, PhaseInv, Finished, Serving, Parts, Storing
  <2>3. CASE completed' = completed /\ main' \in {"ticking", "parked"}
    BY <2>1, <2>3 DEF PhaseInv, Finished, Serving, Parts, Storing
  <2> QED BY <1>5, <2>2, <2>3 DEF Advance, AfterAdvance
<1>6. ASSUME NEW phase, NEW detail, Stopped(phase, detail), completed # <<>>
      PROVE  PhaseInv'
  <2>1. /\ Len(completed') = Len(completed) - 1 /\ main' = "teardown"
        /\ \A n \in 1..Len(completed') : completed'[n] = Phases[n]
    BY <1>6, StoppedPhase
  <2> QED BY <1>0, <2>1 DEF PhaseInv, Finished, Serving, Parts, Storing
<1>7. CASE TearDownPlain \/ ReleaseListener
  BY <1>6, <1>7 DEF TearDownPlain, ReleaseListener, TearingDown
<1>8. CASE StoreRename \/ StoreFails
  <2>1. completed # <<>>
    BY <1>0, <1>8 DEF StoreRename, StoreFails, PhaseInv, Storing
  <2> QED BY <1>6, <1>8, <2>1 DEF StoreRename, StoreFails
<1>9. CASE SaveBegins
  <2>a. Len(completed) \in 1..4 /\ Phases[Len(completed)] = Phases[2]
    BY <1>9, NewestPhase, PhaseSet DEF SaveBegins
  <2>1. Len(completed) = 2
    <3>1. 2 \in 1..4
      OBVIOUS
    <3> QED BY <2>a, <3>1, PhasesApart
  <2> QED BY <1>9, <2>1 DEF SaveBegins, PhaseInv, Finished, Serving, Parts, Storing
<1>10. ASSUME NEW part \in Parts, Snapshot(part)
       PROVE  PhaseInv'
  BY <1>10 DEF Snapshot, AfterPart, PhaseInv, Finished, Serving, Parts, Storing
<1>11. CASE StoreTime \/ StoreCreate \/ StoreWrite \/ StoreSync
  BY <1>11 DEF StoreTime, StoreCreate, StoreWrite, StoreSync, PhaseInv, Finished, Serving, Parts, Storing
<1>12. CASE Ending
  BY <1>0, <1>12 DEF Ending, TornDown, ReleaseWatchdog, JoinAll, PhaseInv, Finished, Serving, Parts, Storing
<1>13. CASE DogFires
  BY <1>13 DEF DogFires, PhaseInv, Finished, Serving, Parts, Storing
<1>14. CASE Reboot
  <2>1. Len(completed') = 0
    BY <1>14, EmptyLists DEF Reboot
  <2> QED BY <1>14, <2>1 DEF Reboot, PhaseInv, Finished, Serving, Parts, Storing
<1>15. ASSUME UNCHANGED <<main, completed>>
       PROVE  PhaseInv'
  BY <1>15 DEF PhaseInv
<1>16. CASE \/ DogLook \/ DogUnparked \/ DogExpired
            \/ \E a \in Askers : Request(a) \/ Wake(a)
            \/ \E t \in Threads : Parking(t)
            \/ \E s \in Players : Join(s) \/ SessionEnds(s) \/ SessionChanges(s)
  BY <1>15, <1>16 DEF DogLook, DogUnparked, DogExpired, Request, Wake, Parking, ParkLook,
                      ParkWait, Join, SessionEnds, SessionChanges
<1>17. CASE UNCHANGED lifeVars
  BY <1>15, <1>17 DEF lifeVars
<1> QED BY <1>1, <1>2, <1>3, <1>4, <1>5, <1>7, <1>8, <1>9, <1>10, <1>11, <1>12, <1>13, <1>14,
           <1>16, <1>17
        DEF LifeNext, Run, Teardown, Watching

-----------------------------------------------------------------------------
(***************************************************************************)
(* The transcript.                                                         *)
(***************************************************************************)
LEMMA AppendView ==
  ASSUME NEW S, NEW t \in Seq(S), NEW e \in S, NEW u, u = Append(t, e)
  PROVE  /\ Len(t) \in Nat /\ DOMAIN t = 1..Len(t) /\ DOMAIN u = 1..Len(t) + 1
         /\ \A i \in 1..Len(t) : u[i] = t[i]
         /\ u[Len(t) + 1] = e
<1>1. Len(u) = Len(t) + 1 /\ u \in Seq(S)
  BY AppendProperties
<1> QED BY <1>1, AppendProperties, LenProperties

\* One more entry adds its own place to the stops, when it is one.
LEMMA OneMoreStop ==
  ASSUME NEW n \in Nat, NEW t, NEW u, NEW p, NEW e, DOMAIN t = 1..n, DOMAIN u = 1..n + 1,
         \A i \in 1..n : u[i] = t[i], u[n + 1] = e
  PROVE  {i \in DOMAIN u : u[i][1] = p /\ u[i][2] = "stop"} =
           {i \in DOMAIN t : t[i][1] = p /\ t[i][2] = "stop"}
             \cup (IF e[1] = p /\ e[2] = "stop" THEN {n + 1} ELSE {})
<1>1. 1..n + 1 = (1..n) \cup {n + 1}
  OBVIOUS
<1> QED BY <1>1

\* One more entry adds itself to what is held.
LEMMA OneMoreStart ==
  ASSUME NEW n \in Nat, NEW t, NEW u, NEW start, NEW e, DOMAIN t = 1..n, DOMAIN u = 1..n + 1,
         \A i \in 1..n : u[i] = t[i], u[n + 1] = e
  PROVE  (\E i \in DOMAIN u : u[i] = start) <=> (\E i \in DOMAIN t : t[i] = start) \/ e = start
<1>1. 1..n + 1 = (1..n) \cup {n + 1}
  OBVIOUS
<1> QED BY <1>1

\* Where a list of entries says that p was torn down, and whether it holds e.
StopsIn(t, p) == {i \in DOMAIN t : t[i][1] = p /\ t[i][2] = "stop"}
IsStop(e, p) == e[1] = p /\ e[2] = "stop"
Holds(t, e) == \E i \in DOMAIN t : t[i] = e

\* What an entry at the end of the transcript changes of what it says.
LEMMA OneMore ==
  ASSUME NEW E, NEW t \in Seq(E), NEW e \in E, NEW p, NEW start
  PROVE  /\ Len(t) \in Nat /\ StopsIn(t, p) \subseteq 1..Len(t)
         /\ StopsIn(Append(t, e), p) =
              StopsIn(t, p) \cup (IF IsStop(e, p) THEN {Len(t) + 1} ELSE {})
         /\ Holds(Append(t, e), start) <=> Holds(t, start) \/ e = start
<1> DEFINE u == Append(t, e)
<1>1. u = Append(t, e)
  OBVIOUS
<1> HIDE DEF u
<1>2. /\ Len(t) \in Nat /\ DOMAIN t = 1..Len(t) /\ DOMAIN u = 1..Len(t) + 1
      /\ \A i \in 1..Len(t) : u[i] = t[i]
      /\ u[Len(t) + 1] = e
  BY <1>1, AppendView
<1>3. StopsIn(t, p) \subseteq 1..Len(t)
  BY <1>2 DEF StopsIn
<1>4. StopsIn(u, p) =
        StopsIn(t, p) \cup (IF IsStop(e, p) THEN {Len(t) + 1} ELSE {})
  BY <1>2, OneMoreStop DEF StopsIn, IsStop
<1>5. Holds(u, start) <=> Holds(t, start) \/ e = start
  BY <1>2, OneMoreStart DEF Holds
<1> QED BY <1>2, <1>3, <1>4, <1>5 DEF u

\* What one more entry says.
StartOf(p) == <<p, "start", "">>

\* The same, of what the transcript says of a phase.
LEMMA OneMoreEntry ==
  ASSUME LifeTypeOK, NEW e \in Entries, transcript' = Append(transcript, e), NEW p
  PROVE  /\ Len(transcript) \in Nat /\ StoppedAt(p) \subseteq 1..Len(transcript)
         /\ StoppedAt(p)' =
              StoppedAt(p) \cup (IF IsStop(e, p) THEN {Len(transcript) + 1} ELSE {})
         /\ HasStarted(p)' <=> HasStarted(p) \/ e = StartOf(p)
<1> DEFINE start == StartOf(p)
<1>1. transcript \in Seq(Entries)
  BY DEF LifeTypeOK, ListsOK, Transcripts, Entries
<1>2. /\ Len(transcript) \in Nat /\ StopsIn(transcript, p) \subseteq 1..Len(transcript)
      /\ StopsIn(Append(transcript, e), p) =
           StopsIn(transcript, p) \cup (IF IsStop(e, p) THEN {Len(transcript) + 1} ELSE {})
      /\ Holds(Append(transcript, e), start) <=> Holds(transcript, start) \/ e = start
  <2> HIDE DEF start
  <2> QED BY <1>1, OneMore
<1>3. /\ HasStarted(p) <=> Holds(transcript, start)
      /\ HasStarted(p)' <=> Holds(Append(transcript, e), start)
  BY DEF HasStarted, Holds, StartOf
<1>4. StoppedAt(p) = StopsIn(transcript, p) /\ StoppedAt(p)' = StopsIn(Append(transcript, e), p)
  BY DEF StoppedAt, StopsIn
<1> QED BY <1>2, <1>3, <1>4

\* A start entry stops nothing.
LEMMA StartEntry ==
  ASSUME LifeTypeOK, NEW phase \in ToSet(Phases), NEW next, Started(phase, next), NEW p
  PROVE  StoppedAt(p)' = StoppedAt(p) /\ (HasStarted(p)' <=> HasStarted(p) \/ p = phase)
<1> DEFINE e == <<phase, "start", "">>
<1>1. transcript' = Append(transcript, e)
  BY DEF Started
<1>2. e \in Entries /\ ~IsStop(e, p) /\ (e = StartOf(p) <=> p = phase)
  BY DetailSet DEF Entries, IsStop, StartOf
<1> HIDE DEF e
<1> QED BY <1>1, <1>2, OneMoreEntry

\* A stop entry stops its own phase and starts none.
LEMMA StopEntry ==
  ASSUME LifeTypeOK, NEW phase \in ToSet(Phases), NEW detail \in Details,
         Stopped(phase, detail), NEW p
  PROVE  /\ HasStarted(p)' <=> HasStarted(p)
         /\ p = phase => /\ StoppedAt(p)' = StoppedAt(p) \cup {Len(transcript) + 1}
                         /\ Len(transcript) \in Nat /\ StoppedAt(p) \subseteq 1..Len(transcript)
         /\ p # phase => StoppedAt(p)' = StoppedAt(p)
<1> DEFINE e == <<phase, "stop", detail>>
<1>1. transcript' = Append(transcript, e)
  BY DEF Stopped
<1>2. e \in Entries /\ e # StartOf(p) /\ (IsStop(e, p) <=> p = phase)
  BY DetailSet DEF Entries, IsStop, StartOf
<1> HIDE DEF e
<1> QED BY <1>1, <1>2, OneMoreEntry

\* The tick loop enters the transcript as started.
LEMMA LoopEntry ==
  ASSUME LifeTypeOK, StartTickLoop, NEW p
  PROVE  StoppedAt(p)' = StoppedAt(p) /\ (HasStarted(p)' <=> HasStarted(p) \/ p = "loop")
<1>0. "loop" \in ToSet(Phases)
  BY PhaseSet
<1> DEFINE e == <<"loop", "start", "">>
<1>1. transcript' = Append(transcript, e)
  BY DEF StartTickLoop
<1>2. e \in Entries /\ ~IsStop(e, p) /\ (e = StartOf(p) <=> p = "loop")
  BY <1>0, DetailSet DEF Entries, IsStop, StartOf
<1> HIDE DEF e
<1> QED BY <1>1, <1>2, OneMoreEntry

\* The three parts of LogInv, for a state whose main thread is not killed.
StartedOnes ==
  \A n \in 1..4 : HasStarted(Phases[n]) <=>
    \/ n <= Len(completed)
    \/ StoppedAt(Phases[n]) # {}
    \/ n = 4 /\ main \in Looping

StoppedOnes ==
  \A n \in 1..4 : StoppedAt(Phases[n]) # {} =>
    n > Len(completed) /\ main \in {"teardown"} \cup Parts \cup Storing \cup Finished

StopOrder ==
  \A m, n \in 1..4 : \A i \in StoppedAt(Phases[m]), j \in StoppedAt(Phases[n]) : m <= n => j <= i

\* The places in a transcript are numbers up to its length.
LEMMA LogRange ==
  ASSUME LifeTypeOK, NEW p
  PROVE  StoppedAt(p) \subseteq 1..Len(transcript) /\ Len(transcript) \in Nat
<1>1. transcript \in Seq(Entries)
  BY DEF LifeTypeOK, ListsOK, Transcripts, Entries
<1>2. Len(transcript) \in Nat /\ DOMAIN transcript = 1..Len(transcript)
  BY <1>1, LenProperties
<1> QED BY <1>2 DEF StoppedAt

\* LogInv, taken apart into its three parts.
LEMMA LogParts ==
  /\ LogInv <=> (main # "killed" => StartedOnes /\ StoppedOnes /\ StopOrder)
  /\ LogInv' <=> (main' # "killed" => StartedOnes' /\ StoppedOnes' /\ StopOrder')
BY DEF LogInv, StartedOnes, StoppedOnes, StopOrder

\* One more phase is complete: nothing was torn down yet.
LEMMA LogStarted ==
  ASSUME LifeTypeOK, PhaseInv, LogInv, main \in {"config", "dirs", "network"},
         NEW next \in {"dirs", "network", "loop"}, Len(completed) < 4,
         Started(Phases[Len(completed) + 1], next)
  PROVE  LogInv'
<1> DEFINE k == Len(completed) + 1
<1>1. k \in 1..4 /\ Len(completed) \in Nat /\ Phases[k] \in ToSet(Phases)
  BY CompletedLen, PhaseSet
<1>2. Len(completed') = k /\ main' \in {"teardown", next}
  BY StartedPhase
<1>3. StartedOnes /\ StoppedOnes
  BY LogParts
<1>4. \A n \in 1..4 : StoppedAt(Phases[n]) = {}
  BY <1>3 DEF StoppedOnes, Parts, Storing, Finished
<1>6. \A n \in 1..4 : /\ StoppedAt(Phases[n])' = StoppedAt(Phases[n])
                      /\ HasStarted(Phases[n])' <=> HasStarted(Phases[n]) \/ n = k
  <2> HIDE DEF k
  <2>1. \A p : /\ StoppedAt(p)' = StoppedAt(p)
               /\ HasStarted(p)' <=> HasStarted(p) \/ p = Phases[k]
    BY <1>1, StartEntry DEF k
  <2>2. \A n \in 1..4 : Phases[n] = Phases[k] <=> n = k
    BY <1>1, PhasesApart
  <2> QED BY <2>1, <2>2
<1>7. \A n \in 1..4 : n <= k <=> n <= Len(completed) \/ n = k
  BY <1>1
<1>8. StartedOnes'
  BY <1>2, <1>3, <1>4, <1>6, <1>7 DEF StartedOnes, Looping
<1>9. StoppedOnes' /\ StopOrder'
  BY <1>4, <1>6 DEF StoppedOnes, StopOrder
<1> QED BY <1>8, <1>9, LogParts

\* The newest phase is torn down: it has started and the older ones have not
\* been torn down yet, so its entry is the last of all.
LEMMA LogStopped ==
  ASSUME LifeTypeOK, PhaseInv, LogInv, main \in {"teardown"} \cup Storing,
         NEW k \in 1..4, k = Len(completed), NEW detail \in Details,
         Stopped(Phases[k], detail)
  PROVE  LogInv'
<1>0. k \in Nat /\ k > 0 /\ Phases[k] \in ToSet(Phases)
  BY PhaseIn
<1>1. completed # <<>>
  BY <1>0, CompletedLen
<1>2. Len(completed') = k - 1 /\ main' = "teardown"
  BY <1>1, StoppedPhase
<1>3. StartedOnes /\ StoppedOnes /\ StopOrder
  BY LogParts DEF Storing
<1>a. \A n \in 1..4 : StoppedAt(Phases[n]) # {} => n > k
  BY <1>3 DEF StoppedOnes
<1>4. \A n \in 1..4 : n <= k => StoppedAt(Phases[n]) = {}
  <2>1. \A n \in 1..4 : n <= k => ~(n > k)
    BY <1>0
  <2> QED BY <1>a, <2>1
<1> DEFINE last == Len(transcript) + 1
<1>5. \A p : /\ HasStarted(p)' <=> HasStarted(p)
             /\ p = Phases[k] => StoppedAt(p)' = StoppedAt(p) \cup {last}
             /\ p # Phases[k] => StoppedAt(p)' = StoppedAt(p)
  BY <1>0, StopEntry
<1>6. \A n \in 1..4 : n # k => Phases[n] # Phases[k]
  BY PhasesApart
<1>7. \A n \in 1..4 : /\ HasStarted(Phases[n])' <=> HasStarted(Phases[n])
                      /\ n # k => StoppedAt(Phases[n])' = StoppedAt(Phases[n])
  BY <1>5, <1>6
<1>9. \A n \in 1..4 : StoppedAt(Phases[n]) \subseteq 1..Len(transcript) /\ Len(transcript) \in Nat
  BY LogRange
<1>8. StoppedAt(Phases[k])' = {last}
  BY <1>0, <1>4, <1>5, <1>9
<1> HIDE DEF last
<1>b. \A n \in 1..4 : HasStarted(Phases[n]) <=> n <= k \/ StoppedAt(Phases[n]) # {}
  BY <1>3 DEF StartedOnes, Looping, Storing
<1>10. StartedOnes'
  <2>1. \A n \in 1..4 : n <= k <=> n <= k - 1 \/ n = k
    BY <1>0
  <2>2. main' \notin Looping
    BY <1>2 DEF Looping
  <2> QED BY <1>2, <1>7, <1>8, <1>b, <2>1, <2>2 DEF StartedOnes
<1>11. StoppedOnes'
  <2>1. \A n \in 1..4 : (n > k => n > k - 1) /\ (n = k => n > k - 1)
    BY <1>0
  <2> QED BY <1>2, <1>7, <1>a, <2>1 DEF StoppedOnes
<1>12. StopOrder'
  <2> SUFFICES ASSUME NEW m \in 1..4, NEW n \in 1..4, m <= n,
                      NEW i \in StoppedAt(Phases[m])', NEW j \in StoppedAt(Phases[n])'
               PROVE  j <= i
    BY DEF StopOrder
  <2>1. m >= k
    BY <1>0, <1>4, <1>7
  <2>2. CASE m = k
    <3>1. i = last
      BY <1>8, <2>2
    <3>2. j = last \/ j \in 1..Len(transcript)
      BY <1>7, <1>8, <1>9
    <3> QED BY <1>9, <3>1, <3>2 DEF last
  <2>3. CASE m > k
    <3>1. i \in StoppedAt(Phases[m]) /\ j \in StoppedAt(Phases[n])
      <4>1. m # k /\ n # k
        BY <1>0, <2>3
      <4> QED BY <1>7, <4>1
    <3> QED BY <1>3, <3>1 DEF StopOrder
  <2> QED BY <1>0, <2>1, <2>2, <2>3
<1> QED BY <1>10, <1>11, <1>12, LogParts

\* Steps that write nothing.
LEMMA LogSame ==
  ASSUME LogInv, UNCHANGED transcript, UNCHANGED completed, main # "killed",
         main' \in Looping <=> main \in Looping,
         main \in {"teardown"} \cup Parts \cup Storing \cup Finished =>
           main' \in {"teardown"} \cup Parts \cup Storing \cup Finished
  PROVE  LogInv'
<1>1. StartedOnes /\ StoppedOnes /\ StopOrder
  BY LogParts
<1>2. \A p : StoppedAt(p)' = StoppedAt(p) /\ (HasStarted(p)' <=> HasStarted(p))
  BY DEF StoppedAt, HasStarted
<1>3. StartedOnes' /\ StopOrder'
  BY <1>1, <1>2 DEF StartedOnes, StopOrder
<1>4. StoppedOnes'
  BY <1>1, <1>2 DEF StoppedOnes
<1> QED BY <1>3, <1>4, LogParts

\* The loop: it is entered with the first three phases complete, and completes
\* as the fourth.
LEMMA LogLoop ==
  ASSUME LifeTypeOK, PhaseInv, LogInv, StartTickLoop \/ Advance \/ AfterAdvance
  PROVE  LogInv'
<1> USE DEF runVars
<1>1. Len(completed) = 3 /\ main \in Serving
  BY DEF StartTickLoop, Advance, AfterAdvance, PhaseInv, Serving
<1>2. StartedOnes /\ StoppedOnes
  BY <1>1, LogParts DEF Serving
<1>3. \A n \in 1..4 : StoppedAt(Phases[n]) = {}
  BY <1>1, <1>2 DEF StoppedOnes, Serving, Parts, Storing, Finished
<1>4. CASE StartTickLoop
  <2>1. \A p : StoppedAt(p)' = StoppedAt(p) /\ (HasStarted(p)' <=> HasStarted(p) \/ p = Phases[4])
    BY <1>4, LoopEntry, PhaseSet
  <2>2. \A n \in 1..4 : Phases[n] = Phases[4] <=> n = 4
    BY PhasesApart
  <2>3. completed' = completed /\ main' \in Looping /\ main \notin Looping
    BY <1>4 DEF StartTickLoop, Looping
  <2>4. StartedOnes'
    BY <1>2, <1>3, <2>1, <2>2, <2>3 DEF StartedOnes
  <2>5. StoppedOnes' /\ StopOrder'
    BY <1>3, <2>1 DEF StoppedOnes, StopOrder
  <2> QED BY <2>4, <2>5, LogParts
<1>5. CASE LoopEnds /\ transcript' = transcript /\ main \in Looping
  <2>1. \A p : StoppedAt(p)' = StoppedAt(p) /\ (HasStarted(p)' <=> HasStarted(p))
    BY <1>5 DEF StoppedAt, HasStarted
  <2>2. Len(completed') = 4 /\ main' = "teardown"
    <3>1. Phases[Len(completed) + 1] = "loop"
      BY <1>1, PhaseSet
    <3> QED BY <1>1, <1>5, <3>1, CompletedGrows DEF LoopEnds
  <2>3. StartedOnes'
    BY <1>1, <1>2, <1>3, <1>5, <2>1, <2>2 DEF StartedOnes, Looping
  <2>4. StoppedOnes' /\ StopOrder'
    BY <1>3, <2>1 DEF StoppedOnes, StopOrder
  <2> QED BY <2>3, <2>4, LogParts
<1>6. CASE completed' = completed /\ transcript' = transcript /\ main \in Looping /\ main' \in Looping
  BY <1>6, LogSame DEF Looping, Parts, Storing, Finished
<1> QED BY <1>4, <1>5, <1>6 DEF Advance, AfterAdvance, Looping

\* Every step keeps what the transcript says true.
LEMMA LogStep ==
  ASSUME LifeTypeOK, PhaseInv, LogInv, [LifeNext]_lifeVars
  PROVE  LogInv'
<1> USE DEF runVars, stopVars, dogVars, tickVars, worldVars, saveVars, pastVars
<1>0. Len(completed) \in Nat /\ (completed = <<>> <=> Len(completed) = 0)
  BY CompletedLen
<1>1. ASSUME UNCHANGED <<main, completed, transcript>>
      PROVE  LogInv'
  <2>1. CASE main # "killed"
    BY <1>1, <2>1, LogSame
  <2>2. CASE main = "killed"
    BY <1>1, <2>2 DEF LogInv
  <2> QED BY <2>1, <2>2
<1>2. CASE StartConfigLoad \/ StartWorldDirs \/ StartNetwork
  <2>1. CASE StartFailed
    <3>1. main' \in {"teardown", "ended"} /\ UNCHANGED <<completed, transcript>>
      BY <2>1 DEF StartFailed
    <3>2. main \in {"config", "dirs", "network"}
      BY <1>2 DEF StartConfigLoad, StartWorldDirs, StartNetwork
    <3> QED BY <3>1, <3>2, LogSame DEF Looping, Parts, Storing, Finished
  <2>2. CASE StartConfigLoad /\ Started("config", "dirs")
    <3>1. Len(completed) = 0 /\ Phases[Len(completed) + 1] = "config"
      BY <2>2, PhaseSet DEF StartConfigLoad, PhaseInv
    <3> QED BY <2>2, <3>1, LogStarted DEF StartConfigLoad
  <2>3. CASE StartWorldDirs /\ Started("dirs", "network")
    <3>1. Len(completed) = 1
      BY <2>3 DEF StartWorldDirs, PhaseInv
    <3>2. Len(completed) = 1 /\ Len(completed) + 1 = 2
      BY <3>1
    <3>3. Len(completed) = 1 /\ Phases[Len(completed) + 1] = "dirs"
      BY <3>2, PhaseSet
    <3> QED BY <2>3, <3>3, LogStarted DEF StartWorldDirs
  <2>4. CASE StartNetwork /\ Started("network", "loop")
    <3>1. Len(completed) = 2
      BY <2>4 DEF StartNetwork, PhaseInv
    <3>2. Len(completed) = 2 /\ Len(completed) + 1 = 3
      BY <3>1
    <3>3. Len(completed) = 2 /\ Phases[Len(completed) + 1] = "network"
      BY <3>2, PhaseSet
    <3> QED BY <2>4, <3>3, LogStarted DEF StartNetwork
  <2> QED BY <1>2, <2>1, <2>2, <2>3, <2>4 DEF StartConfigLoad, StartWorldDirs, StartNetwork
<1>3. CASE StartTickLoop \/ Advance \/ AfterAdvance
  BY <1>3, LogLoop
<1>4. CASE RunOneTick
  BY <1>1, <1>4 DEF RunOneTick
<1>5. CASE Unparked
  BY <1>5, LogSame DEF Unparked, Looping, Parts, Storing, Finished
<1>6. ASSUME NEW phase, NEW detail \in Details, TearingDown(phase), Stopped(phase, detail)
      PROVE  LogInv'
  <2>0. Len(completed) \in 1..4 /\ Phases[Len(completed)] = phase
    BY <1>6, NewestPhase
  <2>1. PICK k \in 1..4 : k = Len(completed) /\ Phases[k] = phase
    BY <2>0
  <2>2. main \in {"teardown"} \cup Storing
    BY <1>6 DEF TearingDown
  <2> QED BY <1>6, <2>1, <2>2, LogStopped
<1>7. CASE TearDownPlain \/ ReleaseListener
  BY <1>6, <1>7, DetailSet DEF TearDownPlain, ReleaseListener
<1>8. CASE StoreRename \/ StoreFails
  <2>1. PICK detail \in Details : Stopped("dirs", detail)
    BY <1>8, DetailSet DEF StoreRename, StoreFails
  <2>2. main \in Storing
    BY <1>8 DEF StoreRename, StoreFails, Storing
  <2>3. PICK k \in 1..4 : k = Len(completed) /\ Phases[k] = "dirs"
    BY <2>2, PhaseSet DEF PhaseInv
  <2> QED BY <2>1, <2>2, <2>3, LogStopped
<1>9. CASE SaveBegins
  BY <1>9, LogSame DEF SaveBegins, TearingDown, Looping, Parts, Storing, Finished
<1>10. ASSUME NEW part \in Parts, Snapshot(part)
       PROVE  LogInv'
  <2>1. main \in Parts /\ main' \in Parts \cup Storing
    BY <1>10 DEF Snapshot, AfterPart, Parts, Storing
  <2> QED BY <1>10, <2>1, LogSame DEF Snapshot, Looping, Parts, Storing, Finished
<1>11. CASE StoreTime \/ StoreCreate \/ StoreWrite \/ StoreSync
  BY <1>11, LogSame DEF StoreTime, StoreCreate, StoreWrite, StoreSync, Looping, Parts, Storing, Finished
<1>12. CASE Ending
  BY <1>12, LogSame DEF Ending, TornDown, ReleaseWatchdog, JoinAll, Looping, Parts, Storing, Finished
<1>13. CASE DogFires
  BY <1>13 DEF DogFires, LogInv
<1>14. CASE Reboot
  <2>1. Len(completed') = 0 /\ main' = "config" /\ transcript' = <<>>
    BY <1>14, EmptyLists DEF Reboot
  <2>2. \A p : StoppedAt(p)' = {} /\ ~HasStarted(p)'
    BY <2>1 DEF StoppedAt, HasStarted
  <2>3. StartedOnes' /\ StoppedOnes' /\ StopOrder'
    BY <2>1, <2>2 DEF StartedOnes, StoppedOnes, StopOrder, Looping
  <2> QED BY <2>3, LogParts
<1>15. CASE \/ DogLook \/ DogUnparked \/ DogExpired
            \/ \E a \in Askers : Request(a) \/ Wake(a)
            \/ \E t \in Threads : Parking(t)
            \/ \E s \in Players : Join(s) \/ SessionEnds(s) \/ SessionChanges(s)
  BY <1>1, <1>15 DEF DogLook, DogUnparked, DogExpired, Request, Wake, Parking, ParkLook,
                     ParkWait, Join, SessionEnds, SessionChanges
<1>16. CASE UNCHANGED lifeVars
  BY <1>1, <1>16 DEF lifeVars
<1> QED BY <1>2, <1>3, <1>4, <1>5, <1>7, <1>8, <1>9, <1>10, <1>11, <1>12, <1>13, <1>14, <1>15,
           <1>16
        DEF LifeNext, Run, Teardown, Watching

-----------------------------------------------------------------------------
(***************************************************************************)
(* The world, and the save.                                                *)
(***************************************************************************)
LEMMA NotYetServing ==
  ASSUME LifeTypeOK, PhaseInv,
         StartConfigLoad \/ StartWorldDirs \/ (StartNetwork /\ StartFailed)
  PROVE  ~(Len(completed') >= 3)
<1>1. CASE StartFailed
  <2>1. Len(completed) = 0 \/ Len(completed) = 1 \/ Len(completed) = 2
    BY DEF StartConfigLoad, StartWorldDirs, StartNetwork, PhaseInv
  <2>2. completed' = completed
    BY <1>1 DEF StartFailed
  <2> QED BY <2>1, <2>2
<1>2. CASE StartConfigLoad /\ Started("config", "dirs")
  <2>1. Len(completed) = 0 /\ Phases[Len(completed) + 1] = "config"
    BY <1>2, PhaseSet DEF StartConfigLoad, PhaseInv
  <2>2. Len(completed') = 1
    BY <1>2, <2>1, StartedPhase
  <2> QED BY <2>2
<1>3. CASE StartWorldDirs /\ Started("dirs", "network")
  <2>1. Len(completed) = 1
    BY <1>3 DEF StartWorldDirs, PhaseInv
  <2>2. Len(completed) = 1 /\ Len(completed) + 1 = 2
    BY <2>1
  <2>3. Phases[Len(completed) + 1] = "dirs"
    BY <2>2, PhaseSet
  <2>4. Len(completed') = 2
    BY <1>3, <2>2, <2>3, StartedPhase
  <2> QED BY <2>4
<1> QED BY <1>1, <1>2, <1>3 DEF StartConfigLoad, StartWorldDirs

\* Every step keeps a world from phase 3 on, and a record of what was served.
LEMMA WorldKept ==
  ASSUME LifeTypeOK, PhaseInv, WorldInv, SaveInv, [LifeNext]_lifeVars
  PROVE  WorldInv'
<1> USE DEF runVars, stopVars, dogVars, tickVars, worldVars, saveVars, pastVars
<1>0. /\ Len(completed) \in Nat /\ (completed = <<>> <=> Len(completed) = 0)
      /\ live \in Saves \cup {None} /\ None \notin Saves
  BY CompletedLen, NamesAssumption DEF LifeTypeOK, WorldOK
<1>1. ASSUME UNCHANGED <<main, completed, live, served, listener, playing>>
      PROVE  WorldInv'
  BY <1>1 DEF WorldInv
<1>a. main \in {"config", "dirs", "network"} => live = None /\ listener = "none" /\ playing = {}
  BY <1>0 DEF WorldInv
<1>b. ASSUME live' = None, listener' = "none", playing' = {},
             main' \in {"dirs", "network", "teardown", "ended"}, ~(Len(completed') >= 3)
      PROVE  WorldInv'
  <2>1. main' \notin Serving \cup Parts \cup Storing
    BY <1>b DEF Serving, Parts, Storing
  <2> QED BY <1>b, <2>1 DEF WorldInv
<1>2. CASE StartConfigLoad \/ StartWorldDirs
  <2>1. /\ main \in {"config", "dirs", "network"} /\ main' \in {"dirs", "network", "teardown", "ended"}
        /\ UNCHANGED <<live, listener, playing>>
    BY <1>2 DEF StartConfigLoad, StartWorldDirs, Started, StartFailed
  <2>2. ~(Len(completed') >= 3)
    BY <1>2, NotYetServing
  <2> QED BY <1>a, <1>b, <2>1, <2>2
<1>3. CASE StartNetwork
  <2>1. CASE StartFailed /\ UNCHANGED <<live, listener>>
    <3>1. main = "network" /\ main' \in {"teardown", "ended"} /\ UNCHANGED <<live, listener, playing>>
      BY <1>3, <2>1 DEF StartNetwork, StartFailed
    <3>2. ~(Len(completed') >= 3)
      BY <1>3, <2>1, NotYetServing
    <3> QED BY <1>a, <1>b, <3>1, <3>2
  <2>2. CASE Started("network", "loop") /\ live' = Restored /\ listener' = "serving"
    <3>1. Len(completed) = 2
      BY <1>3 DEF StartNetwork, PhaseInv
    <3>2. Len(completed) = 2 /\ Len(completed) + 1 = 3
      BY <3>1
    <3>3. Len(completed) = 2 /\ Phases[Len(completed) + 1] = "network"
      BY <3>2, PhaseSet
    <3>4. Len(completed') = 3 /\ main' \in {"teardown", "loop"}
      BY <2>2, <3>2, <3>3, StartedPhase
    <3>5. live' \in Saves
      BY <2>2, RestoredIsSave
    <3> QED BY <3>4, <3>5 DEF WorldInv, Serving, Parts, Storing, Finished
  <2> QED BY <1>3, <2>1, <2>2 DEF StartNetwork
<1>4. CASE StartTickLoop \/ Unparked
  BY <1>4 DEF StartTickLoop, Unparked, WorldInv, Serving, Parts, Storing, Finished
<1>5. CASE Advance \/ AfterAdvance
  <2>1. main' \in {"teardown", "ticking", "parked"} /\ UNCHANGED <<live, served, listener, playing>>
    BY <1>5 DEF Advance, AfterAdvance, LoopEnds
  <2>2. live \in Saves
    BY <1>5 DEF Advance, AfterAdvance, WorldInv, Serving
  <2>3. main' = "teardown" => Len(completed') = 4
    <3>1. Len(completed) = 3 /\ Len(completed) + 1 = 4
      BY <1>5 DEF Advance, AfterAdvance, PhaseInv, Serving
    <3>2. Phases[Len(completed) + 1] = "loop"
      BY <3>1, PhaseSet
    <3>3. LoopEnds => Len(completed') = 4
      BY <3>1, <3>2, CompletedGrows DEF LoopEnds
    <3> QED BY <1>5, <3>3 DEF Advance, AfterAdvance
  <2>4. main' \notin Parts \cup Storing \cup {"config", "dirs", "network"}
    BY <2>1 DEF Parts, Storing
  <2>5. main' = "teardown" => ~(Len(completed') <= 2)
    BY <2>3
  <2>6. live' \in Saves
    BY <2>1, <2>2
  <2> QED BY <2>4, <2>5, <2>6 DEF WorldInv
<1>6. CASE RunOneTick
  <2>1. live \in Saves
    BY <1>6 DEF RunOneTick, WorldInv, Serving
  <2>2. live' \in Saves
    BY <1>6, <2>1, ChangingGrows DEF RunOneTick
  <2> QED BY <1>6, <2>2 DEF RunOneTick, WorldInv, Serving, Parts, Storing
<1>7. ASSUME NEW phase, NEW detail, TearingDown(phase), Stopped(phase, detail)
      PROVE  /\ main = "teardown" /\ main' = "teardown" /\ Len(completed') = Len(completed) - 1
             /\ Len(completed) \in 1..4 /\ Phases[Len(completed)] = phase
  BY <1>7, NewestPhase, StoppedPhase DEF TearingDown
<1>8. CASE TearDownPlain
  <2>1. UNCHANGED <<live, served, listener, playing>>
    BY <1>8 DEF TearDownPlain
  <2>2. PICK phase \in {"loop", "config", "dirs"} :
          /\ TearingDown(phase) /\ Stopped(phase, "")
          /\ phase = "dirs" => live = None
    BY <1>8 DEF TearDownPlain
  <2>3. /\ main = "teardown" /\ main' = "teardown" /\ Len(completed') = Len(completed) - 1
        /\ Len(completed) \in 1..4 /\ Phases[Len(completed)] = phase
    BY <1>7, <2>2
  <2>4. \/ Len(completed) = 4 /\ phase = "loop"
        \/ Len(completed) = 1 /\ phase = "config"
        \/ Len(completed) = 2 /\ phase = "dirs"
    BY <2>2, <2>3, WhichPhase
  <2>5. CASE Len(completed) = 4
    <3>1. live \in Saves /\ Len(completed') = 3
      BY <2>3, <2>5 DEF WorldInv
    <3> QED BY <2>1, <2>3, <3>1 DEF WorldInv, Serving, Parts, Storing
  <2>6. CASE Len(completed) = 1
    <3>1. Len(completed') = 0 /\ (live # None => served \in Saves)
      BY <2>3, <2>6 DEF WorldInv
    <3> QED BY <2>1, <2>3, <3>1 DEF WorldInv, Serving, Parts, Storing
  <2>7. CASE Len(completed) = 2 /\ live = None
    <3>1. Len(completed') = 1
      BY <2>3, <2>7
    <3> QED BY <2>1, <2>3, <2>7, <3>1 DEF WorldInv, Serving, Parts, Storing
  <2> QED BY <2>2, <2>4, <2>5, <2>6, <2>7
<1>9. CASE ReleaseListener
  <2>1. /\ main = "teardown" /\ main' = "teardown" /\ Len(completed') = Len(completed) - 1
        /\ Len(completed) \in 1..4 /\ Phases[Len(completed)] = "network"
    BY <1>7, <1>9 DEF ReleaseListener
  <2>a. Len(completed) = 3
    BY <2>1, WhichPhase
  <2>2. Len(completed) = 3 /\ Len(completed') = 2
    BY <2>1, <2>a
  <2>3. live \in Saves
    BY <2>1, <2>2 DEF WorldInv
  <2>4. served' = live /\ live' = live
    BY <1>9 DEF ReleaseListener
  <2> QED BY <2>1, <2>2, <2>3, <2>4 DEF WorldInv, Serving, Parts, Storing
<1>10. CASE SaveBegins
  <2>1. /\ Len(completed) \in 1..4 /\ Phases[Len(completed)] = "dirs" /\ main = "teardown"
        /\ live # None /\ main' = "blocks" /\ UNCHANGED <<live, served, listener, playing>>
    BY <1>10, NewestPhase DEF SaveBegins, TearingDown
  <2>2. Len(completed) = 2
    BY <2>1, WhichPhase
  <2>3. served \in Saves /\ live \in Saves
    BY <1>0, <2>1, <2>2 DEF WorldInv
  <2> QED BY <2>1, <2>3 DEF WorldInv, Serving, Parts, Storing
<1>11. ASSUME NEW part \in Parts, Snapshot(part)
       PROVE  WorldInv'
  <2>1. main \in Parts /\ main' \in Parts \cup Storing
    BY <1>11 DEF Snapshot, AfterPart, Parts, Storing
  <2> QED BY <1>11, <2>1 DEF Snapshot, WorldInv, Serving, Parts, Storing
<1>12. CASE StoreTime \/ StoreCreate \/ StoreWrite \/ StoreSync
  BY <1>12 DEF StoreTime, StoreCreate, StoreWrite, StoreSync, WorldInv, Serving, Parts, Storing
<1>13. CASE StoreRename \/ StoreFails
  <2>1. served \in Saves /\ live \in Saves /\ Len(completed) = 2 /\ main \in Storing
    BY <1>13 DEF StoreRename, StoreFails, WorldInv, PhaseInv, Storing
  <2>2. completed # <<>>
    BY <1>0, <2>1
  <2>3. main' = "teardown" /\ UNCHANGED <<live, served, listener, playing>>
    BY <1>13 DEF StoreRename, StoreFails, Stopped
  <2> QED BY <2>1, <2>3 DEF WorldInv, Serving, Parts, Storing
<1>14. CASE Ending \/ DogFires
  BY <1>14 DEF Ending, TornDown, ReleaseWatchdog, JoinAll, DogFires, WorldInv, Serving, Parts, Storing
<1>15. CASE Reboot
  BY <1>0, <1>15 DEF Reboot, WorldInv, Serving, Parts, Storing
<1>16. ASSUME NEW s \in Players, Join(s) \/ SessionEnds(s)
       PROVE  WorldInv'
  BY <1>16 DEF Join, SessionEnds, WorldInv
<1>17. ASSUME NEW s \in Players, SessionChanges(s)
       PROVE  WorldInv'
  <2>1. live \in Saves
    BY <1>17 DEF SessionChanges, WorldInv
  <2>2. live' \in Saves
    BY <1>17, <2>1, ChangingGrows DEF SessionChanges
  <2>3. main \notin {"config", "dirs", "network"}
    BY <1>0, <2>1 DEF WorldInv
  <2> QED BY <1>0, <1>17, <2>1, <2>2, <2>3 DEF SessionChanges, WorldInv
<1>18. CASE \/ DogLook \/ DogUnparked \/ DogExpired
            \/ \E a \in Askers : Request(a) \/ Wake(a)
            \/ \E t \in Threads : Parking(t)
  BY <1>1, <1>18 DEF DogLook, DogUnparked, DogExpired, Request, Wake, Parking, ParkLook, ParkWait
<1>19. CASE UNCHANGED lifeVars
  BY <1>1, <1>19 DEF lifeVars
<1> QED BY <1>2, <1>3, <1>4, <1>5, <1>6, <1>8, <1>9, <1>10, <1>11, <1>12, <1>13, <1>14, <1>15,
           <1>16, <1>17, <1>18, <1>19
        DEF LifeNext, Run, Teardown, Watching

\* Only the entry of a written save says that it was written.
LEMMA OneMoreSaid ==
  ASSUME LifeTypeOK, NEW e \in Entries, transcript' = Append(transcript, e), NEW said,
         e # said, said \in ToSet(transcript')
  PROVE  said \in ToSet(transcript)
<1>1. transcript \in Seq(Entries)
  BY DEF LifeTypeOK, ListsOK, Transcripts
<1>2. Holds(Append(transcript, e), said) <=> Holds(transcript, said) \/ e = said
  BY <1>1, OneMore
<1> QED BY <1>2 DEF Holds, ToSet

\* Only the rename says that the save was written.
LEMMA SavedSteps ==
  ASSUME LifeTypeOK, PhaseInv, [LifeNext]_lifeVars, Saved'
  PROVE  StoreRename \/ Saved
<1> DEFINE said == <<"dirs", "stop", "saved">>
<1>1. said \in ToSet(transcript') /\ (Saved <=> said \in ToSet(transcript))
  BY DEF Saved
<1>2. CASE transcript' = transcript
  BY <1>1, <1>2
<1>3. ASSUME NEW phase \in ToSet(Phases), NEW next, Started(phase, next)
      PROVE  Saved
  <2> DEFINE e == <<phase, "start", "">>
  <2>1. e \in Entries /\ e # said /\ transcript' = Append(transcript, e)
    BY <1>3, DetailSet DEF Entries, Started
  <2> HIDE DEF e, said
  <2> QED BY <1>1, <2>1, OneMoreSaid
<1>4. CASE transcript' = Append(transcript, <<"loop", "start", "">>)
  <2> DEFINE e == <<"loop", "start", "">>
  <2>1. e \in Entries /\ e # said /\ transcript' = Append(transcript, e)
    BY <1>4, DetailSet, PhaseSet DEF Entries
  <2> HIDE DEF e, said
  <2> QED BY <1>1, <2>1, OneMoreSaid
<1>5. ASSUME NEW phase \in ToSet(Phases), NEW detail \in Details, Stopped(phase, detail),
             detail # "saved"
      PROVE  Saved
  <2> DEFINE e == <<phase, "stop", detail>>
  <2>1. e \in Entries /\ e # said /\ transcript' = Append(transcript, e)
    BY <1>5 DEF Entries, Stopped
  <2> HIDE DEF e, said
  <2> QED BY <1>1, <2>1, OneMoreSaid
<1>6. CASE transcript' = <<>>
  BY <1>1, <1>6 DEF ToSet
<1> HIDE DEF said
<1> QED BY <1>2, <1>3, <1>4, <1>5, <1>6, ListSteps

\* What is counted of a world are numbers.
LEMMA Numbers ==
  ASSUME NEW w \in Saves, NEW p \in Parts
  PROVE  w[p] \in Int
BY LifeAssumption DEF Saves

\* When nothing new was served and nothing stored, the world has only grown.
LEMMA GrewOnly ==
  ASSUME LifeTypeOK, Growing, disk'.file = disk.file, disk'.hard, served' = served,
         live' = live \/ (live \in Saves /\ live' \in Saves /\ \A p \in Parts : live'[p] >= live[p])
  PROVE  Growing'
<1>1. CASE live' = live
  BY <1>1 DEF Growing
<1>2. CASE live \in Saves /\ live' \in Saves /\ \A p \in Parts : live'[p] >= live[p]
  <2>1. \A w \in Saves : (\A p \in Parts : live[p] >= w[p]) => \A p \in Parts : live'[p] >= w[p]
    BY <1>2, Numbers
  <2>2. disk.file \in Saves => \A p \in Parts : live'[p] >= disk.file[p]
    BY <1>2, <2>1 DEF Growing
  <2>3. served \in Saves => \A p \in Parts : live'[p] >= served[p]
    BY <1>2, <2>1 DEF Growing
  <2> QED BY <1>2, <2>2, <2>3 DEF Growing
<1> QED BY <1>1, <1>2

\* What a step does to the world: it leaves it, adds to it, or it is one of the
\* two that make it anew.
LEMMA LiveSteps ==
  ASSUME LifeTypeOK, WorldInv, [LifeNext]_lifeVars
  PROVE  \/ StartNetwork \/ Reboot \/ live' = live
         \/ live \in Saves /\ live' \in Saves /\ \A p \in Parts : live'[p] >= live[p]
<1> USE DEF runVars, stopVars, dogVars, tickVars, worldVars, saveVars, pastVars
<1>1. CASE RunOneTick
  <2>1. live \in Saves
    BY <1>1 DEF RunOneTick, WorldInv, Serving
  <2>2. live' \in Saves /\ \A p \in Parts : live'[p] >= live[p]
    BY <1>1, <2>1, ChangingGrows DEF RunOneTick
  <2> QED BY <2>1, <2>2
<1>2. ASSUME NEW s \in Players, SessionChanges(s)
      PROVE  live \in Saves /\ live' \in Saves /\ \A p \in Parts : live'[p] >= live[p]
  <2>1. live \in Saves
    BY <1>2 DEF SessionChanges, WorldInv
  <2>2. live' \in Saves /\ \A p \in Parts : live'[p] >= live[p]
    BY <1>2, <2>1, ChangingGrows DEF SessionChanges
  <2> QED BY <2>1, <2>2
<1>3. CASE ReleaseListener
  BY <1>3 DEF ReleaseListener
<1>4. ASSUME NEW part \in Parts, Snapshot(part)
      PROVE  live' = live
  BY <1>4 DEF Snapshot
<1> QED BY <1>1, <1>2, <1>3, <1>4, WorldSteps

\* What was served is settled when the listener is released.
LEMMA ServedSteps ==
  ASSUME [LifeNext]_lifeVars
  PROVE  ReleaseListener \/ Reboot \/ served' = served
<1> USE DEF runVars, stopVars, dogVars, tickVars, worldVars, saveVars, pastVars
<1>1. CASE StartNetwork \/ RunOneTick
  BY <1>1 DEF StartNetwork, RunOneTick
<1>2. CASE \/ \E part \in Parts : Snapshot(part)
           \/ \E s \in Players : SessionChanges(s)
  BY <1>2 DEF Snapshot, SessionChanges
<1> QED BY <1>1, <1>2, WorldSteps

\* Every step keeps the world ahead of the disk and of what was served.
LEMMA GrowingStep ==
  ASSUME LifeTypeOK, PhaseInv, WorldInv, SaveInv, [LifeNext]_lifeVars
  PROVE  Growing'
<1> USE DEF runVars, stopVars, dogVars, tickVars, worldVars, saveVars, pastVars
<1>0. /\ Growing /\ None \notin Saves /\ live \in Saves \cup {None} /\ served \in Saves \cup {None}
      /\ DiskOK
  BY NamesAssumption DEF SaveInv, LifeTypeOK, WorldOK
<1>1. CASE StartNetwork
  <2>1. disk' = disk /\ served' = served
    BY <1>1 DEF StartNetwork
  <2>2. CASE live' = live
    BY <1>0, <2>1, <2>2, GrewOnly DEF Growing
  <2>3. CASE live' = Restored
    <3>1. live' \in Saves /\ (disk.file \in Saves => live' = disk.file)
      BY <2>3, RestoredIsSave
    <3>2. served = None
      BY <1>0, <1>1 DEF StartNetwork, WorldInv, Growing
    <3>3. disk.file \in Saves => \A p \in Parts : live'[p] >= disk.file[p]
      BY <3>1, Numbers
    <3> QED BY <1>0, <2>1, <3>1, <3>2, <3>3 DEF Growing
  <2> QED BY <1>1, <2>2, <2>3 DEF StartNetwork
<1>2. CASE Reboot
  <2>1. disk'.file = disk.file /\ disk'.hard /\ live' = None /\ served' = None
    BY <1>0, <1>2 DEF Reboot, DiskOK, Growing
  <2> QED BY <1>0, <2>1 DEF Growing
<1>3. CASE ReleaseListener
  <2>1. served' = live /\ live' = live /\ disk' = disk
    BY <1>3 DEF ReleaseListener
  <2>2. live \in Saves => \A p \in Parts : live[p] >= live[p]
    BY Numbers
  <2> QED BY <1>0, <2>1, <2>2 DEF Growing
<1>4. CASE StoreRename
  <2>1. /\ live' = live /\ served' = served /\ shot' = shot /\ main = "rename"
        /\ disk'.file = disk.temp /\ disk'.hard = disk.synced
    BY <1>0, <1>4 DEF StoreRename, DiskOK
  <2>2. disk.temp = shot /\ disk.synced
    BY <2>1 DEF SaveInv, Writing
  <2>3. shot \in Saves /\ \A p \in Parts : live[p] >= shot[p]
    BY <2>1, ShotIsSave DEF SaveInv, Reading, ReadBy, Storing
  <2> QED BY <1>0, <2>1, <2>2, <2>3 DEF Growing
<1>5. ASSUME StoreTime \/ StoreCreate \/ StoreWrite \/ StoreSync
      PROVE  disk'.file = disk.file /\ disk'.hard = disk.hard
  BY <1>0, <1>5 DEF StoreTime, StoreCreate, StoreWrite, StoreSync, DiskOK
<1>6. CASE ~(StartNetwork \/ Reboot \/ ReleaseListener \/ StoreRename)
  <2>1. disk'.file = disk.file /\ disk'.hard
    BY <1>0, <1>5, <1>6, DiskSteps DEF Growing
  <2>2. served' = served
    BY <1>6, ServedSteps
  <2> QED BY <1>0, <1>6, <2>1, <2>2, LiveSteps, GrewOnly
<1> QED BY <1>1, <1>2, <1>3, <1>4, <1>6

\* The steps that move the main thread through a save.
LEMMA MainSteps ==
  ASSUME [LifeNext]_lifeVars
  PROVE  \/ main' = main \/ \E part \in Parts : Snapshot(part)
         \/ StoreTime \/ StoreCreate \/ StoreWrite \/ StoreSync
         \/ main' \notin Parts \cup Storing \/ main' = "blocks"
<1> USE DEF runVars, stopVars, dogVars, tickVars, worldVars, saveVars, pastVars
<1>1. CASE Run
  BY <1>1 DEF Run, StartConfigLoad, StartWorldDirs, StartNetwork, StartTickLoop, Advance,
              RunOneTick, AfterAdvance, Unparked, Started, StartFailed, LoopEnds, Parts, Storing
<1>2. CASE TearDownPlain \/ ReleaseListener \/ SaveBegins \/ StoreRename \/ StoreFails
  BY <1>2 DEF TearDownPlain, ReleaseListener, SaveBegins, StoreRename, StoreFails, Stopped,
              Parts, Storing
<1>3. CASE Ending \/ Watching \/ DogExpired
  BY <1>3 DEF Ending, Watching, TornDown, ReleaseWatchdog, JoinAll, DogLook, DogFires,
              DogUnparked, DogExpired, Parts, Storing
<1>4. CASE \/ \E a \in Askers : Request(a) \/ Wake(a)
           \/ \E t \in Threads : Parking(t)
           \/ \E s \in Players : Join(s) \/ SessionEnds(s) \/ SessionChanges(s)
  BY <1>4 DEF Request, Wake, Parking, ParkLook, ParkWait, Join, SessionEnds, SessionChanges
<1>5. CASE Reboot
  BY <1>5 DEF Reboot, Parts, Storing
<1>6. CASE UNCHANGED lifeVars
  BY <1>6 DEF lifeVars
<1> QED BY <1>1, <1>2, <1>3, <1>4, <1>5, <1>6 DEF LifeNext, Teardown

\* The order in which save_world reads the parts.
LEMMA AfterPartIs ==
  \A part \in Parts :
    \/ part = "blocks" /\ AfterPart[part] = "players"
    \/ part = "players" /\ AfterPart[part] = "furnaces"
    \/ part = "furnaces" /\ AfterPart[part] = "time"
    \/ part = "time" /\ AfterPart[part] = "level"
BY DEF AfterPart, Parts

\* What has been read at each place of a save.
LEMMA ReadBySet ==
  /\ ReadBy("blocks") = {} /\ ReadBy("players") = {"blocks"}
  /\ ReadBy("furnaces") = {"blocks", "players"}
  /\ ReadBy("time") = {"blocks", "players", "furnaces"}
  /\ \A at \in Storing : ReadBy(at) = Parts
  /\ \A at : at \notin Parts \cup Storing => ReadBy(at) = {}
  /\ \A at : ReadBy(at) \subseteq Parts
BY DEF ReadBy, Storing, Parts

\* Every step keeps what was read between what was served and the world.
LEMMA ReadingStep ==
  ASSUME LifeTypeOK, PhaseInv, WorldInv, SaveInv, [LifeNext]_lifeVars
  PROVE  Reading'
<1> USE DEF runVars, stopVars, dogVars, tickVars, worldVars, saveVars, pastVars
<1>0. Growing /\ Reading /\ DiskOK /\ None \notin Saves /\ shot \in [Parts -> 0..MaxChanges \cup {None}]
  BY NamesAssumption DEF SaveInv, LifeTypeOK, WorldOK
<1>a. main \in Parts \cup Storing => live \in Saves /\ served \in Saves
  BY DEF WorldInv
<1>1. ASSUME ReadBy(main') = {}
      PROVE  Reading'
  BY <1>1 DEF Reading
\* Nothing is read, served or stored: what was read stays behind the world.
<1>2. ASSUME main \in Parts \cup Storing, ReadBy(main') \subseteq ReadBy(main), shot' = shot,
             disk'.file = disk.file, served' = served, ~Reboot
      PROVE  Reading'
  <2>1. \A p \in Parts : live'[p] >= live[p] /\ live'[p] \in Int /\ live[p] \in Int
    <3>1. ~StartNetwork
      BY <1>2 DEF StartNetwork, Parts, Storing
    <3>2. \A p \in Parts : live[p] \in Int
      BY <1>2, <1>a, Numbers
    <3>3. live' = live \/ (live' \in Saves /\ \A p \in Parts : live'[p] >= live[p])
      BY <1>2, <3>1, LiveSteps
    <3> QED BY <3>2, <3>3, Numbers
  <2>2. \A p \in ReadBy(main') : /\ shot[p] \in 0..MaxChanges /\ shot[p] >= served[p]
                                 /\ live[p] >= shot[p]
                                 /\ disk.file \in Saves => shot[p] >= disk.file[p]
    BY <1>0, <1>2 DEF Reading
  <2>3. \A p \in ReadBy(main') : live'[p] >= shot[p]
    <3>1. \A p \in ReadBy(main') : p \in Parts /\ shot[p] \in Int
      BY <2>2, ReadBySet
    <3> QED BY <2>1, <2>2, <3>1
  <2> QED BY <1>2, <2>2, <2>3 DEF Reading
<1>3. ASSUME NEW part \in Parts, Snapshot(part)
      PROVE  Reading'
  <2>1. /\ main = part /\ shot' = [shot EXCEPT ![part] = live[part]] /\ main' = AfterPart[part]
        /\ UNCHANGED <<live, served, disk>>
    BY <1>3 DEF Snapshot
  <2>2. ReadBy(main') \subseteq ReadBy(main) \cup {part}
    <3>1. \/ part = "blocks" /\ main' = "players"
          \/ part = "players" /\ main' = "furnaces"
          \/ part = "furnaces" /\ main' = "time"
          \/ part = "time" /\ main' = "level"
      <4>1. main' = AfterPart[part]
        BY <2>1
      <4> QED BY <4>1, AfterPartIs
    <3>2. "level" \in Storing
      BY DEF Storing
    <3> QED BY <2>1, <3>1, <3>2, ReadBySet DEF Parts
  <2>3. live \in Saves /\ served \in Saves
    BY <1>a, <2>1
  <2>4. /\ live[part] \in 0..MaxChanges /\ live[part] >= served[part] /\ live[part] >= live[part]
        /\ disk.file \in Saves => live[part] >= disk.file[part]
    BY <1>0, <2>3, Numbers DEF Growing, Saves
  <2>5. \A p \in ReadBy(main') : shot'[p] = IF p = part THEN live[part] ELSE shot[p]
    BY <1>0, <2>1, ReadBySet
  <2>6. \A p \in ReadBy(main') : p = part \/ p \in ReadBy(main)
    BY <2>2
  <2> QED BY <1>0, <2>1, <2>4, <2>5, <2>6 DEF Reading
<1>4. CASE StoreTime \/ StoreCreate \/ StoreWrite \/ StoreSync
  <2>1. main \in Storing /\ main' \in Storing /\ shot' = shot /\ served' = served
    BY <1>4 DEF StoreTime, StoreCreate, StoreWrite, StoreSync, Storing
  <2>2. disk'.file = disk.file
    BY <1>0, <1>4 DEF StoreTime, StoreCreate, StoreWrite, StoreSync, DiskOK
  <2>3. ~Reboot
    BY <2>1 DEF Reboot, Storing
  <2> QED BY <1>2, <2>1, <2>2, <2>3, ReadBySet
<1>5. CASE main' = main /\ main \in Parts \cup Storing /\ ~(\E part \in Parts : Snapshot(part))
           /\ ~(StoreTime \/ StoreCreate \/ StoreWrite \/ StoreSync)
  <2>1. ~StartNetwork /\ ~RunOneTick /\ ~ReleaseListener /\ ~Reboot /\ ~StoreRename
    BY <1>5 DEF StartNetwork, RunOneTick, ReleaseListener, TearingDown, Reboot, StoreRename,
                Stopped, Parts, Storing
  <2>2. shot' = shot /\ served' = served
    BY <1>5, <2>1, WorldSteps DEF SessionChanges
  <2>3. disk' = disk
    BY <1>5, <2>1, DiskSteps
  <2> QED BY <1>2, <1>5, <2>1, <2>2, <2>3
<1>6. CASE main' \notin Parts \cup Storing \/ main' = "blocks"
  BY <1>1, <1>6, ReadBySet
<1> QED BY <1>3, <1>4, <1>5, <1>6, MainSteps

\* Every step keeps the temporary file the one that was read.
LEMMA WritingStep ==
  ASSUME LifeTypeOK, PhaseInv, WorldInv, SaveInv, [LifeNext]_lifeVars
  PROVE  Writing'
<1> USE DEF runVars, stopVars, dogVars, tickVars, worldVars, saveVars, pastVars
<1>0. Writing /\ DiskOK
  BY DEF SaveInv, LifeTypeOK
<1>1. CASE StoreTime \/ StoreCreate \/ \E part \in Parts : Snapshot(part)
  BY <1>1 DEF StoreTime, StoreCreate, Snapshot, AfterPart, Parts, Writing
<1>2. CASE StoreWrite
  BY <1>0, <1>2 DEF StoreWrite, DiskOK, Writing
<1>3. CASE StoreSync
  BY <1>0, <1>3 DEF StoreSync, DiskOK, Writing
<1>4. CASE main' = main /\ main \in Storing /\ ~(\E part \in Parts : Snapshot(part))
           /\ ~(StoreTime \/ StoreCreate \/ StoreWrite \/ StoreSync)
  <2>1. ~StartNetwork /\ ~RunOneTick /\ ~ReleaseListener /\ ~Reboot /\ ~StoreRename
    BY <1>4 DEF StartNetwork, RunOneTick, ReleaseListener, TearingDown, Reboot, StoreRename,
                Stopped, Parts, Storing
  <2>2. shot' = shot
    BY <1>4, <2>1, WorldSteps DEF SessionChanges
  <2>3. disk' = disk
    BY <1>4, <2>1, DiskSteps
  <2> QED BY <1>0, <1>4, <2>2, <2>3 DEF Writing
<1>5. CASE main' \notin Storing
  BY <1>5 DEF Writing, Storing
<1> QED BY <1>1, <1>2, <1>3, <1>4, <1>5, MainSteps DEF Parts, Storing

\* Once the save is over, what is left is the last phase and the end.
LEMMA LateSteps ==
  ASSUME [LifeNext]_lifeVars, main \in {"teardown", "killed"} \cup Finished,
         ~Reboot, ~ReleaseListener, ~SaveBegins
  PROVE  \/ completed' = completed /\ main' \in {"teardown", "killed"} \cup Finished
         \/ TearDownPlain
<1> USE DEF runVars, stopVars, dogVars, tickVars, worldVars, saveVars, pastVars
<1>1. ~Run
  BY DEF Run, StartConfigLoad, StartWorldDirs, StartNetwork, StartTickLoop, Advance,
         RunOneTick, AfterAdvance, Unparked, Finished
<1>2. CASE Teardown
  <2>1. main \notin Parts \cup Storing
    BY DEF Parts, Storing, Finished
  <2> QED BY <1>2, <2>1 DEF Teardown, Snapshot, StoreTime, StoreCreate, StoreWrite, StoreSync,
                            StoreRename, StoreFails, Storing
<1>3. CASE Ending \/ Watching \/ DogExpired
  BY <1>3 DEF Ending, Watching, TornDown, ReleaseWatchdog, JoinAll, DogLook, DogFires,
              DogUnparked, DogExpired, Finished
<1>4. CASE \/ \E a \in Askers : Request(a) \/ Wake(a)
           \/ \E t \in Threads : Parking(t)
           \/ \E s \in Players : Join(s) \/ SessionEnds(s) \/ SessionChanges(s)
  BY <1>4 DEF Request, Wake, Parking, ParkLook, ParkWait, Join, SessionEnds, SessionChanges
<1>5. CASE UNCHANGED lifeVars
  BY <1>5 DEF lifeVars
<1> QED BY <1>1, <1>2, <1>3, <1>4, <1>5 DEF LifeNext

\* Every step keeps a save that was announced on the disk.
LEMMA SayingStep ==
  ASSUME LifeTypeOK, PhaseInv, WorldInv, SaveInv, [LifeNext]_lifeVars
  PROVE  Saying'
<1> USE DEF runVars, stopVars, dogVars, tickVars, worldVars, saveVars, pastVars
<1>0. Growing /\ Reading /\ Writing /\ Saying /\ DiskOK /\ None \notin Saves
  BY NamesAssumption DEF SaveInv, LifeTypeOK
<1>1. CASE StoreRename
  <2>1. /\ main = "rename" /\ Len(completed) = 2 /\ main' = "teardown"
        /\ served' = served /\ disk'.file = disk.temp
    BY <1>0, <1>1 DEF StoreRename, Stopped, PhaseInv, Storing, DiskOK
  <2>2. Len(completed') = 1
    <3>1. completed # <<>>
      BY <2>1, CompletedLen
    <3>2. Len(completed') = Len(completed) - 1
      BY <1>1, <3>1, CompletedShrinks DEF StoreRename, Stopped
    <3> QED BY <2>1, <3>2
  <2>3. disk.temp = shot /\ shot \in Saves /\ \A p \in Parts : shot[p] >= served[p]
    BY <1>0, <2>1, ShotIsSave, ReadBySet DEF Writing, Reading, Storing
  <2> QED BY <2>1, <2>2, <2>3 DEF Saying, SaveCoversServed
<1>2. CASE ~Saved'
  BY <1>2 DEF Saying, SaveCoversServed
<1>3. CASE Saved /\ Saved'
  <2>1. /\ disk.file \in Saves /\ \A p \in Parts : disk.file[p] >= served[p]
        /\ Len(completed) <= 1 /\ main \in {"teardown", "killed"} \cup Finished
    BY <1>0, <1>3 DEF Saying, SaveCoversServed
  <2>2. ~Reboot
    BY <1>3 DEF Reboot, Saved, ToSet
  <2>3. ~ReleaseListener /\ ~SaveBegins
    <3>1. ASSUME NEW phase \in {"network", "dirs"}, TearingDown(phase)
          PROVE  FALSE
      <4>1. Len(completed) \in 1..4 /\ Phases[Len(completed)] = phase
        BY <3>1, NewestPhase
      <4>2. Len(completed) = 3 \/ Len(completed) = 2
        BY <4>1, WhichPhase
      <4>3. ~(Len(completed) = 3) /\ ~(Len(completed) = 2)
        BY <2>1
      <4> QED BY <4>2, <4>3
    <3> QED BY <3>1 DEF ReleaseListener, SaveBegins
  <2>4. disk' = disk /\ served' = served
    BY <2>1, <2>2, <2>3, DiskSteps, ServedSteps
       DEF StoreTime, StoreCreate, StoreWrite, StoreSync, StoreRename, Finished
  <2>5. Len(completed') <= 1 /\ main' \in {"teardown", "killed"} \cup Finished
    <3>1. CASE completed' = completed /\ main' \in {"teardown", "killed"} \cup Finished
      BY <2>1, <3>1
    <3>2. CASE TearDownPlain
      <4>1. completed # <<>> /\ completed' = Front(completed) /\ main' = "teardown"
        BY <3>2 DEF TearDownPlain, TearingDown, Stopped
      <4>2. Len(completed') = Len(completed) - 1 /\ Len(completed) \in Nat
        BY <4>1, CompletedShrinks, CompletedLen
      <4>3. Len(completed') <= 1
        BY <2>1, <4>2
      <4> QED BY <4>1, <4>3
    <3> QED BY <2>1, <2>2, <2>3, <3>1, <3>2, LateSteps
  <2> QED BY <2>1, <2>4, <2>5 DEF Saying, SaveCoversServed
<1> QED BY <1>1, <1>2, <1>3, SavedSteps

-----------------------------------------------------------------------------
(***************************************************************************)
(* The theorems.                                                           *)
(***************************************************************************)
LEMMA LifeInitInv == Init => LifeInv
<1> SUFFICES ASSUME Init PROVE LifeInv
  OBVIOUS
<1>1. LifeTypeOK
  BY LifeInitTyped
<1>2. Len(completed) = 0 /\ None \notin Saves /\ None \notin Threads
  BY EmptyLists, NamesAssumption DEF Init
<1>3. SleepInv
  BY DEF Init, SleepInv, NobodySleepsThroughStop
<1>4. PhaseInv
  BY <1>2 DEF Init, PhaseInv, Finished, Serving, Parts, Storing
<1>5. LogInv
  <2>1. \A p : StoppedAt(p) = {} /\ ~HasStarted(p)
    BY DEF Init, StoppedAt, HasStarted
  <2>2. StartedOnes /\ StoppedOnes /\ StopOrder
    BY <1>2, <2>1 DEF Init, StartedOnes, StoppedOnes, StopOrder, Looping
  <2> QED BY <2>2, LogParts
<1>6. WorldInv
  BY <1>2 DEF Init, WorldInv, Serving, Parts, Storing
<1>7. SaveInv
  <2>1. disk.file = None /\ disk.hard /\ served = None /\ main = "config"
    BY DEF Init
  <2>2. ReadBy(main) = {}
    BY <2>1, ReadBySet DEF Parts, Storing
  <2>3. ~Saved
    BY DEF Init, Saved, ToSet
  <2> QED BY <1>2, <2>1, <2>2, <2>3 DEF SaveInv, Growing, Reading, Writing, Saying, SaveCoversServed
<1> QED BY <1>1, <1>3, <1>4, <1>5, <1>6, <1>7 DEF LifeInv

\* Every step keeps the invariant.
LEMMA LifeStepInv == LifeInv /\ [LifeNext]_lifeVars => LifeInv'
<1> SUFFICES ASSUME LifeInv, [LifeNext]_lifeVars PROVE LifeInv'
  OBVIOUS
<1>1. LifeTypeOK /\ SleepInv /\ PhaseInv /\ LogInv /\ WorldInv /\ SaveInv
  BY DEF LifeInv
<1>2. LifeTypeOK'
  BY <1>1, ListsStep, DiskStep, ThreadsStep, WorldStep DEF LifeTypeOK
<1>3. SleepInv'
  BY <1>1, SleepStep
<1>4. PhaseInv'
  BY <1>1, PhaseStep
<1>5. LogInv'
  BY <1>1, LogStep
<1>6. WorldInv'
  BY <1>1, WorldKept
<1>7. SaveInv'
  BY <1>1, GrowingStep, ReadingStep, WritingStep, SayingStep DEF SaveInv
<1> QED BY <1>2, <1>3, <1>4, <1>5, <1>6, <1>7 DEF LifeInv

\* Every process of the server, whatever its sessions, its askers and its power
\* do, stays within the invariant the five results below read off.
THEOREM LifeInvariant == LifeSpec => []LifeInv
BY LifeInitInv, LifeStepInv, PTL DEF LifeSpec

\* No thread sleeps through a stop (stop.rs, broadcast_stop takes the mutex the
\* sleepers look under).
THEOREM LifeWakesEveryone == LifeSpec => []NobodySleepsThroughStop
<1>1. LifeInv => NobodySleepsThroughStop
  BY DEF LifeInv, SleepInv
<1> QED BY <1>1, LifeInvariant, PTL

\* However a run ends by itself, what started was torn down in exact reverse
\* (server.rs, run and teardown).
THEOREM LifeUndoesInReverse == LifeSpec => []StartsAreStopped
<1>1. LifeInv => StartsAreStopped
  <2> SUFFICES ASSUME LifeInv, main = "ended" PROVE StartsAreStopped
    BY DEF StartsAreStopped
  <2>1. StartedOnes /\ StoppedOnes /\ StopOrder /\ Len(completed) = 0
    BY LogParts DEF LifeInv, PhaseInv, Finished
  <2>2. \A n \in 1..4 : ~(n <= Len(completed))
    BY <2>1
  <2>3. main \notin Looping
    BY DEF Looping
  <2> QED BY <2>1, <2>2, <2>3 DEF StartsAreStopped, StartedOnes, StopOrder
<1> QED BY <1>1, LifeInvariant, PTL

\* The file is whole at every moment, whatever fails and whenever the power goes
\* (save.rs, store writes beside it, flushes and renames).
THEOREM LifeSavesAreWhole == LifeSpec => []SaveIsWhole
<1>1. LifeInv => SaveIsWhole
  BY NamesAssumption DEF LifeInv, SaveInv, Growing, SaveIsWhole
<1> QED BY <1>1, LifeInvariant, PTL

\* A save that was written holds all that was served (server.rs, save_world).
THEOREM LifeSavesAll == LifeSpec => []SaveCoversServed
<1>1. LifeInv => SaveCoversServed
  BY DEF LifeInv, SaveInv, Saying
<1> QED BY <1>1, LifeInvariant, PTL

\* No start, failure or crash leaves an older world on the disk than it found.
THEOREM LifeNeverGoesBack == LifeSpec => SaveNeverGoesBack
<1>1. LifeInv /\ [LifeNext]_lifeVars =>
        [disk.file \in Saves =>
           disk'.file \in Saves /\ \A p \in Parts : disk'.file[p] >= disk.file[p]]_lifeVars
  <2> SUFFICES ASSUME LifeInv, [LifeNext]_lifeVars, disk.file \in Saves
               PROVE  disk'.file \in Saves /\ \A p \in Parts : disk'.file[p] >= disk.file[p]
    OBVIOUS
  <2>0. DiskOK /\ Growing /\ Reading /\ Writing /\ LifeTypeOK /\ SaveInv
    BY DEF LifeInv, LifeTypeOK, SaveInv
  <2>1. CASE StoreRename
    <3>1. main = "rename" /\ disk'.file = disk.temp
      BY <2>0, <2>1 DEF StoreRename, DiskOK
    <3>2. disk.temp = shot /\ shot \in Saves /\ \A p \in Parts : shot[p] >= disk.file[p]
      BY <2>0, <3>1, ShotIsSave, ReadBySet DEF Writing, Reading, Storing
    <3> QED BY <3>1, <3>2
  <2>2. CASE disk'.file = disk.file
    BY <2>2, Numbers
  <2>3. ~StoreRename => disk'.file = disk.file
    BY <2>0, DiskSteps
       DEF StoreTime, StoreCreate, StoreWrite, StoreSync, Reboot, DiskOK, Growing
  <2> QED BY <2>1, <2>2, <2>3
<1> QED BY <1>1, LifeInvariant, PTL DEF LifeSpec, SaveNeverGoesBack
=============================================================================
