------------------------------ MODULE Lifecycle ------------------------------
(***************************************************************************)
(* One process of the server from `run` to its end, and the next one on    *)
(* the same disk (server.rs, Server::run): four phases that start in order *)
(* and are torn down in reverse, the stop request and the parked threads   *)
(* it wakes (stop.rs), the tick loop (engine.rs), the sessions behind the  *)
(* listener (net/listen.rs), the watchdog, and the save (net/save.rs).     *)
(*                                                                         *)
(* What is saved has four parts, each behind a lock of its own; a part is  *)
(* the number of changes it has seen.  Time is a choice: a deadline may    *)
(* have passed whenever a thread looks.  Once the process has ended,       *)
(* nothing but the disk means anything.                                    *)
(***************************************************************************)
EXTENDS Integers, Sequences, SequencesExt

CONSTANTS
  Players,      \* connections
  Askers,       \* threads that may call request_stop: the signal, the console
  CatchupCap,   \* [server] max_catchup_ticks
  MaxChanges,   \* where the count of a part's changes stays: a bound of the model
  MaxBoots,     \* processes in a behaviour: a bound of the model
  None, Torn    \* no file; a file that does not parse

ASSUME LifeAssumption ==
  CatchupCap \in Nat \ {0} /\ MaxChanges \in Nat \ {0} /\ MaxBoots \in Nat \ {0}

VARIABLES
  main,       \* where the main thread is in `run`
  completed,  \* the phases it has completed
  cut,        \* why the start-up was cut short, if it was
  transcript, \* Vec<TranscriptEntry>, as <<phase, direction, detail>>
  stop,       \* StopState::stopped
  asker,      \* asker[a]: where a is in request_stop
  sleeper,    \* StopState::sleeper: who holds the mutex
  park,       \* park[t]: where t is in park_until_stopped_or
  dog,        \* where watch_dog is
  complete,   \* Shared::complete
  due,        \* ticks of this advance still to run
  listener,   \* the listener and its runtime
  playing,    \* sessions whose task has not ended
  live,       \* the parts in memory, once phase 3 has made them
  shot,       \* the parts save_world has read
  disk,       \* the save file, the temporary beside it, and level.dat
  served,     \* the parts when the listener was released
  boot        \* which process this is

runVars == <<main, completed, cut, transcript>>
stopVars == <<stop, asker, sleeper, park>>
dogVars == <<dog, complete>>
tickVars == <<due>>
worldVars == <<listener, playing, live>>
saveVars == <<shot, disk>>
pastVars == <<served, boot>>
lifeVars == <<runVars, stopVars, dogVars, tickVars, worldVars, saveVars, pastVars>>

Parts == {"blocks", "players", "furnaces", "time"}
Threads == {"main", "dog"}
Saves == [Parts -> 0..MaxChanges]

ASSUME NamesAssumption ==
  None \notin Threads \cup Saves \cup 0..MaxChanges /\ Torn \notin Saves \cup {None}

Fresh == [p \in Parts |-> 0]
Alive == main \notin {"ended", "killed"}

Init ==
  /\ main = "config" /\ completed = <<>> /\ cut = "no" /\ transcript = <<>>
  /\ stop = FALSE /\ sleeper = None
  /\ asker = [a \in Askers |-> "idle"] /\ park = [t \in Threads |-> "out"]
  /\ dog = "none" /\ complete = FALSE /\ due = 0
  /\ listener = "none" /\ playing = {} /\ live = None
  /\ shot = [p \in Parts |-> None] /\ served = None /\ boot = 1
  /\ disk = [file |-> None, hard |-> TRUE, temp |-> None, synced |-> FALSE, level |-> None]

\* The power goes, at any moment, or a process that is over is started again:
\* bytes that were not flushed are lost, and the old temporary is ignored.
Reboot ==
  /\ boot < MaxBoots
  /\ boot' = boot + 1
  /\ main' = "config" /\ completed' = <<>> /\ cut' = "no" /\ transcript' = <<>>
  /\ stop' = FALSE /\ sleeper' = None
  /\ asker' = [a \in Askers |-> "idle"] /\ park' = [t \in Threads |-> "out"]
  /\ dog' = "none" /\ complete' = FALSE /\ due' = 0
  /\ listener' = "none" /\ playing' = {} /\ live' = None
  /\ shot' = [p \in Parts |-> None] /\ served' = None
  /\ disk' = [disk EXCEPT !.file = IF disk.hard THEN @ ELSE Torn, !.hard = TRUE,
                          !.temp = None, !.synced = FALSE]

-----------------------------------------------------------------------------
(***************************************************************************)
(* Stopping: request_stop, broadcast_stop, park_until_stopped_or.          *)
(***************************************************************************)
\* The bit, without the lock; only the first to set it goes on to wake.
Request(a) ==
  /\ Alive /\ asker[a] = "idle"
  /\ stop' = TRUE
  /\ asker' = [asker EXCEPT ![a] = IF stop THEN "done" ELSE "waking"]
  /\ UNCHANGED <<runVars, sleeper, park, dogVars, tickVars, worldVars, saveVars, pastVars>>

Roused == [t \in Threads |-> IF park[t] = "asleep" THEN "roused" ELSE park[t]]

\* A slip: the wake-up does not take the sleepers' mutex.
BroadcastStopUnlocked == park' = Roused /\ UNCHANGED <<stop, sleeper>>

\* broadcast_stop takes the mutex for a moment.
BroadcastStop == sleeper = None /\ park' = Roused /\ UNCHANGED <<stop, sleeper>>

Wake(a) ==
  /\ Alive /\ asker[a] = "waking"
  /\ BroadcastStop
  /\ asker' = [asker EXCEPT ![a] = "done"]
  /\ UNCHANGED <<runVars, dogVars, tickVars, worldVars, saveVars, pastVars>>

\* With the mutex: leave for a stop or a deadline, or be about to wait.
ParkLook(t) ==
  /\ Alive /\ park[t] \in {"in", "roused"} /\ sleeper = None
  /\ \/ park' = [park EXCEPT ![t] = "out"] /\ UNCHANGED sleeper
     \/ /\ ~stop
        /\ park' = [park EXCEPT ![t] = "about"] /\ sleeper' = t
  /\ UNCHANGED <<runVars, stop, asker, dogVars, tickVars, worldVars, saveVars, pastVars>>

\* The wait gives the mutex back; it may time out, or wake for no reason.
ParkWait(t) ==
  /\ Alive
  /\ \/ park[t] = "about" /\ park' = [park EXCEPT ![t] = "asleep"] /\ sleeper' = None
     \/ park[t] = "asleep" /\ park' = [park EXCEPT ![t] = "roused"] /\ UNCHANGED sleeper
  /\ UNCHANGED <<runVars, stop, asker, dogVars, tickVars, worldVars, saveVars, pastVars>>

(***************************************************************************)
(* Start-up.                                                               *)
(***************************************************************************)
\* A phase is complete; a stop seen right after it ends the start-up.
Started(phase, next) ==
  /\ completed' = Append(completed, phase)
  /\ transcript' = Append(transcript, <<phase, "start", "">>)
  /\ main' = IF stop THEN "teardown" ELSE next
  /\ cut' = IF stop THEN "abort" ELSE cut

\* A slip: a phase that failed leaves the earlier ones standing.
StartFailedAtOnce == main' = "ended" /\ cut' = "error" /\ UNCHANGED <<completed, transcript>>

\* A phase failed: what is complete is torn down.
StartFailed ==
  /\ main' = IF completed = <<>> THEN "ended" ELSE "teardown"
  /\ cut' = "error"
  /\ UNCHANGED <<completed, transcript>>

StartConfigLoad ==
  /\ main = "config"
  /\ Started("config", "dirs") \/ StartFailed
  /\ UNCHANGED <<stopVars, dogVars, tickVars, worldVars, saveVars, pastVars>>

StartWorldDirs ==
  /\ main = "dirs"
  /\ Started("dirs", "network") \/ StartFailed
  /\ UNCHANGED <<stopVars, dogVars, tickVars, worldVars, saveVars, pastVars>>

\* A slip: the save is not read back.
RestoredNothing == Fresh

\* What start_network finds: the save, or the clock of the world's level.dat.
Restored ==
  IF disk.file # None THEN disk.file
  ELSE IF disk.level # None THEN [Fresh EXCEPT !.time = disk.level] ELSE Fresh

\* start_network: the save is read back, then the port bound and served.
StartNetwork ==
  /\ main = "network"
  /\ \/ /\ disk.file # Torn
        /\ live' = Restored /\ listener' = "serving"
        /\ Started("network", "loop")
     \/ StartFailed /\ UNCHANGED <<live, listener>>
  /\ UNCHANGED <<stopVars, dogVars, tickVars, playing, saveVars, pastVars>>

\* Phase 4: the watchdog, and the loop.
StartTickLoop ==
  /\ main = "loop"
  /\ transcript' = Append(transcript, <<"loop", "start", "">>)
  /\ dog' = "look" /\ main' = "check"
  /\ UNCHANGED <<completed, cut, stopVars, complete, tickVars, worldVars, saveVars, pastVars>>

(***************************************************************************)
(* The tick loop: the stop is looked at before and after an advance.       *)
(***************************************************************************)
LoopEnds == main' = "teardown" /\ completed' = Append(completed, "loop")

\* advance_at: the ticks that are due, up to the cap.
Advance ==
  /\ main = "check"
  /\ \/ stop /\ LoopEnds /\ UNCHANGED due
     \/ ~stop /\ due' \in 0..CatchupCap /\ main' = "ticking" /\ UNCHANGED completed
  /\ UNCHANGED <<cut, transcript, stopVars, dogVars, worldVars, saveVars, pastVars>>

Changing(changed) ==
  [p \in Parts |-> IF p \in changed /\ live[p] < MaxChanges THEN live[p] + 1 ELSE live[p]]

\* run_one_tick: the clock goes on, something falls or grows, something burns.
RunOneTick ==
  /\ main = "ticking" /\ due > 0
  /\ due' = due - 1
  /\ live' = Changing({"time", "blocks", "furnaces"})
  /\ UNCHANGED <<runVars, stopVars, dogVars, listener, playing, saveVars, pastVars>>

AfterAdvance ==
  /\ main = "ticking" /\ due = 0
  /\ \/ stop /\ LoopEnds /\ UNCHANGED park
     \/ /\ ~stop /\ main' = "parked" /\ UNCHANGED completed
        /\ park' = [park EXCEPT !["main"] = "in"]
  /\ UNCHANGED <<cut, transcript, stop, asker, sleeper, dogVars, tickVars, worldVars,
                 saveVars, pastVars>>

Unparked ==
  /\ main = "parked" /\ park["main"] = "out"
  /\ main' = "check"
  /\ UNCHANGED <<completed, cut, transcript, stopVars, dogVars, tickVars, worldVars,
                 saveVars, pastVars>>

(***************************************************************************)
(* The sessions.  Those of a released listener end when the runtime comes  *)
(* to drop their tasks, and until then go on.                              *)
(***************************************************************************)
Join(s) ==
  /\ Alive /\ listener = "serving" /\ s \notin playing
  /\ playing' = playing \cup {s}
  /\ UNCHANGED <<runVars, stopVars, dogVars, tickVars, listener, live, saveVars, pastVars>>

SessionEnds(s) ==
  /\ Alive /\ s \in playing
  /\ playing' = playing \ {s}
  /\ UNCHANGED <<runVars, stopVars, dogVars, tickVars, listener, live, saveVars, pastVars>>

\* A dig or a placement; a click that puts something into a furnace.
SessionChanges(s) ==
  /\ Alive /\ s \in playing
  /\ live' \in {Changing({"blocks"}), Changing({"players", "furnaces"})}
  /\ UNCHANGED <<runVars, stopVars, dogVars, tickVars, listener, playing, saveVars, pastVars>>

(***************************************************************************)
(* Teardown, newest phase first.                                           *)
(***************************************************************************)
TearingDown(phase) == main = "teardown" /\ completed # <<>> /\ Last(completed) = phase

Stopped(phase, detail) ==
  /\ completed' = Front(completed)
  /\ transcript' = Append(transcript, <<phase, "stop", detail>>)
  /\ main' = "teardown"
  /\ UNCHANGED cut

\* The loop, the configuration, and the directories of a server that never
\* came to serve: nothing to undo.
TearDownPlain ==
  /\ \E phase \in {"loop", "config", "dirs"} :
       /\ TearingDown(phase) /\ (phase = "dirs" => live = None)
       /\ Stopped(phase, "")
  /\ UNCHANGED <<stopVars, dogVars, tickVars, worldVars, saveVars, pastVars>>

\* Drop of ListenerHandle: the accept loop is told to stop, and the runtime is
\* left to shut down in the background.
ReleaseListener ==
  /\ TearingDown("network")
  /\ listener' = "released" /\ served' = live
  /\ Stopped("network", "")
  /\ UNCHANGED <<stopVars, dogVars, tickVars, playing, live, saveVars, boot>>

\* save_world, of a server that served.
SaveBegins ==
  /\ TearingDown("dirs") /\ live # None
  /\ main' = "blocks"
  /\ UNCHANGED <<completed, cut, transcript, stopVars, dogVars, tickVars, worldVars,
                 saveVars, pastVars>>

AfterPart ==
  [blocks |-> "players", players |-> "furnaces", furnaces |-> "time", time |-> "level"]

\* One part is read, under its own lock.
Snapshot(part) ==
  /\ main = part
  /\ shot' = [shot EXCEPT ![part] = live[part]]
  /\ main' = AfterPart[part]
  /\ UNCHANGED <<completed, cut, transcript, stopVars, dogVars, tickVars, worldVars,
                 disk, pastVars>>

\* store_time_beside: best effort, and only for a world that has a level.dat.
StoreTime ==
  /\ main = "level" /\ main' = "create"
  /\ \/ disk' = [disk EXCEPT !.level = shot["time"]]
     \/ UNCHANGED disk
  /\ UNCHANGED <<completed, cut, transcript, stopVars, dogVars, tickVars, worldVars,
                 shot, pastVars>>

\* save::store up to the rename: create, write, flush.
StoreCreate ==
  /\ main = "create" /\ main' = "write"
  /\ disk' = [disk EXCEPT !.temp = Torn, !.synced = FALSE]
  /\ UNCHANGED <<completed, cut, transcript, stopVars, dogVars, tickVars, worldVars,
                 shot, pastVars>>

\* A slip: the temporary is not flushed before it is renamed.
StoreWriteUnflushed ==
  /\ main = "write" /\ main' = "rename"
  /\ disk' = [disk EXCEPT !.temp = shot]
  /\ UNCHANGED <<completed, cut, transcript, stopVars, dogVars, tickVars, worldVars,
                 shot, pastVars>>

StoreWrite ==
  /\ main = "write" /\ main' = "sync"
  /\ disk' = [disk EXCEPT !.temp = shot]
  /\ UNCHANGED <<completed, cut, transcript, stopVars, dogVars, tickVars, worldVars,
                 shot, pastVars>>

StoreSync ==
  /\ main = "sync" /\ main' = "rename"
  /\ disk' = [disk EXCEPT !.synced = TRUE]
  /\ UNCHANGED <<completed, cut, transcript, stopVars, dogVars, tickVars, worldVars,
                 shot, pastVars>>

StoreRename ==
  /\ main = "rename"
  /\ disk' = [disk EXCEPT !.file = disk.temp, !.hard = disk.synced, !.temp = None]
  /\ Stopped("dirs", "saved")
  /\ UNCHANGED <<stopVars, dogVars, tickVars, worldVars, shot, pastVars>>

\* A slip: a save that failed says it was written.
StoreFailsQuietly ==
  /\ main \in {"create", "write", "sync", "rename"}
  /\ Stopped("dirs", "saved")
  /\ UNCHANGED <<stopVars, dogVars, tickVars, worldVars, saveVars, pastVars>>

\* Any of the four may fail; it is said, and the teardown goes on.
StoreFails ==
  /\ main \in {"create", "write", "sync", "rename"}
  /\ Stopped("dirs", "FAILED")
  /\ UNCHANGED <<stopVars, dogVars, tickVars, worldVars, saveVars, pastVars>>

\* Everything is torn down.  A start-up that was cut short returns; a run lets
\* the watchdog go first: complete, a wake-up, a join.
TornDown ==
  /\ main = "teardown" /\ completed = <<>>
  /\ main' = IF cut = "no" THEN "release" ELSE "ended"
  /\ complete' = (cut = "no")
  /\ UNCHANGED <<completed, cut, transcript, stopVars, dog, tickVars, worldVars, saveVars,
                 pastVars>>

ReleaseWatchdog ==
  /\ main = "release" /\ main' = "join"
  /\ BroadcastStop
  /\ UNCHANGED <<completed, cut, transcript, asker, dogVars, tickVars, worldVars, saveVars,
                 pastVars>>

JoinAll ==
  /\ main = "join" /\ dog = "returned"
  /\ main' = "ended"
  /\ UNCHANGED <<completed, cut, transcript, stopVars, dogVars, tickVars, worldVars,
                 saveVars, pastVars>>

(***************************************************************************)
(* watch_dog.                                                              *)
(***************************************************************************)
\* A slip: the watchdog never asks whether the shutdown is complete.
DogLookBlind ==
  /\ dog = "look"
  /\ dog' = "parked" /\ park' = [park EXCEPT !["dog"] = "in"]
  /\ UNCHANGED <<runVars, stop, asker, sleeper, complete, tickVars, worldVars, saveVars,
                 pastVars>>

\* Not armed, or armed with grace left: another slice.  Armed and the shutdown
\* complete: done.
DogLook ==
  /\ dog = "look"
  /\ IF stop /\ complete THEN dog' = "returned" /\ UNCHANGED park
     ELSE dog' = "parked" /\ park' = [park EXCEPT !["dog"] = "in"]
  /\ UNCHANGED <<runVars, stop, asker, sleeper, complete, tickVars, worldVars, saveVars,
                 pastVars>>

\* Armed, the grace gone and the shutdown not complete.
DogExpired ==
  /\ dog = "look" /\ stop /\ ~complete
  /\ dog' = "firing"
  /\ UNCHANGED <<runVars, stopVars, complete, tickVars, worldVars, saveVars, pastVars>>

\* WatchdogPolicy::exit_process.
DogFires ==
  /\ dog = "firing" /\ dog' = "returned"
  /\ main' = "killed"
  /\ UNCHANGED <<completed, cut, transcript, stopVars, complete, tickVars, worldVars,
                 saveVars, pastVars>>

DogUnparked ==
  /\ dog = "parked" /\ park["dog"] = "out"
  /\ dog' = "look"
  /\ UNCHANGED <<runVars, stopVars, complete, tickVars, worldVars, saveVars, pastVars>>

-----------------------------------------------------------------------------
Run ==
  \/ StartConfigLoad \/ StartWorldDirs \/ StartNetwork \/ StartTickLoop
  \/ Advance \/ RunOneTick \/ AfterAdvance \/ Unparked

Teardown ==
  \/ TearDownPlain \/ ReleaseListener \/ SaveBegins
  \/ \E part \in Parts : Snapshot(part)
  \/ StoreTime \/ StoreCreate \/ StoreWrite \/ StoreSync \/ StoreRename \/ StoreFails

Ending == TornDown \/ ReleaseWatchdog \/ JoinAll
Watching == DogLook \/ DogFires \/ DogUnparked
Parking(t) == ParkLook(t) \/ ParkWait(t)

LifeNext ==
  \/ Run \/ Teardown \/ Ending \/ Watching \/ DogExpired
  \/ \E a \in Askers : Request(a) \/ Wake(a)
  \/ \E t \in Threads : Parking(t)
  \/ \E s \in Players : Join(s) \/ SessionEnds(s) \/ SessionChanges(s)
  \/ Reboot

LifeSpec == Init /\ [][LifeNext]_lifeVars

\* Threads that wait go on waiting and waking, and a watchdog that goes on
\* looking finds the grace gone in the end.  The main thread is trusted only
\* with its last steps: start-up, ticks and the disk may take for ever.
LiveLifeSpec ==
  /\ LifeSpec
  /\ \A a \in Askers : WF_lifeVars(Wake(a))
  /\ \A t \in Threads : WF_lifeVars(Parking(t))
  /\ WF_lifeVars(Watching) /\ SF_lifeVars(DogExpired)
  /\ WF_lifeVars(Ending)

-----------------------------------------------------------------------------
Phases == <<"config", "dirs", "network", "loop">>

Storing == {"level", "create", "write", "sync", "rename"}
Serving == {"loop", "check", "ticking", "parked"}
Finished == {"release", "join", "ended"}

PhaseLists == Seq(ToSet(Phases))
Details == {"", "saved", "FAILED"}
Entries == ToSet(Phases) \X {"start", "stop"} \X Details
Transcripts == Seq(Entries)

ListsOK == completed \in PhaseLists /\ transcript \in Transcripts

DiskOK ==
  disk \in [ file : Saves \cup {None, Torn}, hard : BOOLEAN, temp : Saves \cup {None, Torn},
             synced : BOOLEAN, level : 0..MaxChanges \cup {None} ]

ThreadsOK ==
  /\ main \in {"config", "dirs", "network", "teardown", "killed"}
               \cup Serving \cup Parts \cup Storing \cup Finished
  /\ cut \in {"no", "abort", "error"}
  /\ stop \in BOOLEAN /\ asker \in [Askers -> {"idle", "waking", "done"}]
  /\ sleeper \in Threads \cup {None}
  /\ park \in [Threads -> {"out", "in", "about", "asleep", "roused"}]
  /\ dog \in {"none", "look", "parked", "firing", "returned"} /\ complete \in BOOLEAN
  /\ due \in Nat
  /\ listener \in {"none", "serving", "released"} /\ playing \subseteq Players
  /\ boot \in 1..MaxBoots

WorldOK ==
  /\ live \in Saves \cup {None} /\ served \in Saves \cup {None}
  /\ shot \in [Parts -> 0..MaxChanges \cup {None}]

LifeTypeOK == ListsOK /\ DiskOK /\ ThreadsOK /\ WorldOK

\* Nobody sleeps through a stop: once the thread that asked for it has woken
\* the sleepers, no thread is waiting or about to ("the textbook lost
\* wake-up", stop.rs, broadcast_stop).
NobodySleepsThroughStop ==
  (stop /\ \A a \in Askers : asker[a] # "waking") =>
    \A t \in Threads : park[t] \notin {"about", "asleep"}

HasStarted(phase) == \E i \in DOMAIN transcript : transcript[i] = <<phase, "start", "">>
StoppedAt(phase) == {i \in DOMAIN transcript : transcript[i][1] = phase /\ transcript[i][2] = "stop"}

\* However a run ends by itself -- cut short, failed, or stopped -- every phase
\* that started was torn down, once, and later phases before earlier ones
\* ("exact reverse of everything completed", server.rs, run).
StartsAreStopped ==
  main = "ended" =>
    /\ \A n \in 1..4 : HasStarted(Phases[n]) <=> StoppedAt(Phases[n]) # {}
    /\ \A m, n \in 1..4 : \A i \in StoppedAt(Phases[m]), j \in StoppedAt(Phases[n]) :
         m <= n => j <= i

\* A save that was written holds at least everything the world held when the
\* listener was released: the last tick, and every session up to then
\* (server.rs, teardown).
Saved == <<"dirs", "stop", "saved">> \in ToSet(transcript)

SaveCoversServed ==
  Saved => disk.file \in Saves /\ \A p \in Parts : disk.file[p] >= served[p]

\* The file is never half a world, whenever the power goes (save.rs, store).
SaveIsWhole == disk.file # Torn

\* A start that fails, is cut short or crashes never leaves an older world on
\* the disk than it found: the save only grows.
SaveNeverGoesBack ==
  [][ disk.file \in Saves =>
        disk'.file \in Saves /\ \A p \in Parts : disk'.file[p] >= disk.file[p] ]_lifeVars

\* A server that ticks and is told to stop ends, by itself or by its watchdog,
\* whatever its main thread is doing ("shutdown has a deadline", stop.rs).
StoppedServerEnds == (stop /\ dog # "none") ~> (~Alive \/ ~stop)

\* The world is written "after every session has stopped changing it"
\* (server.rs, teardown).
NothingMovesWhileSaved ==
  [][ (main \in Parts \cup Storing /\ boot' = boot)
        => live' = live ]_lifeVars

-----------------------------------------------------------------------------
(***************************************************************************)
(* The inductive invariants.                                               *)
(***************************************************************************)
\* Whoever is about to wait has the mutex.
SleepInv ==
  /\ \A t \in Threads : park[t] = "about" => sleeper = t
  /\ NobodySleepsThroughStop

\* The phases that are complete, by where the main thread is.
PhaseInv ==
  /\ Len(completed) <= 4 /\ \A n \in 1..Len(completed) : completed[n] = Phases[n]
  /\ main \in {"config"} \cup Finished => Len(completed) = 0
  /\ main = "dirs" => Len(completed) = 1
  /\ main \in {"network"} \cup Parts \cup Storing => Len(completed) = 2
  /\ main \in Serving => Len(completed) = 3

Looping == {"check", "ticking", "parked"}

\* What the transcript says: what is complete or torn down has started, what is
\* torn down is not complete, and the older a phase the later it was torn down.
LogInv == main # "killed" =>
  /\ \A n \in 1..4 : HasStarted(Phases[n]) <=>
       \/ n <= Len(completed)
       \/ StoppedAt(Phases[n]) # {}
       \/ n = 4 /\ main \in Looping
  /\ \A n \in 1..4 : StoppedAt(Phases[n]) # {} =>
       n > Len(completed) /\ main \in {"teardown"} \cup Parts \cup Storing \cup Finished
  /\ \A m, n \in 1..4 : \A i \in StoppedAt(Phases[m]), j \in StoppedAt(Phases[n]) :
       m <= n => j <= i

\* There is a world from phase 3 on, and a record of what was served of it once
\* the listener is released.
WorldInv ==
  /\ main \in Serving \cup Parts \cup Storing => live \in Saves
  /\ main \in {"config", "dirs", "network"} => live = None /\ listener = "none"
  /\ playing # {} \/ listener = "serving" => live \in Saves
  /\ main = "teardown" /\ Len(completed) >= 3 => live \in Saves
  /\ main \in Parts \cup Storing => served \in Saves
  /\ main = "teardown" /\ Len(completed) <= 2 /\ live # None => served \in Saves

\* The parts that have been read, by where the main thread is.
ReadBy(at) ==
  IF at \in Storing THEN Parts
  ELSE IF at = "time" THEN {"blocks", "players", "furnaces"}
  ELSE IF at = "furnaces" THEN {"blocks", "players"}
  ELSE IF at = "players" THEN {"blocks"} ELSE {}

\* The world only grows past what is on the disk and past what was served.
Growing ==
  /\ disk.file \in Saves \cup {None} /\ disk.hard
  /\ disk.file \in Saves /\ live \in Saves => \A p \in Parts : live[p] >= disk.file[p]
  /\ served \in Saves /\ live \in Saves => \A p \in Parts : live[p] >= served[p]
  /\ served \in Saves => live \in Saves

\* So does every part of it from the moment it was read.
Reading ==
  \A p \in ReadBy(main) :
    /\ shot[p] \in 0..MaxChanges /\ live[p] >= shot[p] /\ shot[p] >= served[p]
    /\ disk.file \in Saves => shot[p] >= disk.file[p]

\* The temporary file is what was read, and is on the disk before it is renamed.
Writing ==
  /\ main \in {"sync", "rename"} => disk.temp = shot
  /\ main = "rename" => disk.synced

\* A save is said to be written when all but the last phase is torn down.
Saying ==
  /\ SaveCoversServed
  /\ Saved => Len(completed) <= 1 /\ main \in {"teardown", "killed"} \cup Finished

SaveInv == Growing /\ Reading /\ Writing /\ Saying

LifeInv == LifeTypeOK /\ SleepInv /\ PhaseInv /\ LogInv /\ WorldInv /\ SaveInv
=============================================================================
