------------------------------ MODULE WorldSave -------------------------------
(***************************************************************************)
(* The life of the server process around its one file, world.ron: startup, *)
(* periodic saves by detached tasks, shutdown by signal or error, crashes  *)
(* and restarts (src/savestate, src/core.rs, src/signal.rs, src/net.rs).   *)
(*                                                                         *)
(* The world is a version number that the game increases; 0 is the world a *)
(* process starts with before load_system has run: no entity, no account.  *)
(***************************************************************************)
EXTENDS Integers

CONSTANTS
  Saver,        \* the tasks that may be saving at the same time (a bound)
  MaxVersion    \* bound: how far the game changes the world

ASSUME SaveAssumption == MaxVersion \in Nat \ {0}

Version == 0..MaxVersion

\* What world.ron may hold: a world, nothing, or bytes of several writes.
Saved(v) == [state |-> "whole", world |-> v]
Empty == [state |-> "empty", world |-> 0]
Torn == [state |-> "torn", world |-> 0]
Contents == {Saved(v) : v \in Version} \cup {Empty, Torn}
Readable(c) == c.state = "whole"

VARIABLES
  file,        \* world.ron
  phase,       \* where the process is: see Phase
  world,       \* the world in memory
  loaded,      \* load_system succeeded in this process
  loadFailed,  \* a LoadFailed event was sent in this process
  flag,        \* SignalFlag: "none", "quit" (INT, TERM, QUIT), "user" (USR1, USR2)
  pc,          \* save tasks: "idle", "queued", "open" (world.ron created)
  snap,        \* save tasks: the snapshot each is to write
  crossed,     \* history: the tasks whose save was under way with another one
  spoiled,     \* history: the last save that touched the file met another one,
               \* or failed
  told         \* history: the newest world this process has logged as saved

\* "io" and "world" are the startup sets; "frames" is the main loop; "exiting"
\* is the rest of the frame in which AppExit was sent; "final" is between the
\* create and the write of final_save_system; "leaving" is after it.
Phase == {"down", "io", "world", "frames", "exiting", "final", "leaving"}

process == <<world, loaded, loadFailed>>
tasks == <<pc, snap>>
history == <<crossed, spoiled, told>>
vars == <<file, phase, process, flag, tasks, history>>

TypeOK ==
  /\ file \in Contents
  /\ phase \in Phase
  /\ world \in Version
  /\ loaded \in BOOLEAN /\ loadFailed \in BOOLEAN
  /\ flag \in {"none", "quit", "user"}
  /\ pc \in [Saver -> {"idle", "queued", "open"}]
  /\ snap \in [Saver -> Version]
  /\ crossed \in SUBSET Saver /\ spoiled \in BOOLEAN
  /\ told \in Version

\* The repository ships a world.ron; the server has not been started.
Init ==
  /\ file = Saved(1) /\ phase = "down"
  /\ world = 0 /\ loaded = FALSE /\ loadFailed = FALSE
  /\ flag = "none"
  /\ pc = [s \in Saver |-> "idle"] /\ snap = [s \in Saver |-> 0]
  /\ crossed = {} /\ spoiled = FALSE /\ told = 0

-----------------------------------------------------------------------------
(* Startup: the sets System, Io and World in a chain, the last two only    *)
(* while no AppExit has been sent.                                         *)

Start ==
  /\ phase = "down"
  /\ phase' = "io"
  /\ world' = 0 /\ loaded' = FALSE /\ loadFailed' = FALSE /\ flag' = "none"
  /\ crossed' = {} /\ spoiled' = FALSE /\ told' = 0
  /\ UNCHANGED <<file, tasks>>

\* start_listener: a port that cannot be bound sends AppExit.
StartListener ==
  /\ phase = "io"
  /\ phase' \in {"world", "exiting"}
  /\ UNCHANGED <<file, process, flag, tasks, history>>

Load ==
  /\ phase = "world"
  /\ IF Readable(file)
     THEN /\ phase' = "frames" /\ world' = file.world /\ loaded' = TRUE
          /\ UNCHANGED loadFailed
     ELSE /\ phase' = "exiting" /\ loadFailed' = TRUE
          /\ UNCHANGED <<world, loaded>>
  /\ UNCHANGED <<file, flag, tasks, history>>

-----------------------------------------------------------------------------
(* The main loop.                                                          *)

Play ==
  /\ phase \in {"frames", "exiting"} /\ loaded
  /\ world < MaxVersion
  /\ world' = world + 1
  /\ UNCHANGED <<file, phase, loaded, loadFailed, flag, tasks, history>>

\* A signal handler stores its number, whatever was stored before.
Raise(signal) ==
  /\ phase # "down"
  /\ flag' = signal
  /\ UNCHANGED <<file, phase, process, tasks, history>>

\* Mutant: the number is compared after it has been cleared.
CheckFlagCleared ==
  /\ phase = "frames" /\ flag # "none"
  /\ flag' = "none"
  /\ phase' = IF flag' = "quit" THEN "exiting" ELSE phase
  /\ UNCHANGED <<file, process, tasks, history>>

\* First: check_flag takes the number, signal_handler sends AppExit.
CheckFlag ==
  /\ phase = "frames" /\ flag # "none"
  /\ flag' = "none"
  /\ phase' = IF flag = "quit" THEN "exiting" ELSE phase
  /\ UNCHANGED <<file, process, tasks, history>>

\* The listener ended and new_conns could not start another one.
ListenerLost ==
  /\ phase = "frames"
  /\ phase' = "exiting"
  /\ UNCHANGED <<file, process, flag, tasks, history>>

\* The tasks whose save is under way, and what a save does to it that begins now:
\* it does not wait for any of them.
Underway == {s \in Saver : pc[s] # "idle"}
Meeting(begun) == IF Underway = {} THEN crossed ELSE crossed \cup begun \cup Underway

\* Last: save_system, once the interval is over, takes a snapshot for a task.
SaveDue(s) ==
  /\ phase = "frames"
  /\ pc[s] = "idle"
  /\ pc' = [pc EXCEPT ![s] = "queued"]
  /\ snap' = [snap EXCEPT ![s] = world]
  /\ crossed' = Meeting({s})
  /\ UNCHANGED <<file, phase, process, flag, spoiled, told>>

-----------------------------------------------------------------------------
(* A save task: serialize, create (which truncates), write, log.           *)

\* Writing from the start of a file that somebody else has filled since we
\* truncated it: the longer of the two contents shows through.
Written(v) == IF file = Empty THEN {Saved(v)} ELSE {Saved(v), Torn}

Running == phase \notin {"down", "io", "world"}

\* Mutant: the file is opened and not truncated.
TaskCreateKeeps(s) ==
  /\ Running /\ pc[s] = "queued"
  /\ pc' = [pc EXCEPT ![s] = "open"]
  /\ spoiled' = (s \in crossed)
  /\ UNCHANGED <<file, phase, process, flag, snap, crossed, told>>

TaskCreate(s) ==
  /\ Running /\ pc[s] = "queued"
  /\ pc' = [pc EXCEPT ![s] = "open"]
  /\ file' = Empty
  /\ spoiled' = (s \in crossed)
  /\ UNCHANGED <<phase, process, flag, snap, crossed, told>>

\* Mutant: a task that gives up is left in a state nobody resumes it from.
TaskStuck(s) ==
  /\ Running /\ pc[s] = "queued"
  /\ pc' = [pc EXCEPT ![s] = "failed"]
  /\ UNCHANGED <<file, phase, process, flag, snap, history>>

\* The world could not be serialized, or the file not opened.
TaskGivesUp(s) ==
  /\ Running /\ pc[s] = "queued"
  /\ pc' = [pc EXCEPT ![s] = "idle"]
  /\ crossed' = crossed \ {s}
  /\ UNCHANGED <<file, phase, process, flag, snap, spoiled, told>>

\* The log tells nothing of the version; told is what it amounts to.
Logged(v) == IF v > told THEN v ELSE told

TaskWrite(s) ==
  /\ Running /\ pc[s] = "open"
  /\ pc' = [pc EXCEPT ![s] = "idle"]
  /\ file' \in Written(snap[s])
  /\ crossed' = crossed \ {s} /\ spoiled' = (s \in crossed)
  /\ told' = Logged(snap[s])
  /\ UNCHANGED <<phase, process, flag, snap>>

\* The disk is full: a warning, and the log still says "world saved".
TaskWriteFails(s) ==
  /\ Running /\ pc[s] = "open"
  /\ pc' = [pc EXCEPT ![s] = "idle"]
  /\ file' = Torn
  /\ crossed' = crossed \ {s} /\ spoiled' = TRUE
  /\ told' = Logged(snap[s])
  /\ UNCHANGED <<phase, process, flag, snap>>

-----------------------------------------------------------------------------
(* Shutdown: final_save_system in Last, then the process ends.             *)

\* Mutant: the run condition on LoadFailed is missing.
MaySaveAlways == TRUE

MaySaveFinally == ~loadFailed

FinalCreate ==
  /\ phase = "exiting" /\ MaySaveFinally
  /\ phase' = "final"
  /\ file' = Empty
  /\ crossed' = Meeting({}) /\ spoiled' = (Underway # {})
  /\ UNCHANGED <<process, flag, tasks, told>>

\* No final save, or one that fails before it has touched the file.
FinalSkip ==
  /\ phase = "exiting"
  /\ phase' = "leaving"
  /\ crossed' = IF MaySaveFinally THEN Meeting({}) ELSE crossed
  /\ spoiled' = (spoiled \/ MaySaveFinally)
  /\ UNCHANGED <<file, process, flag, tasks, told>>

\* Mutant: the final save writes the snapshot of the last periodic one.
FinalWriteStale ==
  /\ phase = "final"
  /\ phase' = "leaving"
  /\ \E s \in Saver : file' \in Written(snap[s])
  /\ UNCHANGED <<process, flag, tasks, history>>

FinalWrite ==
  /\ phase = "final"
  /\ phase' = "leaving"
  /\ file' \in Written(world)
  /\ UNCHANGED <<process, flag, tasks, history>>

FinalWriteFails ==
  /\ phase = "final"
  /\ phase' = "leaving"
  /\ file' = Torn
  /\ spoiled' = TRUE
  /\ UNCHANGED <<process, flag, tasks, crossed, told>>

\* The end of main ends the save tasks wherever they are.
Leave ==
  /\ phase = "leaving"
  /\ phase' = "down"
  /\ pc' = [s \in Saver |-> "idle"]
  /\ crossed' = {}
  /\ UNCHANGED <<file, process, flag, snap, spoiled, told>>

\* A kill or a panic, possibly in the middle of a write.
Crash ==
  /\ phase \notin {"down", "leaving"}
  /\ phase' = "down"
  /\ pc' = [s \in Saver |-> "idle"]
  /\ file' \in IF phase = "final" \/ \E s \in Saver : pc[s] = "open"
               THEN {file, Torn} ELSE {file}
  /\ crossed' = {}
  /\ UNCHANGED <<process, flag, snap, spoiled, told>>

-----------------------------------------------------------------------------
Startup == Start \/ StartListener \/ Load
Shutdown == FinalCreate \/ FinalSkip \/ FinalWrite \/ FinalWriteFails \/ Leave
TaskStep(s) == TaskCreate(s) \/ TaskGivesUp(s) \/ TaskWrite(s) \/ TaskWriteFails(s)

Next ==
  \/ Start \/ StartListener \/ Load
  \/ Play \/ CheckFlag \/ ListenerLost
  \/ \E signal \in {"quit", "user"} : Raise(signal)
  \/ \E s \in Saver : SaveDue(s)
  \/ \E s \in Saver : TaskCreate(s) \/ TaskGivesUp(s) \/ TaskWrite(s) \/ TaskWriteFails(s)
  \/ FinalCreate \/ FinalSkip \/ FinalWrite \/ FinalWriteFails \/ Leave \/ Crash

\* The frame loop runs on, and a save task is polled to its end.
Fairness ==
  /\ WF_vars(StartListener \/ Load) /\ WF_vars(CheckFlag) /\ WF_vars(Shutdown)
  /\ \A s \in Saver : WF_vars(TaskStep(s))

Spec == Init /\ [][Next]_vars /\ Fairness

-----------------------------------------------------------------------------
(* Properties.                                                             *)

NobodyWrites == phase # "final" /\ \A s \in Saver : pc[s] # "open"

\* The last save that touched the file had it for itself from the frame in which
\* it was begun, and did not fail.
SavesInOrder == loaded /\ ~spoiled

\* A process that could not load the world never touches the file it could
\* not read, on any way out of it.
LoadFailedKeepsFile == [][loadFailed /\ loadFailed' => file' = file]_vars

\* Saves may overlap, and a disk may be full; what that leaves in the file is gone
\* with the next save that is alone.  Between two saves, the file of a running
\* server then holds a whole world, no older than the one the log last called
\* saved, those of the overlap included, and no newer than the one in memory.
QuietDisk ==
  SavesInOrder /\ phase # "down" /\ NobodyWrites =>
    Readable(file) /\ told <= file.world /\ file.world <= world

\* An orderly shutdown leaves the world as it was in memory, the changes of the
\* last frame included and whatever earlier saves have left, unless a periodic
\* save is still under way.
CleanExit == SavesInOrder /\ phase = "leaving" => file = Saved(world)

\* A request to terminate ends the process, whatever it is doing, unless
\* another signal overwrites the flag within the same frame.
SignalObeyed == flag = "quit" ~> phase = "down" \/ flag = "user"

\* "failed to start tcp listener, exiting." (net.rs): a process that never
\* loaded a world has none to save.  The code saves its empty one.
OnlyLoadedWorldIsSaved == phase = "final" => loaded

\* "world saved" (savestate/systems.rs): what the log has called saved can be
\* loaded after the process has ended, if the last save met no other one and the
\* disk did not fail.
SavedStaysSaved ==
  SavesInOrder /\ phase = "down" /\ told > 0 => Readable(file) /\ file.world >= told
=============================================================================
