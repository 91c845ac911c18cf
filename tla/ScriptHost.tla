------------------------------- MODULE ScriptHost ------------------------------
(***************************************************************************)
(* How a Lua script that is edited while the server runs comes to be       *)
(* called: bevy_piccolo compiles it (asset.rs), and global_lua_system      *)
(* calls its update function in every frame (lib.rs), in the Lua machine   *)
(* of the thread that the system happens to run on.                        *)
(*                                                                         *)
(* External: bevy starts a load for every edit, and loads end in the order *)
(* in which they were started.  What a script does is LuaExecutor; here it *)
(* is compiled or not ("syntax"), and its chunk returns the table of the   *)
(* script or fails ("fails").                                              *)
(***************************************************************************)
EXTENDS Naturals, Sequences

CONSTANTS
  Vm,         \* the threads that have a Lua machine
  Reload,     \* how old a script is before it is looked at again: five seconds
  MaxEdits,   \* bound: the versions of the file
  None

Kinds == {"good", "syntax", "fails"}
Entry == [v : Nat, kind : Kinds, time : Nat \cup {None}]
Script == [v : Nat, time : Nat]

ASSUME ScriptHostAssumption ==
  /\ Reload \in Nat /\ MaxEdits \in Nat
  /\ None \notin Nat /\ None \notin Entry /\ None \notin Script

VARIABLES
  clock,    \* Instant::now
  file,     \* the script on disk: its version, and what comes of it
  loads,    \* the loads that are under way, first the one that started first
  asset,    \* the LuaProto in Assets: version, kind and compile_time, or None
  scripts,  \* script_loads of each machine: version and load_time, or None
  called    \* the version that the last frame called, or None

hostVars == <<clock, file, loads, asset, scripts, called>>

-----------------------------------------------------------------------------
(* The file and its loads.                                                 *)

Reading(f) == [v |-> f.v, kind |-> f.kind, time |-> None]

Edit(kind) ==
  LET new == [v |-> file.v + 1, kind |-> kind] IN
  /\ file.v < MaxEdits
  /\ file' = new /\ loads' = Append(loads, Reading(new))
  /\ UNCHANGED <<clock, asset, scripts, called>>

\* LuaLoader::load: the time is taken when the script is compiled, and no two
\* scripts are compiled at one instant.
Compile(i) ==
  /\ i \in DOMAIN loads /\ loads[i].time = None
  /\ \A j \in 1..(i - 1) : loads[j].time # None
  /\ loads' = [loads EXCEPT ![i].time = clock]
  /\ clock' = clock + 1
  /\ UNCHANGED <<file, asset, scripts, called>>

\* What does not compile leaves the asset as it is.
Insert ==
  /\ loads # <<>> /\ Head(loads).time # None
  /\ asset' = IF Head(loads).kind = "syntax" THEN asset ELSE Head(loads)
  /\ loads' = Tail(loads)
  /\ UNCHANGED <<clock, file, scripts, called>>

\* Bound: time that makes no difference to anybody does not pass.
Times == {loads[i].time : i \in DOMAIN loads} \cup (IF asset = None THEN {} ELSE {asset.time})

Tick ==
  /\ \E t \in Times \ {None} : clock <= t + Reload
  /\ clock' = clock + 1
  /\ UNCHANGED <<file, loads, asset, scripts, called>>

-----------------------------------------------------------------------------
(* global_lua_system.                                                      *)

\* Mutant: the script counts as being as old as its being loaded.
LoadedNow(a) == [v |-> a.v, time |-> clock]

\* load_script: "load_time: asset.compile_time".
Loaded(a) == [v |-> a.v, time |-> a.time]

\* get_script looks at the asset only when the script is old enough.
NeedsLoad(m) ==
  scripts[m] # None => clock - scripts[m].time > Reload /\ scripts[m].time < asset.time

CallLoaded(m) ==
  /\ ~NeedsLoad(m)
  /\ called' = scripts[m].v /\ UNCHANGED scripts

CallNew(m) ==
  /\ NeedsLoad(m) /\ asset.kind = "good"
  /\ scripts' = [scripts EXCEPT ![m] = Loaded(asset)]
  /\ called' = asset.v

\* The error is logged; the script that was loaded before is not called.
LoadFails(m) ==
  /\ NeedsLoad(m) /\ asset.kind = "fails"
  /\ called' = None /\ UNCHANGED scripts

Frame ==
  /\ asset # None
  /\ \E m \in Vm : CallLoaded(m) \/ CallNew(m) \/ LoadFails(m)
  /\ UNCHANGED <<clock, file, loads, asset>>

-----------------------------------------------------------------------------
HostInit ==
  /\ clock = 0 /\ asset = None /\ called = None
  /\ scripts = [m \in Vm |-> None]
  /\ \E kind \in Kinds : file = [v |-> 1, kind |-> kind]
  /\ loads = <<Reading(file)>>

Compiles == \E i \in DOMAIN loads : Compile(i)

HostNext == (\E kind \in Kinds : Edit(kind)) \/ Compiles \/ Insert \/ Tick \/ Frame

\* Loads are worked on, time passes and frames follow each other.
HostSpec ==
  /\ HostInit /\ [][HostNext]_hostVars
  /\ WF_hostVars(Compiles) /\ WF_hostVars(Insert) /\ WF_hostVars(Tick) /\ WF_hostVars(Frame)

-----------------------------------------------------------------------------
\* What the next frames are to call: the asset, unless its chunk fails.
Meant == IF asset.kind = "good" THEN asset.v ELSE None

\* When nobody edits the script any more, the last version that compiles is the
\* one that every frame calls, on whichever thread: however short the time
\* between two edits, and although a script is not looked at for a while after
\* it was compiled.  One whose chunk fails leaves nothing to be called.
EditTakesEffect ==
  /\ <>[](file.kind # "syntax" => asset # None /\ asset.v = file.v)
  /\ <>[](asset # None => called = Meant)

TypeOK ==
  /\ clock \in Nat /\ file \in [v : Nat, kind : Kinds] /\ called \in Nat \cup {None}
  /\ loads \in Seq(Entry)
  /\ asset \in [v : Nat, kind : Kinds, time : Nat] \cup {None}
  /\ scripts \in [Vm -> Script \cup {None}]

\* A script that is not the asset is known by its time: get_script compares the
\* times of compilation only, never the scripts.
OldIsSeen ==
  \A m \in Vm :
    scripts[m] # None => asset # None /\ (scripts[m].v # asset.v => scripts[m].time < asset.time)

\* No machine goes back to an older version of the script.
NeverBack ==
  [][\A m \in Vm : scripts[m] # None => scripts'[m] # None /\ scripts'[m].v >= scripts[m].v]_hostVars
================================================================================
