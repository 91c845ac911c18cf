# bevy_mud verification

TLA+ specifications of `bevy_mud`, a text game server on the Bevy engine: clients
connect by telnet, log in to an account, and steer a character on hexagonal maps.
Its scripts are Lua, run by a virtual machine that is part of the repository. TLC checks
the specifications on small instances, TLAPS proves the central invariants for every
value of the constants. Paths below are relative to the
repository (`src/net.rs` is the server's, not the one of a subcrate).

```
tlc -workers 2 -config Sessions.cfg MCSessions     # one run
tlapm SessionsProofs.tla                           # one proof module
```

Sections: the system (1), the modules (2), what the runs check, their bounds, the
fairness and the findings (3), what is proved (4), what is not modelled (5), what would
come next (6).

## 1. The system

One process, one frame loop. Bevy runs the schedules `First`, `PreUpdate`,
`FixedUpdate` (zero or more times), `Update` and `Last` one after the other; the
systems of one schedule run in any order that their declared constraints allow, and
what they do through `Commands` is applied after they have returned. Beside the loop
there are detached tasks: on the IO pool an accept loop, and a read and a write task for
each connection; on the pool for async compute a task for each periodic save. Nothing of the game state is
shared with them; they talk to the loop through channels and one file.

| Component | Source | State | Operations | Talks to |
|---|---|---|---|---|
| Connection | `src/net.rs` | line buffer of the read task, two channels, `TelnetIn` (`peek`, `closed`), `GMCP` | read task, write task, `update`, `next_line`, `next_telnet`, `closed`, `telnet_handler`, `greeter`, `reap_conns` | client socket, login, commands |
| Listener | `src/net.rs` | listener resource and its channel | `start_listener`, `new_conns`, accept task | connection, exit |
| Login | `src/account.rs` | `LoginState` of a connection, `UserDb` | `login_system`, five stages | connection (lines), character (`Player`, `Puppet`, `Live`) |
| Characters | `src/character.rs` | `Player`, `Puppet`, `NonPlayer`, `Live` | two observers, `despawn_system` | login, every system that despawns |
| Commands | `src/command.rs`, `src/command/*` | `CommandSet` of a session | `game_commands_system`, the player, debug and admin commands | connection, actions, everything (`@` commands) |
| Actions, movement | `src/action.rs`, `src/movement.rs` | `Queue`, `Busy`, `MoveAction`, `MoveDebt`, `Moving` | `run_actions`, `execute`, `movedebt_system`, `movement_system`, `stop_moving` | commands, login (which replaces the queue), map (`Transform`) |
| World file, process life | `src/savestate*`, `src/core.rs`, `src/signal.rs` | `world.ron`, `SaveInterval`, `SignalFlag`, `AppExit`, `LoadFailed` | `load_system`, `save_system`, `final_save_system`, `check_flag`, the startup sets | everything (the world is what is saved) |
| Liveness tree | `src/core.rs` | `Live`, `Parent`, `Children` | three observers | login, `despawn_system`, map |
| Map index | `src/map.rs` | `Maps`, `MapEntities`, `GlobalTransform` | `Entities`, `MapEntitiesMut`, observers, `propagate_transforms` | movement, liveness, rendering |
| Coordinates | `src/coords.rs` | none | conversions, rounding, wedges | map, movement |
| Saved entities | `src/savestate/assets.rs`, `observers.rs`, `resources.rs` | `SavedEntityStates`, asset handles | loader, `handle_asset_events`, observers | assets, world file |
| Rendering | `src/ascii_map/*` | none | layout of text | map |
| Script host | `bevy_piccolo` | a Lua machine per thread, the scripts it has cached | load, reload, call | assets, Lua |
| Lua front end | `piccolo/src/compiler/*`, `opcode.rs` | the text left, the tokens left, the functions being compiled | lexer, parser, compiler | Lua machine |
| Lua machine | `piccolo/src/thread/*`, `closure.rs`, `meta_ops.rs` | frames, stack and open upvalues of a thread; the chain of threads; fuel | `run_vm`, `Executor::step` and the calls of its host | script host, tables |
| Lua tables | `piccolo/src/table/*` | array part, hash part, length | `get`, `set`, `length`, `next` | Lua machine |

### What is hard about it

* **Tasks and the loop.** A client may hang up, reset or go on sending while the
  loop decides that its connection is closed; lines arrive cut anywhere.
* **Lookahead.** `TelnetIn` takes one event out of its channel and puts it back for
  somebody else. Telnet events and lines are wanted by different systems.
* **Deferred commands.** `login_system` and `despawn_system` decide on one world and
  change another one. The two observers of `character.rs` trigger each other.
* **Batches.** `game_commands_system` reads the lines of everybody, then runs
  everything it has read, in a world that the first command may already have changed.
* **Detached saves.** A save task outlives the frame that started it; the next one,
  and the final save, do not wait for it. The file is truncated in place.
* **Ways out.** A signal, a lost port, a listener that ends, a world that cannot be
  loaded, a panic in any system: each ends the process from a different place, and
  some of them run the final save.
* **Flags cleared by others.** `Busy` is set by one system and cleared by another
  one with a query of its own.
* **Cascades in a changing tree.** The observers of `Live` and `Parent` queue commands
  for children and parents; when they run, other commands have changed the tree.
* **Two records of one fact.** An entity knows its place, the map knows who is at each
  place, at several resolutions, and hooks, observers and a pass of the schedule each
  update one after the other. Maps come and go under the same name.
* **A compiler and a machine that trust each other.** The compiler decides which
  registers are free, where a block's upvalues are closed and how many values a call
  leaves on the stack; the machine only indexes. A wrong guess shows many
  instructions later, in a program nobody wrote a test for.
* **Threads that wait for threads.** Each coroutine has a stack of frames of eight kinds,
  and each pair of an answer and a waiting frame that is not expected is a panic.
* **A key with two homes.** Integer keys move from the hash part of a table to its array part
  while a script may be traversing it.
* **A cache that is looked at now and then.** Versions of a script are told apart by
  the time they were compiled at, and each thread looks at its own cache.

### What makes each component correct

* Connection: the game sees each event once and in order; a connection called closed
  has been drained; a connection whose client has gone is despawned and its tasks end.
* Login and characters: `Player` and `Puppet` lead to entities that exist and lead
  back; an account that exists is kept; only characters without a player are
  unloaded, and those are; no `unwrap` fails.
* Commands: each line is run for a caller that is still there.
* Movement: an action that is queued and not stopped is done once and in order, and
  only when it has been paid for; nobody stays busy for ever.
* World file: what `world.ron` holds is a whole world, no older than what the log has
  called saved; an orderly exit saves the last frame; a world that could not be read
  is not overwritten; a request to terminate is obeyed.
* Liveness tree: a live parent has live children once the queue is empty. Map index: the
  index of a map holds exactly the live entities on it, at their places.
* Lua front end: the tokens are what the text says; the program that was compiled does
  what the syntax tree says.
* Lua machine: frames fit the stack, upvalues lie where their functions think; an answer
  meets the frame that waits for it; control is in one thread at a time.
* Lua tables: a partial map, whichever part a key is in.
* Script host: the last version that compiles is the one that is called.

## 2. Modules

| Module | What it is |
|---|---|
| `EventStream` | abstract: a stream between a producer and a consumer that may only be retired when it is drained |
| `TelnetConn` | one connection from the socket to the systems that read lines, and the reference definition of what is heard of a byte stream (`Heard`); implements `EventStream` |
| `MCTelnetConn` | values for TLC |
| `WorldSave` | one process after the other around `world.ron` |
| `MCWorldSave` | values for TLC |
| `Sessions` | any number of connections, accounts and characters; login, links, command batch, unloading |
| `MCSessions` | values and symmetry for TLC |
| `ActionQueue` | abstract: actions are carried out in the order they were given, and given up at a stop or a login |
| `Movement` | the actions of one character; implements `ActionQueue` |
| `Hexes` | the hex arithmetic of the external crate `hexx` |
| `LiveMap`, `MCLiveMap` | entities in a tree, their liveness, and the index of what is on a map |
| `LuaLexer`, `LuaLexicon`, `MCLuaLexer` | the lexer, the lexical grammar it is compared with, and the texts |
| `LuaTrees`, `LuaParser`, `LuaPrinter` | syntax trees; the parser; the printer whose inverse it has to be |
| `Registers`, `Opcodes`, `LuaCompiler` | the register allocator, the encoding of operations, the compiler |
| `LuaChunk` | a chunk as the machine loads it: parsed, compiled, its prototypes in a list, with the notes that `LuaCode` needs |
| `LuaCode` | compiled code, and what the machine relies on of it: `Sound`, in the form of a verifier's check |
| `LuaVM` | one thread that runs a compiled chunk, an instruction at a step |
| `LuaMeaning` | what a program means, by its syntax tree alone: the reference for the two above |
| `MCLuaRun` | 208 programs and their comparison; composes parser, compiler and machine |
| `Coroutines` | abstract: control is passed on to suspended threads and handed back to waiting ones |
| `LuaExecutor`, `MCLuaExecutor` | threads with their frames, and the executor's loop; implements `Coroutines` |
| `TableSpec` | abstract: a table is a partial map |
| `LuaTable`, `MCLuaTable` | the array part and the hash part of a table; implements `TableSpec` |
| `ScriptHost` | a script that is edited, compiled, cached per thread and called |
| `TelnetConnProofs`, `WorldSaveProofs`, `SessionsProofs`, `MovementProofs`, `LiveMapProofs`, `LuaTableProofs`, `LuaVMProofs` | theorems about the specifications of those names |
| `ScriptingProofs` | theorems about `LuaExecutor` and `ScriptHost` |

The state of each module is explained at its `VARIABLES`; variables called `history`
are not in the code and no guard reads them, except for the bounds of the
exploration (`MaxFrames` counts `read`, `MaxIssued` counts `issued`). Definitions marked "Mutant" are plausible wrong
versions of the definition below them; they show that the property named in
`PROJECT.json` would notice.

### TelnetConn

The read task is `ReadData`, `ReadTelnet`, `EmitLine`, `ReadEnd` (`handle_conn`,
first `spawn`); the write task is `Forward`, `FlushAndClose`, `WriteFails`. The frame
loop is `HandleTelnet` (First: `telnet_handler`, with `gmcp_observer`), `RunCommand` and
`CommandsDone` (PreUpdate), `Login` (Update: `greeter`, `login_system`), `Reap` (Last).
`Update` is `TelnetIn::update`, with `FrontEvent` as what it leaves in `peek`; `TakeFront`
and `KeepFront` are the two ways `TelnetIn::next` ends. Bytes are taken from a small
alphabet, a decoded frame is a run of them, a reply is counted and not spelled out.
The client may close, after which what it sent still arrives, or reset, after which
it need not. `Despawn` is any `@despawn` of the connection.

### WorldSave

The world is a version number, `world.ron` is whole, empty or torn. `Start`,
`StartListener` and `Load` are the startup chain of `core.rs`; `SaveDue` is the
`save_system` of a frame in which the interval is over, `TaskCreate` and the three ends
after it are the detached task, `FinalCreate` and `FinalWrite` the two steps of
`final_save_system`, `Leave` the end of `main`, `Crash` a kill or a panic. Two open
handles write from the start of one file: `Written` allows the result to be torn.
The interval is not counted: a save may be due in any frame, which allows every
interval, the ones that are shorter than a write included.

Nothing keeps two saves apart: while they overlap, and after a full disk, the file may hold
anything. What the properties ask is that this ends with the next save that is alone, the one at the
exit included. Two history variables tell when: `crossed` has the tasks whose
save was under way with another one, and `spoiled` says that the last save that touched the file was
one of them, or failed. `told` is the newest snapshot the log has called saved, by whichever save.

### Sessions

`stage` is `LoginState` or the presence of a `Session`; `player` and `puppet` are the
components of those names. `Detach` computes where the two observers come to rest:
they run to the end inside one despawn, so one action has the whole cascade
(`Unplayered` is a least fixed point). A login inserts `Player` over whatever was there,
which triggers no `OnRemove`. `DespawnSystem` reads, `DespawnApplied` applies, and logins
may come before, between and after them, since the two systems have no order.
`ReadCommands` chooses the callers of a batch, grouped by connection as the query
visits them; each command is quiet, a movement or an `@despawn`. A failed `unwrap` sets
`panic` and the process stops. Passwords are right or wrong by choice.

### Movement

`Issue`, `Stop` and `Teleport` are commands; `Tick` and `Finish` are one pass of
`movedebt_system` then `movement_system`; `RunActions`, `RunFront` and `LoopDone` are
`run_actions`, whose loop is followed action by action because whether it stops depends
on what the last one was. `Login` and `Unload` are what `account.rs` and `character.rs`
do to one character. Debts are counted in ticks; `Cost` ticks pay for one action, and
rotation debt goes down to one turn below zero, as `MoveDebt::default` has it. Every
action of the repository is a `MoveAction`, so `Waits` and `Busies` hold of all of them.

### LiveMap

A command of the game (`Commands`) changes a component of one entity and puts what its
observers queue on `todo`, one record for each call that queues something; `RunQueued` runs
the first of them before any other command, as bevy's command queue does, and it may
queue more. What one call queues for several entities runs in any order, since it comes
from an iteration over a set. `InsertLive`, `RemoveLive` and `Detach` are the three
operations of the observers in `core.rs` and, for the index, of the observers in `map.rs`.
`Pass` is `propagate_transforms`: `VisitChanged` takes the entities that changed in any order,
`Visit` is the recursion from each, kept in `visits` because every level visits its children
in any order. `Moved` (`move_entity`) removes the cells that the entity's own record
names and adds the new ones, at every resolution.
`reparented`, `torn`, `missed` and `loose` name the entities the properties except: see
the findings.

### LuaLexer

One action: a call of `read_token`. A cursor is what is left of the text, the line number,
`string_buffer` and the first error. Each reader of `lexer.rs` is an operator from a cursor
to a cursor. Numbers have a width (`MaxInt`, `CodeWidth`), small in the run, so that overflow
is within reach of five bytes.

### LuaParser, LuaCompiler, LuaVM

The parser and the compiler are functions: each method of the source is an operator
that takes the state and returns it, stopping at the first error. The compiler keeps its
functions (locals, blocks, targets of jumps, pending jumps, registers) as the source does.
`LuaVM` is a state machine: `Instruction` runs one of the top frame, `Callback` a function of
the host, `Finished` takes the result. Assertions and failed indices of the source are the status `fault`,
which `MeansWhatItSays` does not accept. `Registers` counts modulo the number of registers, as
a `u8` does; that number, 256, is `Limit`, and the run has 40. An instruction is encoded and decoded through `Opcodes` on its way to the
machine.

The source has no verifier of bytecode: `run_vm` trusts the compiler. `Sound` (`LuaCode`) says with
what. To each instruction that can be reached belongs a note: which registers may be captured by
open upvalues, and from which register on a variable number of values lies on the stack, if any does.
Each instruction is checked against its own note and the notes of those that may follow: it touches
only registers there are, it takes a variable number of values exactly when there is one, its jumps
end at instructions, and where it moves the stack the upvalues above have been closed. `Notes`
(`LuaChunk`) computes the notes of a prototype. The machine is modelled for any programs whose code is
`Sound` (`LoadedAssumption`); TLC evaluates that assumption for every program of `lua_run`, of what
the modelled compiler makes of it. A program that does not compile is never started.

`LuaMeaning` shares nothing with the compiler but the trees: it has no registers, frames or
jumps; every execution of a declaration makes a new variable, every closure keeps the names
in scope, and blocks, loops and `goto` are structural. `LuaPrinter` writes a tree as tokens,
and the run parses what it wrote.

### LuaExecutor

`ts` has for each thread its frames, the height of its stack and its open upvalues; `chain`
is `thread_stack`. `Look` and `HandBack` are the head of the loop of `step`; the eight kinds
of frames each have an action. What a callback or a sequence returns is any value its
type allows (`Replies`), so every program is a behaviour: `Creates`, `Yields`, `YieldsTo`, `Resumes`
are the standard library's coroutine functions. The host's calls between steps are
`TakeResult`, `HostResume`, `HostResumeErr`, `Restart`, `Stop`. A branch that panics in the source
leaves the frame `panic`, which is of no type.

### LuaTable

The buckets of `hashbrown` and the capacity of `Vec` are known as far as `raw.rs` asks for
them: how many keys fit before it grows. Where a key goes and the order after a growth
are any. A traversal (`next`) goes on while the script assigns.

### ScriptHost

`Edit` writes a version to disk and starts a load; `Compiles` and `Insert` are the two halves of
a load, with the time taken between them; `Frame` is `global_lua_system` on any of the
threads, the lookup in its cache, the reload and the call included. Its definitions are `HostInit`,
`HostNext` and `HostSpec`, since one module of theorems is about it and about `LuaExecutor`.

## 3. What the runs check

| Run | Bounds | Distinct states | Shows |
|---|---|---|---|
| `telnet_conn` | 3 frames out of three byte runs (half a line, CR LF, the end of a line with a whole second one) and two telnet events | 660,108 | `InOrder`, `ClosedIsFinal`, `ReapedDrained`, `ClosedIsFlushed`, `LinesAreWhole`; `HangUpEndsAll`; refines `EventStream` |
| `world_save` | two save tasks, three versions, any number of restarts | 37,695 | `QuietDisk`, `CleanExit`, `LoadFailedKeepsFile`, `SignalObeyed` |
| `world_save_crash` | one save task | | **violated** `SavedStaysSaved` |
| `sessions` | 3 connections, 2 names, 2 characters and a `NonPlayer`, one command in a frame | 624,658 | `NoDangling`, `CalmIsSafe`, `UncontrolledUnloads` |
| `sessions_account` | 2 connections, 1 name | | **violated** `AccountKept` |
| `movement` | 4 actions of 2 ticks | 71,112 | `NothingLost`, `PaidFirst`, `BusyIsDoing`, `ActionsEnd`; refines `ActionQueue` |
| `live_map` | 3 entities, 2 map entities of one name, 2 places, 2 resolutions, 7 commands | 1,159,979 | `NoDeadChildren`, `CellsMatch`, `IndexExact`, `PlacedUnderParent`, `NamesLead` |
| `lua_lexer` | all texts of up to 5 bytes over nine alphabets, some after a fixed beginning | 266,028 | `ReadsItsText` |
| `lua_run` | 208 programs, run to their ends; 40 registers for 256 | 41,021 | `FramesFit`, `UpvaluesOrdered`, `MeansWhatItSays`, `ProgramEnds` |
| `lua_executor` | 3 threads, 3 frames each, 1 value, 9 choices of a behaviour | 432,943 | `ThreadsSound`; refines `Coroutines` |
| `lua_table` | integer keys 1 to 5, two floats, one other key, 4 assignments | 255,136 | `OnePlace`, `LengthIsBorder`, `WalkIsExact`; refines `TableSpec` |
| `script_host` | 2 threads, 4 versions, reload after 2 instants | 74,902 | `OldIsSeen`, `EditTakesEffect` |

Four more configurations stand beside these. Each has TLC refute one property, with the
trace of the finding of that number: `WorldSaveEmpty.cfg` (`MCWorldSave`, finding 1),
`SessionsMover.cfg` and `SessionsUnload.cfg` (`MCSessions`, 3 and 5), `MovementBusy.cfg`
(`Movement`, 6).

Why the bounds are enough.

* Connection: its events interact only through `peek`, the front of the channel and what
  follows it: three frames give up to six events, more than `peek`, the front and a
  successor, in every order of lines and telnet events, and every place to cut a line.
* World file: two save tasks are the least that race, and the final save is a third
  writer; a snapshot, a newer world and a still newer one take three versions.
* Sessions: a takeover takes two connections; the third one can be a bystander, hang up
  in the middle, or take over again. Two characters of accounts and an account yet to
  be created cover every mixture of old and new. Batches of more than one command are
  covered by the theorems, which hold for every `MaxBatch`.
* Movement: four actions are one under way, one next, and two to be dropped or to follow;
  two ticks tell paid, half paid and unpaid apart.
* Map: three entities are a parent, a child and one that is either's sibling, child or new
  parent; two maps of one name are the least that can hide each other; two resolutions
  tell a cell that was left from one that was not. Seven commands make each of the ways to
  break the index that the findings name, with commands to spare.
* Lexer: the longest lexeme that is of its own kind because of what follows it has four
  bytes (`[==[`, `\x7f`, `0x1p`); a fixed beginning puts the other bytes behind it. Each
  alphabet is for a part of the lexer that the others do not reach.
* Programs: every body (loops left by `break`, `goto` and `return`, captures of variables that
  are declared again, calls of every arity, temporaries across calls) stands in every
  context that changes what the compiler does with its end, and some in two contexts, one
  in the other; then programs for metamethods, varargs, tail calls, long tables,
  assignments and errors in every instruction that has one. Errors are compared too. One program
  (`Crowded`) takes all registers there are: with 40 of them (`Limit`), the longest others
  need 17, and the long tables 35.
* Executor: three threads are one that waits, one that runs and one to pass control on to.
  Three frames hold one that waits, one above it and an error or values above that.
* Tables: `MaxInt` 5 puts the last integer key within reach of the growth of the array
  part; hash parts grow from 0 to 2 to 4 keys.
* Scripts: four versions are one cached, one in place, one being loaded and one on disk.

Symmetry is used in `live_map` and `lua_executor`. In the latter `ControlPasses` is a property
without liveness, and `Coroutines` does not tell threads apart either.

Deadlock is not checked where a system really may stop: a connection whose tasks have all
ended, a process that has panicked, an idle character, a map after its last command, a
text that has been read, a chain of threads for which the host has nothing left to do,
a table and a script that nobody touches any more. `WorldSave` and `LuaVM` are checked for it.

### Fairness

* Frame loop: `ScheduleRunnerPlugin` runs the schedules for ever, so `FrameStep` of each
  module is weakly fair. Choices within a frame (which lines were typed, who logs
  in, who is despawned) are not fair, and nothing is assumed of clients or of players.
* Tasks: a pool polls a task that can make progress, so `ReadStep` and `WriteStep` (of the
  `IoTaskPool`) and the `TaskStep` of each save (of the `AsyncComputeTaskPool`) are weakly fair.
* Ticks (`Movement`): the loop may run no tick in a frame and run several in another,
  but time passes, so there are ticks again and again (`SF_vars(Ticking)`); a weak condition
  would not do, since `TicksDone` disables them in each frame.
* Process: `StartListener`, `Load`, `CheckFlag` and the steps of the shutdown are weakly
  fair. A restart is not: an operator may leave a server down.
* Programs: `finish` steps a thread until it is done, so as long as it runs there is another
  step (`Driven`, which says so of all steps at once).
* Scripts: bevy's asset server works on its loads and the loop inserts what has ended
  (`Compiles`, `Insert`), time passes (`Tick`) and frames follow each other (`Frame`). Edits are not
  fair, and neither is the choice of the thread that the system runs on: the property
  holds of whichever threads run it.
* `LuaExecutor`, `LuaTable`, `LuaLexer` and `LiveMap` have safety properties only.

### Findings

1. *An empty world over a good one* (`WorldSaveEmpty.cfg`). When the port is taken,
   `start_listener` sends `AppExit` and `load_system` is skipped, but the final save is only
   barred by `LoadFailed`: it writes the empty world of that process to `world.ron`.
2. *A crash during a save loses the saved world* (`world_save_crash`). `File::create`
   truncates the only copy.
3. *A takeover leaves two puppets, and a hang-up then kills the server*
   (`SessionsMover.cfg`). A second login to an account overwrites `Player`; when the second
   connection hangs up, the first loses its `Puppet` and its next movement command
   unwraps it.
4. *Two creators of one account* (`sessions_account`). The name is looked up when it is
   entered and the entry is inserted frames later.
5. *A player unloaded while logging in* (`SessionsUnload.cfg`). `despawn_system` has seen the
   character without `Player`; its `remove::<Live>` is applied after the login.
6. *Busy for ever* (`MovementBusy.cfg`). A new character has no `Transform` and is not in
   the query of `movement_system`, which alone clears `Busy`.

Met while modelling, and stated here only: a command that runs after its caller was
despawned by an earlier one of the batch panics (`command.rs:90`; `CalmIsSafe` excludes it
by `removed`); `run_actions` and `movement_system` do not ask for `Live` although the doc
of `Live` (`core.rs:47`) says update queries do; the downcast that should keep `Moving`
(`movement.rs:283`) asks the box and not its contents and is always false.

**Map.** The properties of `LiveMap` except some entities by a history variable; without the
exceptions TLC refutes them. bevy exchanges the parent of a child in place, which is no
`OnInsert`, and that is what the observer waits for, so a dead child may come below a live parent (`reparented`). An
entity that was live on a map before that name was registered is in no index until it
moves (`missed`). An entity that loses its `Transform` while live stays in the index
(`torn`). An entity below a parent without a
`Transform` is placed on its own when it changes, and below its grandparent when that one does.
`propagate_transform` does not end on a cycle of parents, which `@parent` can make; the model lets
no command make one. Outside of the model: `find_within` (`map.rs:200`) starts with the
first radius that is at least half of the one asked for and looks at the neighbours of one cell, which
misses entities at the edge (at radius 9, from (-10,-10) one at (-19,-10), with cells of
radius 4); `@rotate` (`command/admin.rs:54`) computes `% 6` on an `i8`, so a negative turn is
negative and a large one overflows.

**Lua.** The programs of `lua_run` leave out what the model (and the source it is translated from)
does wrong, each found by comparing with `LuaMeaning`:

* `a, b = b, a` assigns before the later values are read (`compiler.rs` 977–1002);
* a call with fewer arguments than parameters finds leftovers of the caller's temporaries in
  the parameters (`thread.rs` 669–677); a tail call of that kind panics (903–906);
* a `goto` backwards that is compiled before a later statement of the block captures a
  variable does not close its upvalue (`compiler.rs` 1408–1434);
* `~=` has the priority of addition (`parser.rs` 1156–1180);
* `a > b` is compiled as `not (a <= b)`, which is wrong for NaN (`operators.rs`, about 142);
* `(f())` keeps all results (`compiler.rs` 1184);
* a numeric `for` overflows past the last integer, and loops for ever with the step 0
  (`vm.rs` 290–302);
* a block of registers that ends at 256 is not marked as used (`Registers`, `Marked`);
* `while c do if d then break end local x = 1; return x end` does not compile: a jump into the
  scope of a local (`compiler.rs` 719 with 396–403);
* the generic `for` ends on `false` as well as on `nil`, and `..` takes `nil` and booleans
  (`string.rs` 190).

The lexer keeps the first newline of a long string, which Lua drops; refuses `--[=x`, which
is a short comment; reads `0x` as 0 and `0x1p-` with the exponent 0. `LuaLexicon` has the
lexer's rule in each of these.

Of `Executor::step` the doc says that `false` means there is more work to do; it returns `false`
also when its last turn finished the thread just as the fuel ran out. A thread that gives its
place up with `coroutine.continue` and has no frames left waits for ever. The branch
marked "Shenanigans" cannot be reached unless `Thread::reset` is called from outside.

`next` during a traversal that assigns `nil` to existing fields may meet a rebuilt hash part
(`WalkSurvivesUpdates` of `LuaTable` says what Lua promises; it is defined and no run lists it).

**Script host.** A version whose chunk fails stops the old one from being called. Two threads may
call two versions for up to five seconds. `compile_time` is taken after reading: were bevy to end two
loads out of order, the older would stay. A script that does not end stops the whole
server, since `finish` gives it fuel for ever.

## 4. What is proved

TLAPS checks these for every value of the constants that satisfies the module's `ASSUME`.
They are as weak as the code: sets may be empty or infinite, bounds any natural
numbers, `Cost` at least one tick, a Lua function at least two registers; of compiled Lua that it is
`Sound`, which TLC evaluates for what the compiler makes of 208 programs.

| Module | Theorems | Inductive invariant |
|---|---|---|
| `TelnetConnProofs` | `TypeCorrect`, `OrderKept`, `ClosedFinal`, `ReapLosesNothing`, `FlushedWhenClosed`, `Implements`, `LinesAlwaysWhole` | `InOrder`; a connection called closed has an ended sender and an empty channel (`ClosedDrained`, which `closed` alone does not say while an event sits in `peek`); `Whole`: while the read task runs, what it has sent and what its buffer would still give leave a reader in the state, the unfinished line included, in which the frames leave it |
| `WorldSaveProofs` | `TypeCorrect`, `DiskIsQuiet`, `ExitIsClean`, `LoadFailureIsHarmless` | `Stages`: what each phase implies for `loaded` and the tasks; `Fresh`: no snapshot is newer than the world; `Alone`: a save that has met no other is the only one, the file is as its create has left it, and its snapshot is no older than what was logged; `FinalAlone`: the same of the final save |
| `SessionsProofs` | `TypeCorrect`, `LinksHold`, `CalmRunsSafely` | `NoDangling`; `Asked`: a connection asked for a password entered a name; `Calm`: while nothing was stolen or removed every session has a puppet that points back, every account a living character, and every caller of the batch is connected |
| `MovementProofs` | `TypeCorrect`, `ActionsKept`, `NothingIsFree`, `BusyMatches`, `IsAQueue` | `InLoop`: `busy` mirrors the local variable of the loop; `Balanced`: a debt is what was incurred minus what was paid, the action under way included |
| `LiveMapProofs` | `LiveMapTypes`, `NamesAlwaysLead`, `CellsAlwaysMatch`, `IndexAlwaysExact`, `NeverDeadChildren`, `AlwaysDue`, `AlwaysUnderParent` | `IndexInv`: what is queued is a cascade of liveness or one command of a hook (`Queued`), an entity whose `Transform` went has a `GlobalTransform` only while that is queued (`Hooked`), and the index is exact but for a map whose entities are on their way (`Indexed`); `DeadInv`: a cascade makes entities live or dead, never both (`OneWay`), and reaches each dead child of a live parent (`DeadAreDoomed`); `PlaceInv`: the tree has no cycle (`Acyclic`), of two visits that wait neither is below the other (`Apart`), a visit that waits has the place its parent has by now (`Right`), and what is not where it belongs is changed, or below one that is or that waits (`AllDue`) |
| `LuaTableProofs` | `TableTypes`, `KeysAreInOnePlace`, `TableIsAMap`, `TraversalIsExact`, `LengthIsAlwaysBorder` | `Safe`: `OnePlace`, and an array part with room for one more key (`Bounded`); `WalkInv`: each key is either passed or where the traversal has yet to come (`OnItsWay`, `Passed`) |
| `LuaVMProofs` | `FramesAlwaysFit`, `UpvaluesAlwaysOrdered`, `SpecIInv` | `IInv`: the thread is `Good`. Nothing in the heap dangles (`MemoryOK`); a frame below another waits for a call or a metamethod, and the note of its next instruction fits its registers wherever the answer leaves them (`WaitingOK`); the last frame is as the note of its next instruction says (`TopOK`) |
| `ScriptingProofs` | `ThreadsAlwaysSound`, `ControlAlwaysPasses` | `ExecInv`: each thread has the `Shape` of frames that wait, one above the other, below one or two of certain kinds; the threads of the chain but the last wait with a frame below; while others wait the last is running or done |
| `ScriptingProofs` | `ScriptTypes`, `OldIsAlwaysSeen`, `NeverBackToOlder` | `InOrder`: the loads under way have rising versions and times (`LoadsInOrder`), all newer than the asset (`AssetFirst`); what a thread has cached is the asset or older than it, in version and in time (`ScriptsFirst`) |

Four of them are refinements (`Implements`, `IsAQueue`, `ControlAlwaysPasses`, `TableIsAMap`): initial states map to initial states, and each step to a step
of the abstract module or a stutter. The hard cases of `Implements` are `Send`, which
extends `emitted` (`SendOffers`), and `TakeFront`, whose element must be the next one not
yet received (`TakeReceives`, from `InOrder`); that of `IsAQueue` is `RunFront`, which would overwrite an
action under way (`StartIsQuiet`, from `InLoop`). Those of `ControlAlwaysPasses` are `Gives`,
where a thread that is resumed must not be in the chain (`OutOfChain`: all others there
wait), and a new start by the host, after which every thread left behind must be one that nobody can
resume (`RootControl`). Those of `TableIsAMap` are the steps that move keys from one part to the other,
which may change no value.

`ThreadsSound` is not inductive as it stands: it says what the frames below the last are, not what
is left when the last one is popped. `Shape` says it in the form in which the code builds threads,
as `Append`s to a `Base` of frames that wait; `Ready` is a thread whose last frame is off, and
there is a lemma for each thing that the executor puts on such a thread
(`PushCallShape`, `ReturnToShape`, `WaitingShape`, ...). `ShapeSound` leads back.

`FramesFit` and `UpvaluesOrdered` say what is there, not why the code can go on with it, and neither
says anything of the frame that comes next when the last one returns. `Good` does, with the notes
of `Sound` for the part that the compiler has to play. The proof has three layers. Lemmas on sequences
and memory: an instruction changes what is above the frames that wait, except for the values of variables
that are captured (`Over`), and then each of those frames is as it was (`FrameKeeps`,
`WaitingKeeps`). Lemmas on what instructions share: a frame goes on to a following instruction
(`GoesKeeps`), a function is pushed onto a thread whose top frame waits (`Suspended`),
upvalues above a place are closed, values are handed to a frame that waits. And one lemma for
each instruction and each callback (`MoveKeeps`, `TailCallKeeps`, ...). The hard ones are those where a
frame is replaced or left: a tail call closes the frame's upvalues before the arguments come down over
it, a return does the same before the frame below is given its values, and a `goto` out of a loop
relies on the compiler's note that nothing above `close` stays captured. The list of open upvalues is
searched by halving in the source (`PlaceFor`); that inserting there keeps it in order is `OpenedOK`.
`TakenIn`, the recursive function by which a closure takes its upvalues, is treated as `Heard` is below.
The status `overrun`, the panic of a tail call with more parameters than there is stack, is no `fault`: it is
a finding (section 3), and the theorems do not exclude it.

`DetachFacts` and `DetachKeeps` of `SessionsProofs` reason about the
observers' least fixed point without computing it: the result is closed under both
observers, so no pointer is left; it is the least one, so a detached link was reached.
Induction is needed in the form of sets (`LeastElement`, `SetInduction`), since the library's form
has an operator parameter; `LeastElement` is proved from the well-founded order of finite sets.

The recursive functions of `LuaTable` (`BorderIn`, `double`) and of `TelnetConn` (`Hearing`, `Heard`)
stand for a `CHOOSE` of a function that satisfies their equation. Each is proved to exist
(`FollowsExists`, by induction over the part that satisfies it) and to have one value (`AfterUnique`,
`HeardIs`). No further induction is needed: any function that satisfies the equation has the
value, so a fact follows once such a function is named. `HearingJoin` (bytes cut
anywhere are heard alike) cuts the function for the whole in two; `HearingText` names the prefixes
of a text without a line feed; `HearingLine`, on which `EmitLine` rests, joins the two and needs
that the read task's way of stripping a line (`Stripped`, from its end) agrees with the reader's
(`Trimmed`).

A pass of `propagate_transforms` is right although it visits the changed in any order. `AllDue` says
of every state within a pass that an entity is in its place unless a visit of it or of its parent
is to come; what keeps this is that a visit that waits was given the place its parent still has
(`Right`), which no other visit changes meanwhile (`Apart`, `Acyclic`). `Below` is defined by the sets
that are closed under parents, not by counting steps, so that none of this needs an
induction over the height of the tree.

Only model-checked:

* liveness, which needs `ENABLED`: `HangUpEndsAll`, `SignalObeyed`, `UncontrolledUnloads`,
  `ActionsEnd`, `ProgramEnds`, `EditTakesEffect`;
* what computes over data by recursion: `MeansWhatItSays` and `ReadsItsText`; and that the compiler's code is
  `Sound` (`LoadedAssumption`), since the parser and the compiler are recursive operators over syntax
  trees. What is proved of `LuaVM` holds for all code that is, whoever made it;
* the violations.

## 5. Not modelled

* The text of prompts and messages, telnet encoding, GMCP payloads, password hashes.
* `@insert`, `@remove`, `@spawn` and the other reflective edits: an administrator can turn
  any world into any other one with them, so no invariant would be left. `@despawn`,
  `@teleport` and `@parent`, whose effects the game's own code is meant to survive, are
  actions.
* The contents of the world in `WorldSave`, and the world's own state across a restart
  in `Sessions`: its `Init` allows every set of accounts and characters a loaded file has.
* A second entity that is both a connection and a character, which only the reflective
  edits can create.
* `unpuppet_system` of `character.rs`, which no plugin registers.
* The listener and its accept loop, saved entities and asset reload, command tables and
  argument parsing: they are next (section 6).
* Of the map: `find_within` and what else only reads the index; the conversions of `coords.rs` that
  the index does not use.
* Of the Lua machine: floats other than a few values, bit operations, garbage
  collection other than the finalizer of threads; the executor's `reset` and `Thread::reset` on a
  thread that another one waits for, which the repository calls nowhere. Of the lexer: errors of
  the reader below it, and the rounding of decimal floats.
* `piccolo`'s standard library other than `coroutine` and what the programs call, its conversions of
  values, the serde and derive crates: adapters without state.
* Of `bevy_piccolo`: the methods, queries and world access that a script may call.
* Rendering, items, output, one-shot systems, logging: layout of text and type definitions.

## 6. Plan

In this order.

1. **`Listener`** (`net.rs`, `start_listener`, `new_conns`, the accept task): one
   connection per frame from an unbounded channel; a listener that ends is restarted or
   ends the process. Liveness: each accepted connection is served. Feeds `TelnetConn`.
2. **`SavedEntities`** (`savestate/assets.rs`, `observers.rs`, `resources.rs`): asset events
   out of order with saves and loads.
3. **`CommandTable`** (`command.rs`, trie lookup by prefix and priority) as a pure function
   against a reference definition; **`Coords`** (`coords.rs`, and `@rotate` on `i8`)
   likewise with widths kept.
4. **`Restart`**: `WorldSave` composed with the accounts and characters of `Sessions`: what
   a crash between a save and the creation of an account leaves.
5. Proofs: that `Registers` never gives a register twice; that what the compiler emits is `Sound`, a
   statement at a time, which needs an induction over syntax trees that the provers do not have.
