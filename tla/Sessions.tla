------------------------------- MODULE Sessions --------------------------------
(***************************************************************************)
(* Connections, accounts and the characters they control: login_system of  *)
(* src/account.rs, the Player/Puppet observers and despawn_system of       *)
(* src/character.rs, and the batch of commands that game_commands_system   *)
(* of src/command.rs runs each frame.                                      *)
(*                                                                         *)
(* A frame is PreUpdate ("pre", then "batch" while commands run), Update   *)
(* ("update") and Last ("last").  Player(p) on a character is player[c],   *)
(* Puppet(c) on a connection is puppet[p]; observers of a despawned or     *)
(* detached entity run to the end before the next command is applied.      *)
(***************************************************************************)
EXTENDS Integers, FiniteSets, Sequences

CONSTANTS
  Conn,       \* connection entities; an id is never used twice
  Name,       \* account names
  Character,  \* character entities, in use or not yet spawned
  NonPlayer,  \* the characters that carry the NonPlayer marker
  None,       \* no entity, no name
  MaxBatch    \* bound: how many commands are read in one frame

ASSUME SessionsAssumption ==
  /\ NonPlayer \subseteq Character
  /\ None \notin Conn \cup Name \cup Character
  /\ MaxBatch \in Nat

VARIABLES
  phase,      \* where the frame is
  stage,      \* of each connection: LoginState, or whether it has a Session
  name,       \* the name a LoginState carries
  users,      \* UserDb: the character of each account
  char,       \* of each character: "unborn", "alive", "dead" (despawned)
  live,       \* the characters with the Live marker
  player,     \* Player of each character
  puppet,     \* Puppet of each connection
  batch,      \* the callers of the commands read in this frame, in order
  polled,     \* the connections login_system has visited in this Update
  unloading,  \* despawn_system in this Update: "before", "deferred", "after"
  unload,     \* the characters its deferred commands remove Live from
  panic,      \* what ended the process
  stolen,     \* history: somebody logged in to a character under control
  removed     \* history: @despawn has removed an entity

LoginStages == {"start", "username", "password", "newpass", "confirm"}
Connected == LoginStages \cup {"session"}

links == <<player, puppet>>
bodies == <<char, live>>
logins == <<stage, name, users>>
deferred == <<unloading, unload>>
history == <<stolen, removed>>
vars == <<phase, logins, bodies, links, batch, polled, deferred, panic, history>>

TypeOK ==
  /\ phase \in {"pre", "batch", "update", "last"}
  /\ stage \in [Conn -> Connected \cup {"unborn", "dead"}]
  /\ name \in [Conn -> Name \cup {None}]
  /\ users \in [Name -> Character \cup {None}]
  /\ char \in [Character -> {"unborn", "alive", "dead"}]
  /\ live \subseteq Character
  /\ player \in [Character -> Conn \cup {None}]
  /\ puppet \in [Conn -> Character \cup {None}]
  /\ batch \in Seq(Conn)
  /\ polled \subseteq Conn
  /\ unloading \in {"before", "deferred", "after"}
  /\ unload \subseteq Character
  /\ panic \in {"none", "no puppet", "caller gone", "character gone"}
  /\ stolen \in BOOLEAN /\ removed \in BOOLEAN

\* A loaded world: every account has a character of its own, live or in
\* storage.  NonPlayer characters are live and belong to no account.
Init ==
  /\ phase = "pre"
  /\ stage = [p \in Conn |-> "unborn"] /\ name = [p \in Conn |-> None]
  /\ users \in [Name -> (Character \ NonPlayer) \cup {None}]
  /\ \A m, n \in Name : users[m] = users[n] => m = n \/ users[m] = None
  /\ char = [c \in Character |->
               IF c \in NonPlayer \/ \E n \in Name : users[n] = c THEN "alive" ELSE "unborn"]
  /\ live \in SUBSET Character
  /\ NonPlayer \subseteq live /\ \A c \in live : char[c] = "alive"
  /\ player = [c \in Character |-> None] /\ puppet = [p \in Conn |-> None]
  /\ batch = <<>> /\ polled = {}
  /\ unloading = "before" /\ unload = {}
  /\ panic = "none" /\ stolen = FALSE /\ removed = FALSE

Alive(c) == char[c] = "alive"
IsConnected(p) == stage[p] \in Connected

-----------------------------------------------------------------------------
(* The observers.  Puppet removed from q: every character with Player(q)   *)
(* loses it.  Player removed from c: every connection with Puppet(c) loses *)
(* it.  Each removal triggers the other observer.                          *)

\* Mutant: player_removed_unpuppet is not registered.
UnpuppetedDirectly(Q, D) == Q

\* The connections that lose their Puppet when the characters in D lose Player.
Unpuppeted(Q, D) == Q \cup {q \in Conn : puppet[q] \in D}

\* What the characters in D and the connections in Q drag along when D lose
\* Player and Q lose Puppet: the least set the two observers are content with.
Settled(Q, D, S) ==
  D \subseteq S /\ \A c \in Character : player[c] \in Unpuppeted(Q, S) => c \in S
Unplayered(Q, D) ==
  {c \in Character : \A S \in SUBSET Character : Settled(Q, D, S) => c \in S}

Detach(Q, D) ==
  LET S == Unplayered(Q, D) IN
  /\ player' = [c \in Character |-> IF c \in S THEN None ELSE player[c]]
  /\ puppet' = [q \in Conn |-> IF q \in Unpuppeted(Q, S) THEN None ELSE puppet[q]]

\* OnRemove fires only for a component that is there.
RemoveConn(p) ==
  /\ stage' = [stage EXCEPT ![p] = "dead"]
  /\ name' = [name EXCEPT ![p] = None]
  /\ Detach(IF puppet[p] # None THEN {p} ELSE {}, {})
  /\ UNCHANGED <<users, bodies>>

RemoveCharacter(c) ==
  /\ char' = [char EXCEPT ![c] = "dead"]
  /\ live' = live \ {c}
  /\ Detach({}, IF player[c] # None THEN {c} ELSE {})
  /\ UNCHANGED logins

-----------------------------------------------------------------------------
(* PreUpdate: game_commands_system reads the lines of every connection     *)
(* that has commands, then runs what it read, one after the other.         *)

\* The query visits one connection after the other.
Grouped(calls) ==
  \A i, j, k \in DOMAIN calls : i < j /\ j < k /\ calls[i] = calls[k] => calls[j] = calls[i]

ReadCommands ==
  /\ phase = "pre" /\ panic = "none"
  /\ \E n \in 0..MaxBatch : \E calls \in [1..n -> {p \in Conn : stage[p] = "session"}] :
       Grouped(calls) /\ batch' = calls
  /\ phase' = "batch"
  /\ UNCHANGED <<logins, bodies, links, polled, deferred, panic, history>>

Caller == Head(batch)
Calling == phase = "batch" /\ batch # <<>> /\ panic = "none"

\* A command that changes nothing here; then the prompt for its caller.
RunQuiet ==
  /\ Calling
  /\ batch' = Tail(batch)
  /\ panic' = IF IsConnected(Caller) THEN "none" ELSE "caller gone"
  /\ UNCHANGED <<phase, logins, bodies, links, polled, deferred, history>>

\* A movement command unwraps the caller's Puppet first.
RunMove ==
  /\ Calling
  /\ batch' = Tail(batch)
  /\ panic' = IF puppet[Caller] # None THEN "none" ELSE "no puppet"
  /\ UNCHANGED <<phase, logins, bodies, links, polled, deferred, history>>

RunDespawnConn(p) ==
  /\ Calling /\ IsConnected(Caller) /\ IsConnected(p)
  /\ RemoveConn(p)
  /\ batch' = Tail(batch)
  /\ panic' = IF p = Caller THEN "caller gone" ELSE "none"
  /\ removed' = TRUE
  /\ UNCHANGED <<phase, polled, deferred, stolen>>

RunDespawnCharacter(c) ==
  /\ Calling /\ IsConnected(Caller) /\ Alive(c)
  /\ RemoveCharacter(c)
  /\ batch' = Tail(batch)
  /\ removed' = TRUE
  /\ UNCHANGED <<phase, polled, deferred, panic, stolen>>

CommandsDone ==
  /\ phase = "batch" /\ batch = <<>> /\ panic = "none"
  /\ phase' = "update" /\ polled' = {} /\ unloading' = "before"
  /\ UNCHANGED <<logins, bodies, links, batch, unload, panic, history>>

-----------------------------------------------------------------------------
(* Update: new connections are greeted, login_system visits each           *)
(* connection once.  Its commands and those of despawn_system, which has   *)
(* no order with it, are applied after each has read the world.            *)

Updating == phase = "update" /\ panic = "none"

NewConn(p) ==
  /\ Updating /\ stage[p] = "unborn"
  /\ stage' = [stage EXCEPT ![p] = "start"]
  /\ UNCHANGED <<phase, name, users, bodies, links, batch, polled, deferred, panic, history>>

Visit(p, at) ==
  /\ Updating /\ p \notin polled /\ stage[p] = at
  /\ polled' = polled \cup {p}

LogsInTo(p, to, n) ==
  /\ stage' = [stage EXCEPT ![p] = to]
  /\ name' = [name EXCEPT ![p] = n]

Restart(p, at) ==
  /\ Visit(p, at)
  /\ LogsInTo(p, "start", None)
  /\ UNCHANGED <<phase, users, bodies, links, batch, deferred, panic, history>>

AskName(p) ==
  /\ Visit(p, "start")
  /\ LogsInTo(p, "username", None)
  /\ UNCHANGED <<phase, users, bodies, links, batch, deferred, panic, history>>

EnterName(p, n) ==
  /\ Visit(p, "username")
  /\ LogsInTo(p, IF users[n] # None THEN "password" ELSE "newpass", n)
  /\ UNCHANGED <<phase, users, bodies, links, batch, deferred, panic, history>>

EnterNewPassword(p) ==
  /\ Visit(p, "newpass")
  /\ LogsInTo(p, "confirm", name[p])
  /\ UNCHANGED <<phase, users, bodies, links, batch, deferred, panic, history>>

\* "Invalid password.", "user not found"; "Passwords do not match."
WrongPassword(p) == Restart(p, "password")
Mismatch(p) == Restart(p, "confirm")

\* Mutant: the two pointers are mixed up.
ControlSwapped(p, c) ==
  /\ LogsInTo(p, "session", None)
  /\ player' = [player EXCEPT ![c] = c]
  /\ puppet' = [puppet EXCEPT ![p] = p]

Control(p, c) ==
  /\ LogsInTo(p, "session", None)
  /\ player' = [player EXCEPT ![c] = p]
  /\ puppet' = [puppet EXCEPT ![p] = c]

\* Inserting Player over an older one triggers no OnRemove.
Login(p) ==
  LET c == users[name[p]] IN
  /\ Visit(p, "password") /\ c # None /\ Alive(c)
  /\ Control(p, c)
  /\ live' = live \cup {c}
  /\ stolen' = (stolen \/ player[c] # None)
  /\ UNCHANGED <<phase, users, char, batch, deferred, panic, removed>>

\* The account outlived its character: Commands::entity panics.
LoginFails(p) ==
  LET c == users[name[p]] IN
  /\ Visit(p, "password") /\ c # None /\ ~Alive(c)
  /\ panic' = "character gone"
  /\ UNCHANGED <<phase, logins, bodies, links, batch, deferred, history>>

\* Mutant: the character knows its player, the player not its character.
CreateAccountUnlinked(p, c) ==
  /\ Visit(p, "confirm") /\ char[c] = "unborn"
  /\ LogsInTo(p, "session", None)
  /\ player' = [player EXCEPT ![c] = p]
  /\ char' = [char EXCEPT ![c] = "alive"]
  /\ users' = [users EXCEPT ![name[p]] = c]
  /\ UNCHANGED <<phase, live, puppet, batch, deferred, panic, history>>

\* A new character is not Live.  The name was free when it was entered.
CreateAccount(p, c) ==
  /\ Visit(p, "confirm") /\ char[c] = "unborn"
  /\ Control(p, c)
  /\ char' = [char EXCEPT ![c] = "alive"]
  /\ users' = [users EXCEPT ![name[p]] = c]
  /\ UNCHANGED <<phase, live, batch, deferred, panic, history>>

\* Mutant: With<Player> for Without<Player>.
UncontrolledInverted == {c \in live \ NonPlayer : player[c] # None}

Uncontrolled == {c \in live \ NonPlayer : player[c] = None}

DespawnSystem ==
  /\ Updating /\ unloading = "before"
  /\ unloading' = "deferred" /\ unload' = Uncontrolled
  /\ UNCHANGED <<phase, logins, bodies, links, batch, polled, panic, history>>

DespawnApplied ==
  /\ Updating /\ unloading = "deferred"
  /\ unloading' = "after" /\ unload' = {}
  /\ live' = live \ unload
  /\ UNCHANGED <<phase, logins, char, links, batch, polled, panic, history>>

UpdateDone ==
  /\ Updating /\ unloading = "after"
  /\ phase' = "last" /\ polled' = {}
  /\ UNCHANGED <<logins, bodies, links, batch, deferred, panic, history>>

-----------------------------------------------------------------------------
(* Last: reap_conns despawns the connections whose clients are gone.       *)

Reap(p) ==
  /\ phase = "last" /\ panic = "none" /\ IsConnected(p)
  /\ RemoveConn(p)
  /\ UNCHANGED <<phase, batch, polled, deferred, panic, history>>

FrameDone ==
  /\ phase = "last" /\ panic = "none"
  /\ phase' = "pre"
  /\ UNCHANGED <<logins, bodies, links, batch, polled, deferred, panic, history>>

-----------------------------------------------------------------------------
LoginStep(p) ==
  \/ AskName(p) \/ EnterNewPassword(p) \/ WrongPassword(p) \/ Mismatch(p)
  \/ Login(p) \/ LoginFails(p)
  \/ \E n \in Name : EnterName(p, n)
  \/ \E c \in Character : CreateAccount(p, c)

Next ==
  \/ ReadCommands \/ RunQuiet \/ RunMove \/ CommandsDone
  \/ \E p \in Conn : RunDespawnConn(p)
  \/ \E c \in Character : RunDespawnCharacter(c)
  \/ \E p \in Conn : NewConn(p) \/ LoginStep(p) \/ Reap(p)
  \/ DespawnSystem \/ DespawnApplied \/ UpdateDone \/ FrameDone

\* The frame loop runs on; nothing is assumed of clients.
FrameStep ==
  \/ ReadCommands \/ RunQuiet \/ CommandsDone
  \/ DespawnSystem \/ DespawnApplied \/ UpdateDone \/ FrameDone

Spec == Init /\ [][Next]_vars /\ WF_vars(FrameStep)

-----------------------------------------------------------------------------
(* Properties.                                                             *)

\* However logins, takeovers, hang-ups and despawns interleave, a Player leads
\* to a session that has the character as its puppet, and a Puppet to a
\* character that somebody controls: the observers leave no dangling entity.
NoDangling ==
  /\ \A c \in Character : player[c] # None =>
       Alive(c) /\ stage[player[c]] = "session" /\ puppet[player[c]] = c
  /\ \A p \in Conn : puppet[p] # None =>
       stage[p] = "session" /\ Alive(puppet[p]) /\ player[puppet[p]] # None

\* The unwraps of the command and login systems hold while nobody uses
\* @despawn and nobody logs in to a character that is under control.
CalmIsSafe == panic # "none" => stolen \/ removed

\* A character whose player is gone leaves the live world, or finds a player.
UncontrolledUnloads ==
  \A c \in Character \ NonPlayer :
    c \in live /\ player[c] = None ~> c \notin live \/ player[c] # None \/ panic # "none"

\* "Pointer from a player to the character they're controlling." (character.rs)
\* It holds until a second login takes a character over: the code leaves the old
\* player's Puppet.  Part of the invariant that CalmIsSafe rests on.
PuppetPointsBack == \A p \in Conn : puppet[p] # None => player[puppet[p]] = p

\* The assertion of the movement commands, player.rs: the caller has a Puppet.
\* The player who was taken over has none once the other one hangs up.
MoverHasPuppet == panic # "no puppet"

\* "Creating new account." (account.rs): an account that exists is kept.  Two
\* connections that enter the same free name both create it.
AccountKept == [][\A n \in Name : users[n] # None => users'[n] = users[n]]_vars

\* "unloading controllerless character" (character.rs): only those are.
OnlyControllerlessUnloaded ==
  [][\A c \in live \ live' : Alive(c)' => player'[c] = None]_vars
=============================================================================
