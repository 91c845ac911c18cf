---------------------------- MODULE SessionsProofs -----------------------------
(***************************************************************************)
(* TLAPS proofs about Sessions: for any number of connections, accounts,   *)
(* characters and commands in a frame.                                     *)
(***************************************************************************)
EXTENDS Sessions, TLAPS

\* A name is remembered while a password is asked for, an account once it is
\* found, and commands are outstanding only while they run.
Asked ==
  /\ \A p \in Conn : stage[p] \in {"password", "newpass", "confirm"} => name[p] \in Name
  /\ \A p \in Conn : stage[p] = "password" => users[name[p]] # None
  /\ phase # "batch" => batch = <<>>

\* Without takeovers and @despawn, sessions and controlled characters are two
\* sides of a bijection, every account has its character, and every command
\* that is still to run has its caller.
Calm ==
  ~stolen /\ ~removed =>
    /\ panic = "none"
    /\ \A p \in Conn : stage[p] = "session" => puppet[p] # None
    /\ PuppetPointsBack
    /\ \A n \in Name : users[n] # None => Alive(users[n])
    /\ \A i \in DOMAIN batch : stage[batch[i]] = "session"

IInv == TypeOK /\ NoDangling /\ Asked /\ Calm

-----------------------------------------------------------------------------
(* What the observers do.                                                  *)

\* The set that is dragged along is itself one the observers are content with,
\* and the least such set.
LEMMA DetachFacts ==
  ASSUME TypeOK, NEW Q \in SUBSET Conn, NEW D \in SUBSET Character, Detach(Q, D)
  PROVE  LET S == Unplayered(Q, D) IN
           /\ S \in SUBSET Character
           /\ Settled(Q, D, S)
           /\ \A T \in SUBSET Character : Settled(Q, D, T) => S \subseteq T
           /\ player' = [c \in Character |-> IF c \in S THEN None ELSE player[c]]
           /\ puppet' = [q \in Conn |-> IF q \in Unpuppeted(Q, S) THEN None ELSE puppet[q]]
<1> DEFINE S == Unplayered(Q, D)
<1>1. S \in SUBSET Character
  BY DEF Unplayered
<1>2. ASSUME NEW T \in SUBSET Character, Settled(Q, D, T)  PROVE S \subseteq T
  BY <1>2 DEF Unplayered
<1>3. Settled(Q, D, S)
  <2>1. D \subseteq S
    BY DEF Unplayered, Settled
  <2>2. ASSUME NEW c \in Character, player[c] \in Unpuppeted(Q, S)  PROVE c \in S
    <3>1. SUFFICES ASSUME NEW T \in SUBSET Character, Settled(Q, D, T)  PROVE c \in T
      BY DEF Unplayered
    <3>2. Unpuppeted(Q, S) \subseteq Unpuppeted(Q, T)
      BY <1>2, <3>1 DEF Unpuppeted
    <3> QED  BY <2>2, <3>1, <3>2 DEF Settled
  <2> QED  BY <2>1, <2>2 DEF Settled
<1> QED  BY <1>1, <1>2, <1>3 DEF Detach

\* Detaching keeps the links typed, and those that are left point both ways as
\* far as NoDangling asks.
LEMMA DetachKeeps ==
  ASSUME TypeOK, NoDangling, NEW Q \in SUBSET Conn, NEW D \in SUBSET Character, Detach(Q, D)
  PROVE  /\ player' \in [Character -> Conn \cup {None}]
         /\ puppet' \in [Conn -> Character \cup {None}]
         /\ \A q \in Q : puppet'[q] = None
         /\ \A d \in D : player'[d] = None
         /\ \A c \in Character : player'[c] # None =>
              player'[c] = player[c] /\ puppet'[player[c]] = c
         /\ \A q \in Conn : puppet'[q] # None =>
              puppet'[q] = puppet[q] /\ player'[puppet[q]] = player[puppet[q]]
<1> DEFINE S == Unplayered(Q, D)
<1>1. /\ S \in SUBSET Character
      /\ Settled(Q, D, S)
      /\ player' = [c \in Character |-> IF c \in S THEN None ELSE player[c]]
      /\ puppet' = [q \in Conn |-> IF q \in Unpuppeted(Q, S) THEN None ELSE puppet[q]]
  BY DetachFacts
<1> HIDE DEF S
<1>2. /\ player \in [Character -> Conn \cup {None}]
      /\ puppet \in [Conn -> Character \cup {None}]
      /\ None \notin Conn /\ None \notin Character
  BY SessionsAssumption DEF TypeOK
<1>3. Q \subseteq Unpuppeted(Q, S) /\ D \subseteq S
  BY <1>1 DEF Unpuppeted, Settled
<1>4. ASSUME NEW c \in Character, player'[c] # None
      PROVE  player'[c] = player[c] /\ puppet'[player[c]] = c
  <2>1. c \notin S /\ player'[c] = player[c] /\ player[c] \in Conn
    BY <1>1, <1>2, <1>4
  <2>2. puppet[player[c]] = c
    BY <1>4, <2>1 DEF NoDangling
  <2>3. player[c] \notin Unpuppeted(Q, S)
    BY <1>1, <2>1 DEF Settled
  <2> QED  BY <1>1, <2>1, <2>2, <2>3
<1>5. ASSUME NEW q \in Conn, puppet'[q] # None
      PROVE  puppet'[q] = puppet[q] /\ player'[puppet[q]] = player[puppet[q]]
  <2>1. q \notin Unpuppeted(Q, S) /\ puppet'[q] = puppet[q] /\ puppet[q] \in Character
    BY <1>1, <1>2, <1>5
  <2>2. puppet[q] \notin S
    BY <2>1 DEF Unpuppeted
  <2> QED  BY <1>1, <2>1, <2>2
<1>6. /\ player' \in [Character -> Conn \cup {None}]
      /\ puppet' \in [Conn -> Character \cup {None}]
  BY <1>1, <1>2
<1>7. (\A q \in Q : puppet'[q] = None) /\ (\A d \in D : player'[d] = None)
  BY <1>1, <1>3
<1> QED  BY <1>4, <1>5, <1>6, <1>7

\* While every Puppet points back, only the puppets of Q are touched.
LEMMA DetachCalm ==
  ASSUME TypeOK, PuppetPointsBack, NEW Q \in SUBSET Conn, Detach(Q, {})
  PROVE  \A q \in Conn \ Q : puppet'[q] = puppet[q]
<1> DEFINE S == Unplayered(Q, {})
<1>1. /\ \A T \in SUBSET Character : Settled(Q, {}, T) => S \subseteq T
      /\ puppet' = [q \in Conn |-> IF q \in Unpuppeted(Q, S) THEN None ELSE puppet[q]]
  BY DetachFacts
<1> HIDE DEF S
<1> DEFINE T == {c \in Character : player[c] \in Q}
<1>2. ASSUME NEW q \in Conn, puppet[q] \in T  PROVE q \in Q
  BY <1>2, SessionsAssumption DEF PuppetPointsBack
<1>3. Settled(Q, {}, T)
  BY <1>2 DEF Settled, Unpuppeted
<1>4. S \subseteq T
  BY <1>1, <1>3
<1> QED  BY <1>1, <1>2, <1>4 DEF Unpuppeted

-----------------------------------------------------------------------------
(* The inductive step.                                                     *)

LEMMA InitIInv == Init => IInv
<1> SUFFICES ASSUME Init  PROVE IInv
  OBVIOUS
<1>1. TypeOK
  <2>1. /\ stage \in [Conn -> Connected \cup {"unborn", "dead"}]
        /\ name \in [Conn -> Name \cup {None}]
        /\ users \in [Name -> Character \cup {None}]
    BY DEF Init
  <2>2. char \in [Character -> {"unborn", "alive", "dead"}]
    BY DEF Init
  <2>3. /\ player \in [Character -> Conn \cup {None}]
        /\ puppet \in [Conn -> Character \cup {None}]
    BY DEF Init
  <2>4. /\ phase = "pre" /\ batch = <<>> /\ panic = "none" /\ unloading = "before"
        /\ live \subseteq Character /\ polled = {} /\ unload = {}
        /\ stolen = FALSE /\ removed = FALSE
    BY DEF Init
  <2>5. <<>> \in Seq(Conn)
    OBVIOUS
  <2> QED  BY <2>1, <2>2, <2>3, <2>4, <2>5, Zenon DEF TypeOK
<1>2. NoDangling /\ Asked
  BY SessionsAssumption DEF Init, NoDangling, Asked
<1>3. Calm
  BY DEF Init, Calm, PuppetPointsBack, Alive
<1> QED  BY <1>1, <1>2, <1>3 DEF IInv

\* A connection that goes away takes its links with it.
LEMMA RemoveConnKeeps ==
  ASSUME TypeOK, NoDangling, NEW p \in Conn, RemoveConn(p)
  PROVE  /\ stage' \in [Conn -> Connected \cup {"unborn", "dead"}]
         /\ name' \in [Conn -> Name \cup {None}]
         /\ player' \in [Character -> Conn \cup {None}]
         /\ puppet' \in [Conn -> Character \cup {None}]
         /\ NoDangling'
         /\ PuppetPointsBack =>
              PuppetPointsBack' /\ \A q \in Conn \ {p} : puppet'[q] = puppet[q]
<1> DEFINE Q == IF puppet[p] # None THEN {p} ELSE {}
<1>1. Q \in SUBSET Conn /\ Detach(Q, {})
  BY DEF RemoveConn
<1>2. /\ player' \in [Character -> Conn \cup {None}]
      /\ puppet' \in [Conn -> Character \cup {None}]
      /\ \A q \in Q : puppet'[q] = None
      /\ \A c \in Character : player'[c] # None =>
           player'[c] = player[c] /\ puppet'[player[c]] = c
      /\ \A q \in Conn : puppet'[q] # None =>
           puppet'[q] = puppet[q] /\ player'[puppet[q]] = player[puppet[q]]
  BY <1>1, DetachKeeps
<1>3. stage' \in [Conn -> Connected \cup {"unborn", "dead"}] /\ name' \in [Conn -> Name \cup {None}]
  BY DEF RemoveConn, TypeOK
<1>4. puppet'[p] = None
  BY <1>2, SessionsAssumption DEF TypeOK
<1>5. \A q \in Conn : q # p => stage'[q] = stage[q]
  BY DEF RemoveConn, TypeOK
<1>6. ASSUME NEW c \in Character, player'[c] # None
      PROVE  char'[c] = "alive" /\ stage'[player'[c]] = "session" /\ puppet'[player'[c]] = c
  <2>1. player[c] # None /\ player'[c] = player[c] /\ puppet'[player[c]] = c /\ player[c] \in Conn
    BY <1>2, <1>6 DEF TypeOK
  <2>2. player[c] # p
    BY <1>4, <2>1, SessionsAssumption
  <2> QED  BY <1>5, <2>1, <2>2 DEF NoDangling, RemoveConn, bodies, Alive
<1>7. ASSUME NEW q \in Conn, puppet'[q] # None
      PROVE  stage'[q] = "session" /\ char'[puppet'[q]] = "alive" /\ player'[puppet'[q]] # None
  <2>1. puppet'[q] = puppet[q] /\ puppet[q] # None /\ q # p
    BY <1>2, <1>4, <1>7
  <2>2. stage[q] = "session" /\ char[puppet[q]] = "alive" /\ player[puppet[q]] # None
    BY <2>1 DEF NoDangling, Alive
  <2>3. char' = char
    BY DEF RemoveConn, bodies
  <2> QED  BY <1>2, <1>5, <1>7, <2>1, <2>2, <2>3
<1>8. NoDangling'
  BY <1>6, <1>7 DEF NoDangling, Alive
<1>9. ASSUME PuppetPointsBack
      PROVE  PuppetPointsBack' /\ \A q \in Conn \ {p} : puppet'[q] = puppet[q]
  <2>1. \A q \in Conn \ Q : puppet'[q] = puppet[q]
    BY <1>1, <1>9, DetachCalm
  <2>2. PuppetPointsBack'
    BY <1>2, <1>9 DEF PuppetPointsBack
  <2> QED  BY <2>1, <2>2
<1> QED  BY <1>2, <1>3, <1>8, <1>9

\* So does a character.
LEMMA RemoveCharacterKeeps ==
  ASSUME TypeOK, NoDangling, NEW c \in Character, RemoveCharacter(c)
  PROVE  /\ char' \in [Character -> {"unborn", "alive", "dead"}]
         /\ live' \subseteq Character
         /\ player' \in [Character -> Conn \cup {None}]
         /\ puppet' \in [Conn -> Character \cup {None}]
         /\ NoDangling'
<1> DEFINE D == IF player[c] # None THEN {c} ELSE {}
<1>1. D \in SUBSET Character /\ Detach({}, D)
  BY DEF RemoveCharacter
<1>2. /\ player' \in [Character -> Conn \cup {None}]
      /\ puppet' \in [Conn -> Character \cup {None}]
      /\ \A d \in D : player'[d] = None
      /\ \A d \in Character : player'[d] # None =>
           player'[d] = player[d] /\ puppet'[player[d]] = d
      /\ \A q \in Conn : puppet'[q] # None =>
           puppet'[q] = puppet[q] /\ player'[puppet[q]] = player[puppet[q]]
  BY <1>1, DetachKeeps
<1>3. char' \in [Character -> {"unborn", "alive", "dead"}] /\ live' \subseteq Character
  BY DEF RemoveCharacter, TypeOK
<1>4. player'[c] = None
  BY <1>2
<1>5. \A d \in Character : d # c /\ Alive(d) => char'[d] = "alive"
  BY DEF RemoveCharacter, TypeOK, Alive
<1>6. stage' = stage
  BY DEF RemoveCharacter, logins
<1>7. ASSUME NEW d \in Character, player'[d] # None
      PROVE  char'[d] = "alive" /\ stage'[player'[d]] = "session" /\ puppet'[player'[d]] = d
  <2>1. player[d] # None /\ player'[d] = player[d] /\ puppet'[player[d]] = d /\ d # c
    BY <1>2, <1>4, <1>7
  <2> QED  BY <1>5, <1>6, <2>1 DEF NoDangling
<1>8. ASSUME NEW q \in Conn, puppet'[q] # None
      PROVE  stage'[q] = "session" /\ char'[puppet'[q]] = "alive" /\ player'[puppet'[q]] # None
  <2>1. puppet'[q] = puppet[q] /\ puppet[q] # None /\ puppet[q] \in Character
    BY <1>2, <1>8 DEF TypeOK
  <2>2. stage[q] = "session" /\ Alive(puppet[q]) /\ player[puppet[q]] # None
    BY <2>1 DEF NoDangling
  <2>3. player'[puppet[q]] # None
    BY <1>2, <1>8, <2>2
  <2>4. puppet[q] # c
    BY <1>4, <2>3
  <2>5. char'[puppet[q]] = "alive"
    BY <1>5, <2>1, <2>2, <2>4
  <2> QED  BY <1>6, <2>1, <2>2, <2>3, <2>5
<1> QED  BY <1>2, <1>3, <1>7, <1>8 DEF NoDangling, Alive

\* The commands that are left are commands that were there.
LEMMA TailFacts ==
  ASSUME batch \in Seq(Conn), batch # <<>>
  PROVE  /\ Head(batch) \in Conn /\ 1 \in DOMAIN batch /\ Head(batch) = batch[1]
         /\ Tail(batch) \in Seq(Conn)
         /\ \A i \in DOMAIN Tail(batch) :
              i + 1 \in DOMAIN batch /\ Tail(batch)[i] = batch[i + 1]
OBVIOUS

\* NoDangling speaks of the stages, the bodies and the links only.
LEMMA SameLinks == NoDangling /\ UNCHANGED <<stage, char, links>> => NoDangling'
  BY DEF NoDangling, Alive, links

\* Only sessions have links.
LEMMA NotLinked ==
  ASSUME TypeOK, NoDangling, NEW p \in Conn, stage[p] # "session"
  PROVE  puppet[p] = None /\ \A d \in Character : player[d] # p
<1>1. puppet[p] = None
  BY DEF NoDangling
<1>2. ASSUME NEW d \in Character, player[d] = p  PROVE FALSE
  <2>1. player[d] # None
    BY <1>2, SessionsAssumption
  <2>2. stage[player[d]] = "session"
    BY <2>1 DEF NoDangling
  <2> QED  BY <1>2, <2>2
<1> QED  BY <1>1, <1>2

\* So a connection without one can be moved to another stage.
LEMMA OtherStage ==
  ASSUME TypeOK, NoDangling, NEW p \in Conn, stage[p] # "session", NEW s,
         stage' = [stage EXCEPT ![p] = s], UNCHANGED <<char, links>>
  PROVE  NoDangling'
<1>1. puppet[p] = None /\ \A d \in Character : player[d] # p
  BY NotLinked
<1>2. char' = char /\ player' = player /\ puppet' = puppet
  BY DEF links
<1>3. \A q \in Conn : q # p => stage'[q] = stage[q]
  BY DEF TypeOK
<1>4. ASSUME NEW d \in Character, player'[d] # None
      PROVE  char'[d] = "alive" /\ stage'[player'[d]] = "session" /\ puppet'[player'[d]] = d
  <2>1. player[d] \in Conn /\ player[d] # p /\ player[d] # None
    BY <1>1, <1>2, <1>4 DEF TypeOK
  <2>2. stage[player[d]] = "session" /\ char[d] = "alive" /\ puppet[player[d]] = d
    BY <2>1 DEF NoDangling, Alive
  <2> QED  BY <1>2, <1>3, <2>1, <2>2
<1>5. ASSUME NEW q \in Conn, puppet'[q] # None
      PROVE  stage'[q] = "session" /\ char'[puppet'[q]] = "alive" /\ player'[puppet'[q]] # None
  <2>1. q # p /\ stage[q] = "session" /\ char[puppet[q]] = "alive" /\ player[puppet[q]] # None
    BY <1>1, <1>2, <1>5 DEF NoDangling, Alive
  <2> QED  BY <1>2, <1>3, <2>1
<1> QED  BY <1>4, <1>5 DEF NoDangling, Alive

\* A connection that is being asked takes control of a character.
LEMMA ControlKeeps ==
  ASSUME TypeOK, NoDangling, NEW p \in Conn, NEW c \in Character,
         stage[p] \in LoginStages, Control(p, c),
         char' \in [Character -> {"unborn", "alive", "dead"}], char'[c] = "alive",
         \A d \in Character : Alive(d) => char'[d] = "alive"
  PROVE  /\ stage' = [stage EXCEPT ![p] = "session"]
         /\ name' \in [Conn -> Name \cup {None}]
         /\ player' \in [Character -> Conn \cup {None}]
         /\ puppet' \in [Conn -> Character \cup {None}]
         /\ NoDangling'
         /\ puppet' = [puppet EXCEPT ![p] = c]
         /\ PuppetPointsBack /\ player[c] = None => PuppetPointsBack'
<1>1. /\ stage' = [stage EXCEPT ![p] = "session"]
      /\ name' = [name EXCEPT ![p] = None]
      /\ player' = [player EXCEPT ![c] = p]
      /\ puppet' = [puppet EXCEPT ![p] = c]
  BY DEF Control, LogsInTo
<1>2. p # None /\ c # None /\ stage[p] # "session"
  BY SessionsAssumption DEF LoginStages
<1>3. /\ name' \in [Conn -> Name \cup {None}]
      /\ player' \in [Character -> Conn \cup {None}]
      /\ puppet' \in [Conn -> Character \cup {None}]
  BY <1>1 DEF TypeOK
<1>4. puppet[p] = None /\ \A d \in Character : player[d] # p
  BY <1>2, NotLinked
<1>5. ASSUME NEW d \in Character, player'[d] # None
      PROVE  char'[d] = "alive" /\ stage'[player'[d]] = "session" /\ puppet'[player'[d]] = d
  <2>1. CASE d = c
    BY <1>1, <1>2, <2>1 DEF TypeOK
  <2>2. CASE d # c
    <3>1. player'[d] = player[d] /\ player[d] \in Conn /\ player[d] # p
      BY <1>1, <1>4, <1>5, <2>2 DEF TypeOK
    <3>2. Alive(d) /\ stage[player[d]] = "session" /\ puppet[player[d]] = d
      BY <1>5, <3>1 DEF NoDangling
    <3>3. stage'[player[d]] = stage[player[d]] /\ puppet'[player[d]] = puppet[player[d]]
      BY <1>1, <3>1 DEF TypeOK
    <3>4. char'[d] = "alive"
      BY <3>2
    <3> QED  BY <3>1, <3>2, <3>3, <3>4
  <2> QED  BY <2>1, <2>2
<1>6. ASSUME NEW q \in Conn, puppet'[q] # None
      PROVE  stage'[q] = "session" /\ char'[puppet'[q]] = "alive" /\ player'[puppet'[q]] # None
  <2>1. CASE q = p
    BY <1>1, <1>2, <2>1 DEF TypeOK
  <2>2. CASE q # p
    <3>1. puppet'[q] = puppet[q] /\ puppet[q] # None /\ puppet[q] \in Character
      BY <1>1, <1>6, <2>2 DEF TypeOK
    <3>2. stage[q] = "session" /\ Alive(puppet[q]) /\ player[puppet[q]] # None
      BY <3>1 DEF NoDangling
    <3> QED  BY <1>1, <1>2, <2>2, <3>1, <3>2 DEF TypeOK
  <2> QED  BY <2>1, <2>2
<1>7. NoDangling'
  BY <1>5, <1>6 DEF NoDangling, Alive
<1>8. ASSUME PuppetPointsBack, player[c] = None  PROVE PuppetPointsBack'
  <2>1. SUFFICES ASSUME NEW q \in Conn, puppet'[q] # None  PROVE player'[puppet'[q]] = q
    BY DEF PuppetPointsBack
  <2>2. CASE q = p
    BY <1>1, <2>2 DEF TypeOK
  <2>3. CASE q # p
    <3>1. puppet'[q] = puppet[q] /\ puppet[q] # None /\ player[puppet[q]] = q
      BY <1>1, <1>8, <2>1, <2>3 DEF TypeOK, PuppetPointsBack
    <3>2. puppet[q] # c /\ puppet[q] \in Character
      BY <1>8, <3>1, SessionsAssumption DEF TypeOK
    <3> QED  BY <1>1, <3>1, <3>2 DEF TypeOK
  <2> QED  BY <2>2, <2>3
<1> QED  BY <1>1, <1>3, <1>7, <1>8

LEMMA StepIInv == IInv /\ [Next]_vars => IInv'
<1> SUFFICES ASSUME IInv, [Next]_vars  PROVE IInv'
  OBVIOUS
<1> USE DEF logins, bodies, links, deferred, history
<1>t. TypeOK /\ NoDangling /\ Asked /\ Calm
  BY DEF IInv
<1>1. CASE ReadCommands
  <2>1. TypeOK'
    <3>1. \A n \in 0..MaxBatch : \A calls \in [1..n -> {p \in Conn : stage[p] = "session"}] :
            calls \in Seq(Conn)
      BY SessionsAssumption
    <3>2. batch' \in Seq(Conn)
      BY <1>1, <3>1 DEF ReadCommands
    <3> QED  BY <1>t, <1>1, <3>2 DEF ReadCommands, TypeOK
  <2>2. NoDangling'
    BY <1>t, <1>1, SameLinks DEF ReadCommands
  <2>3. Asked'
    BY <1>t, <1>1, SessionsAssumption DEF ReadCommands, TypeOK, Asked, Connected, LoginStages
  <2>4. Calm'
    BY <1>t, <1>1, SessionsAssumption DEF ReadCommands, TypeOK, Calm, PuppetPointsBack, Alive, Asked, NoDangling
  <2> QED  BY <2>1, <2>2, <2>3, <2>4 DEF IInv
<1>2. CASE RunQuiet
  <2>1. TypeOK'
    BY <1>t, <1>2, TailFacts DEF RunQuiet, Calling, TypeOK
  <2>2. NoDangling'
    BY <1>t, <1>2, SameLinks DEF RunQuiet, Calling
  <2>3. Asked'
    BY <1>t, <1>2, SessionsAssumption DEF RunQuiet, Calling, TypeOK, Asked, Connected, LoginStages
  <2>4. Calm'
    <3>1. \A i \in DOMAIN batch' : i + 1 \in DOMAIN batch /\ batch'[i] = batch[i + 1]
      BY <1>t, <1>2, TailFacts DEF RunQuiet, Calling, TypeOK
    <3>2. Caller \in Conn /\ 1 \in DOMAIN batch /\ Caller = batch[1]
      BY <1>t, <1>2, TailFacts DEF RunQuiet, Calling, Caller, TypeOK
    <3>3. /\ phase' = phase /\ stage' = stage /\ users' = users /\ char' = char
          /\ puppet' = puppet /\ player' = player
          /\ stolen' = stolen /\ removed' = removed
      BY <1>2 DEF RunQuiet
    <3>4. Calm /\ ~stolen /\ ~removed => panic' = "none"
      BY <1>2, <3>2 DEF RunQuiet, Calm, IsConnected, Connected
    <3>5. (\A i \in DOMAIN batch : stage[batch[i]] = "session") =>
            \A i \in DOMAIN batch' : stage'[batch'[i]] = "session"
      BY <3>1, <3>3
    <3> QED  BY <1>t, <3>3, <3>4, <3>5 DEF Calm, PuppetPointsBack, Alive
  <2> QED  BY <2>1, <2>2, <2>3, <2>4 DEF IInv
<1>3. CASE RunMove
  <2>1. TypeOK'
    BY <1>t, <1>3, TailFacts DEF RunMove, Calling, TypeOK
  <2>2. NoDangling'
    BY <1>t, <1>3, SameLinks DEF RunMove, Calling
  <2>3. Asked'
    BY <1>t, <1>3, SessionsAssumption DEF RunMove, Calling, TypeOK, Asked, Connected, LoginStages
  <2>4. Calm'
    <3>1. \A i \in DOMAIN batch' : i + 1 \in DOMAIN batch /\ batch'[i] = batch[i + 1]
      BY <1>t, <1>3, TailFacts DEF RunMove, Calling, TypeOK
    <3>2. Caller \in Conn /\ 1 \in DOMAIN batch /\ Caller = batch[1]
      BY <1>t, <1>3, TailFacts DEF RunMove, Calling, Caller, TypeOK
    <3>3. /\ phase' = phase /\ stage' = stage /\ users' = users /\ char' = char
          /\ puppet' = puppet /\ player' = player
          /\ stolen' = stolen /\ removed' = removed
      BY <1>3 DEF RunMove
    <3>4. Calm /\ ~stolen /\ ~removed => panic' = "none"
      BY <1>3, <3>2 DEF RunMove, Calm
    <3>5. (\A i \in DOMAIN batch : stage[batch[i]] = "session") =>
            \A i \in DOMAIN batch' : stage'[batch'[i]] = "session"
      BY <3>1, <3>3
    <3> QED  BY <1>t, <3>3, <3>4, <3>5 DEF Calm, PuppetPointsBack, Alive
  <2> QED  BY <2>1, <2>2, <2>3, <2>4 DEF IInv
<1>4. CASE CommandsDone
  <2>1. TypeOK'
    BY <1>t, <1>4, SessionsAssumption DEF CommandsDone, TypeOK
  <2>2. NoDangling'
    BY <1>t, <1>4, SameLinks DEF CommandsDone
  <2>3. Asked'
    BY <1>t, <1>4, SessionsAssumption DEF CommandsDone, TypeOK, Asked, Connected, LoginStages
  <2>4. Calm'
    BY <1>t, <1>4, SessionsAssumption DEF CommandsDone, TypeOK, Calm, PuppetPointsBack, Alive, Asked, NoDangling
  <2> QED  BY <2>1, <2>2, <2>3, <2>4 DEF IInv
<1>5. ASSUME NEW p \in Conn, RunDespawnConn(p)  PROVE IInv'
  <2>0. RemoveConn(p)
    BY <1>5 DEF RunDespawnConn
  <2>1. TypeOK'
    BY <1>t, <1>5, <2>0, RemoveConnKeeps, TailFacts DEF RunDespawnConn, RemoveConn, Calling, TypeOK
  <2>2. NoDangling'
    BY <1>t, <2>0, RemoveConnKeeps
  <2>3. Asked'
    <3>1. stage' = [stage EXCEPT ![p] = "dead"] /\ users' = users
          /\ \A q \in Conn : q # p => name'[q] = name[q]
      BY <1>t, <2>0 DEF RemoveConn, TypeOK
    <3>2. \A q \in Conn : stage'[q] \in {"password", "newpass", "confirm"} =>
            stage'[q] = stage[q] /\ name'[q] = name[q]
      BY <1>t, <3>1 DEF TypeOK
    <3>3. phase' = "batch"
      BY <1>5 DEF RunDespawnConn, Calling
    <3> QED  BY <1>t, <3>1, <3>2, <3>3 DEF Asked
  <2>4. Calm'
    BY <1>5 DEF RunDespawnConn, Calm
  <2> QED  BY <2>1, <2>2, <2>3, <2>4 DEF IInv
<1>6. ASSUME NEW c \in Character, RunDespawnCharacter(c)  PROVE IInv'
  <2>0. RemoveCharacter(c)
    BY <1>6 DEF RunDespawnCharacter
  <2>1. TypeOK'
    BY <1>t, <1>6, <2>0, RemoveCharacterKeeps, TailFacts
       DEF RunDespawnCharacter, RemoveCharacter, Calling, TypeOK
  <2>2. NoDangling'
    BY <1>t, <2>0, RemoveCharacterKeeps
  <2>3. Asked'
    BY <1>t, <1>6, <2>0 DEF RunDespawnCharacter, RemoveCharacter, Calling, Asked
  <2>4. Calm'
    BY <1>6 DEF RunDespawnCharacter, Calm
  <2> QED  BY <2>1, <2>2, <2>3, <2>4 DEF IInv
<1>7. ASSUME NEW p \in Conn, NewConn(p)  PROVE IInv'
  <2>1. TypeOK'
    BY <1>t, <1>7 DEF NewConn, Updating, TypeOK, Connected, LoginStages
  <2>2. NoDangling'
    <3>1. stage[p] # "session" /\ stage' = [stage EXCEPT ![p] = "start"]
      BY <1>7 DEF NewConn
    <3>2. UNCHANGED <<char, links>>
      BY <1>7 DEF NewConn
    <3> QED  BY <1>t, <3>1, <3>2, OtherStage
  <2>3. Asked'
    BY <1>t, <1>7 DEF NewConn, TypeOK, Asked
  <2>4. Calm'
    BY <1>t, <1>7 DEF NewConn, Updating, TypeOK, Asked, Calm, PuppetPointsBack, Alive
  <2> QED  BY <2>1, <2>2, <2>3, <2>4 DEF IInv
<1>8. ASSUME NEW p \in Conn, AskName(p)  PROVE IInv'
  <2>1. TypeOK'
    BY <1>t, <1>8 DEF AskName, LogsInTo, Visit, Updating, TypeOK, Connected, LoginStages
  <2>2. NoDangling'
    <3>1. stage[p] # "session" /\ stage' = [stage EXCEPT ![p] = "username"]
      BY <1>8 DEF AskName, LogsInTo, Visit
    <3>2. UNCHANGED <<char, links>>
      BY <1>8 DEF AskName
    <3> QED  BY <1>t, <3>1, <3>2, OtherStage
  <2>3. Asked'
    BY <1>t, <1>8, SessionsAssumption DEF AskName, LogsInTo, Visit, TypeOK, Asked
  <2>4. Calm'
    BY <1>t, <1>8 DEF AskName, LogsInTo, Visit, Updating, TypeOK, Asked, Calm, PuppetPointsBack, Alive
  <2> QED  BY <2>1, <2>2, <2>3, <2>4 DEF IInv
<1>9. ASSUME NEW p \in Conn, EnterNewPassword(p)  PROVE IInv'
  <2>1. TypeOK'
    BY <1>t, <1>9 DEF EnterNewPassword, LogsInTo, Visit, Updating, TypeOK, Connected, LoginStages
  <2>2. NoDangling'
    <3>1. stage[p] # "session" /\ stage' = [stage EXCEPT ![p] = "confirm"]
      BY <1>9 DEF EnterNewPassword, LogsInTo, Visit
    <3>2. UNCHANGED <<char, links>>
      BY <1>9 DEF EnterNewPassword
    <3> QED  BY <1>t, <3>1, <3>2, OtherStage
  <2>3. Asked'
    BY <1>t, <1>9, SessionsAssumption DEF EnterNewPassword, LogsInTo, Visit, TypeOK, Asked
  <2>4. Calm'
    BY <1>t, <1>9 DEF EnterNewPassword, LogsInTo, Visit, Updating, TypeOK, Asked, Calm, PuppetPointsBack, Alive
  <2> QED  BY <2>1, <2>2, <2>3, <2>4 DEF IInv
<1>10. ASSUME NEW p \in Conn, NEW at \in {"password", "confirm"}, Restart(p, at)  PROVE IInv'
  <2>1. TypeOK'
    BY <1>t, <1>10 DEF Restart, LogsInTo, Visit, Updating, TypeOK, Connected, LoginStages
  <2>2. NoDangling'
    <3>1. stage[p] # "session" /\ stage' = [stage EXCEPT ![p] = "start"]
      BY <1>10 DEF Restart, LogsInTo, Visit
    <3>2. UNCHANGED <<char, links>>
      BY <1>10 DEF Restart
    <3> QED  BY <1>t, <3>1, <3>2, OtherStage
  <2>3. Asked'
    BY <1>t, <1>10, SessionsAssumption DEF Restart, LogsInTo, Visit, TypeOK, Asked
  <2>4. Calm'
    BY <1>t, <1>10 DEF Restart, LogsInTo, Visit, Updating, TypeOK, Asked, Calm, PuppetPointsBack, Alive
  <2> QED  BY <2>1, <2>2, <2>3, <2>4 DEF IInv
<1>11. ASSUME NEW p \in Conn, NEW n \in Name, EnterName(p, n)  PROVE IInv'
  <2>1. TypeOK'
    BY <1>t, <1>11 DEF EnterName, LogsInTo, Visit, Updating, TypeOK, Connected, LoginStages
  <2>2. NoDangling'
    <3>1. stage[p] # "session" /\ stage' = [stage EXCEPT ![p] = IF users[n] # None THEN "password" ELSE "newpass"]
      BY <1>11 DEF EnterName, LogsInTo, Visit
    <3>2. UNCHANGED <<char, links>>
      BY <1>11 DEF EnterName
    <3> QED  BY <1>t, <3>1, <3>2, OtherStage
  <2>3. Asked'
    BY <1>t, <1>11, SessionsAssumption DEF EnterName, LogsInTo, Visit, TypeOK, Asked
  <2>4. Calm'
    BY <1>t, <1>11 DEF EnterName, LogsInTo, Visit, Updating, TypeOK, Asked, Calm, PuppetPointsBack, Alive
  <2> QED  BY <2>1, <2>2, <2>3, <2>4 DEF IInv
<1>12. ASSUME NEW p \in Conn, Login(p)  PROVE IInv'
  <2> DEFINE c == users[name[p]]
  <2>0. /\ c \in Character /\ Alive(c) /\ stage[p] = "password" /\ name[p] \in Name
        /\ Control(p, c) /\ char' = char /\ users' = users /\ live' = live \cup {c}
        /\ batch' = batch /\ phase' = phase /\ panic' = panic /\ phase = "update"
        /\ deferred' = deferred /\ polled' = polled \cup {p} /\ removed' = removed
        /\ stolen' = (stolen \/ player[c] # None)
    BY <1>t, <1>12 DEF Login, Visit, Updating, Asked, TypeOK
  <2> HIDE DEF c
  <2>a. /\ stage' = [stage EXCEPT ![p] = "session"]
        /\ name' \in [Conn -> Name \cup {None}]
        /\ player' \in [Character -> Conn \cup {None}]
        /\ puppet' \in [Conn -> Character \cup {None}]
        /\ NoDangling'
        /\ puppet' = [puppet EXCEPT ![p] = c]
        /\ PuppetPointsBack /\ player[c] = None => PuppetPointsBack'
    BY <1>t, <2>0, ControlKeeps DEF LoginStages, TypeOK, Alive
  <2>1. TypeOK'
    BY <1>t, <2>0, <2>a DEF TypeOK, Connected
  <2>3. Asked'
    <3>1. name' = [name EXCEPT ![p] = None]
      BY <2>0 DEF Control, LogsInTo
    <3> QED  BY <1>t, <2>0, <2>a, <3>1 DEF TypeOK, Asked
  <2>4. Calm'
    <3>1. c # None /\ batch = <<>>
      BY <1>t, <2>0, SessionsAssumption DEF Asked
    <3>2. SUFFICES ASSUME ~stolen', ~removed'
                   PROVE  /\ panic' = "none"
                          /\ \A q \in Conn : stage'[q] = "session" => puppet'[q] # None
                          /\ PuppetPointsBack'
                          /\ \A n \in Name : users'[n] # None => char'[users'[n]] = "alive"
                          /\ \A i \in DOMAIN batch' : stage'[batch'[i]] = "session"
      BY DEF Calm, Alive
    <3>3. ~stolen /\ ~removed /\ player[c] = None
      BY <2>0, <3>2
    <3>4. \A q \in Conn : stage'[q] = "session" => puppet'[q] # None
      BY <1>t, <2>0, <2>a, <3>1, <3>3 DEF TypeOK, Calm
    <3>5. \A n \in Name : users'[n] # None => char'[users'[n]] = "alive"
      BY <1>t, <2>0, <3>3 DEF Calm, Alive
    <3> QED  BY <1>t, <2>0, <2>a, <3>1, <3>3, <3>4, <3>5 DEF Calm
  <2> QED  BY <2>1, <2>a, <2>3, <2>4 DEF IInv
<1>13. ASSUME NEW p \in Conn, LoginFails(p)  PROVE IInv'
  <2>1. TypeOK'
    BY <1>t, <1>13 DEF LoginFails, Visit, TypeOK
  <2>2. NoDangling'
    BY <1>t, <1>13, SameLinks DEF LoginFails
  <2>3. Asked'
    BY <1>t, <1>13 DEF LoginFails, Asked
  <2>4. Calm'
    BY <1>t, <1>13 DEF LoginFails, Visit, Calm, Asked
  <2> QED  BY <2>1, <2>2, <2>3, <2>4 DEF IInv
<1>14. ASSUME NEW p \in Conn, NEW c \in Character, CreateAccount(p, c)  PROVE IInv'
  <2>0. /\ char[c] = "unborn" /\ stage[p] = "confirm" /\ name[p] \in Name
        /\ Control(p, c) /\ char' = [char EXCEPT ![c] = "alive"]
        /\ users' = [users EXCEPT ![name[p]] = c] /\ live' = live
        /\ batch' = batch /\ phase' = phase /\ panic' = panic /\ phase = "update"
        /\ deferred' = deferred /\ polled' = polled \cup {p}
        /\ removed' = removed /\ stolen' = stolen
    BY <1>t, <1>14 DEF CreateAccount, Visit, Updating, Asked
  <2>a. /\ stage' = [stage EXCEPT ![p] = "session"]
        /\ name' \in [Conn -> Name \cup {None}]
        /\ player' \in [Character -> Conn \cup {None}]
        /\ puppet' \in [Conn -> Character \cup {None}]
        /\ NoDangling'
        /\ puppet' = [puppet EXCEPT ![p] = c]
        /\ PuppetPointsBack /\ player[c] = None => PuppetPointsBack'
    BY <1>t, <2>0, ControlKeeps DEF LoginStages, TypeOK, Alive
  <2>b. c # None /\ player[c] = None
    BY <1>t, <2>0, SessionsAssumption DEF NoDangling, Alive
  <2>1. TypeOK'
    BY <1>t, <1>14, <2>0, <2>a DEF TypeOK, Connected
  <2>3. Asked'
    <3>1. name' = [name EXCEPT ![p] = None]
      BY <2>0 DEF Control, LogsInTo
    <3> QED  BY <1>t, <2>0, <2>a, <2>b, <3>1 DEF TypeOK, Asked
  <2>4. Calm'
    <3>1. batch = <<>>
      BY <1>t, <2>0 DEF Asked
    <3> QED  BY <1>t, <2>0, <2>a, <2>b, <3>1 DEF TypeOK, Calm, Alive
  <2> QED  BY <2>1, <2>a, <2>3, <2>4 DEF IInv
<1>15. ASSUME NEW p \in Conn, Reap(p)  PROVE IInv'
  <2>0. RemoveConn(p)
    BY <1>15 DEF Reap
  <2>1. TypeOK'
    BY <1>t, <1>15, <2>0, RemoveConnKeeps DEF Reap, RemoveConn, TypeOK
  <2>2. NoDangling'
    BY <1>t, <2>0, RemoveConnKeeps
  <2>3. Asked'
    BY <1>t, <1>15, <2>0, SessionsAssumption DEF Reap, RemoveConn, TypeOK, Asked
  <2>4. Calm'
    <3>1. batch' = <<>>
      BY <1>t, <1>15 DEF Reap, Asked
    <3>2. PuppetPointsBack =>
            PuppetPointsBack' /\ \A q \in Conn \ {p} : puppet'[q] = puppet[q]
      BY <1>t, <2>0, RemoveConnKeeps
    <3>3. \A q \in Conn : stage'[q] = "session" => q # p /\ stage[q] = "session"
      BY <1>t, <2>0 DEF RemoveConn, TypeOK
    <3> QED  BY <1>t, <1>15, <2>0, <3>1, <3>2, <3>3 DEF Reap, RemoveConn, Calm, Alive
  <2> QED  BY <2>1, <2>2, <2>3, <2>4 DEF IInv
<1>16. CASE DespawnSystem
  <2>1. TypeOK'
    BY <1>t, <1>16, SessionsAssumption DEF DespawnSystem, Updating, Uncontrolled, TypeOK
  <2>2. NoDangling'
    BY <1>t, <1>16, SameLinks DEF DespawnSystem, Updating, Uncontrolled
  <2>3. Asked'
    BY <1>t, <1>16, SessionsAssumption DEF DespawnSystem, Updating, Uncontrolled, TypeOK, Asked, Connected, LoginStages
  <2>4. Calm'
    BY <1>t, <1>16, SessionsAssumption DEF DespawnSystem, Updating, Uncontrolled, TypeOK, Calm, PuppetPointsBack, Alive, Asked, NoDangling
  <2> QED  BY <2>1, <2>2, <2>3, <2>4 DEF IInv
<1>17. CASE DespawnApplied
  <2>1. TypeOK'
    BY <1>t, <1>17, SessionsAssumption DEF DespawnApplied, Updating, TypeOK
  <2>2. NoDangling'
    BY <1>t, <1>17, SameLinks DEF DespawnApplied, Updating
  <2>3. Asked'
    BY <1>t, <1>17, SessionsAssumption DEF DespawnApplied, Updating, TypeOK, Asked, Connected, LoginStages
  <2>4. Calm'
    BY <1>t, <1>17, SessionsAssumption DEF DespawnApplied, Updating, TypeOK, Calm, PuppetPointsBack, Alive, Asked, NoDangling
  <2> QED  BY <2>1, <2>2, <2>3, <2>4 DEF IInv
<1>18. CASE UpdateDone
  <2>1. TypeOK'
    BY <1>t, <1>18, SessionsAssumption DEF UpdateDone, Updating, TypeOK
  <2>2. NoDangling'
    BY <1>t, <1>18, SameLinks DEF UpdateDone, Updating
  <2>3. Asked'
    BY <1>t, <1>18, SessionsAssumption DEF UpdateDone, Updating, TypeOK, Asked, Connected, LoginStages
  <2>4. Calm'
    BY <1>t, <1>18, SessionsAssumption DEF UpdateDone, Updating, TypeOK, Calm, PuppetPointsBack, Alive, Asked, NoDangling
  <2> QED  BY <2>1, <2>2, <2>3, <2>4 DEF IInv
<1>19. CASE FrameDone
  <2>1. TypeOK'
    BY <1>t, <1>19, SessionsAssumption DEF FrameDone, TypeOK
  <2>2. NoDangling'
    BY <1>t, <1>19, SameLinks DEF FrameDone
  <2>3. Asked'
    BY <1>t, <1>19, SessionsAssumption DEF FrameDone, TypeOK, Asked, Connected, LoginStages
  <2>4. Calm'
    BY <1>t, <1>19, SessionsAssumption DEF FrameDone, TypeOK, Calm, PuppetPointsBack, Alive, Asked, NoDangling
  <2> QED  BY <2>1, <2>2, <2>3, <2>4 DEF IInv
<1>20. CASE UNCHANGED vars
  BY <1>t, <1>20 DEF vars, IInv, TypeOK, NoDangling, Asked, Calm, PuppetPointsBack, Alive
<1>21. ASSUME NEW p \in Conn, LoginStep(p)  PROVE IInv'
  BY <1>8, <1>9, <1>10, <1>11, <1>12, <1>13, <1>14, <1>21 DEF LoginStep, WrongPassword, Mismatch
<1> QED
  BY <1>1, <1>2, <1>3, <1>4, <1>5, <1>6, <1>7, <1>15, <1>16, <1>17, <1>18, <1>19, <1>20, <1>21 DEF Next

-----------------------------------------------------------------------------
\* The inductive invariant holds in every reachable state.
THEOREM Invariant == Spec => []IInv
<1>1. Init => IInv
  BY InitIInv
<1>2. IInv /\ [Next]_vars => IInv'
  BY StepIInv
<1> QED  BY <1>1, <1>2, PTL DEF Spec

\* Every variable keeps its type.
THEOREM TypeCorrect == Spec => []TypeOK
<1>1. IInv => TypeOK
  BY DEF IInv
<1> QED  BY <1>1, Invariant, PTL

\* The observers of character.rs leave no Player or Puppet that leads to an
\* entity that is gone, whatever connects, is taken over or is despawned.
THEOREM LinksHold == Spec => []NoDangling
<1>1. IInv => NoDangling
  BY DEF IInv
<1> QED  BY <1>1, Invariant, PTL

\* No unwrap of the login and command systems fails without a takeover or an
\* @despawn.
THEOREM CalmRunsSafely == Spec => []CalmIsSafe
<1>1. IInv => CalmIsSafe
  BY DEF IInv, TypeOK, Calm, CalmIsSafe
<1> QED  BY <1>1, Invariant, PTL
=============================================================================
