---------------------------- MODULE WorldSaveProofs ----------------------------
(***************************************************************************)
(* TLAPS proofs about WorldSave, for every number of concurrent save tasks *)
(* and every number of versions.                                           *)
(***************************************************************************)
EXTENDS WorldSave, TLAPS

\* Nothing is saved before the world is loaded, and nothing but the final save
\* after AppExit: the main loop is entered only with a world, and a process
\* that failed to load is on its way out with no save task.
Stages ==
  /\ phase \in {"io", "world"} => ~loaded /\ ~loadFailed /\ told = 0
  /\ phase = "frames" => loaded
  /\ loadFailed => ~loaded /\ phase \notin {"io", "world", "final"}
  /\ ~loaded \/ phase = "down" => \A s \in Saver : pc[s] = "idle"

\* No snapshot, and nothing that the log has called saved, is newer than memory.
Fresh ==
  loaded /\ phase # "down" =>
    /\ told <= world
    /\ \A s \in Saver : pc[s] # "idle" => snap[s] <= world

\* A save that has met no other is the only one, and if it has begun to write, the
\* file is as its create has left it; its snapshot is no older than what was logged.
Alone ==
  \A s \in Saver : pc[s] # "idle" /\ s \notin crossed =>
    /\ told <= snap[s]
    /\ \A t \in Saver : t # s => pc[t] = "idle"
    /\ phase \notin {"final", "leaving"}
    /\ pc[s] = "open" => file = Empty

\* The same of the final save.
FinalAlone ==
  SavesInOrder =>
    /\ phase \in {"final", "leaving"} => \A s \in Saver : pc[s] = "idle"
    /\ phase = "final" => file = Empty

IInv == TypeOK /\ Stages /\ Fresh /\ Alone /\ FinalAlone /\ QuietDisk /\ CleanExit

-----------------------------------------------------------------------------
\* What is known of the contents of a file.
LEMMA ContentsFacts ==
  /\ 0 \in Version /\ 1 \in Version /\ Version \subseteq Nat
  /\ \A v \in Version : /\ Saved(v) \in Contents /\ Readable(Saved(v))
                        /\ Saved(v).world = v /\ Saved(v) # Empty
  /\ Empty \in Contents /\ ~Readable(Empty) /\ Empty.world = 0
  /\ Torn \in Contents /\ ~Readable(Torn) /\ Torn.world = 0 /\ Torn # Empty
  /\ \A c \in Contents : c.world \in Version
<1>1. 0 \in Version /\ 1 \in Version /\ Version \subseteq Nat
  BY SaveAssumption DEF Version
<1> QED  BY <1>1 DEF Saved, Empty, Torn, Contents, Readable

LEMMA InitIInv == Init => IInv
<1> SUFFICES ASSUME Init  PROVE IInv
  OBVIOUS
<1> USE ContentsFacts
<1>1. TypeOK
  BY DEF Init, TypeOK, Phase
<1>2. Stages /\ Fresh /\ Alone /\ FinalAlone
  BY DEF Init, Stages, Fresh, Alone, FinalAlone
<1>3. QuietDisk /\ CleanExit
  BY DEF Init, QuietDisk, CleanExit, SavesInOrder
<1> QED  BY <1>1, <1>2, <1>3 DEF IInv

LEMMA StepIInv == IInv /\ [Next]_vars => IInv'
<1> SUFFICES ASSUME IInv, [Next]_vars  PROVE IInv'
  OBVIOUS
<1> USE ContentsFacts DEF process, tasks, history
<1>t. TypeOK /\ Stages /\ Fresh /\ Alone /\ FinalAlone /\ QuietDisk /\ CleanExit
  BY DEF IInv
<1>n. /\ told \in Nat /\ world \in Nat /\ file.world \in Nat
      /\ \A s \in Saver : snap[s] \in Nat
  BY <1>t DEF TypeOK
<1>1. CASE Start
  <2>1. TypeOK'
    BY <1>t, <1>1 DEF Start, TypeOK, Phase
  <2>2. Stages'
    BY <1>t, <1>1 DEF Start, TypeOK, Stages
  <2>3. Fresh'
    BY <1>t, <1>1 DEF Start, TypeOK, Stages, Fresh
  <2>4. Alone'
    BY <1>t, <1>n, <1>1 DEF Start, TypeOK, Stages, Fresh, Alone
  <2>5. FinalAlone'
    BY <1>t, <1>1 DEF Start, TypeOK, Stages, Alone, FinalAlone, SavesInOrder
  <2>6. QuietDisk'
    BY <1>t, <1>1 DEF Start, TypeOK, Stages, Alone, FinalAlone, QuietDisk, SavesInOrder,
        NobodyWrites
  <2>7. CleanExit'
    BY <1>t, <1>1 DEF Start, TypeOK, Stages, Alone, FinalAlone, CleanExit, SavesInOrder
  <2> QED  BY <2>1, <2>2, <2>3, <2>4, <2>5, <2>6, <2>7 DEF IInv
<1>2. CASE StartListener
  <2>1. TypeOK'
    BY <1>t, <1>2 DEF StartListener, TypeOK, Phase
  <2>2. Stages'
    BY <1>t, <1>2 DEF StartListener, TypeOK, Stages
  <2>3. Fresh'
    BY <1>t, <1>2 DEF StartListener, TypeOK, Stages, Fresh
  <2>4. Alone'
    BY <1>t, <1>n, <1>2 DEF StartListener, TypeOK, Stages, Fresh, Alone
  <2>5. FinalAlone'
    BY <1>t, <1>2 DEF StartListener, TypeOK, Stages, Alone, FinalAlone, SavesInOrder
  <2>6. QuietDisk'
    BY <1>t, <1>2 DEF StartListener, TypeOK, Stages, Alone, FinalAlone, QuietDisk,
        SavesInOrder, NobodyWrites
  <2>7. CleanExit'
    BY <1>t, <1>2 DEF StartListener, TypeOK, Stages, Alone, FinalAlone, CleanExit, SavesInOrder
  <2> QED  BY <2>1, <2>2, <2>3, <2>4, <2>5, <2>6, <2>7 DEF IInv
<1>3. CASE Load
  <2>1. TypeOK'
    BY <1>t, <1>3 DEF Load, TypeOK, Phase
  <2>2. Stages'
    BY <1>t, <1>3 DEF Load, TypeOK, Stages
  <2>3. Fresh'
    <3> SUFFICES ASSUME phase' = "frames"  PROVE Fresh'
      BY <1>t, <1>3 DEF Load, Stages, Fresh
    <3>1. told' = 0 /\ world' = file.world /\ \A s \in Saver : pc'[s] = "idle"
      BY <1>t, <1>3 DEF Load, Stages
    <3> QED  BY <1>n, <3>1 DEF Fresh
  <2>4. Alone'
    BY <1>t, <1>n, <1>3 DEF Load, TypeOK, Stages, Fresh, Alone
  <2>5. FinalAlone'
    BY <1>t, <1>3 DEF Load, TypeOK, Stages, Alone, FinalAlone, SavesInOrder
  <2>6. QuietDisk'
    <3> SUFFICES ASSUME SavesInOrder'  PROVE QuietDisk'
      BY DEF QuietDisk
    <3>1. told' = 0 /\ world' = file.world /\ file' = file /\ Readable(file)
      BY <1>t, <1>3 DEF Load, Stages, SavesInOrder
    <3> QED  BY <1>n, <3>1 DEF QuietDisk
  <2>7. CleanExit'
    BY <1>t, <1>3 DEF Load, TypeOK, Stages, Alone, FinalAlone, CleanExit, SavesInOrder
  <2> QED  BY <2>1, <2>2, <2>3, <2>4, <2>5, <2>6, <2>7 DEF IInv
<1>4. CASE Play
  <2>1. TypeOK'
    BY <1>t, <1>4, SaveAssumption DEF Play, TypeOK, Version
  <2>2. Stages'
    BY <1>t, <1>4 DEF Play, TypeOK, Stages
  <2>3. Fresh'
    BY <1>t, <1>n, <1>4 DEF Play, Fresh
  <2>4. Alone'
    BY <1>t, <1>n, <1>4 DEF Play, TypeOK, Stages, Fresh, Alone
  <2>5. FinalAlone'
    BY <1>t, <1>4 DEF Play, TypeOK, Stages, Alone, FinalAlone, SavesInOrder
  <2>6. QuietDisk'
    BY <1>t, <1>n, <1>4 DEF Play, QuietDisk, SavesInOrder, NobodyWrites
  <2>7. CleanExit'
    BY <1>t, <1>4 DEF Play, TypeOK, Stages, Alone, FinalAlone, CleanExit, SavesInOrder
  <2> QED  BY <2>1, <2>2, <2>3, <2>4, <2>5, <2>6, <2>7 DEF IInv
<1>5. CASE CheckFlag
  <2>1. TypeOK'
    BY <1>t, <1>5 DEF CheckFlag, TypeOK, Phase
  <2>2. Stages'
    BY <1>t, <1>5 DEF CheckFlag, TypeOK, Stages
  <2>3. Fresh'
    BY <1>t, <1>5 DEF CheckFlag, TypeOK, Stages, Fresh
  <2>4. Alone'
    BY <1>t, <1>n, <1>5 DEF CheckFlag, TypeOK, Stages, Fresh, Alone
  <2>5. FinalAlone'
    BY <1>t, <1>5 DEF CheckFlag, TypeOK, Stages, Alone, FinalAlone, SavesInOrder
  <2>6. QuietDisk'
    BY <1>t, <1>5 DEF CheckFlag, TypeOK, Stages, Alone, FinalAlone, QuietDisk, SavesInOrder,
        NobodyWrites
  <2>7. CleanExit'
    BY <1>t, <1>5 DEF CheckFlag, TypeOK, Stages, Alone, FinalAlone, CleanExit, SavesInOrder
  <2> QED  BY <2>1, <2>2, <2>3, <2>4, <2>5, <2>6, <2>7 DEF IInv
<1>6. CASE ListenerLost
  <2>1. TypeOK'
    BY <1>t, <1>6 DEF ListenerLost, TypeOK, Phase
  <2>2. Stages'
    BY <1>t, <1>6 DEF ListenerLost, TypeOK, Stages
  <2>3. Fresh'
    BY <1>t, <1>6 DEF ListenerLost, TypeOK, Stages, Fresh
  <2>4. Alone'
    BY <1>t, <1>n, <1>6 DEF ListenerLost, TypeOK, Stages, Fresh, Alone
  <2>5. FinalAlone'
    BY <1>t, <1>6 DEF ListenerLost, TypeOK, Stages, Alone, FinalAlone, SavesInOrder
  <2>6. QuietDisk'
    BY <1>t, <1>6 DEF ListenerLost, TypeOK, Stages, Alone, FinalAlone, QuietDisk, SavesInOrder,
        NobodyWrites
  <2>7. CleanExit'
    BY <1>t, <1>6 DEF ListenerLost, TypeOK, Stages, Alone, FinalAlone, CleanExit, SavesInOrder
  <2> QED  BY <2>1, <2>2, <2>3, <2>4, <2>5, <2>6, <2>7 DEF IInv
<1>7. ASSUME NEW signal \in {"quit", "user"}, Raise(signal)  PROVE IInv'
  <2>1. TypeOK'
    BY <1>t, <1>7 DEF Raise, TypeOK, Phase
  <2>2. Stages'
    BY <1>t, <1>7 DEF Raise, TypeOK, Stages
  <2>3. Fresh'
    BY <1>t, <1>7 DEF Raise, TypeOK, Stages, Fresh
  <2>4. Alone'
    BY <1>t, <1>n, <1>7 DEF Raise, TypeOK, Stages, Fresh, Alone
  <2>5. FinalAlone'
    BY <1>t, <1>7 DEF Raise, TypeOK, Stages, Alone, FinalAlone, SavesInOrder
  <2>6. QuietDisk'
    BY <1>t, <1>7 DEF Raise, TypeOK, Stages, Alone, FinalAlone, QuietDisk, SavesInOrder,
        NobodyWrites
  <2>7. CleanExit'
    BY <1>t, <1>7 DEF Raise, TypeOK, Stages, Alone, FinalAlone, CleanExit, SavesInOrder
  <2> QED  BY <2>1, <2>2, <2>3, <2>4, <2>5, <2>6, <2>7 DEF IInv
<1>8. ASSUME NEW s \in Saver, SaveDue(s)  PROVE IInv'
  <2>1. TypeOK'
    BY <1>t, <1>8 DEF SaveDue, Underway, Meeting, TypeOK, Phase
  <2>2. Stages'
    BY <1>t, <1>8 DEF SaveDue, Underway, Meeting, TypeOK, Stages
  <2>3. Fresh'
    BY <1>t, <1>8 DEF SaveDue, Underway, Meeting, TypeOK, Stages, Fresh
  <2>4. Alone'
    BY <1>t, <1>n, <1>8 DEF SaveDue, Underway, Meeting, TypeOK, Stages, Fresh, Alone
  <2>5. FinalAlone'
    BY <1>t, <1>8 DEF SaveDue, Underway, Meeting, TypeOK, Stages, Alone, FinalAlone,
        SavesInOrder
  <2>6. QuietDisk'
    BY <1>t, <1>8 DEF SaveDue, Underway, Meeting, TypeOK, Stages, Alone, FinalAlone, QuietDisk,
        SavesInOrder, NobodyWrites
  <2>7. CleanExit'
    BY <1>t, <1>8 DEF SaveDue, Underway, Meeting, TypeOK, Stages, Alone, FinalAlone, CleanExit,
        SavesInOrder
  <2> QED  BY <2>1, <2>2, <2>3, <2>4, <2>5, <2>6, <2>7 DEF IInv
<1>9. ASSUME NEW s \in Saver, TaskCreate(s)  PROVE IInv'
  <2>1. TypeOK'
    BY <1>t, <1>9 DEF TaskCreate, Running, TypeOK, Phase
  <2>2. Stages'
    BY <1>t, <1>9 DEF TaskCreate, Running, TypeOK, Stages
  <2>3. Fresh'
    BY <1>t, <1>9 DEF TaskCreate, Running, TypeOK, Stages, Fresh
  <2>4. Alone'
    BY <1>t, <1>n, <1>9 DEF TaskCreate, Running, TypeOK, Stages, Fresh, Alone
  <2>5. FinalAlone'
    BY <1>t, <1>9 DEF TaskCreate, Running, TypeOK, Stages, Alone, FinalAlone, SavesInOrder
  <2>6. QuietDisk'
    BY <1>t, <1>9 DEF TaskCreate, Running, TypeOK, Stages, Alone, FinalAlone, QuietDisk,
        SavesInOrder, NobodyWrites
  <2>7. CleanExit'
    BY <1>t, <1>9 DEF TaskCreate, Running, TypeOK, Stages, Alone, FinalAlone, CleanExit,
        SavesInOrder
  <2> QED  BY <2>1, <2>2, <2>3, <2>4, <2>5, <2>6, <2>7 DEF IInv
<1>10. ASSUME NEW s \in Saver, TaskGivesUp(s)  PROVE IInv'
  <2>1. TypeOK'
    BY <1>t, <1>10 DEF TaskGivesUp, Running, TypeOK, Phase
  <2>2. Stages'
    BY <1>t, <1>10 DEF TaskGivesUp, Running, TypeOK, Stages
  <2>3. Fresh'
    BY <1>t, <1>10 DEF TaskGivesUp, Running, TypeOK, Stages, Fresh
  <2>4. Alone'
    BY <1>t, <1>n, <1>10 DEF TaskGivesUp, Running, TypeOK, Stages, Fresh, Alone
  <2>5. FinalAlone'
    BY <1>t, <1>10 DEF TaskGivesUp, Running, TypeOK, Stages, Alone, FinalAlone, SavesInOrder
  <2>6. QuietDisk'
    BY <1>t, <1>10 DEF TaskGivesUp, Running, TypeOK, Stages, Alone, FinalAlone, QuietDisk,
        SavesInOrder, NobodyWrites
  <2>7. CleanExit'
    BY <1>t, <1>10 DEF TaskGivesUp, Running, TypeOK, Stages, Alone, FinalAlone, CleanExit,
        SavesInOrder
  <2> QED  BY <2>1, <2>2, <2>3, <2>4, <2>5, <2>6, <2>7 DEF IInv
<1>11. ASSUME NEW s \in Saver, TaskWrite(s)  PROVE IInv'
  <2>1. TypeOK'
    <3>1. file' \in Contents /\ told' \in Version
      BY <1>t, <1>11 DEF TaskWrite, Written, Logged, TypeOK
    <3> QED  BY <1>t, <1>11, <3>1 DEF TaskWrite, TypeOK
  <2>2. Stages'
    BY <1>t, <1>11 DEF TaskWrite, Running, Logged, TypeOK, Stages
  <2>3. Fresh'
    BY <1>t, <1>n, <1>11 DEF TaskWrite, Logged, Running, Stages, TypeOK, Fresh
  <2>4. Alone'
    BY <1>t, <1>n, <1>11 DEF TaskWrite, Running, Logged, Written, TypeOK, Stages, Fresh, Alone
  <2>5. FinalAlone'
    BY <1>t, <1>11 DEF TaskWrite, Running, Logged, Written, TypeOK, Stages, Alone, FinalAlone,
        SavesInOrder
  <2>6. QuietDisk'
    <3> SUFFICES ASSUME SavesInOrder'
                 PROVE  Readable(file') /\ told' <= file'.world /\ file'.world <= world'
      BY DEF QuietDisk
    <3>1. /\ pc[s] = "open" /\ s \notin crossed /\ snap[s] \in Version
          /\ loaded /\ phase # "down" /\ world' = world
      BY <1>t, <1>11 DEF TaskWrite, SavesInOrder, Running, TypeOK
    <3>2. file = Empty /\ told <= snap[s]
      BY <1>t, <3>1 DEF Alone
    <3>3. snap[s] <= world
      BY <1>t, <3>1 DEF Fresh
    <3>4. file' = Saved(snap[s]) /\ told' = snap[s]
      BY <1>n, <1>11, <3>2 DEF TaskWrite, Written, Logged
    <3> QED  BY <1>n, <3>1, <3>3, <3>4
  <2>7. CleanExit'
    BY <1>t, <1>11 DEF TaskWrite, Running, Logged, Written, TypeOK, Stages, Alone, FinalAlone,
        CleanExit, SavesInOrder
  <2> QED  BY <2>1, <2>2, <2>3, <2>4, <2>5, <2>6, <2>7 DEF IInv
<1>12. ASSUME NEW s \in Saver, TaskWriteFails(s)  PROVE IInv'
  <2>1. TypeOK'
    BY <1>t, <1>12 DEF TaskWriteFails, Running, Logged, TypeOK, Phase
  <2>2. Stages'
    BY <1>t, <1>12 DEF TaskWriteFails, Running, Logged, TypeOK, Stages
  <2>3. Fresh'
    BY <1>t, <1>n, <1>12 DEF TaskWriteFails, Logged, Running, Stages, TypeOK, Fresh
  <2>4. Alone'
    BY <1>t, <1>n, <1>12 DEF TaskWriteFails, Running, Logged, TypeOK, Stages, Fresh, Alone
  <2>5. FinalAlone'
    BY <1>t, <1>12 DEF TaskWriteFails, Running, Logged, TypeOK, Stages, Alone, FinalAlone,
        SavesInOrder
  <2>6. QuietDisk'
    BY <1>t, <1>12 DEF TaskWriteFails, Running, Logged, TypeOK, Stages, Alone, FinalAlone,
        QuietDisk, SavesInOrder, NobodyWrites
  <2>7. CleanExit'
    BY <1>t, <1>12 DEF TaskWriteFails, Running, Logged, TypeOK, Stages, Alone, FinalAlone,
        CleanExit, SavesInOrder
  <2> QED  BY <2>1, <2>2, <2>3, <2>4, <2>5, <2>6, <2>7 DEF IInv
<1>13. CASE FinalCreate
  <2>1. TypeOK'
    BY <1>t, <1>13 DEF FinalCreate, Underway, Meeting, MaySaveFinally, TypeOK, Phase
  <2>2. Stages'
    BY <1>t, <1>13 DEF FinalCreate, Underway, Meeting, MaySaveFinally, TypeOK, Stages
  <2>3. Fresh'
    BY <1>t, <1>13 DEF FinalCreate, Underway, Meeting, MaySaveFinally, TypeOK, Stages, Fresh
  <2>4. Alone'
    BY <1>t, <1>n, <1>13 DEF FinalCreate, Underway, Meeting, MaySaveFinally, TypeOK, Stages,
        Fresh, Alone
  <2>5. FinalAlone'
    BY <1>t, <1>13 DEF FinalCreate, Underway, Meeting, MaySaveFinally, TypeOK, Stages, Alone,
        FinalAlone, SavesInOrder
  <2>6. QuietDisk'
    BY <1>t, <1>13 DEF FinalCreate, Underway, Meeting, MaySaveFinally, TypeOK, Stages, Alone,
        FinalAlone, QuietDisk, SavesInOrder, NobodyWrites
  <2>7. CleanExit'
    BY <1>t, <1>13 DEF FinalCreate, Underway, Meeting, MaySaveFinally, TypeOK, Stages, Alone,
        FinalAlone, CleanExit, SavesInOrder
  <2> QED  BY <2>1, <2>2, <2>3, <2>4, <2>5, <2>6, <2>7 DEF IInv
<1>14. CASE FinalSkip
  <2>1. TypeOK'
    BY <1>t, <1>14 DEF FinalSkip, Underway, Meeting, MaySaveFinally, TypeOK, Phase
  <2>2. Stages'
    BY <1>t, <1>14 DEF FinalSkip, Underway, Meeting, MaySaveFinally, TypeOK, Stages
  <2>3. Fresh'
    BY <1>t, <1>14 DEF FinalSkip, Underway, Meeting, MaySaveFinally, TypeOK, Stages, Fresh
  <2>4. Alone'
    BY <1>t, <1>n, <1>14 DEF FinalSkip, Underway, Meeting, MaySaveFinally, TypeOK, Stages,
        Fresh, Alone
  <2>5. FinalAlone'
    BY <1>t, <1>14 DEF FinalSkip, Underway, Meeting, MaySaveFinally, TypeOK, Stages, Alone,
        FinalAlone, SavesInOrder
  <2>6. QuietDisk'
    BY <1>t, <1>14 DEF FinalSkip, Underway, Meeting, MaySaveFinally, TypeOK, Stages, Alone,
        FinalAlone, QuietDisk, SavesInOrder, NobodyWrites
  <2>7. CleanExit'
    BY <1>t, <1>14 DEF FinalSkip, Underway, Meeting, MaySaveFinally, TypeOK, Stages, Alone,
        FinalAlone, CleanExit, SavesInOrder
  <2> QED  BY <2>1, <2>2, <2>3, <2>4, <2>5, <2>6, <2>7 DEF IInv
<1>15. CASE FinalWrite
  <2>1. TypeOK'
    BY <1>t, <1>15 DEF FinalWrite, Written, TypeOK, Phase
  <2>2. Stages'
    BY <1>t, <1>15 DEF FinalWrite, TypeOK, Stages
  <2>3. Fresh'
    BY <1>t, <1>15 DEF FinalWrite, TypeOK, Stages, Fresh
  <2>4. Alone'
    BY <1>t, <1>n, <1>15 DEF FinalWrite, Written, TypeOK, Stages, Fresh, Alone
  <2>5. FinalAlone'
    BY <1>t, <1>15 DEF FinalWrite, Written, TypeOK, Stages, Alone, FinalAlone, SavesInOrder
  <2>6. QuietDisk'
    <3> SUFFICES ASSUME SavesInOrder'
                 PROVE  Readable(file') /\ told' <= file'.world /\ file'.world <= world'
      BY DEF QuietDisk
    <3>1. /\ SavesInOrder /\ phase = "final" /\ world \in Version
          /\ told' = told /\ world' = world
      BY <1>t, <1>15 DEF FinalWrite, SavesInOrder, TypeOK
    <3>2. file' = Saved(world)
      BY <1>t, <1>15, <3>1 DEF FinalWrite, Written, FinalAlone
    <3>3. told <= world
      BY <1>t, <3>1 DEF Fresh, SavesInOrder
    <3> QED  BY <1>n, <3>1, <3>2, <3>3
  <2>7. CleanExit'
    BY <1>t, <1>15 DEF FinalWrite, Written, TypeOK, Stages, Alone, FinalAlone, CleanExit,
        SavesInOrder
  <2> QED  BY <2>1, <2>2, <2>3, <2>4, <2>5, <2>6, <2>7 DEF IInv
<1>16. CASE FinalWriteFails
  <2>1. TypeOK'
    BY <1>t, <1>16 DEF FinalWriteFails, TypeOK, Phase
  <2>2. Stages'
    BY <1>t, <1>16 DEF FinalWriteFails, TypeOK, Stages
  <2>3. Fresh'
    BY <1>t, <1>16 DEF FinalWriteFails, TypeOK, Stages, Fresh
  <2>4. Alone'
    BY <1>t, <1>n, <1>16 DEF FinalWriteFails, TypeOK, Stages, Fresh, Alone
  <2>5. FinalAlone'
    BY <1>t, <1>16 DEF FinalWriteFails, TypeOK, Stages, Alone, FinalAlone, SavesInOrder
  <2>6. QuietDisk'
    BY <1>t, <1>16 DEF FinalWriteFails, TypeOK, Stages, Alone, FinalAlone, QuietDisk,
        SavesInOrder, NobodyWrites
  <2>7. CleanExit'
    BY <1>t, <1>16 DEF FinalWriteFails, TypeOK, Stages, Alone, FinalAlone, CleanExit,
        SavesInOrder
  <2> QED  BY <2>1, <2>2, <2>3, <2>4, <2>5, <2>6, <2>7 DEF IInv
<1>17. CASE Leave
  <2>1. TypeOK'
    BY <1>t, <1>17 DEF Leave, TypeOK, Phase
  <2>2. Stages'
    BY <1>t, <1>17 DEF Leave, TypeOK, Stages
  <2>3. Fresh'
    BY <1>t, <1>17 DEF Leave, TypeOK, Stages, Fresh
  <2>4. Alone'
    BY <1>t, <1>n, <1>17 DEF Leave, TypeOK, Stages, Fresh, Alone
  <2>5. FinalAlone'
    BY <1>t, <1>17 DEF Leave, TypeOK, Stages, Alone, FinalAlone, SavesInOrder
  <2>6. QuietDisk'
    BY <1>t, <1>17 DEF Leave, TypeOK, Stages, Alone, FinalAlone, QuietDisk, SavesInOrder,
        NobodyWrites
  <2>7. CleanExit'
    BY <1>t, <1>17 DEF Leave, TypeOK, Stages, Alone, FinalAlone, CleanExit, SavesInOrder
  <2> QED  BY <2>1, <2>2, <2>3, <2>4, <2>5, <2>6, <2>7 DEF IInv
<1>18. CASE Crash
  <2>1. TypeOK'
    BY <1>t, <1>18 DEF Crash, TypeOK, Phase
  <2>2. Stages'
    BY <1>t, <1>18 DEF Crash, TypeOK, Stages
  <2>3. Fresh'
    BY <1>t, <1>18 DEF Crash, TypeOK, Stages, Fresh
  <2>4. Alone'
    BY <1>t, <1>n, <1>18 DEF Crash, TypeOK, Stages, Fresh, Alone
  <2>5. FinalAlone'
    BY <1>t, <1>18 DEF Crash, TypeOK, Stages, Alone, FinalAlone, SavesInOrder
  <2>6. QuietDisk'
    BY <1>t, <1>18 DEF Crash, TypeOK, Stages, Alone, FinalAlone, QuietDisk, SavesInOrder,
        NobodyWrites
  <2>7. CleanExit'
    BY <1>t, <1>18 DEF Crash, TypeOK, Stages, Alone, FinalAlone, CleanExit, SavesInOrder
  <2> QED  BY <2>1, <2>2, <2>3, <2>4, <2>5, <2>6, <2>7 DEF IInv
<1>19. CASE UNCHANGED vars
  <2>1. TypeOK'
    BY <1>t, <1>19 DEF vars, TypeOK
  <2>2. Stages'
    BY <1>t, <1>19 DEF vars, Stages
  <2>3. Fresh'
    BY <1>t, <1>19 DEF vars, Fresh
  <2>4. Alone'
    BY <1>t, <1>19 DEF vars, Alone
  <2>5. FinalAlone'
    BY <1>t, <1>19 DEF vars, FinalAlone, SavesInOrder
  <2>6. QuietDisk'
    BY <1>t, <1>19 DEF vars, QuietDisk, SavesInOrder, NobodyWrites
  <2>7. CleanExit'
    BY <1>t, <1>19 DEF vars, CleanExit, SavesInOrder
  <2> QED  BY <2>1, <2>2, <2>3, <2>4, <2>5, <2>6, <2>7 DEF IInv
<1> QED
  BY <1>1, <1>2, <1>3, <1>4, <1>5, <1>6, <1>7, <1>8, <1>9, <1>10, <1>11, <1>12, <1>13,
     <1>14, <1>15, <1>16, <1>17, <1>18, <1>19 DEF Next

THEOREM Invariant == Spec => []IInv
BY InitIInv, StepIInv, PTL DEF Spec

-----------------------------------------------------------------------------
(* The theorems.                                                           *)

\* Every variable keeps its type, for any number of concurrent save tasks.
THEOREM TypeCorrect == Spec => []TypeOK
<1>1. IInv => TypeOK
  BY DEF IInv
<1> QED  BY <1>1, Invariant, PTL

\* Whatever saves have overlapped or failed before: when the last one that touched
\* the file was alone, the file is whole, and its world lies between the last one
\* logged as saved and the one in memory.
THEOREM DiskIsQuiet == Spec => []QuietDisk
<1>1. IInv => QuietDisk
  BY DEF IInv
<1> QED  BY <1>1, Invariant, PTL

\* final_save_system leaves the world in memory in the file, whatever it found
\* there, unless another save is still under way or the disk fails.
THEOREM ExitIsClean == Spec => []CleanExit
<1>1. IInv => CleanExit
  BY DEF IInv
<1> QED  BY <1>1, Invariant, PTL

\* A process that could not load world.ron leaves it untouched until it ends.
THEOREM LoadFailureIsHarmless == Spec => LoadFailedKeepsFile
<1>1. IInv /\ [Next]_vars => [loadFailed /\ loadFailed' => file' = file]_vars
  <2> SUFFICES ASSUME IInv, Next, loadFailed, loadFailed'  PROVE file' = file
    BY DEF vars
  <2>1. /\ phase \notin {"io", "world", "final"}
        /\ \A s \in Saver : pc[s] = "idle"
    BY DEF IInv, Stages
  <2>2. ~MaySaveFinally
    BY DEF MaySaveFinally
  <2> QED
    BY <2>1, <2>2
    DEF Next, Start, StartListener, Load, Play, CheckFlag, ListenerLost, Raise, SaveDue,
        TaskCreate, TaskGivesUp, TaskWrite, TaskWriteFails, FinalCreate, FinalSkip,
        FinalWrite, FinalWriteFails, Leave, Crash
<1> QED  BY <1>1, Invariant, PTL DEF Spec, LoadFailedKeepsFile
=============================================================================
