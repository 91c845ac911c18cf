---------------------------- MODULE LiveMapProofs ------------------------------
(***************************************************************************)
(* That the index of a map is exact, by entity and by cell, and that live  *)
(* entities have no dead children: for every number of entities, maps,     *)
(* names and commands, and whatever the hexagonal arithmetic of hexx is.   *)
(***************************************************************************)
EXTENDS LiveMap, TLAPS

-----------------------------------------------------------------------------
(* One entity in the index of one map.                                     *)

Known(m) == m.by_id \in [Entity -> Place \cup {None}]

Matches(m, a) ==
  {f \in m.by_coords : f[1] = a} =
    IF m.by_id[a] = None THEN {} ELSE Filed(a, Cells(m.by_id[a].coords))

LEMMA AddedMatches ==
  ASSUME NEW x, Known(x), NEW e \in Entity, NEW a \in Entity, NEW place \in Place,
         Matches(x, a), a = e => x.by_id[e] = None
  PROVE  Matches(Added(x, e, place), a)
<1> DEFINE y == Added(x, e, place)
<1>1. /\ y.by_id = [x.by_id EXCEPT ![e] = place]
      /\ y.by_coords = x.by_coords \cup Filed(e, Cells(place.coords))
  BY DEF Added
<1>2. \A f \in Filed(e, Cells(place.coords)) : f[1] = e
  BY DEF Filed
<1> HIDE DEF y
<1>3. CASE a = e
  <2>1. {f \in x.by_coords : f[1] = a} = {}
    BY <1>3 DEF Matches
  <2>2. {f \in y.by_coords : f[1] = a} = Filed(e, Cells(place.coords))
    BY <1>1, <1>2, <1>3, <2>1
  <2>3. y.by_id[a] = place /\ place # None
    BY <1>1, <1>3, LiveMapAssumption DEF Known
  <2> QED
    BY <1>3, <2>2, <2>3 DEF Matches, y
<1>4. CASE a # e
  <2>1. {f \in y.by_coords : f[1] = a} = {f \in x.by_coords : f[1] = a}
    BY <1>1, <1>2, <1>4
  <2>2. y.by_id[a] = x.by_id[a]
    BY <1>1, <1>4 DEF Known
  <2> QED
    BY <2>1, <2>2 DEF Matches, y
<1> QED
  BY <1>3, <1>4

LEMMA RemovedMatches ==
  ASSUME NEW x, Known(x), NEW e \in Entity, NEW a \in Entity, Matches(x, a)
  PROVE  Matches(Removed(x, e), a)
<1>1. CASE x.by_id[e] = None
  BY <1>1 DEF Removed
<1>2. CASE x.by_id[e] # None
  <2> DEFINE y == Removed(x, e)
             old == Filed(e, Cells(x.by_id[e].coords))
  <2>1. y.by_id = [x.by_id EXCEPT ![e] = None] /\ y.by_coords = x.by_coords \ old
    BY <1>2 DEF Removed
  <2>2. \A f \in old : f[1] = e
    BY DEF Filed
  <2>3. a = e => {f \in x.by_coords : f[1] = a} = old
    BY <1>2 DEF Matches
  <2>4. y.by_id[a] = IF a = e THEN None ELSE x.by_id[a]
    BY <2>1 DEF Known
  <2> HIDE DEF y, old
  <2>5. {f \in y.by_coords : f[1] = a} = IF a = e THEN {} ELSE {f \in x.by_coords : f[1] = a}
    BY <2>1, <2>2, <2>3
  <2> QED
    BY <2>4, <2>5 DEF Matches, y
<1> QED
  BY <1>1, <1>2

LEMMA MovedMatches ==
  ASSUME NEW x, Known(x), NEW e \in Entity, NEW a \in Entity, NEW place \in Place,
         Matches(x, a)
  PROVE  Matches(Moved(x, e, place), a)
<1>1. CASE x.by_id[e] = None
  BY <1>1, AddedMatches DEF Moved
<1>2. CASE x.by_id[e] # None
  <2> DEFINE y == Moved(x, e, place)
             old == Cells(x.by_id[e].coords)
             new == Cells(place.coords)
  <2>1. /\ y.by_id = [x.by_id EXCEPT ![e] = place]
        /\ y.by_coords = (x.by_coords \ Filed(e, old \ new)) \cup Filed(e, new \ old)
    BY <1>2 DEF Moved
  <2>2. a = e => {f \in x.by_coords : f[1] = a} = Filed(e, old)
    BY <1>2 DEF Matches
  <2>3. y.by_id[a] = IF a = e THEN place ELSE x.by_id[a]
    BY <2>1 DEF Known
  <2> HIDE DEF y, old, new
  <2>4. \A cells : \A f \in Filed(e, cells) : f[1] = e
    BY DEF Filed
  <2>5. (Filed(e, old) \ Filed(e, old \ new)) \cup Filed(e, new \ old) = Filed(e, new)
    BY DEF Filed
  <2>6. CASE a = e
    <3>1. {f \in y.by_coords : f[1] = a} = Filed(e, new)
      BY <2>1, <2>2, <2>4, <2>5, <2>6
    <3>2. place # None
      BY LiveMapAssumption
    <3> QED
      BY <2>3, <2>6, <3>1, <3>2 DEF Matches, y, new
  <2>7. CASE a # e
    <3>1. {f \in y.by_coords : f[1] = a} = {f \in x.by_coords : f[1] = a}
      BY <2>1, <2>4, <2>7
    <3> QED
      BY <2>3, <2>7, <3>1 DEF Matches, y
  <2> QED
    BY <2>6, <2>7
<1> QED
  BY <1>1, <1>2

LEMMA ChangedEntries ==
  ASSUME NEW x, Known(x), NEW e \in Entity, NEW place \in Place
  PROVE  /\ Known(Added(x, e, place)) /\ Known(Removed(x, e)) /\ Known(Moved(x, e, place))
         /\ \A a \in Entity :
              /\ Added(x, e, place).by_id[a] = IF a = e THEN place ELSE x.by_id[a]
              /\ Moved(x, e, place).by_id[a] = IF a = e THEN place ELSE x.by_id[a]
              /\ Removed(x, e).by_id[a] = IF a = e THEN None ELSE x.by_id[a]
<1>1. Added(x, e, place).by_id = [x.by_id EXCEPT ![e] = place]
  BY DEF Added
<1>2. Moved(x, e, place).by_id = [x.by_id EXCEPT ![e] = place]
  BY <1>1 DEF Moved
<1>3. Removed(x, e).by_id = [x.by_id EXCEPT ![e] = None]
  BY DEF Removed, Known
<1> QED
  BY <1>1, <1>2, <1>3 DEF Known

-----------------------------------------------------------------------------
(* The maps together.                                                      *)

AllKnown(all) == DOMAIN all = MapEntity /\ \A m \in MapEntity : Known(all[m])

NamesTyped == by_name \in [Name -> MapEntity \cup {None}]

\* The place is on the map m.
OnIt(place, m) == place.map \in Name /\ by_name[place.map] = m

LEMMA EntersMap ==
  ASSUME NEW all, AllKnown(all), NamesTyped, NEW e \in Entity, NEW place \in Place
  PROVE  /\ AllKnown(Enters(all, e, place))
         /\ \A m \in MapEntity :
              Enters(all, e, place)[m] = IF OnIt(place, m) THEN Added(all[m], e, place) ELSE all[m]
<1>1. \A m \in MapEntity :
        Enters(all, e, place)[m] = IF OnIt(place, m) THEN Added(all[m], e, place) ELSE all[m]
  BY LiveMapAssumption DEF Enters, OnMap, OnIt, AllKnown, NamesTyped
<1>2. DOMAIN Enters(all, e, place) = MapEntity
  BY DEF Enters, OnMap, AllKnown
<1> QED
  BY <1>1, <1>2, ChangedEntries DEF AllKnown

LEMMA LeavesMap ==
  ASSUME NEW all, AllKnown(all), NamesTyped, NEW e \in Entity, NEW place \in Place
  PROVE  /\ AllKnown(Leaves(all, e, place))
         /\ \A m \in MapEntity :
              Leaves(all, e, place)[m] = IF OnIt(place, m) THEN Removed(all[m], e) ELSE all[m]
<1>1. \A m \in MapEntity :
        Leaves(all, e, place)[m] = IF OnIt(place, m) THEN Removed(all[m], e) ELSE all[m]
  BY LiveMapAssumption DEF Leaves, OnMap, OnIt, AllKnown, NamesTyped
<1>2. DOMAIN Leaves(all, e, place) = MapEntity
  BY DEF Leaves, OnMap, AllKnown
<1> QED
  BY <1>1, <1>2, ChangedEntries DEF AllKnown

LEMMA ShiftsMap ==
  ASSUME NEW all, AllKnown(all), NamesTyped, NEW e \in Entity,
         NEW from \in Place, NEW to \in Place, from # to
  PROVE  /\ AllKnown(Shifts(all, e, from, to))
         /\ from.map = to.map =>
              \A m \in MapEntity :
                Shifts(all, e, from, to)[m] = IF OnIt(to, m) THEN Moved(all[m], e, to) ELSE all[m]
         /\ from.map # to.map => Shifts(all, e, from, to) = Enters(Leaves(all, e, from), e, to)
<1>1. CASE from.map = to.map
  <2>1. \A m \in MapEntity :
          Shifts(all, e, from, to)[m] = IF OnIt(to, m) THEN Moved(all[m], e, to) ELSE all[m]
    BY <1>1, LiveMapAssumption DEF Shifts, OnMap, OnIt, AllKnown, NamesTyped
  <2>2. DOMAIN Shifts(all, e, from, to) = MapEntity
    BY <1>1 DEF Shifts, OnMap, AllKnown
  <2> QED
    BY <1>1, <2>1, <2>2, ChangedEntries DEF AllKnown
<1>2. CASE from.map # to.map
  <2>1. Shifts(all, e, from, to) = Enters(Leaves(all, e, from), e, to)
    BY <1>2 DEF Shifts
  <2> QED
    BY <1>2, <2>1, EntersMap, LeavesMap
<1> QED
  BY <1>1, <1>2

-----------------------------------------------------------------------------
(* The invariant.                                                          *)

LiveOps == {"insert_live", "remove_live", "remove_parent"}
LiveFrame == [op : LiveOps, who : SUBSET Entity]
One(op, x) == <<[op |-> op, who |-> {x}]>>

On(e, name) == live[e] /\ global[e] # None /\ global[e].map = name

\* Those that a new map does not know of.
Overlooked(m) == \A name \in Name, e \in Entity : by_name[name] = m /\ On(e, name) => e \in missed

\* What is queued is either a cascade of liveness or one command of a hook.
Queued ==
  /\ \/ todo \in Seq(LiveFrame)
     \/ \E e \in Entity : todo = One("default_global", e) /\ global[e] = None /\ local[e] # None
     \/ \E e \in Entity : todo = One("remove_global", e) /\ (live[e] => e \in torn)
     \/ \E m \in MapEntity : todo = One("new_entities", m) /\ Overlooked(m)
  /\ passing => todo = <<>>
  /\ visits # <<>> => passing

\* An entity without a Transform has no GlobalTransform.
Hooked == \A e \in Entity : local[e] = None /\ global[e] # None => todo = One("remove_global", e)

VisitType == [who : SUBSET Entity, under : Place \cup {None}]

TreeTyped ==
  /\ parent \in [Entity -> Entity \cup {None}] /\ live \in [Entity -> BOOLEAN]
  /\ local \in [Entity -> Place \cup {None}] /\ global \in [Entity -> Place \cup {None}]
  /\ changed \subseteq Entity

MapsTyped ==
  /\ named \in [MapEntity -> Name \cup {None}] /\ NamesTyped
  /\ AllKnown(ents)

RestTyped ==
  /\ passing \in BOOLEAN /\ visits \in Seq(VisitType)
  /\ reparented \subseteq Entity /\ torn \subseteq Entity
  /\ missed \subseteq Entity /\ loose \subseteq Entity

\* Both directions of Maps agree with the components Map.
NamesAgree == by_id = named /\ NamesLead

Awaited(m) == todo = One("new_entities", m)

Exact(m, name, e) ==
  /\ ents[m].by_id[e] # None => On(e, name) /\ ents[m].by_id[e] = global[e]
  /\ On(e, name) /\ e \notin missed => ents[m].by_id[e] = global[e]

\* IndexExact, with commands queued: but not while the Entities of a new map are
\* on their way.
Indexed ==
  \A name \in Name, m \in MapEntity :
    by_name[name] = m /\ ~Awaited(m) => \A e \in Entity \ torn : Exact(m, name, e)

Typed == TreeTyped /\ MapsTyped /\ RestTyped
Kept == Typed /\ Queued /\ Hooked /\ NamesAgree
InIndex == CellsMatch /\ Indexed
IndexInv == Kept /\ InIndex

-----------------------------------------------------------------------------
LEMMA OneOp ==
  ASSUME NEW op1, NEW x1, NEW op2, NEW x2
  PROVE  /\ One(op1, x1) = One(op2, x2) <=> (op1 = op2 /\ x1 = x2)
         /\ One(op1, x1) # <<>>
         /\ op1 \notin LiveOps => One(op1, x1) \notin Seq(LiveFrame)
<1>1. One(op1, x1)[1] = [op |-> op1, who |-> {x1}] /\ Len(One(op1, x1)) = 1
  BY DEF One
<1>2. One(op2, x2)[1] = [op |-> op2, who |-> {x2}]
  BY DEF One
<1>3. ASSUME One(op1, x1) = One(op2, x2) PROVE op1 = op2 /\ x1 = x2
  <2>1. [op |-> op1, who |-> {x1}] = [op |-> op2, who |-> {x2}]
    BY <1>1, <1>2, <1>3
  <2>2. op1 = op2 /\ {x1} = {x2}
    BY <2>1
  <2> QED
    BY <2>2
<1>4. ASSUME One(op1, x1) \in Seq(LiveFrame) PROVE op1 \in LiveOps
  <2>1. 1 \in 1..Len(One(op1, x1))
    BY <1>1
  <2>2. One(op1, x1)[1] \in LiveFrame
    BY <1>4, <2>1
  <2> QED
    BY <1>1, <2>2 DEF LiveFrame
<1> QED
  BY <1>1, <1>3, <1>4 DEF One

\* What does not touch the index, nor what it is compared with, keeps it.
LEMMA SameIndex ==
  ASSUME IndexInv, UNCHANGED <<live, global, by_name, ents, torn, missed>>,
         \A m \in MapEntity : Awaited(m) => Awaited(m)'
  PROVE  InIndex'
<1>1. CellsMatch'
  BY DEF IndexInv, InIndex, CellsMatch
<1>2. Indexed'
  BY DEF IndexInv, InIndex, Indexed, Exact, On
<1> QED
  BY <1>1, <1>2 DEF InIndex

LEMMA InitIndexed == Init => IndexInv
<1> SUFFICES ASSUME Init PROVE IndexInv
  OBVIOUS
<1>1. Typed
  <2>1. TreeTyped
    BY DEF Init, TreeTyped
  <2>2. RestTyped
    <3>1. passing \in BOOLEAN /\ visits = <<>>
      BY Zenon DEF Init
    <3>2. visits \in Seq(VisitType)
      BY <3>1
    <3> QED
      BY <3>1, <3>2 DEF Init, RestTyped
  <2>3. MapsTyped
    BY DEF Init, MapsTyped, NamesTyped, AllKnown, Known, NoEntities
  <2> QED
    BY <2>1, <2>2, <2>3 DEF Typed
<1>2. Queued /\ Hooked
  BY DEF Init, Queued, Hooked
<1>3. NamesAgree
  BY DEF Init, NamesAgree, NamesLead
<1>4. CellsMatch
  BY DEF Init, CellsMatch, NoEntities
<1>5. Indexed
  BY LiveMapAssumption DEF Init, Indexed
<1> QED
  BY <1>1, <1>2, <1>3, <1>4, <1>5 DEF IndexInv, Kept, InIndex

\* Frame and its concatenations are cascades of liveness.
LEMMA LiveFrames ==
  ASSUME NEW op \in LiveOps, NEW who \in SUBSET Entity, NEW rest \in Seq(LiveFrame)
  PROVE  Frame(op, who) \in Seq(LiveFrame) /\ Frame(op, who) \o rest \in Seq(LiveFrame)
<1>1. [op |-> op, who |-> who] \in LiveFrame
  BY DEF LiveFrame
<1>2. Frame(op, who) \in Seq(LiveFrame)
  BY <1>1 DEF Frame
<1> QED
  BY <1>2

\* Nobody waits for a new map during a cascade.
LEMMA NoneAwaited ==
  ASSUME todo \in Seq(LiveFrame), NEW m PROVE ~Awaited(m)
  BY OneOp DEF Awaited, LiveOps

-----------------------------------------------------------------------------
(* Commands of the queue.                                                  *)

LEMMA InsertLiveKeeps ==
  ASSUME IndexInv, todo \in Seq(LiveFrame), ~passing,
         NEW e \in Entity, NEW rest \in Seq(LiveFrame), InsertLive(e, rest)
  PROVE  IndexInv'
<1>1. todo' \in Seq(LiveFrame)
  <2>1. Children(e) \in SUBSET Entity /\ "insert_live" \in LiveOps
    BY DEF Children, LiveOps
  <2> QED
    BY <2>1, LiveFrames DEF InsertLive
<1>2. AllKnown(ents)' /\ (~live[e] /\ global[e] # None =>
        \A m \in MapEntity :
          ents'[m] = IF OnIt(global[e], m) THEN Added(ents[m], e, global[e]) ELSE ents[m])
  <2>1. CASE live[e] \/ global[e] = None
    BY <2>1 DEF InsertLive, IndexInv, Kept, Typed, MapsTyped
  <2>2. CASE ~live[e] /\ global[e] # None
    <3>1. global[e] \in Place
      BY <2>2 DEF IndexInv, Kept, Typed, TreeTyped
    <3>2. ents' = Enters(ents, e, global[e])
      BY <2>2 DEF InsertLive
    <3>3. AllKnown(ents) /\ NamesTyped
      BY DEF IndexInv, Kept, Typed, MapsTyped
    <3> QED
      BY <3>1, <3>2, <3>3, EntersMap DEF AllKnown
  <2> QED
    BY <2>1, <2>2
<1>3. Typed'
  <2>1. TreeTyped' /\ RestTyped'
    BY DEF InsertLive, IndexInv, Kept, Typed, TreeTyped, RestTyped, places, pass, history
  <2>2. MapsTyped'
    BY <1>2 DEF InsertLive, IndexInv, Kept, Typed, MapsTyped, NamesTyped, maps
  <2> QED
    BY <2>1, <2>2 DEF Typed
<1>4. Queued'
  BY <1>1 DEF InsertLive, IndexInv, Kept, Queued, pass
<1>5. Hooked'
  <2>1. \A x \in Entity : todo # One("remove_global", x)
    BY OneOp DEF LiveOps
  <2> QED
    BY <2>1 DEF InsertLive, IndexInv, Kept, Hooked, places
<1>6. NamesAgree'
  BY DEF InsertLive, IndexInv, Kept, NamesAgree, NamesLead, maps
<1>7. InIndex'
  <2>1. CASE live[e]
    <3>1. UNCHANGED <<live, global, by_name, ents, torn, missed>>
      BY <2>1 DEF InsertLive, places, maps, history, IndexInv, Kept, Typed, TreeTyped
    <3> QED
      BY <3>1, NoneAwaited, SameIndex
  <2>2. CASE ~live[e]
    <3>1. /\ UNCHANGED <<global, by_name, torn, missed>>
          /\ \A a \in Entity : live'[a] = (a = e \/ live[a])
      BY DEF InsertLive, places, maps, history, IndexInv, Kept, Typed, TreeTyped
    <3>2. \A name \in Name, m \in MapEntity :
            by_name[name] = m => \A a \in Entity \ torn : Exact(m, name, a)
      BY NoneAwaited DEF IndexInv, InIndex, Indexed
    <3>3. CASE global[e] = None
      <4>1. ents' = ents
        BY <2>2, <3>3 DEF InsertLive
      <4>2. CellsMatch'
        BY <3>1, <4>1 DEF IndexInv, InIndex, CellsMatch
      <4>3. Indexed'
        <5> SUFFICES ASSUME NEW name \in Name, NEW m \in MapEntity, by_name[name] = m,
                            NEW a \in Entity \ torn
                     PROVE  Exact(m, name, a)'
          BY <3>1 DEF Indexed
        <5>1. Exact(m, name, a)
          BY <3>2
        <5> QED
          BY <3>1, <3>3, <4>1, <5>1 DEF Exact, On
      <4> QED
        BY <4>2, <4>3 DEF InIndex
    <3>4. CASE global[e] # None
      <4>1. /\ global[e] \in Place /\ global[e] # None
            /\ \A m \in MapEntity : Known(ents[m])
        BY <3>4 DEF IndexInv, Kept, Typed, TreeTyped, MapsTyped, AllKnown
      <4>2. \A m \in MapEntity :
              ents'[m] = IF OnIt(global[e], m) THEN Added(ents[m], e, global[e]) ELSE ents[m]
        BY <1>2, <2>2, <3>4
      <4>3. \A m \in MapEntity : OnIt(global[e], m) /\ e \notin torn => ents[m].by_id[e] = None
        BY <2>2, <3>2 DEF OnIt, Exact, On
      <4>4. CellsMatch'
        <5> SUFFICES ASSUME NEW m \in MapEntity, NEW a \in Entity \ torn
                     PROVE  Matches(ents'[m], a)
          BY <3>1 DEF CellsMatch, Matches
        <5>1. Matches(ents[m], a)
          BY DEF IndexInv, InIndex, CellsMatch, Matches
        <5> QED
          BY <4>1, <4>2, <4>3, <5>1, AddedMatches
      <4>5. Indexed'
        <5> SUFFICES ASSUME NEW name \in Name, NEW m \in MapEntity, by_name[name] = m,
                            NEW a \in Entity \ torn
                     PROVE  Exact(m, name, a)'
          BY <3>1 DEF Indexed
        <5>1. Exact(m, name, a)
          BY <3>2
        <5>2. OnIt(global[e], m) <=> global[e].map = name
          BY LiveMapAssumption DEF OnIt, IndexInv, Kept, NamesAgree, NamesLead
        <5>3. ents'[m].by_id[a] = IF global[e].map = name /\ a = e THEN global[e] ELSE ents[m].by_id[a]
          BY <4>1, <4>2, <5>2, ChangedEntries
        <5> QED
          BY <2>2, <3>1, <3>4, <5>1, <5>3 DEF Exact, On
      <4> QED
        BY <4>4, <4>5 DEF InIndex
    <3> QED
      BY <3>3, <3>4
  <2> QED
    BY <2>1, <2>2
<1> QED
  BY <1>3, <1>4, <1>5, <1>6, <1>7 DEF IndexInv, Kept

LEMMA RemoveLiveKeeps ==
  ASSUME IndexInv, todo \in Seq(LiveFrame), ~passing,
         NEW e \in Entity, NEW rest \in Seq(LiveFrame), RemoveLive(e, rest)
  PROVE  IndexInv'
<1>1. todo' \in Seq(LiveFrame)
  <2> DEFINE orphan == {x \in {e} : parent[x] # None /\ live[parent[x]]}
  <2>1. /\ Children(e) \in SUBSET Entity /\ orphan \in SUBSET Entity
        /\ "remove_live" \in LiveOps /\ "remove_parent" \in LiveOps
    BY DEF Children, LiveOps
  <2> HIDE DEF orphan
  <2>2. Frame("remove_live", Children(e)) \in Seq(LiveFrame)
    BY <2>1, LiveFrames
  <2>3. Frame("remove_parent", orphan) \o rest \in Seq(LiveFrame)
        /\ Frame("remove_parent", orphan) \in Seq(LiveFrame)
    BY <2>1, LiveFrames
  <2>4. Frame("remove_live", Children(e)) \o Frame("remove_parent", orphan) \o rest
          \in Seq(LiveFrame)
    BY <2>2, <2>3
  <2>5. todo' = rest \/
        todo' = Frame("remove_live", Children(e)) \o Frame("remove_parent", orphan) \o rest
    BY DEF RemoveLive, orphan
  <2> QED
    BY <2>4, <2>5
<1>2. AllKnown(ents)' /\ (live[e] /\ global[e] # None =>
        \A m \in MapEntity :
          ents'[m] = IF OnIt(global[e], m) THEN Removed(ents[m], e) ELSE ents[m])
  <2>1. CASE ~live[e] \/ global[e] = None
    BY <2>1 DEF RemoveLive, IndexInv, Kept, Typed, MapsTyped
  <2>2. CASE live[e] /\ global[e] # None
    <3>1. global[e] \in Place
      BY <2>2 DEF IndexInv, Kept, Typed, TreeTyped
    <3>2. ents' = Leaves(ents, e, global[e])
      BY <2>2 DEF RemoveLive
    <3>3. AllKnown(ents) /\ NamesTyped
      BY DEF IndexInv, Kept, Typed, MapsTyped
    <3> QED
      BY <3>1, <3>2, <3>3, LeavesMap DEF AllKnown
  <2> QED
    BY <2>1, <2>2
<1>3. Typed'
  <2>1. TreeTyped' /\ RestTyped'
    BY DEF RemoveLive, IndexInv, Kept, Typed, TreeTyped, RestTyped, places, pass, history
  <2>2. MapsTyped'
    BY <1>2 DEF RemoveLive, IndexInv, Kept, Typed, MapsTyped, NamesTyped, maps
  <2> QED
    BY <2>1, <2>2 DEF Typed
<1>4. Queued'
  BY <1>1 DEF RemoveLive, IndexInv, Kept, Queued, pass
<1>5. Hooked'
  <2>1. \A x \in Entity : todo # One("remove_global", x)
    BY OneOp DEF LiveOps
  <2> QED
    BY <2>1 DEF RemoveLive, IndexInv, Kept, Hooked, places
<1>6. NamesAgree'
  BY DEF RemoveLive, IndexInv, Kept, NamesAgree, NamesLead, maps
<1>7. InIndex'
  <2>1. CASE ~live[e]
    <3>1. UNCHANGED <<live, global, by_name, ents, torn, missed>>
      BY <2>1 DEF RemoveLive, places, maps, history, IndexInv, Kept, Typed, TreeTyped
    <3> QED
      BY <3>1, NoneAwaited, SameIndex
  <2>2. CASE live[e]
    <3>1. /\ UNCHANGED <<global, by_name, torn, missed>>
          /\ \A a \in Entity : live'[a] = (a # e /\ live[a])
      BY DEF RemoveLive, places, maps, history, IndexInv, Kept, Typed, TreeTyped
    <3>2. \A name \in Name, m \in MapEntity :
            by_name[name] = m => \A a \in Entity \ torn : Exact(m, name, a)
      BY NoneAwaited DEF IndexInv, InIndex, Indexed
    <3>3. CASE global[e] = None
      <4>1. ents' = ents
        BY <2>2, <3>3 DEF RemoveLive
      <4>2. CellsMatch'
        BY <3>1, <4>1 DEF IndexInv, InIndex, CellsMatch
      <4>3. Indexed'
        <5> SUFFICES ASSUME NEW name \in Name, NEW m \in MapEntity, by_name[name] = m,
                            NEW a \in Entity \ torn
                     PROVE  Exact(m, name, a)'
          BY <3>1 DEF Indexed
        <5>1. Exact(m, name, a)
          BY <3>2
        <5> QED
          BY <3>1, <3>3, <4>1, <5>1 DEF Exact, On
      <4> QED
        BY <4>2, <4>3 DEF InIndex
    <3>4. CASE global[e] # None
      <4>1. /\ global[e] \in Place /\ global[e] # None
            /\ \A m \in MapEntity : Known(ents[m])
        BY <3>4 DEF IndexInv, Kept, Typed, TreeTyped, MapsTyped, AllKnown
      <4>2. \A m \in MapEntity :
              ents'[m] = IF OnIt(global[e], m) THEN Removed(ents[m], e) ELSE ents[m]
        BY <1>2, <2>2, <3>4
      <4>3. CellsMatch'
        <5> SUFFICES ASSUME NEW m \in MapEntity, NEW a \in Entity \ torn
                     PROVE  Matches(ents'[m], a)
          BY <3>1 DEF CellsMatch, Matches
        <5>1. Matches(ents[m], a)
          BY DEF IndexInv, InIndex, CellsMatch, Matches
        <5> QED
          BY <4>1, <4>2, <5>1, RemovedMatches
      <4>4. Indexed'
        <5> SUFFICES ASSUME NEW name \in Name, NEW m \in MapEntity, by_name[name] = m,
                            NEW a \in Entity \ torn
                     PROVE  Exact(m, name, a)'
          BY <3>1 DEF Indexed
        <5>1. Exact(m, name, a)
          BY <3>2
        <5>2. OnIt(global[e], m) <=> global[e].map = name
          BY LiveMapAssumption DEF OnIt, IndexInv, Kept, NamesAgree, NamesLead
        <5>3. ents'[m].by_id[a] = IF global[e].map = name /\ a = e THEN None ELSE ents[m].by_id[a]
          BY <4>1, <4>2, <5>2, ChangedEntries
        <5> QED
          BY <2>2, <3>1, <3>4, <5>1, <5>3 DEF Exact, On
      <4> QED
        BY <4>3, <4>4 DEF InIndex
    <3> QED
      BY <3>3, <3>4
  <2> QED
    BY <2>1, <2>2
<1> QED
  BY <1>3, <1>4, <1>5, <1>6, <1>7 DEF IndexInv, Kept

LEMMA RemoveParentKeeps ==
  ASSUME IndexInv, todo \in Seq(LiveFrame), ~passing,
         NEW e \in Entity, NEW rest \in Seq(LiveFrame), RemoveParent(e, rest)
  PROVE  IndexInv'
<1>1. Typed'
  <2>1. TreeTyped' /\ RestTyped'
    BY DEF RemoveParent, IndexInv, Kept, Typed, TreeTyped, RestTyped, places, pass
  <2>2. MapsTyped'
    BY DEF RemoveParent, IndexInv, Kept, Typed, MapsTyped, NamesTyped, maps
  <2> QED
    BY <2>1, <2>2 DEF Typed
<1>2. Queued'
  BY DEF RemoveParent, IndexInv, Kept, Queued, pass
<1>3. Hooked'
  <2>1. \A x \in Entity : todo # One("remove_global", x)
    BY OneOp DEF LiveOps
  <2> QED
    BY <2>1 DEF RemoveParent, IndexInv, Kept, Hooked, places
<1>4. NamesAgree'
  BY DEF RemoveParent, IndexInv, Kept, NamesAgree, NamesLead, maps
<1>5. InIndex'
  BY NoneAwaited, SameIndex DEF RemoveParent, places, maps
<1> QED
  BY <1>1, <1>2, <1>3, <1>4, <1>5 DEF IndexInv, Kept

\* A GlobalTransform that was not there, on no map.
LEMMA DefaultGlobalKeeps ==
  ASSUME IndexInv, ~passing, NEW e \in Entity, todo = One("default_global", e),
         global[e] = None, local[e] # None, DefaultGlobal(e, <<>>)
  PROVE  IndexInv'
<1>1. DefaultPlace \in Place /\ DefaultPlace.map = NoName
  BY DEF DefaultPlace, Place, Hex, Direction
<1>2. todo' = <<>> /\ todo' \in Seq(LiveFrame)
  BY DEF DefaultGlobal
<1>3. UNCHANGED <<parent, live, local, changed, named, by_name, by_id, ents, visits, passing,
                  reparented, torn, missed, loose>>
  BY DEF DefaultGlobal, tree, maps, pass, history
<1>4. global' = [global EXCEPT ![e] = DefaultPlace] /\ global \in [Entity -> Place \cup {None}]
  BY DEF DefaultGlobal, IndexInv, Kept, Typed, TreeTyped
<1>5. Typed'
  <2>1. TreeTyped' /\ RestTyped'
    BY <1>1, <1>3, <1>4 DEF IndexInv, Kept, Typed, TreeTyped, RestTyped
  <2>2. MapsTyped'
    BY <1>3 DEF IndexInv, Kept, Typed, MapsTyped, NamesTyped
  <2> QED
    BY <2>1, <2>2 DEF Typed
<1>6. Queued'
  BY <1>2, <1>3 DEF IndexInv, Kept, Queued
<1>7. NamesAgree'
  BY <1>3 DEF IndexInv, Kept, NamesAgree, NamesLead
<1>8. CellsMatch'
  BY <1>3 DEF IndexInv, InIndex, CellsMatch
<1>9. Indexed'
  <2> SUFFICES ASSUME NEW name \in Name, NEW m \in MapEntity, by_name[name] = m,
                      NEW a \in Entity \ torn
               PROVE  Exact(m, name, a)'
    BY <1>3 DEF Indexed
  <2>1. ~Awaited(m)
    BY OneOp DEF Awaited
  <2>2. Exact(m, name, a)
    BY <2>1 DEF IndexInv, InIndex, Indexed
  <2> QED
    BY <1>1, <1>3, <1>4, <2>2, LiveMapAssumption DEF Exact, On
<1>10. Hooked'
  <2>1. \A x \in Entity : todo # One("remove_global", x)
    BY OneOp
  <2> QED
    BY <1>3, <1>4, <2>1 DEF Hooked, IndexInv, Kept
<1> QED
  BY <1>5, <1>6, <1>7, <1>8, <1>9, <1>10 DEF IndexInv, Kept, InIndex

LEMMA RemoveGlobalKeeps ==
  ASSUME IndexInv, ~passing, NEW e \in Entity, todo = One("remove_global", e),
         live[e] => e \in torn, RemoveGlobal(e, <<>>)
  PROVE  IndexInv'
<1>1. todo' = <<>> /\ todo' \in Seq(LiveFrame)
  BY DEF RemoveGlobal
<1>2. UNCHANGED <<parent, live, local, changed, named, by_name, by_id, ents, visits, passing,
                  reparented, torn, missed, loose>>
  BY DEF RemoveGlobal, tree, maps, pass, history
<1>3. global' = [global EXCEPT ![e] = None] /\ global \in [Entity -> Place \cup {None}]
  BY DEF RemoveGlobal, IndexInv, Kept, Typed, TreeTyped
<1>4. Typed'
  <2>1. TreeTyped' /\ RestTyped'
    BY <1>2, <1>3 DEF IndexInv, Kept, Typed, TreeTyped, RestTyped
  <2>2. MapsTyped'
    BY <1>2 DEF IndexInv, Kept, Typed, MapsTyped, NamesTyped
  <2> QED
    BY <2>1, <2>2 DEF Typed
<1>5. Queued'
  BY <1>1, <1>2 DEF IndexInv, Kept, Queued
<1>6. NamesAgree'
  BY <1>2 DEF IndexInv, Kept, NamesAgree, NamesLead
<1>7. CellsMatch'
  BY <1>2 DEF IndexInv, InIndex, CellsMatch
<1>8. Indexed'
  <2> SUFFICES ASSUME NEW name \in Name, NEW m \in MapEntity, by_name[name] = m,
                      NEW a \in Entity \ torn
               PROVE  Exact(m, name, a)'
    BY <1>2 DEF Indexed
  <2>1. ~Awaited(m)
    BY OneOp DEF Awaited
  <2>2. Exact(m, name, a)
    BY <2>1 DEF IndexInv, InIndex, Indexed
  <2> QED
    BY <1>2, <1>3, <2>2 DEF Exact, On
<1>9. Hooked'
  <2>1. \A x \in Entity : todo = One("remove_global", x) => x = e
    BY OneOp
  <2> QED
    BY <1>2, <1>3, <2>1 DEF Hooked, IndexInv, Kept
<1> QED
  BY <1>4, <1>5, <1>6, <1>7, <1>8, <1>9 DEF IndexInv, Kept, InIndex

LEMMA FreshEntitiesKeeps ==
  ASSUME IndexInv, ~passing, NEW n \in MapEntity, todo = One("new_entities", n),
         Overlooked(n), FreshEntities(n, <<>>)
  PROVE  IndexInv'
<1>1. todo' = <<>> /\ todo' \in Seq(LiveFrame)
  BY DEF FreshEntities
<1>2. UNCHANGED <<parent, live, local, global, changed, named, by_name, by_id, visits, passing,
                  reparented, torn, missed, loose>>
  BY DEF FreshEntities, tree, places, maps, pass, history
<1>3. ents' = [ents EXCEPT ![n] = NoEntities] /\ AllKnown(ents)
  BY DEF FreshEntities, IndexInv, Kept, Typed, MapsTyped
<1>4. Known(NoEntities) /\ \A a \in Entity : NoEntities.by_id[a] = None
  BY DEF Known, NoEntities
<1>5. Typed'
  <2>1. TreeTyped' /\ RestTyped'
    BY <1>2 DEF IndexInv, Kept, Typed, TreeTyped, RestTyped
  <2>2. MapsTyped'
    BY <1>2, <1>3, <1>4 DEF IndexInv, Kept, Typed, MapsTyped, NamesTyped, AllKnown
  <2> QED
    BY <2>1, <2>2 DEF Typed
<1>6. Queued'
  BY <1>1, <1>2 DEF IndexInv, Kept, Queued
<1>7. NamesAgree'
  BY <1>2 DEF IndexInv, Kept, NamesAgree, NamesLead
<1>8. Hooked'
  <2>1. \A x \in Entity : todo # One("remove_global", x)
    BY OneOp
  <2> QED
    BY <1>2, <2>1 DEF Hooked, IndexInv, Kept
<1>9. CellsMatch'
  <2> SUFFICES ASSUME NEW m \in MapEntity, NEW a \in Entity \ torn
               PROVE  Matches(ents'[m], a)
    BY <1>2 DEF CellsMatch, Matches
  <2>1. Matches(ents[m], a)
    BY DEF IndexInv, InIndex, CellsMatch, Matches
  <2>2. Matches(NoEntities, a)
    BY DEF Matches, NoEntities
  <2> QED
    BY <1>3, <2>1, <2>2 DEF AllKnown
<1>10. Indexed'
  <2> SUFFICES ASSUME NEW name \in Name, NEW m \in MapEntity, by_name[name] = m,
                      NEW a \in Entity \ torn
               PROVE  Exact(m, name, a)'
    BY <1>2 DEF Indexed
  <2>1. CASE m # n
    <3>1. ~Awaited(m)
      BY <2>1, OneOp DEF Awaited
    <3>2. Exact(m, name, a)
      BY <3>1 DEF IndexInv, InIndex, Indexed
    <3> QED
      BY <1>2, <1>3, <2>1, <3>2 DEF Exact, On, AllKnown
  <2>2. CASE m = n
    <3>1. On(a, name) => a \in missed
      BY <2>2 DEF Overlooked
    <3> QED
      BY <1>2, <1>3, <1>4, <2>2, <3>1 DEF Exact, On, AllKnown
  <2> QED
    BY <2>1, <2>2
<1> QED
  BY <1>5, <1>6, <1>7, <1>8, <1>9, <1>10 DEF IndexInv, Kept, InIndex

\* RunQueued, by what is queued.
LEMMA QueueCases ==
  ASSUME Queued, RunQueued
  PROVE  /\ ~passing
         /\ \/ /\ todo \in Seq(LiveFrame)
               /\ \E e \in Entity, rest \in Seq(LiveFrame) :
                    InsertLive(e, rest) \/ RemoveLive(e, rest) \/ RemoveParent(e, rest)
            \/ \E e \in Entity : /\ todo = One("default_global", e) /\ global[e] = None
                                  /\ local[e] # None /\ DefaultGlobal(e, <<>>)
            \/ \E e \in Entity : /\ todo = One("remove_global", e) /\ (live[e] => e \in torn)
                                  /\ RemoveGlobal(e, <<>>)
            \/ \E m \in MapEntity : /\ todo = One("new_entities", m) /\ Overlooked(m)
                                     /\ FreshEntities(m, <<>>)
<1>1. todo # <<>> /\ ~passing
  BY DEF Queued, RunQueued
<1>2. CASE todo \in Seq(LiveFrame)
  <2>1. PICK x \in Head(todo).who :
          Run(Head(todo).op, x, Frame(Head(todo).op, Head(todo).who \ {x}) \o Tail(todo))
    BY DEF RunQueued
  <2> DEFINE op == Head(todo).op
             rest == Frame(op, Head(todo).who \ {x}) \o Tail(todo)
  <2>2. Head(todo) \in LiveFrame /\ Tail(todo) \in Seq(LiveFrame)
    BY <1>1, <1>2
  <2>3. op \in LiveOps /\ Head(todo).who \in SUBSET Entity
    BY <2>2 DEF LiveFrame
  <2>4. rest \in Seq(LiveFrame)
    BY <2>2, <2>3, LiveFrames
  <2>5. x \in Entity /\ Run(op, x, rest)
    BY <2>1, <2>3
  <2> HIDE DEF op, rest
  <2>6. InsertLive(x, rest) \/ RemoveLive(x, rest) \/ RemoveParent(x, rest)
    BY <2>3, <2>5 DEF Run, LiveOps
  <2> QED
    BY <1>1, <1>2, <2>4, <2>5, <2>6
<1>3. ASSUME NEW o, NEW y, todo = One(o, y)
      PROVE  Run(o, y, <<>>)
  <2>1. /\ Head(todo).op = o /\ Head(todo).who = {y} /\ Tail(todo) = <<>>
    BY <1>3 DEF One
  <2>2. Frame(o, {}) \o <<>> = <<>>
    BY DEF Frame
  <2>3. PICK x \in {y} : Run(o, x, Frame(o, {y} \ {x}) \o <<>>)
    BY <2>1 DEF RunQueued
  <2> QED
    BY <2>2, <2>3
<1>4. ASSUME NEW e \in Entity, todo = One("default_global", e), global[e] = None, local[e] # None
      PROVE  DefaultGlobal(e, <<>>)
  BY <1>3, <1>4 DEF Run
<1>5. ASSUME NEW e \in Entity, todo = One("remove_global", e)
      PROVE  RemoveGlobal(e, <<>>)
  BY <1>3, <1>5 DEF Run
<1>6. ASSUME NEW m \in MapEntity, todo = One("new_entities", m)
      PROVE  FreshEntities(m, <<>>)
  BY <1>3, <1>6 DEF Run
<1> QED
  BY <1>1, <1>2, <1>4, <1>5, <1>6 DEF Queued

LEMMA RunQueuedKeeps == ASSUME IndexInv, RunQueued PROVE IndexInv'
<1>1. Queued
  BY DEF IndexInv, Kept
<1> QED
  BY <1>1, QueueCases, InsertLiveKeeps, RemoveLiveKeeps, RemoveParentKeeps, DefaultGlobalKeeps,
     RemoveGlobalKeeps, FreshEntitiesKeeps

-----------------------------------------------------------------------------
(* Commands.                                                               *)

\* Between commands everything is as IndexExact says.
LEMMA AtRest ==
  ASSUME IndexInv, Resting
  PROVE  /\ todo = <<>> /\ todo \in Seq(LiveFrame) /\ ~passing /\ visits = <<>>
         /\ \A x \in Entity : todo # One("remove_global", x) /\ (local[x] = None => global[x] = None)
         /\ \A m : ~Awaited(m)
         /\ \A name \in Name, m \in MapEntity :
              by_name[name] = m => \A a \in Entity \ torn : Exact(m, name, a)
<1>1. todo = <<>> /\ todo \in Seq(LiveFrame) /\ ~passing
  BY DEF Resting
<1>2. visits = <<>>
  BY <1>1 DEF IndexInv, Kept, Queued
<1>3. \A x \in Entity : todo # One("remove_global", x)
  BY <1>1, OneOp
<1>4. \A m : ~Awaited(m)
  BY <1>1, NoneAwaited
<1> QED
  BY <1>1, <1>2, <1>3, <1>4 DEF IndexInv, Kept, Hooked, InIndex, Indexed

LEMMA SetParentKeeps ==
  ASSUME IndexInv, NEW e \in Entity, NEW p \in Entity, SetParent(e, p)
  PROVE  IndexInv'
<1>1. Resting
  BY DEF SetParent
<1>2. todo' \in Seq(LiveFrame)
  <2>1. /\ {e} \in SUBSET Entity /\ "insert_live" \in LiveOps /\ "remove_live" \in LiveOps
        /\ <<>> \in Seq(LiveFrame)
    BY DEF LiveOps
  <2>2. /\ Frame("insert_live", {e}) \in Seq(LiveFrame)
        /\ Frame("remove_live", {e}) \in Seq(LiveFrame)
    BY <2>1, LiveFrames
  <2> QED
    BY <1>1, <2>2, AtRest DEF SetParent
<1>3. UNCHANGED <<live, local, global, changed, named, by_name, by_id, ents, passing, visits,
                  torn, missed>>
  BY DEF SetParent, places, maps, pass
<1>4. Typed'
  <2>1. TreeTyped'
    BY <1>3 DEF SetParent, IndexInv, Kept, Typed, TreeTyped
  <2>2. RestTyped'
    BY <1>3 DEF SetParent, IndexInv, Kept, Typed, RestTyped
  <2>3. MapsTyped'
    BY <1>3 DEF IndexInv, Kept, Typed, MapsTyped, NamesTyped
  <2> QED
    BY <2>1, <2>2, <2>3 DEF Typed
<1>5. Queued'
  BY <1>1, <1>2, <1>3, AtRest DEF Queued
<1>6. Hooked'
  BY <1>1, <1>3, AtRest DEF Hooked
<1>7. NamesAgree'
  BY <1>3 DEF IndexInv, Kept, NamesAgree, NamesLead
<1>8. InIndex'
  BY <1>1, <1>3, AtRest, SameIndex
<1> QED
  BY <1>4, <1>5, <1>6, <1>7, <1>8 DEF IndexInv, Kept

LEMMA SetTransformKeeps ==
  ASSUME IndexInv, NEW e \in Entity, NEW t \in Local, SetTransform(e, t)
  PROVE  IndexInv'
<1>1. Resting /\ t \in Place /\ t # None
  BY LiveMapAssumption DEF SetTransform
<1>2. UNCHANGED <<parent, live, global, named, by_name, by_id, ents, passing, visits,
                  reparented, torn, missed, loose>>
  BY DEF SetTransform, tree, maps, pass, history
<1>3. local' = [local EXCEPT ![e] = t] /\ local \in [Entity -> Place \cup {None}]
  BY DEF SetTransform, IndexInv, Kept, Typed, TreeTyped
<1>4. todo' = <<>> \/ (local[e] = None /\ todo' = One("default_global", e))
  <2>1. Frame("default_global", {}) = <<>> /\ Frame("default_global", {e}) = One("default_global", e)
    BY DEF Frame, One
  <2> DEFINE bare == {x \in {e} : local[x] = None}
  <2>2. todo' = Frame("default_global", bare)
    BY DEF SetTransform
  <2>3. (local[e] = None => bare = {e}) /\ (local[e] # None => bare = {})
    OBVIOUS
  <2> HIDE DEF bare
  <2> QED
    BY <2>1, <2>2, <2>3
<1>5. Typed'
  <2>1. TreeTyped'
    BY <1>1, <1>2, <1>3 DEF SetTransform, IndexInv, Kept, Typed, TreeTyped
  <2>2. RestTyped'
    BY <1>2 DEF IndexInv, Kept, Typed, RestTyped
  <2>3. MapsTyped'
    BY <1>2 DEF IndexInv, Kept, Typed, MapsTyped, NamesTyped
  <2> QED
    BY <2>1, <2>2, <2>3 DEF Typed
<1>6. Queued'
  <2>1. CASE todo' = <<>>
    <3>1. todo' \in Seq(LiveFrame)
      BY <2>1
    <3> QED
      BY <1>1, <1>2, <3>1, AtRest DEF Queued
  <2>2. CASE local[e] = None /\ todo' = One("default_global", e)
    <3>1. global'[e] = None /\ local'[e] # None
      BY <1>1, <1>2, <1>3, <2>2, AtRest
    <3> QED
      BY <1>1, <1>2, <2>2, <3>1, AtRest DEF Queued
  <2> QED
    BY <1>4, <2>1, <2>2
<1>7. Hooked'
  BY <1>1, <1>2, <1>3, AtRest DEF Hooked
<1>8. NamesAgree'
  BY <1>2 DEF IndexInv, Kept, NamesAgree, NamesLead
<1>9. InIndex'
  BY <1>1, <1>2, AtRest, SameIndex
<1> QED
  BY <1>5, <1>6, <1>7, <1>8, <1>9 DEF IndexInv, Kept

LEMMA RemoveTransformKeeps ==
  ASSUME IndexInv, NEW e \in Entity, RemoveTransform(e)
  PROVE  IndexInv'
<1>1. Resting
  BY DEF RemoveTransform
<1>2. UNCHANGED <<parent, live, global, named, by_name, by_id, ents, passing, visits,
                  reparented, missed, loose>>
  BY DEF RemoveTransform, tree, maps, pass
<1>3. local' = [local EXCEPT ![e] = None] /\ local \in [Entity -> Place \cup {None}]
  BY DEF RemoveTransform, IndexInv, Kept, Typed, TreeTyped
<1>4. todo' = One("remove_global", e)
  BY DEF RemoveTransform, Frame, One
<1>5. torn \subseteq torn' /\ torn' \subseteq Entity /\ (live[e] => e \in torn')
  BY DEF RemoveTransform, IndexInv, Kept, Typed, RestTyped
<1>6. Typed'
  <2>1. TreeTyped'
    BY <1>2, <1>3 DEF RemoveTransform, IndexInv, Kept, Typed, TreeTyped
  <2>2. RestTyped'
    BY <1>2, <1>5 DEF IndexInv, Kept, Typed, RestTyped
  <2>3. MapsTyped'
    BY <1>2 DEF IndexInv, Kept, Typed, MapsTyped, NamesTyped
  <2> QED
    BY <2>1, <2>2, <2>3 DEF Typed
<1>7. Queued'
  BY <1>1, <1>2, <1>4, <1>5, AtRest DEF Queued
<1>8. Hooked'
  BY <1>1, <1>2, <1>3, <1>4, AtRest DEF Hooked
<1>9. NamesAgree'
  BY <1>2 DEF IndexInv, Kept, NamesAgree, NamesLead
<1>10. CellsMatch'
  BY <1>2, <1>5 DEF IndexInv, InIndex, CellsMatch
<1>11. Indexed'
  <2> SUFFICES ASSUME NEW name \in Name, NEW m \in MapEntity, by_name[name] = m,
                      NEW a \in Entity \ torn
               PROVE  Exact(m, name, a)'
    BY <1>2, <1>5 DEF Indexed
  <2>1. Exact(m, name, a)
    BY <1>1, AtRest
  <2> QED
    BY <1>2, <2>1 DEF Exact, On
<1> QED
  BY <1>6, <1>7, <1>8, <1>9, <1>10, <1>11 DEF IndexInv, Kept, InIndex

LEMMA AddMapKeeps ==
  ASSUME IndexInv, NEW n \in MapEntity, NEW new \in Name, AddMap(n, new)
  PROVE  IndexInv'
<1>1. Resting /\ named[n] = None
  BY DEF AddMap
<1>2. UNCHANGED <<parent, live, local, global, changed, ents, passing, visits,
                  reparented, torn, loose>>
  BY DEF AddMap, tree, places, pass
<1>3. /\ named' = [named EXCEPT ![n] = new] /\ by_name' = [by_name EXCEPT ![new] = n]
      /\ by_id' = [by_id EXCEPT ![n] = new]
      /\ named \in [MapEntity -> Name \cup {None}] /\ NamesTyped
      /\ by_id = named /\ NamesLead
  BY DEF AddMap, IndexInv, Kept, Typed, MapsTyped, NamesAgree
<1>4. todo' = One("new_entities", n)
  BY DEF AddMap, Frame, One
<1>5. missed \subseteq missed' /\ missed' \subseteq Entity /\ missed \subseteq Entity
  BY DEF AddMap, IndexInv, Kept, Typed, RestTyped
<1>6. Typed'
  <2>1. TreeTyped'
    BY <1>2 DEF IndexInv, Kept, Typed, TreeTyped
  <2>2. RestTyped'
    BY <1>2, <1>5 DEF IndexInv, Kept, Typed, RestTyped
  <2>3. MapsTyped'
    BY <1>2, <1>3 DEF IndexInv, Kept, Typed, MapsTyped, NamesTyped
  <2> QED
    BY <2>1, <2>2, <2>3 DEF Typed
<1>7. \A name \in Name : by_name'[name] = IF name = new THEN n ELSE by_name[name]
  BY <1>3 DEF NamesTyped
<1>8. \A name \in Name : by_name[name] # n
  BY <1>1, <1>3, LiveMapAssumption DEF NamesLead, NamesTyped
<1>9. Overlooked(n)'
  <2> SUFFICES ASSUME NEW name \in Name, NEW e \in Entity, by_name'[name] = n, On(e, name)'
               PROVE  e \in missed'
    BY DEF Overlooked
  <2>1. name = new
    BY <1>7, <1>8
  <2> QED
    BY <1>2, <2>1 DEF AddMap, On
<1>10. Queued'
  BY <1>1, <1>2, <1>4, <1>9, AtRest DEF Queued
<1>11. Hooked'
  BY <1>1, <1>2, AtRest DEF Hooked
<1>12. NamesAgree'
  <2>1. \A name \in Name : by_name'[name] # None => named'[by_name'[name]] = name
    BY <1>1, <1>3, <1>7, <1>8, LiveMapAssumption DEF NamesLead, NamesTyped
  <2> QED
    BY <1>3, <2>1 DEF NamesAgree, NamesLead
<1>13. CellsMatch'
  BY <1>2 DEF IndexInv, InIndex, CellsMatch
<1>14. Indexed'
  <2> SUFFICES ASSUME NEW name \in Name, NEW m \in MapEntity, by_name'[name] = m,
                      ~Awaited(m)', NEW a \in Entity \ torn
               PROVE  Exact(m, name, a)'
    BY <1>2 DEF Indexed
  <2>1. m # n
    BY <1>4 DEF Awaited
  <2>2. by_name[name] = m
    BY <1>7, <2>1
  <2>3. Exact(m, name, a)
    BY <1>1, <2>2, AtRest
  <2> QED
    BY <1>2, <1>5, <2>3 DEF Exact, On
<1> QED
  BY <1>6, <1>10, <1>11, <1>12, <1>13, <1>14 DEF IndexInv, Kept, InIndex

LEMMA RemoveMapKeeps ==
  ASSUME IndexInv, NEW n \in MapEntity, RemoveMap(n)
  PROVE  IndexInv'
<1>1. Resting /\ named[n] # None
  BY DEF RemoveMap
<1>2. UNCHANGED <<parent, live, local, global, changed, ents, todo, passing, visits,
                  reparented, torn, missed, loose>>
  BY DEF RemoveMap, tree, places, pass, history
<1>3. /\ named' = [named EXCEPT ![n] = None] /\ by_id' = [by_id EXCEPT ![n] = None]
      /\ named \in [MapEntity -> Name \cup {None}] /\ NamesTyped
      /\ by_id = named /\ NamesLead
      /\ by_name' = [by_name EXCEPT ![named[n]] = None] /\ named[n] \in Name
  BY <1>1 DEF RemoveMap, IndexInv, Kept, Typed, MapsTyped, NamesAgree
<1>4. \A name \in Name : by_name'[name] = IF name = named[n] THEN None ELSE by_name[name]
  BY <1>3 DEF NamesTyped
<1>5. Typed'
  <2>1. TreeTyped'
    BY <1>2 DEF IndexInv, Kept, Typed, TreeTyped
  <2>2. RestTyped'
    BY <1>2 DEF IndexInv, Kept, Typed, RestTyped
  <2>3. MapsTyped'
    BY <1>2, <1>3 DEF IndexInv, Kept, Typed, MapsTyped, NamesTyped
  <2> QED
    BY <2>1, <2>2, <2>3 DEF Typed
<1>6. Queued'
  BY <1>1, <1>2, AtRest DEF Queued
<1>7. Hooked'
  BY <1>1, <1>2, AtRest DEF Hooked
<1>8. NamesAgree'
  <2>1. \A name \in Name : by_name'[name] # None => named'[by_name'[name]] = name
    BY <1>3, <1>4 DEF NamesLead, NamesTyped
  <2> QED
    BY <1>3, <2>1 DEF NamesAgree, NamesLead
<1>9. CellsMatch'
  BY <1>2 DEF IndexInv, InIndex, CellsMatch
<1>10. Indexed'
  <2> SUFFICES ASSUME NEW name \in Name, NEW m \in MapEntity, by_name'[name] = m,
                      NEW a \in Entity \ torn
               PROVE  Exact(m, name, a)'
    BY <1>2 DEF Indexed
  <2>1. by_name[name] = m
    BY <1>4, LiveMapAssumption
  <2>2. Exact(m, name, a)
    BY <1>1, <2>1, AtRest
  <2> QED
    BY <1>2, <2>2 DEF Exact, On
<1> QED
  BY <1>5, <1>6, <1>7, <1>8, <1>9, <1>10 DEF IndexInv, Kept, InIndex

\* What despawning does to the index of one map, for one entity.
LEMMA PurgedMatches ==
  ASSUME NEW gone \in SUBSET Entity, AllKnown(ents), NEW m \in MapEntity, NEW a \in Entity
  PROVE  LET off == /\ a \in gone /\ live[a] /\ global[a] # None /\ OnIt(global[a], m)
                    /\ ents[m].by_id[a] # None
         IN  /\ Purged(gone)[m].by_id[a] = IF off THEN None ELSE ents[m].by_id[a]
             /\ Known(Purged(gone)[m])
             /\ Matches(ents[m], a) => Matches(Purged(gone)[m], a)
<1> DEFINE off == {e \in gone : /\ live[e] /\ global[e] # None
                               /\ global[e].map \in Name /\ by_name[global[e].map] = m
                               /\ ents[m].by_id[e] # None}
           x == ents[m]
           y == Purged(gone)[m]
<1>1. /\ y.by_id = [e \in Entity |-> IF e \in off THEN None ELSE x.by_id[e]]
      /\ y.by_coords = {f \in x.by_coords :
                          ~(f[1] \in off /\ f[2] \in Cells(x.by_id[f[1]].coords))}
  BY DEF Purged
<1>2. a \in off <=> /\ a \in gone /\ live[a] /\ global[a] # None /\ OnIt(global[a], m)
                   /\ ents[m].by_id[a] # None
  BY DEF OnIt
<1>3. a \in off => x.by_id[a] # None
  OBVIOUS
<1>4. Known(x)
  BY DEF AllKnown
<1> HIDE DEF off, x, y
<1>5. Known(y)
  BY <1>1, <1>4 DEF Known
<1>6. y.by_id[a] = IF a \in off THEN None ELSE x.by_id[a]
  BY <1>1
<1>7. ASSUME Matches(x, a) PROVE Matches(y, a)
  <2>1. CASE a \in off
    <3>1. {f \in x.by_coords : f[1] = a} = Filed(a, Cells(x.by_id[a].coords))
      BY <1>3, <1>7, <2>1 DEF Matches
    <3>2. \A f \in Filed(a, Cells(x.by_id[a].coords)) : f[2] \in Cells(x.by_id[a].coords)
      BY DEF Filed
    <3>3. {f \in y.by_coords : f[1] = a} = {}
      BY <1>1, <2>1, <3>1, <3>2
    <3> QED
      BY <1>6, <2>1, <3>3 DEF Matches
  <2>2. CASE a \notin off
    <3>1. {f \in y.by_coords : f[1] = a} = {f \in x.by_coords : f[1] = a}
      BY <1>1, <2>2
    <3> QED
      BY <1>6, <1>7, <2>2, <3>1 DEF Matches
  <2> QED
    BY <2>1, <2>2
<1> QED
  BY <1>2, <1>5, <1>6, <1>7 DEF x, y

LEMMA DespawnKeeps ==
  ASSUME IndexInv, NEW e \in Entity, Despawn(e)
  PROVE  IndexInv'
<1> DEFINE gone == {x \in Entity : Below(x, e)}
<1>1. /\ Resting /\ gone \in SUBSET Entity
      /\ parent' = [x \in Entity |-> IF x \in gone THEN None ELSE parent[x]]
      /\ live' = [x \in Entity |-> IF x \in gone THEN FALSE ELSE live[x]]
      /\ local' = [x \in Entity |-> IF x \in gone THEN None ELSE local[x]]
      /\ global' = [x \in Entity |-> IF x \in gone THEN None ELSE global[x]]
      /\ changed' = changed \ gone /\ ents' = Purged(gone) /\ reparented' = reparented \ gone
      /\ UNCHANGED <<named, by_name, by_id, todo, passing, visits, torn, missed, loose>>
  BY DEF Despawn, maps, pass
<1> HIDE DEF gone
<1>2. AllKnown(ents) /\ TreeTyped
  BY DEF IndexInv, Kept, Typed, MapsTyped
<1>3. AllKnown(ents)'
  BY <1>1, <1>2, PurgedMatches DEF AllKnown, Known, Purged
<1>4. Typed'
  <2>1. TreeTyped'
    BY <1>1, <1>2 DEF TreeTyped
  <2>2. RestTyped'
    BY <1>1 DEF IndexInv, Kept, Typed, RestTyped
  <2>3. MapsTyped'
    BY <1>1, <1>3 DEF IndexInv, Kept, Typed, MapsTyped, NamesTyped
  <2> QED
    BY <2>1, <2>2, <2>3 DEF Typed
<1>5. Queued'
  BY <1>1, AtRest DEF Queued
<1>6. Hooked'
  BY <1>1, AtRest DEF Hooked
<1>7. NamesAgree'
  BY <1>1 DEF IndexInv, Kept, NamesAgree, NamesLead
<1>8. CellsMatch'
  <2> SUFFICES ASSUME NEW m \in MapEntity, NEW a \in Entity \ torn
               PROVE  Matches(ents'[m], a)
    BY <1>1 DEF CellsMatch, Matches
  <2>1. Matches(ents[m], a)
    BY DEF IndexInv, InIndex, CellsMatch, Matches
  <2> QED
    BY <1>1, <1>2, <2>1, PurgedMatches
<1>9. Indexed'
  <2> SUFFICES ASSUME NEW name \in Name, NEW m \in MapEntity, by_name[name] = m,
                      NEW a \in Entity \ torn
               PROVE  Exact(m, name, a)'
    BY <1>1 DEF Indexed
  <2>1. Exact(m, name, a)
    BY <1>1, AtRest
  <2> DEFINE off == /\ a \in gone /\ live[a] /\ global[a] # None /\ OnIt(global[a], m)
                    /\ ents[m].by_id[a] # None
  <2>2. ents'[m].by_id[a] = IF off THEN None ELSE ents[m].by_id[a]
    BY <1>1, <1>2, PurgedMatches
  <2>3. a \in gone /\ ents[m].by_id[a] # None => off
    BY <2>1 DEF Exact, On, OnIt
  <2>4. off => a \in gone
    OBVIOUS
  <2> HIDE DEF off
  <2>5. CASE a \in gone
    BY <1>1, <2>2, <2>3, <2>5 DEF Exact, On
  <2>6. CASE a \notin gone
    BY <1>1, <2>1, <2>2, <2>4, <2>6 DEF Exact, On
  <2> QED
    BY <2>5, <2>6
<1> QED
  BY <1>4, <1>5, <1>6, <1>7, <1>8, <1>9 DEF IndexInv, Kept, InIndex

-----------------------------------------------------------------------------
(* propagate_transforms.                                                   *)

LEMMA UnderPlace ==
  ASSUME NEW p \in Place, NEW t \in Place PROVE Under(p, t) \in Place
<1>1. p.facing \in Direction /\ t.facing \in Direction /\ p.map \in Name \cup {NoName}
  BY DEF Place
<1>2. PICK px \in Int, py \in Int : p.coords = <<px, py>>
  BY DEF Place, Hex
<1>3. PICK tx \in Int, ty \in Int : t.coords = <<tx, ty>>
  BY DEF Place, Hex
<1>4. PICK rx \in Int, ry \in Int : RotateCw(t.coords, p.facing) = <<rx, ry>>
  BY <1>1, <1>3 DEF RotateCw, Direction
<1>5. HexAdd(p.coords, RotateCw(t.coords, p.facing)) \in Hex
  BY <1>2, <1>4 DEF HexAdd, Hex
<1>6. TurnCw(t.facing, p.facing) \in Direction
  BY <1>1 DEF TurnCw, Direction
<1> QED
  BY <1>1, <1>5, <1>6 DEF Under, Place

LEMMA VisitFrames ==
  ASSUME NEW who \in SUBSET Entity, NEW under \in Place \cup {None}, NEW rest \in Seq(VisitType)
  PROVE  Visits(who, under) \in Seq(VisitType) /\ Visits(who, under) \o rest \in Seq(VisitType)
<1>1. [who |-> who, under |-> under] \in VisitType
  BY DEF VisitType
<1>2. Visits(who, under) \in Seq(VisitType)
  BY <1>1 DEF Visits
<1> QED
  BY <1>2

LEMMA StartPassKeeps == ASSUME IndexInv, StartPass PROVE IndexInv'
<1>1. /\ Resting /\ passing' = TRUE
      /\ UNCHANGED <<parent, live, local, global, changed, named, by_name, by_id, ents, todo,
                     visits, reparented, torn, missed, loose>>
  BY DEF StartPass, tree, places, maps, history
<1>2. Typed'
  <2>1. passing' \in BOOLEAN
    BY <1>1, Zenon
  <2>2. TreeTyped' /\ RestTyped'
    BY <1>1, <2>1 DEF IndexInv, Kept, Typed, TreeTyped, RestTyped
  <2>3. MapsTyped'
    BY <1>1 DEF IndexInv, Kept, Typed, MapsTyped, NamesTyped
  <2> QED
    BY <2>2, <2>3 DEF Typed
<1>3. Queued'
  BY <1>1, AtRest DEF Queued
<1>4. Hooked'
  BY <1>1, AtRest DEF Hooked
<1>5. NamesAgree'
  BY <1>1 DEF IndexInv, Kept, NamesAgree, NamesLead
<1>6. InIndex'
  BY <1>1, AtRest, SameIndex
<1> QED
  BY <1>2, <1>3, <1>4, <1>5, <1>6 DEF IndexInv, Kept

\* During a pass nothing is queued.
LEMMA InPass ==
  ASSUME IndexInv, passing
  PROVE  /\ todo = <<>> /\ todo \in Seq(LiveFrame)
         /\ \A m : ~Awaited(m)
         /\ \A x \in Entity : local[x] = None => global[x] = None
         /\ \A name \in Name, m \in MapEntity :
              by_name[name] = m => \A a \in Entity \ torn : Exact(m, name, a)
<1>1. todo = <<>> /\ todo \in Seq(LiveFrame)
  BY DEF IndexInv, Kept, Queued
<1>2. \A m : ~Awaited(m)
  BY <1>1, NoneAwaited
<1>3. \A x \in Entity : todo # One("remove_global", x)
  BY <1>1, OneOp
<1> QED
  BY <1>1, <1>2, <1>3 DEF IndexInv, Kept, Hooked, InIndex, Indexed

LEMMA EndPassKeeps == ASSUME IndexInv, EndPass PROVE IndexInv'
<1>1. /\ passing /\ visits = <<>> /\ passing' = FALSE
      /\ UNCHANGED <<parent, live, local, global, changed, named, by_name, by_id, ents, todo,
                     visits, reparented, torn, missed, loose>>
  BY DEF EndPass, tree, places, maps, history
<1>2. Typed'
  <2>1. passing' \in BOOLEAN
    BY <1>1, Zenon
  <2>2. TreeTyped' /\ RestTyped'
    BY <1>1, <2>1 DEF IndexInv, Kept, Typed, TreeTyped, RestTyped
  <2>3. MapsTyped'
    BY <1>1 DEF IndexInv, Kept, Typed, MapsTyped, NamesTyped
  <2> QED
    BY <2>2, <2>3 DEF Typed
<1>3. Queued'
  BY <1>1, InPass DEF Queued
<1>4. Hooked'
  BY <1>1, InPass DEF Hooked
<1>5. NamesAgree'
  BY <1>1 DEF IndexInv, Kept, NamesAgree, NamesLead
<1>6. InIndex'
  BY <1>1, InPass, SameIndex
<1> QED
  BY <1>2, <1>3, <1>4, <1>5, <1>6 DEF IndexInv, Kept

LEMMA VisitChangedKeeps ==
  ASSUME IndexInv, NEW e \in Entity, VisitChanged(e) PROVE IndexInv'
<1>1. /\ passing /\ visits = <<>> /\ changed' = changed \ {e}
      /\ UNCHANGED <<parent, live, local, global, named, by_name, by_id, ents, todo,
                     passing, reparented, torn, missed, loose>>
  BY DEF VisitChanged, tree, maps, history
<1>2. TreeTyped /\ RestTyped
  BY DEF IndexInv, Kept, Typed
<1>3. visits' \in Seq(VisitType)
  <2> DEFINE under == IF parent[e] \in Entity /\ HasData(parent[e]) THEN global[parent[e]] ELSE None
  <2>1. under \in Place \cup {None}
    BY <1>2 DEF TreeTyped
  <2>2. {e} \in SUBSET Entity /\ <<>> \in Seq(VisitType)
    OBVIOUS
  <2>3. visits' = Visits({e}, under)
    BY DEF VisitChanged
  <2> HIDE DEF under
  <2> QED
    BY <2>1, <2>2, <2>3, VisitFrames
<1>4. Typed'
  <2>1. TreeTyped' /\ RestTyped'
    BY <1>1, <1>2, <1>3 DEF TreeTyped, RestTyped
  <2>2. MapsTyped'
    BY <1>1 DEF IndexInv, Kept, Typed, MapsTyped, NamesTyped
  <2> QED
    BY <2>1, <2>2 DEF Typed
<1>5. Queued'
  BY <1>1, InPass DEF Queued
<1>6. Hooked'
  BY <1>1, InPass DEF Hooked
<1>7. NamesAgree'
  BY <1>1 DEF IndexInv, Kept, NamesAgree, NamesLead
<1>8. InIndex'
  BY <1>1, InPass, SameIndex
<1> QED
  BY <1>4, <1>5, <1>6, <1>7, <1>8 DEF IndexInv, Kept

LEMMA VisitFrame ==
  ASSUME IndexInv, NEW e \in Entity, Visit(e)
  PROVE  /\ passing /\ Head(visits).under \in Place \cup {None}
         /\ \A under \in Place \cup {None} : Visits(Children(e), under) \o Returning(e) \in Seq(VisitType)
<1>1. visits \in Seq(VisitType) /\ visits # <<>> /\ passing
  BY DEF IndexInv, Kept, Typed, RestTyped, Queued, Visit
<1>2. Head(visits) \in VisitType /\ Tail(visits) \in Seq(VisitType)
  BY <1>1
<1>3. Head(visits).who \in SUBSET Entity /\ Head(visits).under \in Place \cup {None}
  BY <1>2 DEF VisitType
<1>4. Returning(e) \in Seq(VisitType)
  BY <1>2, <1>3, VisitFrames DEF Returning
<1>5. Children(e) \in SUBSET Entity
  BY DEF Children
<1> QED
  BY <1>1, <1>3, <1>4, <1>5, VisitFrames

LEMMA VisitBareKeeps ==
  ASSUME IndexInv, NEW e \in Entity, Visit(e), VisitBare(e) PROVE IndexInv'
<1>1. /\ passing /\ visits' = Visits(Children(e), Head(visits).under) \o Returning(e)
      /\ UNCHANGED <<parent, live, local, global, changed, named, by_name, by_id, ents, todo,
                     passing, reparented, torn, missed>>
      /\ loose' = loose \ {e}
  BY VisitFrame DEF Visit, VisitBare, tree, maps
<1>2. visits' \in Seq(VisitType)
  BY <1>1, VisitFrame
<1>3. Typed'
  <2>1. TreeTyped' /\ RestTyped'
    BY <1>1, <1>2 DEF IndexInv, Kept, Typed, TreeTyped, RestTyped
  <2>2. MapsTyped'
    BY <1>1 DEF IndexInv, Kept, Typed, MapsTyped, NamesTyped
  <2> QED
    BY <2>1, <2>2 DEF Typed
<1>4. Queued'
  BY <1>1, InPass DEF Queued
<1>5. Hooked'
  BY <1>1, InPass DEF Hooked
<1>6. NamesAgree'
  BY <1>1 DEF IndexInv, Kept, NamesAgree, NamesLead
<1>7. InIndex'
  BY <1>1, InPass, SameIndex
<1> QED
  BY <1>3, <1>4, <1>5, <1>6, <1>7 DEF IndexInv, Kept

\* An entity that is on the map from.map goes to another place.
LEMMA ShiftKeeps ==
  ASSUME IndexInv, passing, NEW e \in Entity, live[e], NEW to \in Place,
         global[e] # None, global[e] # to, ents' = Shifts(ents, e, global[e], to),
         global' = [global EXCEPT ![e] = to], missed' = missed \ {e},
         UNCHANGED <<live, by_name, torn>>
  PROVE  InIndex'
<1> DEFINE from == global[e]
<1>1. from \in Place /\ AllKnown(ents) /\ NamesTyped /\ global \in [Entity -> Place \cup {None}]
  BY DEF IndexInv, Kept, Typed, TreeTyped, MapsTyped
<1>2. \A name \in Name, m \in MapEntity :
        by_name[name] = m =>
          /\ OnIt(from, m) <=> from.map = name
          /\ OnIt(to, m) <=> to.map = name
  BY LiveMapAssumption DEF OnIt, IndexInv, Kept, NamesAgree, NamesLead
<1>3. \A name \in Name, m \in MapEntity :
        by_name[name] = m => \A a \in Entity \ torn : Exact(m, name, a)
  BY InPass
<1>4. \A m \in MapEntity : \A a \in Entity \ torn : Matches(ents[m], a)
  BY DEF IndexInv, InIndex, CellsMatch, Matches
<1>5. \A a \in Entity : global'[a] = IF a = e THEN to ELSE global[a]
  BY <1>1
<1>6. \A m \in MapEntity : Known(ents[m])
  BY <1>1 DEF AllKnown
<1>7. to # None
  BY LiveMapAssumption
<1> HIDE DEF from
<1>8. CASE from.map = to.map
  <2>1. \A m \in MapEntity : ents'[m] = IF OnIt(to, m) THEN Moved(ents[m], e, to) ELSE ents[m]
    BY <1>1, <1>8, ShiftsMap DEF from
  <2>2. CellsMatch'
    <3> SUFFICES ASSUME NEW m \in MapEntity, NEW a \in Entity \ torn
                 PROVE  Matches(ents'[m], a)
      BY DEF CellsMatch, Matches
    <3> QED
      BY <1>4, <1>6, <2>1, MovedMatches
  <2>3. Indexed'
    <3> SUFFICES ASSUME NEW name \in Name, NEW m \in MapEntity, by_name[name] = m,
                        NEW a \in Entity \ torn
                 PROVE  Exact(m, name, a)'
      BY DEF Indexed
    <3>1. Exact(m, name, a)
      BY <1>3
    <3>2. ents'[m].by_id[a] = IF to.map = name /\ a = e THEN to ELSE ents[m].by_id[a]
      BY <1>2, <1>6, <2>1, ChangedEntries
    <3> QED
      BY <1>5, <1>7, <1>8, <3>1, <3>2 DEF Exact, On, from
  <2> QED
    BY <2>2, <2>3 DEF InIndex
<1>9. CASE from.map # to.map
  <2> DEFINE left == Leaves(ents, e, from)
  <2>1. AllKnown(left) /\ ents' = Enters(left, e, to)
    BY <1>1, <1>9, ShiftsMap, LeavesMap DEF from
  <2>2. \A m \in MapEntity : left[m] = IF OnIt(from, m) THEN Removed(ents[m], e) ELSE ents[m]
    BY <1>1, LeavesMap
  <2> HIDE DEF left
  <2>3. \A m \in MapEntity : ents'[m] = IF OnIt(to, m) THEN Added(left[m], e, to) ELSE left[m]
    BY <1>1, <2>1, EntersMap
  <2>4. \A m \in MapEntity : Known(left[m])
    BY <2>1 DEF AllKnown
  <2>5. \A m \in MapEntity : \A a \in Entity \ torn : Matches(left[m], a)
    BY <1>4, <1>6, <2>2, RemovedMatches
  <2>6. \A m \in MapEntity : OnIt(to, m) /\ e \notin torn => left[m].by_id[e] = None
    <3> SUFFICES ASSUME NEW m \in MapEntity, OnIt(to, m), e \notin torn
                 PROVE  left[m].by_id[e] = None
      OBVIOUS
    <3>1. to.map \in Name /\ by_name[to.map] = m
      BY DEF OnIt
    <3>2. left[m] = ents[m]
      BY <1>2, <1>9, <2>2, <3>1
    <3>3. Exact(m, to.map, e)
      BY <1>3, <3>1
    <3> QED
      BY <1>9, <3>2, <3>3 DEF Exact, On, from
  <2>7. CellsMatch'
    <3> SUFFICES ASSUME NEW m \in MapEntity, NEW a \in Entity \ torn
                 PROVE  Matches(ents'[m], a)
      BY DEF CellsMatch, Matches
    <3> QED
      BY <2>3, <2>4, <2>5, <2>6, AddedMatches
  <2>8. Indexed'
    <3> SUFFICES ASSUME NEW name \in Name, NEW m \in MapEntity, by_name[name] = m,
                        NEW a \in Entity \ torn
                 PROVE  Exact(m, name, a)'
      BY DEF Indexed
    <3>1. Exact(m, name, a)
      BY <1>3
    <3>2. left[m].by_id[a] = IF from.map = name /\ a = e THEN None ELSE ents[m].by_id[a]
      BY <1>2, <1>6, <2>2, ChangedEntries
    <3>3. ents'[m].by_id[a] = IF to.map = name /\ a = e THEN to ELSE left[m].by_id[a]
      BY <1>2, <2>3, <2>4, ChangedEntries
    <3> QED
      BY <1>5, <1>7, <1>9, <3>1, <3>2, <3>3 DEF Exact, On, from
  <2> QED
    BY <2>7, <2>8 DEF InIndex
<1> QED
  BY <1>8, <1>9

LEMMA VisitPlacedKeeps ==
  ASSUME IndexInv, NEW e \in Entity, Visit(e), VisitPlaced(e) PROVE IndexInv'
<1> DEFINE under == Head(visits).under
           place == IF under = None THEN local[e] ELSE Under(under, local[e])
<1>1. /\ passing /\ HasData(e) /\ global' = [global EXCEPT ![e] = place]
      /\ visits' = Visits(Children(e), place) \o Returning(e)
      /\ ents' = IF live[e] THEN Shifts(ents, e, global[e], place) ELSE ents
      /\ missed' = IF live[e] /\ place # global[e] THEN missed \ {e} ELSE missed
      /\ UNCHANGED <<parent, live, local, changed, named, by_name, by_id, todo,
                     passing, reparented, torn>>
      /\ loose' = loose \ {e}
  BY VisitFrame DEF Visit, VisitPlaced, tree, maps
<1>2. local[e] \in Place /\ global[e] \in Place /\ local[e] # None /\ global[e] # None
  BY <1>1 DEF HasData, IndexInv, Kept, Typed, TreeTyped
<1>3. place \in Place
  BY <1>2, VisitFrame, UnderPlace
<1> HIDE DEF place
<1>4. visits' \in Seq(VisitType)
  BY <1>1, <1>3, VisitFrame
<1>5. /\ AllKnown(ents) /\ NamesTyped /\ global \in [Entity -> Place \cup {None}]
      /\ missed \subseteq Entity
  BY DEF IndexInv, Kept, Typed, TreeTyped, MapsTyped, RestTyped
<1>6. global' \in [Entity -> Place \cup {None}] /\ missed' \subseteq Entity
  BY <1>1, <1>3, <1>5
<1>7. Shifts(ents, e, global[e], place) = ents \/ global[e] # place
  BY DEF Shifts
<1>8. AllKnown(ents)'
  <2>1. AllKnown(Shifts(ents, e, global[e], place))
    BY <1>2, <1>3, <1>5, <1>7, ShiftsMap
  <2> QED
    BY <1>1, <1>5, <2>1 DEF AllKnown
<1>9. Typed'
  <2>1. TreeTyped' /\ RestTyped'
    BY <1>1, <1>4, <1>6 DEF IndexInv, Kept, Typed, TreeTyped, RestTyped
  <2>2. MapsTyped'
    BY <1>1, <1>8 DEF IndexInv, Kept, Typed, MapsTyped, NamesTyped
  <2> QED
    BY <2>1, <2>2 DEF Typed
<1>10. Queued'
  BY <1>1, InPass DEF Queued
<1>11. Hooked'
  BY <1>1, <1>2, <1>5, InPass DEF Hooked
<1>12. NamesAgree'
  BY <1>1 DEF IndexInv, Kept, NamesAgree, NamesLead
<1>13. InIndex'
  <2>1. CASE live[e] /\ global[e] # place
    BY <1>1, <1>2, <1>3, <2>1, ShiftKeeps
  <2>2. CASE live[e] /\ global[e] = place
    <3>1. global' = global /\ ents' = ents /\ missed' = missed
      BY <1>1, <1>5, <2>2 DEF Shifts
    <3> QED
      BY <1>1, <3>1, InPass, SameIndex
  <2>3. CASE ~live[e]
    <3>1. ents' = ents /\ missed' = missed
      BY <1>1, <2>3
    <3>2. CellsMatch'
      BY <1>1, <3>1 DEF IndexInv, InIndex, CellsMatch
    <3>3. Indexed'
      <4> SUFFICES ASSUME NEW name \in Name, NEW m \in MapEntity, by_name[name] = m,
                          NEW a \in Entity \ torn
                   PROVE  Exact(m, name, a)'
        BY <1>1 DEF Indexed
      <4>1. Exact(m, name, a)
        BY <1>1, InPass
      <4>2. a # e => global'[a] = global[a]
        BY <1>1, <1>5
      <4> QED
        BY <1>1, <2>3, <3>1, <4>1, <4>2 DEF Exact, On
    <3> QED
      BY <3>2, <3>3 DEF InIndex
  <2> QED
    BY <2>1, <2>2, <2>3
<1> QED
  BY <1>9, <1>10, <1>11, <1>12, <1>13 DEF IndexInv, Kept

LEMMA CommandKeeps == ASSUME IndexInv, NEW e \in Entity, Command(e) PROVE IndexInv'
<1>1. <<>> \in Seq(LiveFrame)
  OBVIOUS
<1>2. CASE GainLive(e)
  BY <1>1, <1>2, AtRest, InsertLiveKeeps DEF GainLive
<1>3. CASE LoseLive(e)
  BY <1>1, <1>3, AtRest, RemoveLiveKeeps DEF LoseLive
<1>4. CASE \E p \in Entity : SetParent(e, p)
  BY <1>4, SetParentKeeps
<1>5. CASE Orphan(e)
  BY <1>1, <1>5, AtRest, RemoveParentKeeps DEF Orphan
<1>6. CASE \E t \in Local : SetTransform(e, t)
  BY <1>6, SetTransformKeeps
<1>7. CASE RemoveTransform(e)
  BY <1>7, RemoveTransformKeeps
<1>8. CASE Despawn(e)
  BY <1>8, DespawnKeeps
<1> QED
  BY <1>2, <1>3, <1>4, <1>5, <1>6, <1>7, <1>8 DEF Command

LEMMA NextIndexed == IndexInv /\ [Next]_vars => IndexInv'
<1> SUFFICES ASSUME IndexInv, [Next]_vars PROVE IndexInv'
  OBVIOUS
<1>1. CASE Commands
  <2>1. CASE \E e \in Entity : Command(e)
    BY <2>1, CommandKeeps
  <2>2. CASE \E m \in MapEntity : MapCommand(m)
    BY <2>2, AddMapKeeps, RemoveMapKeeps DEF MapCommand
  <2> QED
    BY <1>1, <2>1, <2>2 DEF Commands
<1>2. CASE RunQueued
  BY <1>2, RunQueuedKeeps
<1>3. CASE Pass
  <2>1. ASSUME NEW e \in Entity, Visit(e) PROVE IndexInv'
    BY <2>1, VisitPlacedKeeps, VisitBareKeeps DEF Visit
  <2> QED
    BY <1>3, <2>1, StartPassKeeps, EndPassKeeps, VisitChangedKeeps DEF Pass
<1>4. CASE UNCHANGED vars
  <2>1. UNCHANGED <<parent, live, local, global, changed, named, by_name, by_id, ents, todo,
                    visits, passing, reparented, torn, missed, loose>>
    BY <1>4 DEF vars, tree, places, maps, pass, history
  <2>2. Typed'
    <3>1. TreeTyped' /\ RestTyped'
      BY <2>1 DEF IndexInv, Kept, Typed, TreeTyped, RestTyped
    <3>2. MapsTyped'
      BY <2>1 DEF IndexInv, Kept, Typed, MapsTyped, NamesTyped
    <3> QED
      BY <3>1, <3>2 DEF Typed
  <2>3. Queued' /\ Hooked'
    BY <2>1 DEF IndexInv, Kept, Queued, Hooked, Overlooked, On
  <2>4. NamesAgree'
    BY <2>1 DEF IndexInv, Kept, NamesAgree, NamesLead
  <2>5. InIndex'
    BY <2>1, SameIndex DEF Awaited
  <2> QED
    BY <2>2, <2>3, <2>4, <2>5 DEF IndexInv, Kept
<1> QED
  BY <1>1, <1>2, <1>3, <1>4 DEF Next

-----------------------------------------------------------------------------
(* Live entities have no dead children.                                    *)

\* What is queued will make e live, or take it from its parent.
Doomed(q, e) ==
  \E i \in DOMAIN q : q[i].op \in {"insert_live", "remove_parent"} /\ e \in q[i].who

DeadBelow(e) == parent[e] # None /\ live[parent[e]] /\ ~live[e] /\ e \notin reparented

InsertFrame == [op : {"insert_live"}, who : SUBSET Entity]
RemoveFrame == [op : {"remove_live", "remove_parent"}, who : SUBSET Entity]

\* A cascade makes entities live or makes them dead, never both.
OneWay ==
  todo \in Seq(LiveFrame) => todo \in Seq(InsertFrame) \/ todo \in Seq(RemoveFrame)

DeadAreDoomed == \A e \in Entity : DeadBelow(e) => Doomed(todo, e)

DeadInv == IndexInv /\ OneWay /\ DeadAreDoomed

LEMMA DoomedJoin ==
  ASSUME NEW q \in Seq(LiveFrame), NEW r \in Seq(LiveFrame), NEW e
  PROVE  Doomed(q \o r, e) <=> Doomed(q, e) \/ Doomed(r, e)
<1>1. /\ DOMAIN q = 1..Len(q) /\ DOMAIN r = 1..Len(r) /\ Len(q) \in Nat /\ Len(r) \in Nat
      /\ DOMAIN (q \o r) = 1..(Len(q) + Len(r))
      /\ \A i \in 1..(Len(q) + Len(r)) :
           (q \o r)[i] = IF i <= Len(q) THEN q[i] ELSE r[i - Len(q)]
  OBVIOUS
<1>2. ASSUME Doomed(q \o r, e) PROVE Doomed(q, e) \/ Doomed(r, e)
  <2>1. PICK i \in 1..(Len(q) + Len(r)) :
          (q \o r)[i].op \in {"insert_live", "remove_parent"} /\ e \in (q \o r)[i].who
    BY <1>1, <1>2 DEF Doomed
  <2>2. CASE i <= Len(q)
    BY <1>1, <2>1, <2>2 DEF Doomed
  <2>3. CASE ~(i <= Len(q))
    <3>1. i - Len(q) \in 1..Len(r)
      BY <1>1, <2>3
    <3> QED
      BY <1>1, <2>1, <2>3, <3>1 DEF Doomed
  <2> QED
    BY <2>2, <2>3
<1>3. ASSUME Doomed(q, e) PROVE Doomed(q \o r, e)
  <2>1. PICK i \in 1..Len(q) : q[i].op \in {"insert_live", "remove_parent"} /\ e \in q[i].who
    BY <1>1, <1>3 DEF Doomed
  <2>2. i \in 1..(Len(q) + Len(r)) /\ (q \o r)[i] = q[i]
    BY <1>1
  <2> QED
    BY <1>1, <2>1, <2>2 DEF Doomed
<1>4. ASSUME Doomed(r, e) PROVE Doomed(q \o r, e)
  <2>1. PICK i \in 1..Len(r) : r[i].op \in {"insert_live", "remove_parent"} /\ e \in r[i].who
    BY <1>1, <1>4 DEF Doomed
  <2>2. i + Len(q) \in 1..(Len(q) + Len(r)) /\ (q \o r)[i + Len(q)] = r[i]
    BY <1>1
  <2> QED
    BY <1>1, <2>1, <2>2 DEF Doomed
<1> QED
  BY <1>2, <1>3, <1>4

LEMMA DoomedFrame ==
  ASSUME NEW op, NEW who, NEW e
  PROVE  /\ Doomed(Frame(op, who), e) <=> op \in {"insert_live", "remove_parent"} /\ e \in who
         /\ ~Doomed(<<>>, e)
         /\ \A x : Doomed(One(op, x), e) <=> op \in {"insert_live", "remove_parent"} /\ e = x
<1>1. \A w : LET q == <<[op |-> op, who |-> w]>>
            IN  DOMAIN q = {1} /\ q[1].op = op /\ q[1].who = w
  OBVIOUS
<1>2. DOMAIN <<>> = {}
  OBVIOUS
<1> QED
  BY <1>1, <1>2 DEF Doomed, Frame, One

\* A frame in front of a cascade of one kind.
LEMMA SameKind ==
  ASSUME NEW S, NEW op \in S, NEW who \in SUBSET Entity,
         NEW rest \in Seq([op : S, who : SUBSET Entity])
  PROVE  /\ Frame(op, who) \in Seq([op : S, who : SUBSET Entity])
         /\ Frame(op, who) \o rest \in Seq([op : S, who : SUBSET Entity])
<1> DEFINE kind == [op : S, who : SUBSET Entity]
<1>1. [op |-> op, who |-> who] \in kind /\ rest \in Seq(kind)
  OBVIOUS
<1> SUFFICES Frame(op, who) \in Seq(kind) /\ Frame(op, who) \o rest \in Seq(kind)
  OBVIOUS
<1> HIDE DEF kind
<1>2. Frame(op, who) \in Seq(kind)
  BY <1>1 DEF Frame
<1> QED
  BY <1>1, <1>2

\* A step of a cascade, and what is left of it.
LEMMA CascadeStep ==
  ASSUME OneWay, RunQueued, todo \in Seq(LiveFrame)
  PROVE  \E op \in LiveOps, x \in Entity, rest \in Seq(LiveFrame) :
           /\ Run(op, x, rest)
           /\ \/ op = "insert_live" /\ rest \in Seq(InsertFrame)
              \/ op # "insert_live" /\ rest \in Seq(RemoveFrame)
           /\ \A a : Doomed(todo, a) => Doomed(rest, a) \/ (a = x /\ op # "remove_live")
<1>1. todo # <<>>
  BY DEF RunQueued
<1>2. PICK x \in Head(todo).who :
        Run(Head(todo).op, x, Frame(Head(todo).op, Head(todo).who \ {x}) \o Tail(todo))
  BY DEF RunQueued
<1> DEFINE op == Head(todo).op
           who == Head(todo).who
           rest == Frame(op, who \ {x}) \o Tail(todo)
<1>3. /\ Head(todo) \in LiveFrame /\ Tail(todo) \in Seq(LiveFrame)
      /\ todo = <<Head(todo)>> \o Tail(todo)
  BY <1>1
<1>4. op \in LiveOps /\ who \in SUBSET Entity /\ Head(todo) = [op |-> op, who |-> who]
  BY <1>3 DEF LiveFrame
<1>5. x \in Entity /\ who # {} /\ Run(op, x, rest)
  BY <1>2, <1>4
<1>6. todo = Frame(op, who) \o Tail(todo)
  BY <1>3, <1>4, <1>5 DEF Frame
<1>7. todo \in Seq(InsertFrame) => op \in {"insert_live"} /\ Tail(todo) \in Seq(InsertFrame)
  <2> SUFFICES ASSUME todo \in Seq(InsertFrame)
               PROVE  op \in {"insert_live"} /\ Tail(todo) \in Seq(InsertFrame)
    OBVIOUS
  <2>1. Head(todo) \in InsertFrame /\ Tail(todo) \in Seq(InsertFrame)
    BY <1>1
  <2> QED
    BY <2>1 DEF InsertFrame
<1>8. todo \in Seq(RemoveFrame) =>
        op \in {"remove_live", "remove_parent"} /\ Tail(todo) \in Seq(RemoveFrame)
  <2> SUFFICES ASSUME todo \in Seq(RemoveFrame)
               PROVE  op \in {"remove_live", "remove_parent"} /\ Tail(todo) \in Seq(RemoveFrame)
    OBVIOUS
  <2>1. Head(todo) \in RemoveFrame /\ Tail(todo) \in Seq(RemoveFrame)
    BY <1>1
  <2> QED
    BY <2>1 DEF RemoveFrame
<1> HIDE DEF op, who
<1>9. Frame(op, who) \in Seq(LiveFrame) /\ Frame(op, who \ {x}) \in Seq(LiveFrame)
      /\ rest \in Seq(LiveFrame)
  BY <1>3, <1>4, LiveFrames
<1>10. \/ (op = "insert_live" /\ rest \in Seq(InsertFrame))
       \/ (op # "insert_live" /\ rest \in Seq(RemoveFrame))
  <2>1. CASE todo \in Seq(InsertFrame)
    <3>1. rest \in Seq(InsertFrame)
      BY <1>4, <1>7, <2>1, SameKind DEF InsertFrame
    <3> QED
      BY <1>7, <2>1, <3>1
  <2>2. CASE todo \in Seq(RemoveFrame)
    <3>1. rest \in Seq(RemoveFrame)
      BY <1>4, <1>8, <2>2, SameKind DEF RemoveFrame
    <3> QED
      BY <1>8, <2>2, <3>1
  <2> QED
    BY <2>1, <2>2 DEF OneWay
<1>11. ASSUME NEW a, Doomed(todo, a)
       PROVE  Doomed(rest, a) \/ (a = x /\ op # "remove_live")
  <2>1. Doomed(Frame(op, who), a) \/ Doomed(Tail(todo), a)
    BY <1>3, <1>6, <1>9, <1>11, DoomedJoin
  <2>2. Doomed(rest, a) <=> Doomed(Frame(op, who \ {x}), a) \/ Doomed(Tail(todo), a)
    BY <1>3, <1>9, DoomedJoin
  <2> QED
    BY <2>1, <2>2, DoomedFrame
<1>12. op \in LiveOps /\ x \in Entity /\ rest \in Seq(LiveFrame) /\ Run(op, x, rest)
  BY <1>4, <1>5, <1>9
<1> HIDE DEF rest
<1> QED
  BY <1>10, <1>11, <1>12

-----------------------------------------------------------------------------
LEMMA InsertLiveDead ==
  ASSUME IndexInv, NEW x \in Entity, NEW rest \in Seq(LiveFrame), InsertLive(x, rest),
         \A a \in Entity : DeadBelow(a) /\ a # x => Doomed(rest, a)
  PROVE  DeadAreDoomed'
<1>1. /\ UNCHANGED <<parent, reparented>> /\ live' = [live EXCEPT ![x] = TRUE]
      /\ parent \in [Entity -> Entity \cup {None}] /\ live \in [Entity -> BOOLEAN]
  BY DEF InsertLive, history, IndexInv, Kept, Typed, TreeTyped
<1> SUFFICES ASSUME NEW a \in Entity, DeadBelow(a)' PROVE Doomed(todo', a)
  BY DEF DeadAreDoomed, Doomed
<1>2. a # x
  BY <1>1 DEF DeadBelow
<1>3. CASE live[x]
  <2>1. live' = live /\ todo' = rest
    BY <1>1, <1>3 DEF InsertLive
  <2> QED
    BY <1>1, <1>2, <2>1 DEF DeadBelow
<1>4. CASE ~live[x]
  <2>1. /\ todo' = Frame("insert_live", Children(x)) \o rest
        /\ Children(x) \in SUBSET Entity /\ "insert_live" \in LiveOps
    BY <1>4 DEF InsertLive, Children, LiveOps
  <2>2. Frame("insert_live", Children(x)) \in Seq(LiveFrame)
    BY <2>1, LiveFrames
  <2>3. a \in Children(x) \/ Doomed(rest, a)
    BY <1>1, <1>2 DEF DeadBelow, Children
  <2> QED
    BY <2>1, <2>2, <2>3, DoomedJoin, DoomedFrame
<1> QED
  BY <1>3, <1>4

LEMMA RemoveLiveDead ==
  ASSUME IndexInv, NEW x \in Entity, NEW rest \in Seq(LiveFrame), RemoveLive(x, rest),
         \A a \in Entity : DeadBelow(a) => Doomed(rest, a)
  PROVE  DeadAreDoomed'
<1>1. /\ UNCHANGED <<parent, reparented>> /\ live' = [live EXCEPT ![x] = FALSE]
      /\ parent \in [Entity -> Entity \cup {None}] /\ live \in [Entity -> BOOLEAN]
  BY DEF RemoveLive, history, IndexInv, Kept, Typed, TreeTyped
<1> SUFFICES ASSUME NEW a \in Entity, DeadBelow(a)' PROVE Doomed(todo', a)
  BY DEF DeadAreDoomed, Doomed
<1>2. CASE ~live[x]
  <2>1. live' = live /\ todo' = rest
    BY <1>1, <1>2 DEF RemoveLive
  <2> QED
    BY <1>1, <2>1 DEF DeadBelow
<1>3. CASE live[x]
  <2> DEFINE orphan == {y \in {x} : parent[y] # None /\ live[parent[y]]}
             under == Frame("remove_live", Children(x))
             loosed == Frame("remove_parent", orphan)
  <2>1. /\ todo' = under \o loosed \o rest
        /\ Children(x) \in SUBSET Entity /\ orphan \in SUBSET Entity
        /\ "remove_live" \in LiveOps /\ "remove_parent" \in LiveOps
    BY <1>3 DEF RemoveLive, Children, LiveOps
  <2> HIDE DEF orphan
  <2>2. under \in Seq(LiveFrame) /\ loosed \in Seq(LiveFrame)
    BY <2>1, LiveFrames
  <2>3. a = x => a \in orphan
    BY <1>1 DEF DeadBelow, orphan
  <2>4. Doomed(loosed, a) <=> a \in orphan
    BY DoomedFrame
  <2> HIDE DEF under, loosed
  <2>5. under \o loosed \in Seq(LiveFrame)
    BY <2>2
  <2>6. Doomed(todo', a) <=> Doomed(under, a) \/ Doomed(loosed, a) \/ Doomed(rest, a)
    BY <2>1, <2>2, <2>5, DoomedJoin
  <2>7. a # x => Doomed(rest, a)
    BY <1>1 DEF DeadBelow
  <2> QED
    BY <2>3, <2>4, <2>6, <2>7
<1> QED
  BY <1>2, <1>3

LEMMA RemoveParentDead ==
  ASSUME IndexInv, NEW x \in Entity, NEW rest \in Seq(LiveFrame), RemoveParent(x, rest),
         \A a \in Entity : DeadBelow(a) /\ a # x => Doomed(rest, a)
  PROVE  DeadAreDoomed'
<1>1. /\ live' = live /\ parent' = [parent EXCEPT ![x] = None]
      /\ reparented' = reparented \ {x} /\ todo' = rest
      /\ parent \in [Entity -> Entity \cup {None}]
  BY DEF RemoveParent, IndexInv, Kept, Typed, TreeTyped
<1> SUFFICES ASSUME NEW a \in Entity, DeadBelow(a)' PROVE Doomed(todo', a)
  BY DEF DeadAreDoomed, Doomed
<1>2. a # x /\ DeadBelow(a)
  BY <1>1 DEF DeadBelow
<1> QED
  BY <1>1, <1>2

\* When no cascade is under way nobody is doomed, and nobody is dead below a live
\* parent.
LEMMA NoCascade ==
  ASSUME DeadInv, todo = <<>> \/ \E op, y : op \notin LiveOps /\ todo = One(op, y)
  PROVE  \A a \in Entity : ~DeadBelow(a)
<1>1. \A a : ~Doomed(todo, a)
  BY DoomedFrame DEF LiveOps
<1> QED
  BY <1>1 DEF DeadInv, DeadAreDoomed

\* One command of the queue.
LEMMA RunQueuedDead ==
  ASSUME DeadInv, RunQueued PROVE OneWay' /\ DeadAreDoomed'
<1>1. CASE todo \in Seq(LiveFrame)
  <2>1. PICK op \in LiveOps, x \in Entity, rest \in Seq(LiveFrame) :
           /\ Run(op, x, rest)
           /\ \/ op = "insert_live" /\ rest \in Seq(InsertFrame)
              \/ op # "insert_live" /\ rest \in Seq(RemoveFrame)
           /\ \A a : Doomed(todo, a) => Doomed(rest, a) \/ (a = x /\ op # "remove_live")
    BY <1>1, CascadeStep DEF DeadInv
  <2>2. \A a \in Entity : DeadBelow(a) => Doomed(rest, a) \/ (a = x /\ op # "remove_live")
    BY <2>1 DEF DeadInv, DeadAreDoomed
  <2>3. Children(x) \in SUBSET Entity
    BY DEF Children
  <2>4. CASE op = "insert_live"
    <3>1. InsertLive(x, rest) /\ rest \in Seq(InsertFrame)
      BY <2>1, <2>4 DEF Run
    <3>2. todo' \in Seq(InsertFrame)
      BY <2>3, <3>1, SameKind DEF InsertLive, InsertFrame
    <3> QED
      BY <2>2, <3>1, <3>2, InsertLiveDead DEF DeadInv, OneWay
  <2>5. CASE op = "remove_live"
    <3>1. RemoveLive(x, rest) /\ rest \in Seq(RemoveFrame)
      BY <2>1, <2>5 DEF Run
    <3>2. todo' \in Seq(RemoveFrame)
      <4> DEFINE orphan == {y \in {x} : parent[y] # None /\ live[parent[y]]}
      <4>1. todo' = rest \/
            todo' = Frame("remove_live", Children(x)) \o Frame("remove_parent", orphan) \o rest
        BY <3>1 DEF RemoveLive
      <4>2. orphan \in SUBSET Entity
        OBVIOUS
      <4> HIDE DEF orphan
      <4>3. /\ Frame("remove_live", Children(x)) \in Seq(RemoveFrame)
            /\ Frame("remove_parent", orphan) \in Seq(RemoveFrame)
        <5>1. /\ "remove_live" \in {"remove_live", "remove_parent"}
              /\ "remove_parent" \in {"remove_live", "remove_parent"}
          OBVIOUS
        <5> QED
          BY <2>3, <3>1, <4>2, <5>1, SameKind DEF RemoveFrame
      <4> DEFINE under == Frame("remove_live", Children(x))
                 loosed == Frame("remove_parent", orphan)
      <4> HIDE DEF under, loosed
      <4>4. under \in Seq(RemoveFrame) /\ loosed \in Seq(RemoveFrame)
        BY <4>3 DEF under, loosed
      <4>5. under \o loosed \o rest \in Seq(RemoveFrame)
        BY <3>1, <4>4
      <4> QED
        BY <3>1, <4>1, <4>5 DEF under, loosed
    <3> QED
      BY <2>2, <2>5, <3>1, <3>2, RemoveLiveDead DEF DeadInv, OneWay
  <2>6. CASE op = "remove_parent"
    <3>1. RemoveParent(x, rest) /\ rest \in Seq(RemoveFrame)
      BY <2>1, <2>6 DEF Run
    <3>2. todo' = rest
      BY <3>1 DEF RemoveParent
    <3> QED
      BY <2>2, <3>1, <3>2, RemoveParentDead DEF DeadInv, OneWay
  <2> QED
    BY <2>1, <2>4, <2>5, <2>6 DEF LiveOps
<1>2. CASE todo \notin Seq(LiveFrame)
  <2>1. /\ UNCHANGED <<parent, live, reparented>> /\ todo' = <<>>
        /\ \E op, y : op \notin LiveOps /\ todo = One(op, y)
    <3>1. Queued
      BY DEF DeadInv, IndexInv, Kept
    <3>2. /\ "default_global" \notin LiveOps /\ "remove_global" \notin LiveOps
          /\ "new_entities" \notin LiveOps
      BY DEF LiveOps
    <3> QED
      BY <1>2, <3>1, <3>2, QueueCases DEF DefaultGlobal, RemoveGlobal, FreshEntities, tree, history
  <2>2. DeadAreDoomed'
    BY <2>1, NoCascade DEF DeadAreDoomed, DeadBelow
  <2>3. OneWay'
    BY <2>1 DEF OneWay
  <2> QED
    BY <2>2, <2>3
<1> QED
  BY <1>1, <1>2

\* The commands of players and admins.
LEMMA CommandDead ==
  ASSUME DeadInv, NEW e \in Entity, Command(e) PROVE OneWay' /\ DeadAreDoomed'
<1>1. Resting
  BY DEF Command, GainLive, LoseLive, SetParent, Orphan, SetTransform, RemoveTransform, Despawn
<1>2. /\ IndexInv /\ todo = <<>> /\ <<>> \in Seq(LiveFrame) /\ <<>> \in Seq(InsertFrame)
      /\ <<>> \in Seq(RemoveFrame) /\ Children(e) \in SUBSET Entity
      /\ \A a \in Entity : ~DeadBelow(a)
  BY <1>1, NoCascade DEF DeadInv, Resting, Children
<1>3. CASE GainLive(e)
  <2>1. InsertLive(e, <<>>) /\ ~live[e]
    BY <1>3 DEF GainLive
  <2>2. todo' \in Seq(InsertFrame)
    BY <1>2, <2>1, SameKind DEF InsertLive, InsertFrame
  <2> QED
    BY <1>2, <2>1, <2>2, InsertLiveDead DEF OneWay
<1>4. CASE LoseLive(e)
  <2>1. RemoveLive(e, <<>>) /\ live[e]
    BY <1>4 DEF LoseLive
  <2> DEFINE orphan == {y \in {e} : parent[y] # None /\ live[parent[y]]}
             under == Frame("remove_live", Children(e))
             loosed == Frame("remove_parent", orphan)
  <2>2. todo' = under \o loosed \o <<>> /\ orphan \in SUBSET Entity
    BY <2>1 DEF RemoveLive
  <2> HIDE DEF orphan
  <2>3. under \in Seq(RemoveFrame) /\ loosed \in Seq(RemoveFrame)
    <3>1. /\ "remove_live" \in {"remove_live", "remove_parent"}
          /\ "remove_parent" \in {"remove_live", "remove_parent"}
      OBVIOUS
    <3> QED
      BY <1>2, <2>2, <3>1, SameKind DEF RemoveFrame
  <2> HIDE DEF under, loosed
  <2>4. todo' \in Seq(RemoveFrame)
    BY <1>2, <2>2, <2>3
  <2> QED
    BY <1>2, <2>1, <2>4, RemoveLiveDead DEF OneWay
<1>5. ASSUME NEW p \in Entity, SetParent(e, p) PROVE OneWay' /\ DeadAreDoomed'
  <2>1. /\ live' = live /\ parent' = [parent EXCEPT ![e] = p]
        /\ parent \in [Entity -> Entity \cup {None}] /\ reparented \subseteq Entity
    BY <1>5 DEF SetParent, DeadInv, IndexInv, Kept, Typed, TreeTyped, RestTyped
  <2>2. \A a \in Entity : DeadBelow(a)' => a = e /\ live[p] /\ e \notin reparented'
    BY <1>2, <1>5, <2>1 DEF DeadBelow, SetParent
  <2>3. CASE parent[e] = None
    <3>1. todo' = Frame(IF live[p] THEN "insert_live" ELSE "remove_live", {e})
      BY <1>5, <2>3 DEF SetParent
    <3>2. {e} \in SUBSET Entity
      OBVIOUS
    <3>3. CASE live[p]
      <4>1. todo' = Frame("insert_live", {e}) /\ todo' \in Seq(InsertFrame)
        BY <1>2, <3>1, <3>2, <3>3, SameKind DEF InsertFrame
      <4>2. Doomed(todo', e)
        BY <4>1, DoomedFrame
      <4> QED
        BY <2>2, <4>1, <4>2 DEF OneWay, DeadAreDoomed, Doomed
    <3>4. CASE ~live[p]
      <4>1. todo' = Frame("remove_live", {e}) /\ todo' \in Seq(RemoveFrame)
        BY <1>2, <3>1, <3>2, <3>4, SameKind DEF RemoveFrame
      <4> QED
        BY <2>2, <3>4, <4>1 DEF OneWay, DeadAreDoomed
    <3> QED
      BY <3>3, <3>4
  <2>4. CASE parent[e] # None
    <3>1. e \in reparented' /\ todo' = <<>>
      BY <1>2, <1>5, <2>4 DEF SetParent
    <3> QED
      BY <1>2, <2>2, <3>1 DEF OneWay, DeadAreDoomed
  <2> QED
    BY <2>3, <2>4
<1>6. CASE Orphan(e)
  <2>1. RemoveParent(e, <<>>) /\ todo' = <<>>
    BY <1>6 DEF Orphan, RemoveParent
  <2> QED
    BY <1>2, <2>1, RemoveParentDead DEF OneWay
<1>7. ASSUME UNCHANGED <<parent, live, reparented>> PROVE DeadAreDoomed'
  BY <1>2, <1>7 DEF DeadAreDoomed, DeadBelow
<1>8. ASSUME NEW op, NEW x, op \notin LiveOps, todo' = One(op, x) \/ todo' = <<>> PROVE OneWay'
  BY <1>2, <1>8, OneOp DEF OneWay
<1>9. ASSUME NEW t \in Local, SetTransform(e, t) PROVE OneWay' /\ DeadAreDoomed'
  <2>1. UNCHANGED <<parent, live, reparented>>
    BY <1>9 DEF SetTransform, tree, history
  <2>2. todo' = One("default_global", e) \/ todo' = <<>>
    <3> DEFINE bare == {x \in {e} : local[x] = None}
    <3>1. todo' = Frame("default_global", bare) /\ (bare = {e} \/ bare = {})
      BY <1>9 DEF SetTransform
    <3> HIDE DEF bare
    <3> QED
      BY <3>1 DEF Frame, One
  <2>3. "default_global" \notin LiveOps
    BY DEF LiveOps
  <2>4. OneWay'
    BY <1>8, <2>2, <2>3
  <2> QED
    BY <1>7, <2>1, <2>4
<1>10. CASE RemoveTransform(e)
  <2>1. UNCHANGED <<parent, live, reparented>>
    BY <1>10 DEF RemoveTransform, tree
  <2>2. todo' = One("remove_global", e)
    BY <1>10 DEF RemoveTransform, Frame, One
  <2> QED
    BY <1>7, <1>8, <2>1, <2>2 DEF LiveOps
<1>11. CASE Despawn(e)
  <2> DEFINE gone == {x \in Entity : Below(x, e)}
  <2>1. /\ parent' = [x \in Entity |-> IF x \in gone THEN None ELSE parent[x]]
        /\ live' = [x \in Entity |-> IF x \in gone THEN FALSE ELSE live[x]]
        /\ reparented' = reparented \ gone /\ todo' = <<>>
        /\ parent \in [Entity -> Entity \cup {None}]
    BY <1>2, <1>11 DEF Despawn, IndexInv, Kept, Typed, TreeTyped
  <2> HIDE DEF gone
  <2>2. \A a \in Entity : ~DeadBelow(a)'
    BY <1>2, <2>1 DEF DeadBelow
  <2> QED
    BY <1>2, <2>1, <2>2 DEF OneWay, DeadAreDoomed
<1> QED
  BY <1>3, <1>4, <1>5, <1>6, <1>9, <1>10, <1>11 DEF Command

LEMMA NextDead == DeadInv /\ [Next]_vars => DeadInv'
<1> SUFFICES ASSUME DeadInv, [Next]_vars PROVE DeadInv'
  OBVIOUS
<1>1. IndexInv'
  BY NextIndexed DEF DeadInv
<1>2. OneWay' /\ DeadAreDoomed'
  <2>1. CASE \E e \in Entity : Command(e)
    BY <2>1, CommandDead
  <2>2. ASSUME NEW m \in MapEntity, MapCommand(m) PROVE OneWay' /\ DeadAreDoomed'
    <3>1. /\ UNCHANGED <<parent, live, reparented>> /\ todo = <<>>
          /\ todo' = One("new_entities", m) \/ todo' = <<>>
      BY <2>2 DEF MapCommand, AddMap, RemoveMap, Resting, Frame, One, tree, history
    <3>2. DeadAreDoomed'
      BY <3>1, NoCascade DEF DeadAreDoomed, DeadBelow
    <3>3. "new_entities" \notin LiveOps /\ <<>> \in Seq(InsertFrame)
      BY DEF LiveOps
    <3> QED
      BY <3>1, <3>2, <3>3, OneOp DEF OneWay
  <2>3. CASE RunQueued
    BY <2>3, RunQueuedDead
  <2>4. CASE UNCHANGED <<parent, live, reparented, todo>>
    BY <2>4 DEF DeadInv, OneWay, DeadAreDoomed, DeadBelow, Doomed
  <2>5. Pass => UNCHANGED <<parent, live, reparented, todo>>
    BY DEF Pass, StartPass, VisitChanged, Visit, EndPass, tree, history
  <2>6. UNCHANGED vars => UNCHANGED <<parent, live, reparented, todo>>
    BY DEF vars, tree, history
  <2> QED
    BY <2>1, <2>2, <2>3, <2>4, <2>5, <2>6 DEF Next, Commands
<1> QED
  BY <1>1, <1>2 DEF DeadInv

-----------------------------------------------------------------------------
(* Entities are placed below their parents.                                *)

\* Between the hooks of Transform and what they have queued.
DataAgree ==
  \A e \in Entity :
    /\ local[e] # None /\ global[e] = None => todo = One("default_global", e)
    /\ todo = One("default_global", e) => e \in changed
    /\ todo = One("remove_global", e) => local[e] = None

\* Nobody is below itself.
Acyclic == \A e \in Entity : parent[e] # None => ~Below(parent[e], e)

\* Who waits for propagate_transform in the calls v.
Waiting(v) == UNION {v[i].who : i \in DOMAIN v}

\* No two that wait are one below the other: a visit of the one never comes back
\* to the other, nor does it change what the other was given.
Apart(v) ==
  \A i, j \in DOMAIN v : \A x \in v[i].who, y \in v[j].who : Below(x, y) => x = y /\ i = j

\* u is what the parent of w has for it.
RightUnder(w, u) ==
  IF parent[w] = None THEN u = None ELSE local[parent[w]] # None => u = global[parent[w]]

Right(v) == \A i \in DOMAIN v : \A w \in v[i].who : RightUnder(w, v[i].under)

InPlace(e) ==
  IF parent[e] = None THEN global[e] = local[e]
  ELSE local[parent[e]] # None => global[e] = Under(global[parent[e]], local[e])

\* A visit of e or of its parent is to come.
Due(e) == LET coming == changed \cup Waiting(visits) IN e \in coming \/ parent[e] \in coming

AllDue == \A e \in Entity \ loose : local[e] # None => Due(e) \/ InPlace(e)

Placing == DataAgree /\ Acyclic /\ Apart(visits) /\ Right(visits) /\ AllDue
PlaceInv == IndexInv /\ Placing

-----------------------------------------------------------------------------
(* The order of the tree.                                                  *)

LEMMA BelowSteps ==
  ASSUME parent \in [Entity -> Entity \cup {None}], NEW e \in Entity, NEW a \in Entity
  PROVE  /\ Below(e, e)
         /\ parent[e] # None /\ Below(parent[e], a) => Below(e, a)
         /\ Below(e, a) /\ e # a => parent[e] # None /\ Below(parent[e], a)
         /\ Below(e, a) /\ parent[a] # None => Below(e, parent[a])
<1>1. Below(e, e)
  BY DEF Below
<1>2. ASSUME parent[e] # None, Below(parent[e], a) PROVE Below(e, a)
  BY <1>2 DEF Below, Upward
<1>3. ASSUME Below(e, a), e # a PROVE parent[e] # None /\ Below(parent[e], a)
  <2>1. parent[e] # None
    <3> SUFFICES ASSUME parent[e] = None PROVE FALSE
      OBVIOUS
    <3>1. {e} \in SUBSET Entity /\ e \in {e} /\ a \notin {e} /\ Upward({e})
      BY <1>3 DEF Upward
    <3> QED
      BY <1>3, <3>1 DEF Below
  <2>2. ASSUME NEW S \in SUBSET Entity, parent[e] \in S, Upward(S) PROVE a \in S
    <3>1. S \cup {e} \in SUBSET Entity /\ e \in S \cup {e} /\ Upward(S \cup {e})
      BY <2>2 DEF Upward
    <3>2. a \in S \cup {e}
      BY <1>3, <3>1 DEF Below
    <3> QED
      BY <1>3, <3>2
  <2> QED
    BY <2>1, <2>2 DEF Below
<1>4. ASSUME Below(e, a), parent[a] # None PROVE Below(e, parent[a])
  BY <1>4 DEF Below, Upward
<1> QED
  BY <1>1, <1>2, <1>3, <1>4

LEMMA FewerParents ==
  ASSUME Acyclic, parent \in [Entity -> Entity \cup {None}],
         \A x \in Entity : parent'[x] = parent[x] \/ parent'[x] = None
  PROVE  Acyclic'
<1> SUFFICES ASSUME NEW x \in Entity, parent'[x] # None PROVE ~Below(parent[x], x)'
  BY DEF Acyclic
<1>1. parent'[x] = parent[x] /\ ~Below(parent[x], x)
  BY DEF Acyclic
<1>2. PICK S \in SUBSET Entity : parent[x] \in S /\ Upward(S) /\ x \notin S
  BY <1>1 DEF Below
<1>3. Upward(S)'
  BY <1>2 DEF Upward
<1> QED
  BY <1>1, <1>2, <1>3 DEF Below

\* Nobody is made a child of its own descendant: of the sets that show it for the
\* old tree one can be built for the new.
LEMMA SetParentAcyclic ==
  ASSUME Acyclic, parent \in [Entity -> Entity \cup {None}],
         NEW e \in Entity, NEW p \in Entity, ~Below(p, e), parent' = [parent EXCEPT ![e] = p]
  PROVE  Acyclic'
<1> SUFFICES ASSUME NEW x \in Entity, parent'[x] # None PROVE ~Below(parent[x], x)'
  BY DEF Acyclic
<1>1. PICK S \in SUBSET Entity : p \in S /\ Upward(S) /\ e \notin S
  BY DEF Below
<1>2. \A y \in Entity : parent'[y] = IF y = e THEN p ELSE parent[y]
  OBVIOUS
<1>3. \A T \in SUBSET Entity : Upward(T) /\ (e \in T => p \in T) => Upward(T)'
  BY <1>2 DEF Upward
<1>4. CASE x = e
  BY <1>1, <1>2, <1>3, <1>4 DEF Below
<1>5. CASE x # e
  <2>1. parent'[x] = parent[x] /\ ~Below(parent[x], x)
    BY <1>2, <1>5 DEF Acyclic
  <2>2. PICK T \in SUBSET Entity : parent[x] \in T /\ Upward(T) /\ x \notin T
    BY <2>1 DEF Below
  <2>3. \E U \in SUBSET Entity : parent[x] \in U /\ Upward(U) /\ x \notin U /\ (e \in U => p \in U)
    <3>1. CASE e \notin T
      BY <2>2, <3>1
    <3>2. CASE x \notin S
      <4>1. Upward(T \cup S)
        BY <1>1, <2>2 DEF Upward
      <4> QED
        BY <1>1, <2>2, <3>2, <4>1
    <3>3. CASE x \in S
      <4>1. Upward(T \cap S)
        BY <1>1, <2>2 DEF Upward
      <4>2. parent[x] \in S
        BY <1>1, <2>1, <3>3 DEF Upward
      <4> QED
        BY <1>1, <2>2, <4>1, <4>2
    <3> QED
      BY <3>2, <3>3
  <2> QED
    BY <1>3, <2>1, <2>3 DEF Below
<1> QED
  BY <1>4, <1>5

-----------------------------------------------------------------------------
(* The calls of propagate_transform.                                       *)

LEMMA OneVisit ==
  ASSUME NEW who \in SUBSET Entity, NEW u
  PROVE  /\ Waiting(Visits(who, u)) = who
         /\ Apart(Visits(who, u)) <=> \A x, y \in who : Below(x, y) => x = y
         /\ Right(Visits(who, u)) <=> \A w \in who : RightUnder(w, u)
<1>1. CASE who = {}
  <2>1. DOMAIN Visits(who, u) = {}
    BY <1>1 DEF Visits
  <2> QED
    BY <1>1, <2>1 DEF Waiting, Apart, Right
<1>2. CASE who # {}
  <2>1. /\ DOMAIN Visits(who, u) = {1} /\ Visits(who, u)[1].who = who
        /\ Visits(who, u)[1].under = u
    BY <1>2 DEF Visits
  <2> DEFINE v == Visits(who, u)
  <2> HIDE DEF v
  <2>2. /\ DOMAIN v = {1} /\ v[1].who = who /\ v[1].under = u
    BY <2>1 DEF v
  <2>3. Waiting(v) = who
    BY <2>2 DEF Waiting
  <2>4. Apart(v) <=> \A x, y \in who : Below(x, y) => x = y
    BY <2>2 DEF Apart
  <2>5. Right(v) <=> \A w \in who : RightUnder(w, u)
    BY <2>2 DEF Right
  <2> QED
    BY <2>3, <2>4, <2>5 DEF v
<1> QED
  BY <1>1, <1>2

LEMMA JoinVisits ==
  ASSUME NEW s \in Seq(VisitType), NEW t \in Seq(VisitType)
  PROVE  /\ Waiting(s \o t) = Waiting(s) \cup Waiting(t)
         /\ Apart(s \o t) <=> /\ Apart(s) /\ Apart(t)
                              /\ \A x \in Waiting(s), y \in Waiting(t) : ~Below(x, y) /\ ~Below(y, x)
         /\ Right(s \o t) <=> Right(s) /\ Right(t)
<1> DEFINE v == s \o t
<1>1. /\ \A i \in DOMAIN s : i \in DOMAIN v /\ v[i] = s[i]
      /\ \A i \in DOMAIN t : i + Len(s) \in DOMAIN v /\ v[i + Len(s)] = t[i]
      /\ \A i \in DOMAIN v : i \in DOMAIN s \/ (i - Len(s) \in DOMAIN t /\ v[i] = t[i - Len(s)])
      /\ \A i \in DOMAIN s, j \in DOMAIN t : i # j + Len(s)
      /\ Len(s) \in Nat /\ DOMAIN s \subseteq Int /\ DOMAIN t \subseteq Int /\ DOMAIN v \subseteq Int
  OBVIOUS
<1> HIDE DEF v
<1>2. Waiting(v) = Waiting(s) \cup Waiting(t)
  BY <1>1 DEF Waiting
<1>3. Right(v) <=> Right(s) /\ Right(t)
  BY <1>1 DEF Right
<1>4. ASSUME Apart(v)
      PROVE  /\ Apart(s) /\ Apart(t)
             /\ \A x \in Waiting(s), y \in Waiting(t) : ~Below(x, y) /\ ~Below(y, x)
  <2>1. Apart(s)
    BY <1>1, <1>4 DEF Apart
  <2>2. Apart(t)
    <3> SUFFICES ASSUME NEW i \in DOMAIN t, NEW j \in DOMAIN t,
                        NEW x \in t[i].who, NEW y \in t[j].who, Below(x, y)
                 PROVE  x = y /\ i = j
      BY DEF Apart
    <3>1. x = y /\ i + Len(s) = j + Len(s)
      BY <1>1, <1>4 DEF Apart
    <3> QED
      BY <1>1, <3>1
  <2>3. ASSUME NEW x \in Waiting(s), NEW y \in Waiting(t) PROVE ~Below(x, y) /\ ~Below(y, x)
    <3>1. PICK i \in DOMAIN s, j \in DOMAIN t : x \in s[i].who /\ y \in t[j].who
      BY DEF Waiting
    <3> QED
      BY <1>1, <1>4, <3>1 DEF Apart
  <2> QED
    BY <2>1, <2>2, <2>3
<1>5. ASSUME Apart(s), Apart(t),
             \A x \in Waiting(s), y \in Waiting(t) : ~Below(x, y) /\ ~Below(y, x)
      PROVE  Apart(v)
  <2> SUFFICES ASSUME NEW i \in DOMAIN v, NEW j \in DOMAIN v,
                      NEW x \in v[i].who, NEW y \in v[j].who, Below(x, y)
               PROVE  x = y /\ i = j
    BY DEF Apart
  <2>1. CASE i \in DOMAIN s /\ j \in DOMAIN s
    BY <1>1, <1>5, <2>1 DEF Apart
  <2>2. CASE i \notin DOMAIN s /\ j \notin DOMAIN s
    <3>1. x = y /\ i - Len(s) = j - Len(s)
      BY <1>1, <1>5, <2>2 DEF Apart
    <3> QED
      BY <1>1, <3>1
  <2>3. CASE i \in DOMAIN s /\ j \notin DOMAIN s
    <3>1. x \in Waiting(s) /\ y \in Waiting(t)
      BY <1>1, <2>3 DEF Waiting
    <3> QED
      BY <1>5, <3>1
  <2>4. CASE i \notin DOMAIN s /\ j \in DOMAIN s
    <3>1. y \in Waiting(s) /\ x \in Waiting(t)
      BY <1>1, <2>4 DEF Waiting
    <3> QED
      BY <1>5, <3>1
  <2> QED
    BY <2>1, <2>2, <2>3, <2>4
<1> QED
  BY <1>2, <1>3, <1>4, <1>5 DEF v

\* A visit of e replaces it, among those that wait, by its children.
LEMMA VisitWaits ==
  ASSUME PlaceInv, NEW e \in Entity, Visit(e), NEW u \in Place \cup {None}
  PROVE  /\ e \in Waiting(visits) /\ RightUnder(e, Head(visits).under) /\ parent[e] # e
         /\ Waiting(Visits(Children(e), u) \o Returning(e)) = Children(e) \cup (Waiting(visits) \ {e})
         /\ Apart(Visits(Children(e), u) \o Returning(e))
         /\ Right(Visits(Children(e), u) \o Returning(e)) <=>
              (\A w \in Children(e) : RightUnder(w, u)) /\ Right(Returning(e))
         /\ Right(Returning(e)) /\ Waiting(Returning(e)) = Waiting(visits) \ {e}
         /\ \A w \in Waiting(Returning(e)) : parent[w] # e
<1> DEFINE who == Head(visits).who
           under == Head(visits).under
           first == Visits(who, under)
           left == Visits(who \ {e}, under)
           rest == Tail(visits)
           below == Visits(Children(e), u)
<1>1. /\ visits \in Seq(VisitType) /\ visits # <<>> /\ e \in who /\ Children(e) \in SUBSET Entity
      /\ parent \in [Entity -> Entity \cup {None}] /\ None \notin Entity
  BY LiveMapAssumption DEF PlaceInv, IndexInv, Kept, Typed, TreeTyped, RestTyped, Visit, Children
<1>2. Head(visits) \in VisitType /\ rest \in Seq(VisitType)
  BY <1>1
<1>3. who \in SUBSET Entity /\ who \ {e} \in SUBSET Entity /\ under \in Place \cup {None}
  BY <1>2 DEF VisitType
<1>4. visits = first \o rest
  <2>1. Head(visits) = [who |-> who, under |-> under]
    BY <1>2 DEF VisitType
  <2>2. first = <<Head(visits)>>
    BY <1>1, <2>1 DEF Visits
  <2>3. visits = <<Head(visits)>> \o rest
    BY <1>1
  <2> QED
    BY <2>2, <2>3
<1>5. /\ first \in Seq(VisitType) /\ left \in Seq(VisitType) /\ below \in Seq(VisitType)
      /\ left \o rest \in Seq(VisitType)
  BY <1>1, <1>2, <1>3, VisitFrames
<1>6. Returning(e) = left \o rest
  BY DEF Returning
<1>7. /\ Waiting(first) = who /\ (Apart(first) <=> \A x, y \in who : Below(x, y) => x = y)
      /\ (Right(first) <=> \A w \in who : RightUnder(w, under))
  BY <1>3, OneVisit
<1>8. /\ Waiting(left) = who \ {e}
      /\ Apart(left) <=> \A x, y \in who \ {e} : Below(x, y) => x = y
      /\ Right(left) <=> \A w \in who \ {e} : RightUnder(w, under)
  BY <1>3, OneVisit
<1>9. /\ Waiting(below) = Children(e)
      /\ Apart(below) <=> \A x, y \in Children(e) : Below(x, y) => x = y
      /\ Right(below) <=> \A w \in Children(e) : RightUnder(w, u)
  BY <1>1, OneVisit
<1> HIDE DEF who, under, first, left, rest, below
<1>10. /\ Waiting(visits) = who \cup Waiting(rest) /\ Apart(first) /\ Apart(rest)
       /\ \A x \in who, y \in Waiting(rest) : ~Below(x, y) /\ ~Below(y, x)
       /\ Right(first) /\ Right(rest)
  BY <1>2, <1>4, <1>5, <1>7, JoinVisits DEF PlaceInv, Placing
<1>11. /\ Waiting(rest) \subseteq Entity /\ \A x \in Entity : Below(x, x)
  <2>1. \A i \in DOMAIN rest : rest[i] \in VisitType
    BY <1>2
  <2>2. \A i \in DOMAIN rest : rest[i].who \in SUBSET Entity
    BY <2>1 DEF VisitType
  <2> QED
    BY <1>1, <2>2, BelowSteps DEF Waiting
<1>12. e \notin Waiting(rest)
  BY <1>1, <1>10, <1>11
<1>13. /\ Waiting(Returning(e)) = Waiting(visits) \ {e} /\ Apart(Returning(e)) /\ Right(Returning(e))
  <2>1. Waiting(left \o rest) = (who \ {e}) \cup Waiting(rest)
    BY <1>2, <1>5, <1>8, JoinVisits
  <2>2. Apart(left) /\ Right(left)
    BY <1>7, <1>8, <1>10
  <2>3. Apart(left \o rest) /\ Right(left \o rest)
    BY <1>2, <1>5, <1>8, <1>10, <2>2, JoinVisits
  <2> QED
    BY <1>1, <1>6, <1>10, <1>12, <2>1, <2>3
\* Nobody else that waits is above e or below it.
<1>14. \A x \in Waiting(Returning(e)) : x \in Entity /\ x # e /\ ~Below(x, e) /\ ~Below(e, x)
  BY <1>1, <1>3, <1>7, <1>10, <1>11, <1>13
<1>15. \A c \in Children(e) : c \in Entity /\ parent[c] = e /\ c # e /\ ~Below(e, c)
  BY <1>1, <1>11 DEF Children, PlaceInv, Placing, Acyclic
<1>16. \A x, y \in Children(e) : Below(x, y) => x = y
  BY <1>1, <1>15, BelowSteps
<1>17. ASSUME NEW c \in Children(e), NEW x \in Waiting(Returning(e)) PROVE ~Below(c, x) /\ ~Below(x, c)
  <2>1. c \in Entity /\ x \in Entity /\ parent[c] = e /\ e # None
    BY <1>1, <1>14, <1>15
  <2>2. Below(c, e)
    BY <1>1, <1>11, <2>1, BelowSteps
  <2>3. c # x
    BY <1>14, <2>2
  <2> QED
    BY <1>1, <1>14, <2>1, <2>3, BelowSteps
<1>18. /\ Waiting(below \o Returning(e)) = Children(e) \cup Waiting(Returning(e))
       /\ Apart(below \o Returning(e))
       /\ Right(below \o Returning(e)) <=> Right(below) /\ Right(Returning(e))
  BY <1>5, <1>6, <1>9, <1>13, <1>16, <1>17, JoinVisits
<1>19. \A w \in Waiting(Returning(e)) : parent[w] # e
  <2>1. \A w \in Waiting(Returning(e)) : parent[w] = e => Below(w, e)
    BY <1>1, <1>11, <1>14, BelowSteps
  <2> QED
    BY <1>14, <2>1
<1>20. parent[e] # e
  BY <1>1, <1>15 DEF Children
<1>21. e \in Waiting(visits) /\ RightUnder(e, under)
  BY <1>1, <1>7, <1>10
<1> QED
  BY <1>9, <1>13, <1>18, <1>19, <1>20, <1>21 DEF below, under

\* When nothing is being visited the calls and the tree agree trivially.
LEMMA NobodyWaits ==
  ASSUME visits' = <<>> PROVE (Apart(visits))' /\ (Right(visits))' /\ (Waiting(visits))' = {}
  BY DEF Apart, Right, Waiting

\* The queue has the same hook of a Transform as before, if any.
Unhooked(e) ==
  \/ todo' = todo
  \/ /\ todo # One("default_global", e)
     /\ todo' # One("default_global", e) /\ todo' # One("remove_global", e)

\* What does not touch the data of entities.
LEMMA SamePlaces ==
  ASSUME PlaceInv, UNCHANGED <<parent, local, global, changed, visits, loose>>
  PROVE  /\ Acyclic' /\ (Apart(visits))' /\ (Right(visits))' /\ AllDue'
         /\ (\A e \in Entity : Unhooked(e)) => DataAgree'
<1>1. Acyclic'
  BY DEF PlaceInv, Placing, Acyclic, Below, Upward
<1>2. (Apart(visits))'
  BY DEF PlaceInv, Placing, Apart, Below, Upward
<1>3. (Right(visits))'
  BY DEF PlaceInv, Placing, Right, RightUnder
<1>4. AllDue'
  BY DEF PlaceInv, Placing, AllDue, Due, InPlace, Waiting
<1>5. ASSUME \A e \in Entity : Unhooked(e) PROVE DataAgree'
  BY <1>5 DEF PlaceInv, Placing, DataAgree, Unhooked
<1> QED
  BY <1>1, <1>2, <1>3, <1>4, <1>5

\* Outside a pass nobody waits.
LEMMA OutsidePass ==
  ASSUME PlaceInv, ~passing, visits' = visits
  PROVE  /\ visits = <<>> /\ Waiting(visits) = {} /\ (Waiting(visits))' = {}
         /\ (Apart(visits))' /\ (Right(visits))'
<1>1. visits = <<>>
  BY DEF PlaceInv, IndexInv, Kept, Queued
<1>2. Waiting(visits) = {}
  BY <1>1 DEF Waiting
<1> QED
  BY <1>1, <1>2, NobodyWaits

\* From one cascade of liveness to another no hook is queued.
LEMMA CascadeUnhooked ==
  ASSUME todo \in Seq(LiveFrame), todo' \in Seq(LiveFrame), NEW e PROVE Unhooked(e)
<1>1. "default_global" \notin LiveOps /\ "remove_global" \notin LiveOps
  BY DEF LiveOps
<1> QED
  BY <1>1, OneOp DEF Unhooked

LEMMA CascadePlaces ==
  ASSUME PlaceInv, ~passing, todo \in Seq(LiveFrame), NEW e \in Entity, NEW rest \in Seq(LiveFrame),
         InsertLive(e, rest) \/ RemoveLive(e, rest) \/ RemoveParent(e, rest)
  PROVE  Placing'
<1>1. Children(e) \in SUBSET Entity /\ \A op \in LiveOps : Frame(op, Children(e)) \in Seq(LiveFrame)
  BY LiveFrames DEF Children
<1>2. CASE InsertLive(e, rest)
  <2>1. todo' \in Seq(LiveFrame)
    BY <1>1, <1>2, LiveFrames DEF InsertLive, LiveOps
  <2>2. UNCHANGED <<parent, local, global, changed, visits, loose>>
    BY <1>2 DEF InsertLive, places, pass, history
  <2> QED
    BY <2>1, <2>2, SamePlaces, CascadeUnhooked DEF Placing
<1>3. CASE RemoveLive(e, rest)
  <2>1. todo' \in Seq(LiveFrame)
    <3> DEFINE orphan == {x \in {e} : parent[x] # None /\ live[parent[x]]}
               under == Frame("remove_live", Children(e))
               loosed == Frame("remove_parent", orphan)
    <3>1. todo' = rest \/ todo' = under \o loosed \o rest
      BY <1>3 DEF RemoveLive
    <3>2. orphan \in SUBSET Entity
      OBVIOUS
    <3> HIDE DEF orphan
    <3>3. "remove_live" \in LiveOps /\ "remove_parent" \in LiveOps
      BY DEF LiveOps
    <3>4. under \in Seq(LiveFrame)
      BY <1>1, <3>3
    <3>5. loosed \in Seq(LiveFrame)
      BY <3>2, <3>3, LiveFrames
    <3> HIDE DEF under, loosed
    <3>6. under \o loosed \in Seq(LiveFrame)
      BY <3>4, <3>5
    <3>7. under \o loosed \o rest \in Seq(LiveFrame)
      BY <3>6
    <3> QED
      BY <3>1, <3>7
  <2>2. UNCHANGED <<parent, local, global, changed, visits, loose>>
    BY <1>3 DEF RemoveLive, places, pass, history
  <2> QED
    BY <2>1, <2>2, SamePlaces, CascadeUnhooked DEF Placing
<1>4. CASE RemoveParent(e, rest)
  <2>1. /\ parent' = [parent EXCEPT ![e] = None] /\ loose' = loose \cup {e} /\ todo' = rest
        /\ UNCHANGED <<local, global, changed, visits>>
        /\ parent \in [Entity -> Entity \cup {None}]
    BY <1>4 DEF RemoveParent, places, pass, PlaceInv, IndexInv, Kept, Typed, TreeTyped
  <2>2. DataAgree'
    <3>1. \A x \in Entity : Unhooked(x)
      BY <2>1, CascadeUnhooked
    <3> QED
      BY <2>1, <3>1 DEF PlaceInv, Placing, DataAgree, Unhooked
  <2>3. Acyclic'
    BY <2>1, FewerParents DEF PlaceInv, Placing
  <2>4. AllDue'
    <3> SUFFICES ASSUME NEW x \in Entity, x \notin loose, x # e, local[x] # None
                 PROVE  Due(x)' \/ InPlace(x)'
      BY <2>1 DEF AllDue
    <3>1. parent'[x] = parent[x] /\ (Due(x) \/ InPlace(x))
      BY <2>1 DEF PlaceInv, Placing, AllDue
    <3> QED
      BY <2>1, <3>1, OutsidePass DEF Due, InPlace
  <2> QED
    BY <2>1, <2>2, <2>3, <2>4, OutsidePass DEF Placing
<1> QED
  BY <1>2, <1>3, <1>4

\* The hooks of Transform.
LEMMA DefaultGlobalPlaces ==
  ASSUME PlaceInv, ~passing, NEW e \in Entity, todo = One("default_global", e), DefaultGlobal(e, <<>>)
  PROVE  Placing'
<1>1. /\ global' = [global EXCEPT ![e] = DefaultPlace] /\ todo' = <<>>
      /\ UNCHANGED <<parent, local, changed, visits, loose>>
      /\ global \in [Entity -> Place \cup {None}]
  BY DEF DefaultGlobal, tree, pass, history, PlaceInv, IndexInv, Kept, Typed, TreeTyped
<1>2. DefaultPlace # None
  BY LiveMapAssumption DEF DefaultPlace, Place, Hex, Direction
<1>3. DataAgree'
  <2> SUFFICES ASSUME NEW x \in Entity, local[x] # None PROVE global'[x] # None
    BY <1>1, OneOp DEF DataAgree
  <2>1. x # e => global[x] # None
    BY OneOp DEF PlaceInv, Placing, DataAgree
  <2> QED
    BY <1>1, <1>2, <2>1
<1>4. Acyclic'
  BY <1>1 DEF PlaceInv, Placing, Acyclic, Below, Upward
<1>5. AllDue'
  <2> SUFFICES ASSUME NEW x \in Entity \ loose, local[x] # None PROVE Due(x)' \/ InPlace(x)'
    BY <1>1 DEF AllDue
  <2>1. e \in changed /\ (Due(x) \/ InPlace(x))
    BY DEF PlaceInv, Placing, AllDue, DataAgree
  <2>2. CASE x = e \/ parent[x] = e
    BY <1>1, <2>1, <2>2 DEF Due
  <2>3. CASE x # e /\ parent[x] # e
    <3>1. global'[x] = global[x] /\ (global'[parent[x]] = global[parent[x]] \/ parent[x] = None)
      BY <1>1, <2>3 DEF PlaceInv, IndexInv, Kept, Typed, TreeTyped
    <3>2. global'[x] = global[x]
      BY <1>1, <2>3
    <3> QED
      BY <1>1, <2>1, <3>1, <3>2, OutsidePass DEF Due, InPlace
  <2> QED
    BY <2>2, <2>3
<1> QED
  BY <1>1, <1>3, <1>4, <1>5, OutsidePass DEF Placing

LEMMA RemoveGlobalPlaces ==
  ASSUME PlaceInv, ~passing, NEW e \in Entity, todo = One("remove_global", e), RemoveGlobal(e, <<>>)
  PROVE  Placing'
<1>1. /\ global' = [global EXCEPT ![e] = None] /\ todo' = <<>>
      /\ UNCHANGED <<parent, local, changed, visits, loose>>
      /\ global \in [Entity -> Place \cup {None}] /\ parent \in [Entity -> Entity \cup {None}]
  BY DEF RemoveGlobal, tree, pass, history, PlaceInv, IndexInv, Kept, Typed, TreeTyped
<1>2. local[e] = None
  BY DEF PlaceInv, Placing, DataAgree
<1>3. DataAgree'
  <2> SUFFICES ASSUME NEW x \in Entity, local[x] # None PROVE global'[x] # None
    BY <1>1, OneOp DEF DataAgree
  <2>1. x # e /\ global[x] # None
    BY <1>2, OneOp DEF PlaceInv, Placing, DataAgree
  <2> QED
    BY <1>1, <2>1
<1>4. Acyclic'
  BY <1>1 DEF PlaceInv, Placing, Acyclic, Below, Upward
<1>5. AllDue'
  <2> SUFFICES ASSUME NEW x \in Entity \ loose, local[x] # None PROVE Due(x)' \/ InPlace(x)'
    BY <1>1 DEF AllDue
  <2>1. Due(x) \/ InPlace(x)
    BY DEF PlaceInv, Placing, AllDue
  <2>2. global'[x] = global[x] /\ \A p \in Entity : p # e => global'[p] = global[p]
    BY <1>1, <1>2
  <2> QED
    BY <1>1, <1>2, <2>1, <2>2, OutsidePass DEF Due, InPlace
<1> QED
  BY <1>1, <1>3, <1>4, <1>5, OutsidePass DEF Placing

\* Commands.
LEMMA SetParentPlaces ==
  ASSUME PlaceInv, NEW e \in Entity, NEW p \in Entity, SetParent(e, p)
  PROVE  Placing'
<1>1. /\ ~passing /\ todo = <<>> /\ ~Below(p, e)
      /\ parent' = [parent EXCEPT ![e] = p] /\ loose' = loose \cup {e}
      /\ UNCHANGED <<local, global, changed, visits>>
      /\ parent \in [Entity -> Entity \cup {None}]
  BY DEF SetParent, Resting, places, pass, PlaceInv, IndexInv, Kept, Typed, TreeTyped
<1>2. todo' \in Seq(LiveFrame)
  <2>1. "insert_live" \in LiveOps /\ "remove_live" \in LiveOps /\ <<>> \in Seq(LiveFrame)
    BY DEF LiveOps
  <2>2. Frame("insert_live", {e}) \in Seq(LiveFrame) /\ Frame("remove_live", {e}) \in Seq(LiveFrame)
    BY <2>1, LiveFrames
  <2> QED
    BY <1>1, <2>1, <2>2 DEF SetParent
<1>3. DataAgree'
  <2>1. todo \in Seq(LiveFrame)
    BY <1>1
  <2>2. \A x \in Entity : Unhooked(x)
    BY <1>2, <2>1, CascadeUnhooked
  <2> QED
    BY <1>1, <2>2 DEF PlaceInv, Placing, DataAgree, Unhooked
<1>4. Acyclic'
  BY <1>1, SetParentAcyclic DEF PlaceInv, Placing
<1>5. AllDue'
  <2> SUFFICES ASSUME NEW x \in Entity, x \notin loose, x # e, local[x] # None
               PROVE  Due(x)' \/ InPlace(x)'
    BY <1>1 DEF AllDue
  <2>1. parent'[x] = parent[x] /\ (Due(x) \/ InPlace(x))
    BY <1>1 DEF PlaceInv, Placing, AllDue
  <2> QED
    BY <1>1, <2>1, OutsidePass DEF Due, InPlace
<1> QED
  BY <1>1, <1>3, <1>4, <1>5, OutsidePass DEF Placing

LEMMA SetTransformPlaces ==
  ASSUME PlaceInv, NEW e \in Entity, NEW t \in Local, SetTransform(e, t)
  PROVE  Placing'
<1>1. /\ ~passing /\ todo = <<>> /\ t # None
      /\ local' = [local EXCEPT ![e] = t] /\ changed' = changed \cup {e}
      /\ UNCHANGED <<parent, global, visits, loose>>
      /\ local \in [Entity -> Place \cup {None}] /\ parent \in [Entity -> Entity \cup {None}]
  BY LiveMapAssumption DEF SetTransform, Resting, tree, pass, history,
     PlaceInv, IndexInv, Kept, Typed, TreeTyped
<1>2. todo' = IF local[e] = None THEN One("default_global", e) ELSE <<>>
  <2>1. Frame("default_global", {}) = <<>> /\ Frame("default_global", {e}) = One("default_global", e)
    BY DEF Frame, One
  <2> DEFINE bare == {x \in {e} : local[x] = None}
  <2>2. todo' = Frame("default_global", bare)
    BY DEF SetTransform
  <2>3. (local[e] = None => bare = {e}) /\ (local[e] # None => bare = {})
    OBVIOUS
  <2> HIDE DEF bare
  <2> QED
    BY <2>1, <2>2, <2>3
<1>3. DataAgree'
  <2> SUFFICES ASSUME NEW x \in Entity
               PROVE  /\ local'[x] # None /\ global[x] = None => todo' = One("default_global", x)
                      /\ todo' = One("default_global", x) => x \in changed'
                      /\ todo' = One("remove_global", x) => local'[x] = None
    BY <1>1 DEF DataAgree
  <2>1. local[x] # None => global[x] # None
    BY <1>1, OneOp DEF PlaceInv, Placing, DataAgree
  <2>2. todo' # One("remove_global", x)
    BY <1>2, OneOp
  <2>3. todo' = One("default_global", x) => x = e
    BY <1>2, OneOp
  <2> QED
    BY <1>1, <1>2, <2>1, <2>2, <2>3
<1>4. Acyclic'
  BY <1>1 DEF PlaceInv, Placing, Acyclic, Below, Upward
<1>5. AllDue'
  <2> SUFFICES ASSUME NEW x \in Entity \ loose, local'[x] # None PROVE Due(x)' \/ InPlace(x)'
    BY <1>1 DEF AllDue
  <2>1. CASE x = e \/ parent[x] = e
    BY <1>1, <2>1 DEF Due
  <2>2. CASE x # e /\ parent[x] # e
    <3>1. local'[x] = local[x] /\ (parent[x] # None => local'[parent[x]] = local[parent[x]])
      BY <1>1, <2>2
    <3>2. Due(x) \/ InPlace(x)
      BY <3>1 DEF PlaceInv, Placing, AllDue
    <3> QED
      BY <1>1, <3>1, <3>2, OutsidePass DEF Due, InPlace
  <2> QED
    BY <2>1, <2>2
<1> QED
  BY <1>1, <1>3, <1>4, <1>5, OutsidePass DEF Placing

LEMMA RemoveTransformPlaces ==
  ASSUME PlaceInv, NEW e \in Entity, RemoveTransform(e)
  PROVE  Placing'
<1>1. /\ ~passing /\ todo = <<>> /\ todo' = One("remove_global", e)
      /\ local' = [local EXCEPT ![e] = None] /\ changed' = changed \ {e}
      /\ UNCHANGED <<parent, global, visits, loose>>
      /\ local \in [Entity -> Place \cup {None}] /\ parent \in [Entity -> Entity \cup {None}]
  BY DEF RemoveTransform, Resting, Frame, One, tree, pass, PlaceInv, IndexInv, Kept, Typed, TreeTyped
<1>2. DataAgree'
  <2> SUFFICES ASSUME NEW x \in Entity
               PROVE  /\ local'[x] # None => global[x] # None
                      /\ todo' # One("default_global", x)
                      /\ todo' = One("remove_global", x) => x = e
    BY <1>1 DEF DataAgree
  <2>1. local[x] # None => global[x] # None
    BY <1>1, OneOp DEF PlaceInv, Placing, DataAgree
  <2> QED
    BY <1>1, <2>1, OneOp
<1>3. Acyclic'
  BY <1>1 DEF PlaceInv, Placing, Acyclic, Below, Upward
<1>4. AllDue'
  <2> SUFFICES ASSUME NEW x \in Entity \ loose, local'[x] # None PROVE Due(x)' \/ InPlace(x)'
    BY <1>1 DEF AllDue
  <2>1. x # e /\ local'[x] = local[x] /\ (Due(x) \/ InPlace(x))
    BY <1>1 DEF PlaceInv, Placing, AllDue
  \* Nobody is placed below one without a Transform.
  <2>2. CASE parent[x] = e
    BY <1>1, <2>2, LiveMapAssumption DEF InPlace
  <2>3. CASE parent[x] # e
    <3>1. parent[x] # None => local'[parent[x]] = local[parent[x]]
      BY <1>1, <2>3
    <3> QED
      BY <1>1, <2>1, <2>3, <3>1, OutsidePass DEF Due, InPlace
  <2> QED
    BY <2>2, <2>3
<1> QED
  BY <1>1, <1>2, <1>3, <1>4, OutsidePass DEF Placing

LEMMA DespawnPlaces ==
  ASSUME PlaceInv, NEW e \in Entity, Despawn(e)
  PROVE  Placing'
<1> DEFINE gone == {x \in Entity : Below(x, e)}
<1>1. /\ ~passing /\ todo = <<>> /\ todo' = <<>>
      /\ parent' = [x \in Entity |-> IF x \in gone THEN None ELSE parent[x]]
      /\ local' = [x \in Entity |-> IF x \in gone THEN None ELSE local[x]]
      /\ global' = [x \in Entity |-> IF x \in gone THEN None ELSE global[x]]
      /\ changed' = changed \ gone
      /\ UNCHANGED <<visits, loose>>
      /\ parent \in [Entity -> Entity \cup {None}]
  BY DEF Despawn, Resting, pass, PlaceInv, IndexInv, Kept, Typed, TreeTyped
\* Who stays has a parent that stays.
<1>2. \A x \in Entity : x \notin gone => parent[x] \notin gone
  BY <1>1, BelowSteps, LiveMapAssumption
<1> HIDE DEF gone
<1>3. DataAgree'
  <2> SUFFICES ASSUME NEW x \in Entity, local'[x] # None PROVE global'[x] # None
    BY <1>1, OneOp DEF DataAgree
  <2>1. x \notin gone /\ global[x] # None
    BY <1>1, OneOp DEF PlaceInv, Placing, DataAgree
  <2> QED
    BY <1>1, <2>1
<1>4. Acyclic'
  BY <1>1, FewerParents DEF PlaceInv, Placing
<1>5. AllDue'
  <2> SUFFICES ASSUME NEW x \in Entity \ loose, local'[x] # None PROVE Due(x)' \/ InPlace(x)'
    BY <1>1 DEF AllDue
  <2>1. /\ x \notin gone /\ parent[x] \notin gone
        /\ parent'[x] = parent[x] /\ local'[x] = local[x] /\ global'[x] = global[x]
    BY <1>1, <1>2
  <2>2. parent[x] # None => local'[parent[x]] = local[parent[x]] /\ global'[parent[x]] = global[parent[x]]
    BY <1>1, <2>1
  <2>3. Due(x) \/ InPlace(x)
    BY <2>1 DEF PlaceInv, Placing, AllDue
  <2> QED
    BY <1>1, <2>1, <2>2, <2>3, OutsidePass DEF Due, InPlace
<1> QED
  BY <1>1, <1>3, <1>4, <1>5, OutsidePass DEF Placing

\* The pass.
LEMMA NextVisits ==
  ASSUME NEW v, visits' = v, parent' = parent
  PROVE  /\ (Waiting(visits))' = Waiting(v) /\ (Apart(v) => (Apart(visits))')
         /\ local' = local /\ global' = global /\ Right(v) => (Right(visits))'
<1>1. (Waiting(visits))' = Waiting(v)
  BY DEF Waiting
<1>2. Apart(v) => (Apart(visits))'
  BY DEF Apart, Below, Upward
<1>3. local' = local /\ global' = global /\ Right(v) => (Right(visits))'
  BY DEF Right, RightUnder
<1> QED
  BY <1>1, <1>2, <1>3

LEMMA VisitChangedPlaces ==
  ASSUME PlaceInv, NEW e \in Entity, VisitChanged(e)
  PROVE  Placing'
<1> DEFINE under == IF parent[e] \in Entity /\ HasData(parent[e]) THEN global[parent[e]] ELSE None
<1>0. /\ passing /\ visits = <<>> /\ visits' = Visits({e}, under) /\ todo' = todo
      /\ e \in changed /\ changed' = changed \ {e}
      /\ UNCHANGED <<parent, local, global, loose>>
  BY DEF VisitChanged, tree, history
<1> HIDE DEF under
<1>1. /\ passing /\ todo = <<>> /\ todo' = <<>> /\ visits = <<>> /\ visits' = Visits({e}, under)
      /\ e \in changed /\ changed' = changed \ {e}
      /\ UNCHANGED <<parent, local, global, loose>>
      /\ parent \in [Entity -> Entity \cup {None}] /\ {e} \in SUBSET Entity
  BY <1>0 DEF PlaceInv, IndexInv, Kept, Queued, Typed, TreeTyped
<1>2. RightUnder(e, under)
  <2>1. CASE parent[e] = None
    BY <2>1, LiveMapAssumption DEF RightUnder, under
  <2>2. CASE parent[e] # None
    <3>1. parent[e] \in Entity
      BY <1>1, <2>2
    <3>2. local[parent[e]] # None => HasData(parent[e])
      BY <1>1, <2>2, <3>1, OneOp DEF PlaceInv, Placing, DataAgree, HasData
    <3> QED
      BY <2>2, <3>1, <3>2 DEF RightUnder, under
  <2> QED
    BY <2>1, <2>2
<1>3. /\ Waiting(Visits({e}, under)) = {e} /\ Apart(Visits({e}, under)) /\ Right(Visits({e}, under))
  BY <1>1, <1>2, OneVisit
<1>4. Waiting(visits) = {}
  BY <1>1 DEF Waiting
<1>5. (Apart(visits))' /\ (Right(visits))' /\ (Waiting(visits))' = {e}
  BY <1>1, <1>3, NextVisits
<1>7. DataAgree'
  BY <1>1, OneOp DEF PlaceInv, Placing, DataAgree
<1>8. Acyclic'
  BY <1>1 DEF PlaceInv, Placing, Acyclic, Below, Upward
<1>9. AllDue'
  BY <1>1, <1>4, <1>5 DEF PlaceInv, Placing, AllDue, Due, InPlace
<1> QED
  BY <1>5, <1>7, <1>8, <1>9 DEF Placing

LEMMA VisitBarePlaces ==
  ASSUME PlaceInv, NEW e \in Entity, Visit(e), VisitBare(e)
  PROVE  Placing'
<1> DEFINE u == Head(visits).under
           v == Visits(Children(e), u) \o Returning(e)
<1>1. /\ passing /\ todo = <<>> /\ todo' = <<>> /\ visits' = v /\ u \in Place \cup {None}
      /\ UNCHANGED <<parent, local, global, changed>> /\ loose' = loose \ {e}
      /\ parent \in [Entity -> Entity \cup {None}] /\ ~HasData(e)
  <2>1. IndexInv /\ parent \in [Entity -> Entity \cup {None}]
    BY DEF PlaceInv, IndexInv, Kept, Typed, TreeTyped
  <2>2. passing /\ u \in Place \cup {None}
    BY <2>1, VisitFrame
  <2>3. todo = <<>>
    BY <2>1, <2>2, InPass
  <2> QED
    BY <2>1, <2>2, <2>3 DEF Visit, VisitBare, tree
<1>2. local[e] = None
  BY <1>1, OneOp, LiveMapAssumption DEF PlaceInv, Placing, DataAgree, HasData
<1>3. Right(v)
  <2>1. \A w \in Children(e) : RightUnder(w, u)
    BY <1>2, LiveMapAssumption DEF Children, RightUnder
  <2> QED
    BY <1>1, <2>1, VisitWaits
<1>4. Apart(v) /\ Waiting(v) = Children(e) \cup (Waiting(visits) \ {e})
  BY <1>1, VisitWaits
<1> HIDE DEF v
<1>5. (Apart(visits))' /\ (Right(visits))' /\ (Waiting(visits))' = Waiting(v)
  BY <1>1, <1>3, <1>4, NextVisits
<1>6. DataAgree'
  BY <1>1, OneOp DEF PlaceInv, Placing, DataAgree
<1>7. Acyclic'
  BY <1>1 DEF PlaceInv, Placing, Acyclic, Below, Upward
<1>8. AllDue'
  <2> SUFFICES ASSUME NEW x \in Entity, x \notin loose \ {e}, local[x] # None
               PROVE  Due(x)' \/ InPlace(x)'
    BY <1>1 DEF AllDue
  <2>1. x # e /\ (Due(x) \/ InPlace(x))
    BY <1>2 DEF PlaceInv, Placing, AllDue
  <2>2. CASE parent[x] = e
    BY <1>4, <1>5, <2>2 DEF Due, Children
  <2>3. CASE parent[x] # e
    BY <1>1, <1>4, <1>5, <2>1, <2>3 DEF Due, InPlace
  <2> QED
    BY <2>2, <2>3
<1> QED
  BY <1>5, <1>6, <1>7, <1>8 DEF Placing

LEMMA VisitPlacedPlaces ==
  ASSUME PlaceInv, NEW e \in Entity, Visit(e), VisitPlaced(e)
  PROVE  Placing'
<1> DEFINE u == Head(visits).under
           place == IF u = None THEN local[e] ELSE Under(u, local[e])
           v == Visits(Children(e), place) \o Returning(e)
<1>1. /\ passing /\ todo = <<>> /\ todo' = <<>> /\ visits' = v /\ u \in Place \cup {None}
      /\ global' = [global EXCEPT ![e] = place] /\ HasData(e)
      /\ UNCHANGED <<parent, local, changed>> /\ loose' = loose \ {e}
      /\ parent \in [Entity -> Entity \cup {None}]
      /\ local \in [Entity -> Place \cup {None}] /\ global \in [Entity -> Place \cup {None}]
  BY VisitFrame DEF Visit, VisitPlaced, tree, PlaceInv, IndexInv, Kept, Queued, Typed, TreeTyped
<1>2. place \in Place /\ place # None
  BY <1>1, UnderPlace, LiveMapAssumption DEF HasData
<1>3. RightUnder(e, u) /\ parent[e] # e
  BY <1>1, VisitWaits
\* The place is the one below the parent, whose own place is known.
<1>4. IF parent[e] = None THEN place = local[e]
      ELSE local[parent[e]] # None => place = Under(global[parent[e]], local[e])
  <2>1. CASE parent[e] = None
    BY <1>3, <2>1 DEF RightUnder
  <2>2. CASE parent[e] # None /\ local[parent[e]] # None
    <3>1. u = global[parent[e]] /\ u # None
      BY <1>1, <1>3, <2>2, OneOp DEF RightUnder, PlaceInv, Placing, DataAgree
    <3> QED
      BY <2>2, <3>1
  <2> QED
    BY <2>1, <2>2
<1>5. /\ Apart(v) /\ Waiting(v) = Children(e) \cup (Waiting(visits) \ {e})
      /\ Waiting(Returning(e)) = Waiting(visits) \ {e}
      /\ Right(Returning(e)) /\ \A w \in Waiting(Returning(e)) : parent[w] # e
  BY <1>2, VisitWaits
<1> HIDE DEF u, place
\* The new place is what the children are given, and nobody else's parent moved.
<1>6. (Right(visits))'
  <2>1. Returning(e) \in Seq(VisitType) /\ Visits(Children(e), place) \in Seq(VisitType)
    <3>1. Children(e) \in SUBSET Entity
      BY DEF Children
    <3>2. /\ Head(visits) \in VisitType /\ Tail(visits) \in Seq(VisitType)
      <4>1. visits \in Seq(VisitType) /\ visits # <<>>
        BY DEF PlaceInv, IndexInv, Kept, Typed, RestTyped, Visit
      <4> QED
        BY <4>1
    <3>3. Head(visits).who \ {e} \in SUBSET Entity /\ Head(visits).under \in Place \cup {None}
      BY <3>2 DEF VisitType
    <3> QED
      BY <1>2, <3>1, <3>2, <3>3, VisitFrames DEF Returning
  <2>2. \A i \in DOMAIN v : \A w \in v[i].who :
          \/ w \in Children(e) /\ v[i].under = place
          \/ w \in Waiting(Returning(e)) /\ RightUnder(w, v[i].under)
    <3> DEFINE s == Visits(Children(e), place)
               t == Returning(e)
    <3>1. \A i \in DOMAIN s : s[i].who = Children(e) /\ s[i].under = place
      BY DEF Visits
    <3>2. \A i \in DOMAIN t : \A w \in t[i].who : w \in Waiting(t) /\ RightUnder(w, t[i].under)
      BY <1>5 DEF Right, Waiting
    <3> HIDE DEF s, t
    <3>3. \A i \in DOMAIN (s \o t) :
            \/ i \in DOMAIN s /\ (s \o t)[i] = s[i]
            \/ i - Len(s) \in DOMAIN t /\ (s \o t)[i] = t[i - Len(s)]
      BY <2>1 DEF s, t
    <3> QED
      BY <3>1, <3>2, <3>3 DEF s, t
  <2> HIDE DEF v
  <2>3. SUFFICES ASSUME NEW i \in DOMAIN v, NEW w \in v[i].who
                 PROVE  IF parent[w] = None THEN v[i].under = None
                        ELSE local[parent[w]] # None => v[i].under = global'[parent[w]]
    BY <1>1 DEF Right, RightUnder
  <2>4. CASE w \in Children(e) /\ v[i].under = place
    BY <1>1, <2>4, LiveMapAssumption DEF RightUnder, Children
  <2>5. CASE w \in Waiting(Returning(e)) /\ RightUnder(w, v[i].under)
    <3>1. parent[w] # e
      BY <1>5, <2>5
    <3>2. global'[parent[w]] = global[parent[w]]
      BY <1>1, <3>1
    <3> QED
      BY <1>1, <2>5, <3>2 DEF RightUnder
  <2> QED
    BY <2>2, <2>4, <2>5
<1> HIDE DEF v
<1>7. (Apart(visits))' /\ (Waiting(visits))' = Waiting(v)
  BY <1>1, <1>5, NextVisits
<1>8. DataAgree'
  <2> SUFFICES ASSUME NEW x \in Entity, local[x] # None PROVE global'[x] # None
    BY <1>1, OneOp DEF DataAgree
  <2>1. global[x] # None
    BY <1>1, OneOp DEF PlaceInv, Placing, DataAgree
  <2> QED
    BY <1>1, <1>2, <2>1
<1>9. Acyclic'
  BY <1>1 DEF PlaceInv, Placing, Acyclic, Below, Upward
<1>10. AllDue'
  <2> SUFFICES ASSUME NEW x \in Entity, x \notin loose \ {e}, local[x] # None
               PROVE  Due(x)' \/ InPlace(x)'
    BY <1>1 DEF AllDue
  <2>1. CASE x = e
    <3>1. global'[e] = place /\ (parent[e] # None => global'[parent[e]] = global[parent[e]])
      BY <1>1, <1>3
    <3> QED
      BY <1>1, <1>4, <2>1, <3>1 DEF InPlace
  <2>2. CASE parent[x] = e
    BY <1>5, <1>7, <2>2 DEF Due, Children
  <2>3. CASE x # e /\ parent[x] # e
    <3>1. Due(x) \/ InPlace(x)
      BY <2>3 DEF PlaceInv, Placing, AllDue
    <3>2. global'[x] = global[x] /\ global'[parent[x]] = global[parent[x]]
      BY <1>1, <2>3
    <3> QED
      BY <1>1, <1>5, <1>7, <2>3, <3>1, <3>2 DEF Due, InPlace
  <2> QED
    BY <2>1, <2>2, <2>3
<1> QED
  BY <1>6, <1>7, <1>8, <1>9, <1>10 DEF Placing

LEMMA NextPlaces == PlaceInv /\ [Next]_vars => PlaceInv'
<1> SUFFICES ASSUME PlaceInv, [Next]_vars PROVE PlaceInv'
  OBVIOUS
<1> SUFFICES Placing'
  BY NextIndexed DEF PlaceInv
<1>2. ASSUME UNCHANGED <<parent, local, global, changed, visits, loose>>,
             \A x \in Entity : Unhooked(x)
      PROVE  Placing'
  BY <1>2, SamePlaces DEF Placing
<1>3. ASSUME NEW e \in Entity, Command(e) PROVE Placing'
  <2>1. CASE GainLive(e) \/ LoseLive(e) \/ Orphan(e)
    <3>1. ~passing /\ todo = <<>>
      BY <2>1 DEF GainLive, LoseLive, Orphan, Resting
    <3>2. <<>> \in Seq(LiveFrame)
      OBVIOUS
    <3>3. InsertLive(e, <<>>) \/ RemoveLive(e, <<>>) \/ RemoveParent(e, <<>>)
      BY <2>1 DEF GainLive, LoseLive, Orphan
    <3> QED
      BY <3>1, <3>2, <3>3, CascadePlaces
  <2> QED
    BY <1>3, <2>1, SetParentPlaces, SetTransformPlaces, RemoveTransformPlaces, DespawnPlaces
    DEF Command
<1>4. ASSUME NEW m \in MapEntity, MapCommand(m) PROVE Placing'
  <2>1. /\ UNCHANGED <<parent, local, global, changed, visits, loose>>
        /\ todo = <<>> /\ (todo' = <<>> \/ todo' = One("new_entities", m))
    BY <1>4 DEF MapCommand, AddMap, RemoveMap, Resting, Frame, One, tree, places, pass, history
  <2>2. \A x \in Entity : Unhooked(x)
    BY <2>1, OneOp DEF Unhooked
  <2> QED
    BY <1>2, <2>1, <2>2
<1>5. CASE RunQueued
  <2>1. Queued
    BY DEF PlaceInv, IndexInv, Kept
  <2>2. ~passing
    BY <1>5, <2>1, QueueCases
  <2>3. ASSUME NEW m \in MapEntity, todo = One("new_entities", m), FreshEntities(m, <<>>) PROVE Placing'
    <3>1. UNCHANGED <<parent, local, global, changed, visits, loose>> /\ todo' = <<>>
      BY <2>3 DEF FreshEntities, tree, places, pass, history
    <3>2. \A x \in Entity : Unhooked(x)
      BY <2>3, <3>1, OneOp DEF Unhooked
    <3> QED
      BY <1>2, <3>1, <3>2
  <2>4. CASE /\ todo \in Seq(LiveFrame)
             /\ \E e \in Entity, rest \in Seq(LiveFrame) :
                  InsertLive(e, rest) \/ RemoveLive(e, rest) \/ RemoveParent(e, rest)
    BY <2>2, <2>4, CascadePlaces
  <2>5. ASSUME NEW e \in Entity, todo = One("default_global", e), DefaultGlobal(e, <<>>)
        PROVE  Placing'
    BY <2>2, <2>5, DefaultGlobalPlaces
  <2>6. ASSUME NEW e \in Entity, todo = One("remove_global", e), RemoveGlobal(e, <<>>)
        PROVE  Placing'
    BY <2>2, <2>6, RemoveGlobalPlaces
  <2> QED
    BY <1>5, <2>1, <2>3, <2>4, <2>5, <2>6, QueueCases
<1>6. CASE StartPass \/ EndPass \/ UNCHANGED vars
  <2>1. UNCHANGED <<parent, local, global, changed, visits, loose, todo>>
    BY <1>6 DEF StartPass, EndPass, vars, tree, places, pass, history
  <2>2. \A x \in Entity : Unhooked(x)
    BY <2>1 DEF Unhooked
  <2> QED
    BY <1>2, <2>1, <2>2
<1>7. ASSUME NEW e \in Entity, VisitChanged(e) \/ Visit(e) PROVE Placing'
  <2>1. CASE VisitChanged(e)
    BY <2>1, VisitChangedPlaces
  <2>2. CASE Visit(e)
    <3>1. VisitPlaced(e) \/ VisitBare(e)
      BY <2>2 DEF Visit
    <3> QED
      BY <2>2, <3>1, VisitBarePlaces, VisitPlacedPlaces
  <2> QED
    BY <1>7, <2>1, <2>2
<1>8. CASE Commands
  BY <1>3, <1>4, <1>8 DEF Commands
<1>9. CASE Pass
  BY <1>6, <1>7, <1>9 DEF Pass
<1> QED
  BY <1>5, <1>6, <1>8, <1>9 DEF Next

-----------------------------------------------------------------------------
\* The invariant of the index.
THEOREM AlwaysIndexed == Spec => []IndexInv
  BY InitIndexed, NextIndexed, PTL DEF Spec

\* The invariant of the tree.
THEOREM AlwaysDoomed == Spec => []DeadInv
<1>1. Init => DeadInv
  BY InitIndexed DEF Init, DeadInv, OneWay, DeadAreDoomed, DeadBelow
<1> QED
  BY <1>1, NextDead, PTL DEF Spec

\* The variables of the tree, the maps and the queue have their types.
THEOREM LiveMapTypes == Spec => []TypeOK
<1> DEFINE Counted == given \in Nat
<1>1. IndexInv /\ Counted => TypeOK
  <2> SUFFICES ASSUME IndexInv, given \in Nat PROVE TypeOK
    OBVIOUS
  <2>1. Typed /\ Queued /\ by_id = named
    BY DEF IndexInv, Kept, NamesAgree
  <2>2. todo \in Seq(FrameType)
    <3>1. LiveFrame \subseteq FrameType
      BY DEF LiveFrame, LiveOps, FrameType, Ops
    <3>2. CASE todo \in Seq(LiveFrame)
      BY <3>1, <3>2
    <3>3. ASSUME NEW op \in Ops, NEW x \in Entity \cup MapEntity, todo = One(op, x)
          PROVE  todo \in Seq(FrameType)
      <4>1. [op |-> op, who |-> {x}] \in FrameType
        BY DEF FrameType
      <4> QED
        BY <3>3, <4>1 DEF One
    <3> QED
      BY <2>1, <3>2, <3>3 DEF Queued, Ops
  <2>3. visits \in Seq([who : SUBSET Entity, under : Place \cup {None}])
    BY <2>1 DEF Typed, RestTyped, VisitType
  <2> QED
    BY <2>1, <2>2, <2>3 DEF Typed, TreeTyped, MapsTyped, RestTyped, NamesTyped, AllKnown, Known, TypeOK
<1>2. Init => Counted
  BY DEF Init
<1>3. Counted /\ [Next]_vars => Counted'
  BY DEF Next, Commands, vars
<1> HIDE DEF Counted
<1> QED
  BY <1>1, <1>2, <1>3, AlwaysIndexed, PTL DEF Spec

\* A name leads to a map of that name, whichever maps came and went.
THEOREM NamesAlwaysLead == Spec => []NamesLead
<1>1. IndexInv => NamesLead
  BY DEF IndexInv, Kept, NamesAgree
<1> QED
  BY <1>1, AlwaysIndexed, PTL

\* The cells of a map have the entities that it files there, and no others.
THEOREM CellsAlwaysMatch == Spec => []CellsMatch
<1>1. IndexInv => CellsMatch
  BY DEF IndexInv, InIndex
<1> QED
  BY <1>1, AlwaysIndexed, PTL

\* The index of a map has the live entities that are on it, where they are.
THEOREM IndexAlwaysExact == Spec => []IndexExact
<1>1. IndexInv => IndexExact
  <2> SUFFICES ASSUME IndexInv, todo = <<>>, NEW name \in Name, by_name[name] # None,
                      NEW e \in Entity \ torn
               PROVE  Exact(by_name[name], name, e)
    BY DEF IndexExact, Exact, On
  <2>1. by_name[name] \in MapEntity
    BY DEF IndexInv, Kept, Typed, MapsTyped, NamesTyped
  <2>2. ~Awaited(by_name[name])
    BY OneOp DEF Awaited
  <2> QED
    BY <2>1, <2>2 DEF IndexInv, InIndex, Indexed
<1> QED
  BY <1>1, AlwaysIndexed, PTL

\* "Don't let live entities have dead children."
THEOREM NeverDeadChildren == Spec => []NoDeadChildren
<1>1. DeadInv => NoDeadChildren
  <2> SUFFICES ASSUME DeadInv, todo = <<>> PROVE \A e \in Entity : ~DeadBelow(e)
    BY DEF NoDeadChildren, DeadBelow
  <2> QED
    BY NoCascade
<1> QED
  BY <1>1, AlwaysDoomed, PTL

\* The invariant of the places.
THEOREM AlwaysDue == Spec => []PlaceInv
<1>1. Init => PlaceInv
  <2> SUFFICES ASSUME Init PROVE PlaceInv
    OBVIOUS
  <2>1. IndexInv
    BY InitIndexed
  <2>2. DataAgree
    BY OneOp DEF Init, DataAgree
  <2>3. Acyclic /\ Apart(visits) /\ Right(visits) /\ AllDue
    BY DEF Init, Acyclic, Apart, Right, AllDue
  <2> QED
    BY <2>1, <2>2, <2>3 DEF PlaceInv, Placing
<1> QED
  BY <1>1, NextPlaces, PTL DEF Spec

\* After a pass every entity is where its Transform puts it below its parent.
THEOREM AlwaysUnderParent == Spec => []PlacedUnderParent
<1>1. PlaceInv => PlacedUnderParent
  <2> SUFFICES ASSUME PlaceInv, ~passing, changed = {},
                      NEW e \in Entity \ loose, local[e] # None
               PROVE  InPlace(e)
    BY DEF PlacedUnderParent, InPlace
  <2>1. Waiting(visits) = {}
    BY DEF PlaceInv, IndexInv, Kept, Queued, Waiting
  <2>2. ~Due(e)
    BY <2>1 DEF Due
  <2> QED
    BY <2>2 DEF PlaceInv, Placing, AllDue
<1> QED
  BY <1>1, AlwaysDue, PTL
================================================================================
