------------------------------- MODULE LiveMap ---------------------------------
(***************************************************************************)
(* Entities in a tree, their liveness, and the index of what is on a map:  *)
(* the observers of Live and Parent in src/core.rs, and the hooks,         *)
(* observers, Entities index and propagate_transforms of src/map.rs.       *)
(*                                                                         *)
(* An observer queues commands; bevy runs what a command has queued before *)
(* the command after it.  todo is that queue, a frame for each call that   *)
(* queued something: one operation on a set of entities, in any order.     *)
(* visits is the same for the recursion of propagate_transform.            *)
(* Children is the inverse of parent.  Rendering is left out.              *)
(***************************************************************************)
EXTENDS Hexes, Sequences

CONSTANTS
  Entity,       \* what can be live, have a parent and a Transform
  MapEntity,    \* what can have the component Map
  Name,         \* the names maps have
  NoName,       \* the empty name, which no map has
  Local,        \* the values that game and admin commands give Transforms
  Base,         \* MapConfig::init_res_power
  Extra,        \* MapConfig::extra_resolutions
  MaxCommands,  \* bound: how many commands change the world in all
  None

Place == [map : Name \cup {NoName}, coords : Hex, facing : Direction]

ASSUME LiveMapAssumption ==
  /\ NoName \notin Name /\ Local \subseteq Place
  /\ None \notin Place /\ None \notin Entity
  /\ None \notin Name /\ None \notin MapEntity
  /\ Base \in Nat /\ Extra \in Nat /\ MaxCommands \in Nat

VARIABLES
  parent,      \* Parent, or None
  live,        \* Live
  local,       \* Transform, or None
  global,      \* GlobalTransform, or None
  changed,     \* the entities whose Transform was written since the last pass
  named,       \* Map: the name of a map entity, or None
  by_name,     \* Maps::by_name, None where there is no entry
  by_id,       \* Maps::by_id
  ents,        \* the component Entities of each map entity
  todo,        \* queued commands, innermost first
  passing,     \* propagate_transforms is running
  visits,      \* the calls of propagate_transform that have not returned
  reparented,  \* history: given another parent in place
  torn,        \* history: lost the Transform while live
  missed,      \* history: live on a map before its name was registered
  loose,       \* history: their place in the tree changed since the last visit
  given        \* history: how many commands have changed the world

tree == <<parent, live>>
places == <<local, global, changed>>
maps == <<named, by_name, by_id>>
pass == <<passing, visits>>
history == <<reparented, torn, missed, loose>>
vars == <<tree, places, maps, ents, todo, pass, history, given>>

Children(e) == {c \in Entity : parent[c] = e}

\* Default of Transform and GlobalTransform.
DefaultPlace == [map |-> NoName, coords |-> <<0, 0>>, facing |-> 0]

\* Where a Transform is, below the GlobalTransform p.
Under(p, t) ==
  [map |-> p.map,
   coords |-> HexAdd(p.coords, RotateCw(t.coords, p.facing)),
   facing |-> TurnCw(t.facing, p.facing)]

-----------------------------------------------------------------------------
(* Entities: what is on one map, by entity and by cell of each resolution. *)

Radius(i) == IF i = 0 THEN 0 ELSE Base * 2^(i - 1)

Cells(coords) == {<<i, ToLowerRes(coords, Radius(i))>> : i \in 0..Extra}

NoEntities == [by_id |-> [e \in Entity |-> None], by_coords |-> {}]

Filed(e, cells) == {<<e, c>> : c \in cells}

\* Entities::add_entity: what by_id held before is not looked at.
Added(m, e, place) ==
  [by_id |-> [m.by_id EXCEPT ![e] = place],
   by_coords |-> m.by_coords \cup Filed(e, Cells(place.coords))]

Removed(m, e) ==
  IF m.by_id[e] = None THEN m
  ELSE [by_id |-> [m.by_id EXCEPT ![e] = None],
        by_coords |-> m.by_coords \ Filed(e, Cells(m.by_id[e].coords))]

\* Mutant: the entity stays in the cells it leaves.
MovedOnly(m, e, place) == Added(m, e, place)

Moved(m, e, place) ==
  IF m.by_id[e] = None THEN Added(m, e, place)
  ELSE LET old == Cells(m.by_id[e].coords)
           new == Cells(place.coords)
       IN  [by_id |-> [m.by_id EXCEPT ![e] = place],
            by_coords |-> (m.by_coords \ Filed(e, old \ new)) \cup Filed(e, new \ old)]

-----------------------------------------------------------------------------
(* MapEntitiesMut: the same on the map that is registered under a name;    *)
(* nothing where there is none.                                            *)

OnMap(name, all, Change(_)) ==
  IF name \in Name /\ by_name[name] # None
  THEN [all EXCEPT ![by_name[name]] = Change(@)]
  ELSE all

Leaves(all, e, place) == OnMap(place.map, all, LAMBDA m : Removed(m, e))
Enters(all, e, place) == OnMap(place.map, all, LAMBDA m : Added(m, e, place))

\* Mutant: an entity that goes to another map is not taken from the one it leaves.
ShiftsIn(all, e, from, to) ==
  IF from = to THEN all
  ELSE IF from.map = to.map THEN OnMap(to.map, all, LAMBDA m : Moved(m, e, to))
  ELSE Enters(all, e, to)

\* MapEntitiesMut::move_entity.
Shifts(all, e, from, to) ==
  IF from = to THEN all
  ELSE IF from.map = to.map THEN OnMap(to.map, all, LAMBDA m : Moved(m, e, to))
  ELSE Enters(Leaves(all, e, from), e, to)

-----------------------------------------------------------------------------
(* Queued commands.                                                        *)

Frame(op, who) == IF who = {} THEN <<>> ELSE <<[op |-> op, who |-> who]>>

Ops == {"insert_live", "remove_live", "remove_parent",
        "default_global", "remove_global", "new_entities"}

FrameType == [op : Ops, who : SUBSET (Entity \cup MapEntity)]

Resting == todo = <<>> /\ ~passing

\* insert(Live) and, if the entity was not live, live_added of core.rs and of
\* map.rs.
InsertLive(e, rest) ==
  /\ live' = [live EXCEPT ![e] = TRUE]
  /\ IF live[e]
     THEN todo' = rest /\ UNCHANGED ents
     ELSE /\ todo' = Frame("insert_live", Children(e)) \o rest
          /\ ents' = IF global[e] = None THEN ents ELSE Enters(ents, e, global[e])
  /\ UNCHANGED <<parent, places, maps, pass, history>>

\* Mutant: a child that loses Live stays with its live parent.
RemoveLiveOnly(e, rest) ==
  /\ live' = [live EXCEPT ![e] = FALSE]
  /\ IF ~live[e]
     THEN todo' = rest /\ UNCHANGED ents
     ELSE /\ todo' = Frame("remove_live", Children(e)) \o rest
          /\ ents' = IF global[e] = None THEN ents ELSE Leaves(ents, e, global[e])
  /\ UNCHANGED <<parent, places, maps, pass, history>>

\* remove::<Live>() and, if the entity was live, both live_removed.
RemoveLive(e, rest) ==
  /\ live' = [live EXCEPT ![e] = FALSE]
  /\ IF ~live[e]
     THEN todo' = rest /\ UNCHANGED ents
     ELSE /\ todo' = Frame("remove_live", Children(e))
                       \o Frame("remove_parent",
                                {x \in {e} : parent[x] # None /\ live[parent[x]]})
                       \o rest
          /\ ents' = IF global[e] = None THEN ents ELSE Leaves(ents, e, global[e])
  /\ UNCHANGED <<parent, places, maps, pass, history>>

\* remove_parent: no observer looks at it, so the liveness stays.
RemoveParent(e, rest) ==
  /\ parent' = [parent EXCEPT ![e] = None]
  /\ reparented' = reparented \ {e}
  /\ loose' = loose \cup {e}
  /\ todo' = rest
  /\ UNCHANGED <<live, places, maps, ents, pass, torn, missed>>

\* The hooks of Transform.
DefaultGlobal(e, rest) ==
  /\ global' = [global EXCEPT ![e] = DefaultPlace]
  /\ todo' = rest
  /\ UNCHANGED <<tree, local, changed, maps, ents, pass, history>>

RemoveGlobal(e, rest) ==
  /\ global' = [global EXCEPT ![e] = None]
  /\ todo' = rest
  /\ UNCHANGED <<tree, local, changed, maps, ents, pass, history>>

\* The Entities that map_added inserts.
FreshEntities(m, rest) ==
  /\ ents' = [ents EXCEPT ![m] = NoEntities]
  /\ todo' = rest
  /\ UNCHANGED <<tree, places, maps, pass, history>>

Run(op, x, rest) ==
  \/ op = "insert_live" /\ InsertLive(x, rest)
  \/ op = "remove_live" /\ RemoveLive(x, rest)
  \/ op = "remove_parent" /\ RemoveParent(x, rest)
  \/ op = "default_global" /\ DefaultGlobal(x, rest)
  \/ op = "remove_global" /\ RemoveGlobal(x, rest)
  \/ op = "new_entities" /\ FreshEntities(x, rest)

RunQueued ==
  /\ todo # <<>>
  /\ \E x \in Head(todo).who :
       Run(Head(todo).op, x, Frame(Head(todo).op, Head(todo).who \ {x}) \o Tail(todo))

-----------------------------------------------------------------------------
(* What commands of players and admins do to the world.                    *)

\* Login, @insert and @remove.
GainLive(e) == Resting /\ ~live[e] /\ InsertLive(e, <<>>)
LoseLive(e) == Resting /\ live[e] /\ RemoveLive(e, <<>>)

\* e is a or is below a: nobody is made a child of its own descendant, on which
\* propagate_transform would not end.
Upward(S) == \A x \in S : parent[x] # None => parent[x] \in S

Below(e, a) == \A S \in SUBSET Entity : e \in S /\ Upward(S) => a \in S

\* @parent with a parent.  bevy inserts Parent where there was none, which
\* live_parent_inserted observes; a Parent that is there is written in place,
\* which no observer sees.
SetParent(e, p) ==
  /\ Resting /\ ~Below(p, e) /\ parent[e] # p
  /\ parent' = [parent EXCEPT ![e] = p]
  /\ loose' = loose \cup {e}
  /\ IF parent[e] = None
     THEN /\ todo' = Frame(IF live[p] THEN "insert_live" ELSE "remove_live", {e})
          /\ UNCHANGED reparented
     ELSE /\ reparented' = reparented \cup {e}
          /\ UNCHANGED todo
  /\ UNCHANGED <<live, places, maps, ents, pass, torn, missed>>

\* @parent without one.
Orphan(e) == Resting /\ parent[e] # None /\ RemoveParent(e, <<>>)

\* A Transform is inserted or written: a move, @teleport, @move, @rotate,
\* @insert, the reload of a saved entity.
SetTransform(e, t) ==
  /\ Resting
  /\ local' = [local EXCEPT ![e] = t]
  /\ changed' = changed \cup {e}
  /\ todo' = Frame("default_global", {x \in {e} : local[x] = None})
  /\ UNCHANGED <<tree, global, maps, ents, pass, history>>

\* @remove of a Transform.
RemoveTransform(e) ==
  /\ Resting /\ local[e] # None
  /\ local' = [local EXCEPT ![e] = None]
  /\ changed' = changed \ {e}
  /\ todo' = Frame("remove_global", {e})
  /\ torn' = IF live[e] THEN torn \cup {e} ELSE torn
  /\ UNCHANGED <<tree, global, maps, ents, pass, reparented, missed, loose>>

\* The entities below those of gone leave the map they are on.
Purged(gone) ==
  [m \in MapEntity |->
     LET off == {e \in gone : /\ live[e] /\ global[e] # None
                              /\ global[e].map \in Name /\ by_name[global[e].map] = m
                              /\ ents[m].by_id[e] # None}
     IN  [by_id |-> [e \in Entity |-> IF e \in off THEN None ELSE ents[m].by_id[e]],
          by_coords |-> {f \in ents[m].by_coords :
                           ~(f[1] \in off /\ f[2] \in Cells(ents[m].by_id[f[1]].coords))}]]

\* @despawn: e and all that is below it.
Despawn(e) ==
  LET gone == {x \in Entity : Below(x, e)}
      Without(f, nothing) == [x \in Entity |-> IF x \in gone THEN nothing ELSE f[x]]
  IN  /\ Resting
      /\ parent' = Without(parent, None)
      /\ live' = Without(live, FALSE)
      /\ local' = Without(local, None)
      /\ global' = Without(global, None)
      /\ changed' = changed \ gone
      /\ ents' = Purged(gone)
      /\ reparented' = reparented \ gone
      /\ UNCHANGED <<maps, todo, pass, torn, missed, loose>>

\* The component Map, inserted with map_added and removed with map_removed.
AddMap(m, name) ==
  /\ Resting /\ named[m] = None
  /\ named' = [named EXCEPT ![m] = name]
  /\ by_name' = [by_name EXCEPT ![name] = m]
  /\ by_id' = [by_id EXCEPT ![m] = name]
  /\ todo' = Frame("new_entities", {m})
  /\ missed' = missed \cup {e \in Entity : live[e] /\ global[e] # None
                                           /\ global[e].map = name}
  /\ UNCHANGED <<tree, places, ents, pass, reparented, torn, loose>>

\* Mutant: the name of a map that is removed still leads to it.
RemoveMapOnly(m) ==
  /\ Resting /\ named[m] # None
  /\ named' = [named EXCEPT ![m] = None]
  /\ by_id' = [by_id EXCEPT ![m] = None]
  /\ UNCHANGED <<by_name, tree, places, ents, todo, pass, history>>

RemoveMap(m) ==
  /\ Resting /\ named[m] # None
  /\ named' = [named EXCEPT ![m] = None]
  /\ by_id' = [by_id EXCEPT ![m] = None]
  /\ by_name' = IF by_id[m] = None THEN by_name ELSE [by_name EXCEPT ![by_id[m]] = None]
  /\ UNCHANGED <<tree, places, ents, todo, pass, history>>

-----------------------------------------------------------------------------
(* PostUpdate: propagate_transforms visits what has changed, and all that  *)
(* is below it.                                                            *)

StartPass ==
  /\ Resting /\ changed # {}
  /\ passing' = TRUE
  /\ UNCHANGED <<tree, places, maps, ents, todo, visits, history>>

Visits(who, under) == IF who = {} THEN <<>> ELSE <<[who |-> who, under |-> under]>>

HasData(e) == e # None /\ local[e] # None /\ global[e] # None

VisitChanged(e) ==
  /\ passing /\ visits = <<>> /\ e \in changed
  /\ changed' = changed \ {e}
  /\ visits' = Visits({e}, IF parent[e] \in Entity /\ HasData(parent[e])
                           THEN global[parent[e]] ELSE None)
  /\ UNCHANGED <<tree, local, global, maps, ents, todo, passing, history>>

Returning(e) == Visits(Head(visits).who \ {e}, Head(visits).under) \o Tail(visits)

\* Mutant: the children are visited with the place their parent had before.
VisitStale(e) ==
  /\ HasData(e)
  /\ LET under == Head(visits).under
         place == IF under = None THEN local[e] ELSE Under(under, local[e])
     IN  /\ global' = [global EXCEPT ![e] = place]
         /\ visits' = Visits(Children(e), global[e]) \o Returning(e)
         /\ ents' = IF live[e] THEN Shifts(ents, e, global[e], place) ELSE ents
         /\ missed' = IF live[e] /\ place # global[e] THEN missed \ {e} ELSE missed

\* propagate_transform of an entity with a Transform.
VisitPlaced(e) ==
  /\ HasData(e)
  /\ LET under == Head(visits).under
         place == IF under = None THEN local[e] ELSE Under(under, local[e])
     IN  /\ global' = [global EXCEPT ![e] = place]
         /\ visits' = Visits(Children(e), place) \o Returning(e)
         /\ ents' = IF live[e] THEN Shifts(ents, e, global[e], place) ELSE ents
         /\ missed' = IF live[e] /\ place # global[e] THEN missed \ {e} ELSE missed

\* One without passes on what it was given.
VisitBare(e) ==
  /\ ~HasData(e)
  /\ visits' = Visits(Children(e), Head(visits).under) \o Returning(e)
  /\ UNCHANGED <<global, ents, missed>>

Visit(e) ==
  /\ visits # <<>> /\ e \in Head(visits).who
  /\ VisitPlaced(e) \/ VisitBare(e)
  /\ loose' = loose \ {e}
  /\ UNCHANGED <<tree, local, changed, maps, todo, passing, reparented, torn>>

EndPass ==
  /\ passing /\ changed = {} /\ visits = <<>>
  /\ passing' = FALSE
  /\ UNCHANGED <<tree, places, maps, ents, todo, visits, history>>

-----------------------------------------------------------------------------
\* An empty world: a file is loaded by the same inserts, in any order.
Init ==
  /\ parent = [e \in Entity |-> None] /\ live = [e \in Entity |-> FALSE]
  /\ local = [e \in Entity |-> None] /\ global = [e \in Entity |-> None]
  /\ changed = {}
  /\ named = [m \in MapEntity |-> None]
  /\ by_name = [n \in Name |-> None] /\ by_id = [m \in MapEntity |-> None]
  /\ ents = [m \in MapEntity |-> NoEntities]
  /\ todo = <<>> /\ passing = FALSE /\ visits = <<>>
  /\ reparented = {} /\ torn = {} /\ missed = {} /\ loose = {} /\ given = 0

Command(e) ==
  \/ GainLive(e)
  \/ LoseLive(e)
  \/ \E p \in Entity : SetParent(e, p)
  \/ Orphan(e)
  \/ \E t \in Local : SetTransform(e, t)
  \/ RemoveTransform(e)
  \/ Despawn(e)

MapCommand(m) == RemoveMap(m) \/ (\E name \in Name : AddMap(m, name))

Commands ==
  /\ given < MaxCommands /\ given' = given + 1
  /\ (\E e \in Entity : Command(e)) \/ (\E m \in MapEntity : MapCommand(m))

Pass == StartPass \/ (\E e \in Entity : VisitChanged(e) \/ Visit(e)) \/ EndPass

Next == Commands \/ ((RunQueued \/ Pass) /\ UNCHANGED given)

Spec == Init /\ [][Next]_vars

-----------------------------------------------------------------------------
TypeOK ==
  /\ parent \in [Entity -> Entity \cup {None}]
  /\ live \in [Entity -> BOOLEAN]
  /\ local \in [Entity -> Place \cup {None}]
  /\ global \in [Entity -> Place \cup {None}]
  /\ changed \subseteq Entity
  /\ named \in [MapEntity -> Name \cup {None}]
  /\ by_name \in [Name -> MapEntity \cup {None}]
  /\ by_id \in [MapEntity -> Name \cup {None}]
  /\ DOMAIN ents = MapEntity
  /\ \A m \in MapEntity : ents[m].by_id \in [Entity -> Place \cup {None}]
  /\ todo \in Seq(FrameType) /\ passing \in BOOLEAN
  /\ visits \in Seq([who : SUBSET Entity, under : Place \cup {None}])
  /\ reparented \subseteq Entity /\ torn \subseteq Entity
  /\ missed \subseteq Entity /\ loose \subseteq Entity /\ given \in Nat

\* "Don't let live entities have dead children" (core.rs): when the queue is
\* empty, a child is dead below a live parent only where its parent was
\* exchanged in place, which the observers do not see.
NoDeadChildren ==
  todo = <<>> =>
    \A e \in Entity :
      parent[e] # None /\ live[parent[e]] /\ ~live[e] => e \in reparented

\* Each cell of the index has the entities by_id puts there, and no others, in
\* every map there has ever been: an entity whose Transform was removed while it
\* was live may be left behind.
CellsMatch ==
  \A m \in MapEntity :
    \A e \in Entity \ torn :
      {f \in ents[m].by_coords : f[1] = e} =
        IF ents[m].by_id[e] = None THEN {} ELSE Filed(e, Cells(ents[m].by_id[e].coords))

\* The Entities of the map registered under a name are "quick reference for all
\* of the entities that are on a particular map" (map.rs): the live ones whose
\* GlobalTransform is on it, where it is; the pass may be under way.  Excepted
\* are those that were live there before the name was registered, and have not
\* moved since.
IndexExact ==
  todo = <<>> =>
    \A name \in Name : by_name[name] # None =>
      \A e \in Entity \ torn :
        LET on == live[e] /\ global[e] # None /\ global[e].map = name
            entry == ents[by_name[name]].by_id[e]
        IN  /\ entry # None => on /\ entry = global[e]
            /\ on /\ e \notin missed => entry = global[e]

\* After a pass every entity is where its Transform puts it below its parent,
\* unless its place in the tree changed since it was last visited.
PlacedUnderParent ==
  todo = <<>> /\ ~passing /\ changed = {} =>
    \A e \in Entity \ loose :
      local[e] # None =>
        IF parent[e] = None THEN global[e] = local[e]
        ELSE local[parent[e]] # None => global[e] = Under(global[parent[e]], local[e])

\* A name leads to a map of that name, whichever maps of the same name came and
\* went.
NamesLead ==
  \A name \in Name : by_name[name] # None => named[by_name[name]] = name
================================================================================
