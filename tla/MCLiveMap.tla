------------------------------ MODULE MCLiveMap --------------------------------
(* A small world: two places on one map, the second turned by 120 degrees.  *)
EXTENDS LiveMap, TLC

CONSTANTS town

SomeLocals == {[map |-> town, coords |-> <<1, 0>>, facing |-> 2],
               [map |-> town, coords |-> <<0, 0>>, facing |-> 0]}

Interchangeable == Permutations(Entity) \cup Permutations(MapEntity)
================================================================================
