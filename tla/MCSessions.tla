------------------------------ MODULE MCSessions -------------------------------
(* Sessions for TLC. *)
EXTENDS Sessions, TLC

CONSTANTS p1, p2, p3, ann, bob, c1, c2, c3, npc

MCSymmetry == Permutations(Conn) \cup Permutations(Name) \cup Permutations(Character \ NonPlayer)
=============================================================================
