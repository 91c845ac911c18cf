------------------------------ MODULE MCLuaExecutor -----------------------------
(***************************************************************************)
(* Threads for LuaExecutor.                                                *)
(***************************************************************************)
EXTENDS LuaExecutor

CONSTANTS t1, t2, t3

MCThread == {t1, t2, t3}
MCSymmetry == Permutations(MCThread)
================================================================================
