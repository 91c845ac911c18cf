------------------------------ MODULE MCLuaTable -------------------------------
(* Floats: one that is the integer 1, one that is no integer.              *)
EXTENDS LuaTable

CONSTANTS one, fraction

MCIntOf(f) == IF f = one THEN 1 ELSE Nil
================================================================================
