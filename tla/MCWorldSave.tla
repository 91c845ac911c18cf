----------------------------- MODULE MCWorldSave ------------------------------
(* WorldSave for TLC: names for the save tasks.                              *)
EXTENDS WorldSave

CONSTANTS s1, s2
=============================================================================
