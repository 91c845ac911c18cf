------------------------------- MODULE TableSpec -------------------------------
(***************************************************************************)
(* What a Lua table promises: a partial map.  An assignment answers with   *)
(* the value it replaces; Nil stands for no value, and is no key.          *)
(***************************************************************************)
CONSTANTS Key, Value, Nil, BadKey

VARIABLES content, answer

Init == content = [k \in Key |-> Nil] /\ answer = Nil

Assign(k, v) ==
  /\ content' = [content EXCEPT ![k] = v]
  /\ answer' = content[k]

Refuse == answer' = BadKey /\ UNCHANGED content

Next ==
  \/ \E k \in Key, v \in Value \cup {Nil} : Assign(k, v)
  \/ Refuse

Spec == Init /\ [][Next]_<<content, answer>>
================================================================================
