------------------------------ MODULE ActionQueue ------------------------------
(***************************************************************************)
(* What the queue of a character promises its player: actions are carried  *)
(* out one at a time, in the order they were given, and what is given up   *)
(* is everything, or everything but the action at the front.               *)
(***************************************************************************)
EXTENDS Naturals, Sequences

CONSTANT Action

VARIABLES
  pending,   \* the actions given and not completed, oldest first
  done       \* the actions completed

qvars == <<pending, done>>

Init == pending = <<>> /\ done = <<>>

Give ==
  /\ \E a \in Action : pending' = Append(pending, a)
  /\ UNCHANGED done

Complete ==
  /\ pending # <<>>
  /\ done' = Append(done, Head(pending))
  /\ pending' = Tail(pending)

GiveUp ==
  /\ pending # <<>>
  /\ pending' \in {<<>>, <<Head(pending)>>}
  /\ UNCHANGED done

Next == Give \/ Complete \/ GiveUp

Spec == Init /\ [][Next]_qvars
=============================================================================
