----------------------------- MODULE EventStream ------------------------------
(***************************************************************************)
(* What the input half of a connection promises: a stream of events handed *)
(* from a producer to a consumer, in order and one at a time, and a        *)
(* consumer that may be retired only when the producer has ended and       *)
(* nothing is left, or that is despawned from outside at any time.         *)
(***************************************************************************)
EXTENDS Naturals, Sequences

CONSTANT Event

VARIABLES
  offered,    \* everything the producer has put on the stream
  received,   \* everything the consumer has taken from it
  open,       \* the producer has not ended
  consumer    \* "live", "reaped", "despawned"

svars == <<offered, received, open, consumer>>

Init ==
  /\ offered = <<>> /\ received = <<>>
  /\ open = TRUE /\ consumer = "live"

Offer ==
  /\ open /\ consumer = "live"
  /\ offered' \in Seq(Event)
  /\ Len(offered') = Len(offered) + 1
  /\ SubSeq(offered', 1, Len(offered)) = offered
  /\ UNCHANGED <<received, open, consumer>>

Receive ==
  /\ consumer = "live"
  /\ Len(received) < Len(offered)
  /\ received' = Append(received, offered[Len(received) + 1])
  /\ UNCHANGED <<offered, open, consumer>>

End == open /\ open' = FALSE /\ UNCHANGED <<offered, received, consumer>>

Reap ==
  /\ consumer = "live" /\ ~open /\ received = offered
  /\ consumer' = "reaped"
  /\ UNCHANGED <<offered, received, open>>

Despawn ==
  /\ consumer = "live"
  /\ consumer' = "despawned"
  /\ UNCHANGED <<offered, received, open>>

Next == Offer \/ Receive \/ End \/ Reap \/ Despawn

Spec == Init /\ [][Next]_svars
=============================================================================
