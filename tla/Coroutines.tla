------------------------------- MODULE Coroutines -------------------------------
(***************************************************************************)
(* What coroutines promise: control is in one chain of threads, each of    *)
(* which waits for the next; it is passed on to a suspended thread and     *)
(* handed back to the thread that waits, and never to two of them.         *)
(***************************************************************************)
EXTENDS Naturals, Sequences

CONSTANT Thread

VARIABLES
  chain,   \* the threads that wait for each other; the last one runs
  rest     \* of the threads outside of the chain: fresh, suspended, dead, or gone
           \* (its place was given away: it is not heard of again)

Off == {"stopped", "suspended", "gone"}
In(c) == {c[i] : i \in DOMAIN c}
Butlast(c) == SubSeq(c, 1, Len(c) - 1)

TypeInvariant ==
  /\ chain \in Seq(Thread) /\ chain # <<>>
  /\ \A i, j \in DOMAIN chain : chain[i] = chain[j] => i = j
  /\ rest \in [Thread -> Off \cup {"running"}]
  /\ \A t \in Thread : rest[t] = "running" <=> t \in In(chain)

Init == \E t \in Thread :
          chain = <<t>> /\ rest = [u \in Thread |-> IF u = t THEN "running" ELSE "stopped"]

Create(t) ==
  /\ rest[t] = "stopped" /\ t \notin In(chain)
  /\ rest' = [rest EXCEPT ![t] = "suspended"] /\ UNCHANGED chain

Resume(t) ==
  /\ rest[t] = "suspended"
  /\ chain' = Append(chain, t) /\ rest' = [rest EXCEPT ![t] = "running"]

\* The last thread gives its place to t: it may be resumed later, or is gone.
PassOn(t, as) ==
  LET last == chain[Len(chain)] IN
  /\ rest[t] = "suspended" /\ as \in {"suspended", "gone"}
  /\ chain' = Append(Butlast(chain), t)
  /\ rest' = [rest EXCEPT ![t] = "running", ![last] = as]

\* It yields, returns or fails: the one that waits for it runs on.
HandBack(as) ==
  /\ Len(chain) > 1 /\ as \in {"suspended", "stopped"}
  /\ chain' = Butlast(chain) /\ rest' = [rest EXCEPT ![chain[Len(chain)]] = as]

\* The host starts anew on the first thread: the others stay as they are.
Restart ==
  /\ Len(chain) > 1 /\ chain' = <<chain[1]>>
  /\ rest' = [t \in Thread |-> IF t \in In(chain) \ {chain[1]} THEN "gone" ELSE rest[t]]

\* Nothing refers to it any more.
Forget(t) == t \notin In(chain) /\ rest' = [rest EXCEPT ![t] = "stopped"] /\ UNCHANGED chain

Next ==
  \/ \E t \in Thread : Create(t) \/ Resume(t) \/ Forget(t)
  \/ \E t \in Thread, as \in Off : PassOn(t, as)
  \/ \E as \in Off : HandBack(as)
  \/ Restart

vars == <<chain, rest>>
Spec == Init /\ [][Next]_vars
================================================================================
