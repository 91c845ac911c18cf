---------------------------- MODULE MovementProofs -----------------------------
(***************************************************************************)
(* TLAPS proofs about Movement, for every cost of an action and every      *)
(* number of actions issued.                                               *)
(***************************************************************************)
EXTENDS Movement, SequenceTheorems, TLAPS

\* Moving the head of one sequence to the end of the one before it.
LEMMA ShiftHead ==
  ASSUME NEW S, NEW s \in Seq(S), NEW t \in Seq(S), t # <<>>
  PROVE  /\ Head(t) \in S /\ Tail(t) \in Seq(S)
         /\ <<Head(t)>> \in Seq(S) /\ s \o <<Head(t)>> \in Seq(S)
         /\ (s \o <<Head(t)>>) \o Tail(t) = s \o t
<1>1. Head(t) \in S /\ Tail(t) \in Seq(S)
  BY HeadTailProperties
<1>2. t = <<Head(t)>> \o Tail(t)
  <2>1. Len(t) \in 1..Len(t) /\ 1 \in 1..Len(t)
    BY EmptySeq
  <2>2. SubSeq(t, 1, Len(t)) = <<t[1]>> \o SubSeq(t, 2, Len(t))
    BY <2>1, SubSeqRecursiveFirst
  <2>3. SubSeq(t, 1, Len(t)) = t
    BY SubSeqFull
  <2>4. SubSeq(t, 2, Len(t)) = Tail(t)
    BY TailIsSubSeq
  <2> QED  BY <2>2, <2>3, <2>4
<1>3. <<Head(t)>> \in Seq(S)
  BY <1>1
<1>4. s \o <<Head(t)>> \in Seq(S)
  BY <1>3, ConcatProperties
<1>5. (s \o <<Head(t)>>) \o Tail(t) = s \o (<<Head(t)>> \o Tail(t))
  BY <1>1, <1>3, ConcatAssociative
<1> QED  BY <1>1, <1>2, <1>3, <1>4, <1>5

\* Appending to the last of two sequences, and of three.
LEMMA ConcatAppend ==
  ASSUME NEW S, NEW v \in Seq(S), NEW u \in Seq(S), NEW e \in S
  PROVE  v \o Append(u, e) = Append(v \o u, e)
OBVIOUS

LEMMA ShiftAppend ==
  ASSUME NEW S, NEW s \in Seq(S), NEW t \in Seq(S), NEW u \in Seq(S), NEW e \in S
  PROVE  /\ Append(u, e) \in Seq(S)
         /\ s \o t \o Append(u, e) = Append(s \o t \o u, e)
<1>1. s \o t \in Seq(S)
  BY ConcatProperties
<1>2. s \o t \o Append(u, e) = Append(s \o t \o u, e)
  BY <1>1, ConcatAppend
<1>3. Append(u, e) \in Seq(S)
  BY AppendProperties
<1> QED  BY <1>2, <1>3

\* run_actions is in its loop for the first time only while nothing is under
\* way, and stays in it after that only to find that the next action waits.
InLoop == (phase = "free" => ~busy) /\ (phase = "busied" => busy)

\* The account of a character: what it has paid and still owes covers what it
\* has done and what it is doing.  The first turn is on the house.
OfCurrent(a) == IF doing = a THEN Cost ELSE 0
Balanced ==
  /\ spent.step + OfCurrent("step") <= paid.step + debt.step
  /\ spent.turn + OfCurrent("turn") <= paid.turn + debt.turn + Cost

IInv == TypeOK /\ InLoop /\ BusyIsDoing /\ NothingLost /\ Balanced /\ PaidFirst

-----------------------------------------------------------------------------
\* What is under way is a sequence of at most one action.
LEMMA CurrentType ==
  ASSUME TypeOK
  PROVE  Current \in Seq(Action) /\ (doing = None => Current = <<>>)
         /\ (doing # None => doing \in Action /\ Current = <<doing>>)
<1>1. \A a \in Action : <<a>> \in Seq(Action) /\ a # None
  BY DEF Action, None
<1>2. <<>> \in Seq(Action)
  OBVIOUS
<1> QED  BY <1>1, <1>2 DEF Current, TypeOK

\* A tick lowers the debts to no less than their floor, and pays the difference.
LEMMA PayFacts ==
  ASSUME TypeOK, Pay
  PROVE  /\ debt' = Lowered
         /\ debt' \in [step : Nat, turn : {n \in Int : n >= -Cost}]
         /\ paid' \in [step : Nat, turn : Nat]
         /\ paid'.step + debt'.step = paid.step + debt.step
         /\ paid'.turn + debt'.turn = paid.turn + debt.turn
         /\ paid'.step >= paid.step /\ paid'.turn >= paid.turn
<1>1. /\ debt.step \in Nat /\ debt.turn \in Int /\ debt.turn >= -Cost
      /\ paid.step \in Nat /\ paid.turn \in Nat /\ Cost \in Nat
  BY MovementAssumption DEF TypeOK
<1>2. Lowered = [step |-> IF debt.step > 0 THEN debt.step - 1 ELSE debt.step,
                 turn |-> IF debt.turn > -Cost THEN debt.turn - 1 ELSE debt.turn]
  BY DEF Lowered, Floor, Action
<1>3. /\ debt' = Lowered
      /\ paid' = [step |-> paid.step + (debt.step - Lowered.step),
                  turn |-> paid.turn + (debt.turn - Lowered.turn)]
  BY DEF Pay, Action
<1> QED  BY <1>1, <1>2, <1>3

-----------------------------------------------------------------------------
LEMMA InitIInv == Init => IInv
<1> SUFFICES ASSUME Init  PROVE IInv
  OBVIOUS
<1>0. Cost \in Nat /\ -Cost \in Int /\ -Cost >= -Cost /\ <<>> \in Seq(Action) /\ None \notin Action
  BY MovementAssumption DEF None, Action
<1>1. TypeOK
  BY <1>0 DEF Init, TypeOK
<1>2. InLoop /\ BusyIsDoing
  BY DEF Init, InLoop, BusyIsDoing
<1>3. NothingLost
  BY DEF Init, NothingLost, Current
<1>4. Balanced /\ PaidFirst
  BY <1>0 DEF Init, Balanced, OfCurrent, PaidFirst, None
<1> QED  BY <1>1, <1>2, <1>3, <1>4 DEF IInv

LEMMA StepIInv == IInv /\ [Next]_vars => IInv'
<1> SUFFICES ASSUME IInv, [Next]_vars  PROVE IInv'
  OBVIOUS
<1> USE DEF frame, body, history
<1>t. TypeOK /\ InLoop /\ BusyIsDoing /\ NothingLost /\ Balanced /\ PaidFirst
  BY DEF IInv
<1>c. /\ Current \in Seq(Action) /\ (doing = None => Current = <<>>)
      /\ (doing # None => doing \in Action /\ Current = <<doing>>)
  BY <1>t, CurrentType
<1>n. /\ Cost \in Nat /\ debt.step \in Nat /\ debt.turn \in Int /\ debt.turn >= -Cost
      /\ paid.step \in Nat /\ paid.turn \in Nat /\ spent.step \in Nat /\ spent.turn \in Nat
  BY <1>t, MovementAssumption DEF TypeOK
<1>s. /\ queue \in Seq(Action) /\ done \in Seq(Action) /\ pledged \in Seq(Action)
      /\ <<>> \in Seq(Action) /\ \A s \in Seq(Action) : s \o <<>> = s
  BY <1>t, ConcatEmptySeq DEF TypeOK
<1>1. ASSUME NEW a \in Action, Issue(a)  PROVE IInv'
  <2>1. TypeOK'
    <3>1. Append(queue, a) \in Seq(Action) /\ Append(pledged, a) \in Seq(Action)
      BY <1>s, AppendProperties
    <3> QED  BY <1>t, <1>1, <3>1 DEF Issue, TypeOK
  <2>2. InLoop' /\ BusyIsDoing'
    BY <1>t, <1>1 DEF Issue, InLoop, BusyIsDoing
  <2>3. NothingLost'
    <3>1. done \o Current \o Append(queue, a) = Append(done \o Current \o queue, a)
      <4>1. done \in Seq(Action) /\ Current \in Seq(Action) /\ queue \in Seq(Action)
        BY <1>c, <1>s
      <4> QED  BY <4>1, ShiftAppend
    <3>2. Current' = Current
      BY <1>1 DEF Issue, Current
    <3> QED  BY <1>t, <1>1, <3>1, <3>2 DEF Issue, NothingLost
  <2>4. Balanced' /\ PaidFirst'
    BY <1>t, <1>1 DEF Issue, Balanced, OfCurrent, PaidFirst
  <2> QED  BY <2>1, <2>2, <2>3, <2>4 DEF IInv
<1>2. CASE Stop
  <2>1. TypeOK'
    BY <1>t, <1>2, <1>s DEF Stop, TypeOK
  <2>2. InLoop' /\ BusyIsDoing'
    BY <1>t, <1>2 DEF Stop, InLoop, BusyIsDoing
  <2>3. NothingLost'
    <3>1. Current' = <<>> /\ queue' = <<>> /\ done' = done /\ pledged' = done
      BY <1>2 DEF Stop, Current
    <3> QED  BY <1>s, <3>1 DEF NothingLost
  <2>4. Balanced' /\ PaidFirst'
    <3>1. debt' = debt /\ spent' = spent /\ paid' = paid /\ doing' = None
      BY <1>2 DEF Stop
    <3>2. /\ OfCurrent("step")' = 0 /\ OfCurrent("turn")' = 0
          /\ OfCurrent("step") \in Nat /\ OfCurrent("turn") \in Nat
      BY <1>n, <3>1 DEF OfCurrent, None
    <3> QED  BY <1>t, <1>n, <3>1, <3>2 DEF Balanced, PaidFirst
  <2> QED  BY <2>1, <2>2, <2>3, <2>4 DEF IInv
<1>3. CASE Teleport
  <2>1. TypeOK'
    BY <1>t, <1>3 DEF Teleport, TypeOK
  <2>2. InLoop' /\ BusyIsDoing'
    BY <1>t, <1>3 DEF Teleport, InLoop, BusyIsDoing
  <2>3. NothingLost'
    BY <1>t, <1>3 DEF Teleport, NothingLost, Current
  <2>4. Balanced' /\ PaidFirst'
    BY <1>t, <1>3 DEF Teleport, Balanced, OfCurrent, PaidFirst
  <2> QED  BY <2>1, <2>2, <2>3, <2>4 DEF IInv
<1>4. CASE CommandsDone
  <2>1. TypeOK'
    BY <1>t, <1>4 DEF CommandsDone, TypeOK
  <2>2. InLoop' /\ BusyIsDoing'
    BY <1>t, <1>4 DEF CommandsDone, InLoop, BusyIsDoing
  <2>3. NothingLost'
    BY <1>t, <1>4 DEF CommandsDone, NothingLost, Current
  <2>4. Balanced' /\ PaidFirst'
    BY <1>t, <1>4 DEF CommandsDone, Balanced, OfCurrent, PaidFirst
  <2> QED  BY <2>1, <2>2, <2>3, <2>4 DEF IInv
<1>5. CASE Tick
  <2>0. Pay
    BY <1>5 DEF Tick
  <2>1. TypeOK'
    BY <1>t, <1>5, <2>0, PayFacts DEF Tick, TypeOK
  <2>2. InLoop' /\ BusyIsDoing'
    BY <1>t, <1>5 DEF Tick, InLoop, BusyIsDoing
  <2>3. NothingLost'
    BY <1>t, <1>5 DEF Tick, NothingLost, Current
  <2>4. Balanced' /\ PaidFirst'
    <3>1. /\ debt'.step \in Nat /\ debt'.turn \in Int /\ paid'.step \in Nat /\ paid'.turn \in Nat
          /\ paid'.step + debt'.step = paid.step + debt.step
          /\ paid'.turn + debt'.turn = paid.turn + debt.turn
          /\ paid'.step >= paid.step /\ paid'.turn >= paid.turn
      BY <1>t, <2>0, PayFacts
    <3>2. spent' = spent /\ doing' = doing
      BY <1>5 DEF Tick
    <3>3. Balanced'
      BY <1>t, <1>n, <3>1, <3>2 DEF Balanced, OfCurrent
    <3>4. PaidFirst'
      BY <1>t, <1>n, <3>1, <3>2 DEF PaidFirst
    <3> QED  BY <3>3, <3>4
  <2> QED  BY <2>1, <2>2, <2>3, <2>4 DEF IInv
<1>6. CASE Finish
  <2>0. /\ Pay /\ doing \in Action /\ doing' = None /\ busy' = FALSE /\ phase = "fixed"
        /\ done' = Append(done, doing) /\ spent' = [spent EXCEPT ![doing] = @ + Cost]
        /\ moving' = (moving /\ KeepsMoving) /\ phase' = phase /\ queue' = queue
        /\ IsPaid(Lowered, doing) /\ Current = <<doing>>
        /\ UNCHANGED <<controlled, live, placed, issued, pledged>>
    BY <1>c, <1>6 DEF Finish, Completes
  <2>a. /\ debt' = Lowered
        /\ debt' \in [step : Nat, turn : {n \in Int : n >= -Cost}]
        /\ paid' \in [step : Nat, turn : Nat]
        /\ paid'.step + debt'.step = paid.step + debt.step
        /\ paid'.turn + debt'.turn = paid.turn + debt.turn
        /\ paid'.step >= paid.step /\ paid'.turn >= paid.turn
    BY <1>t, <2>0, PayFacts
  <2>1. TypeOK'
    <3>1. Append(done, doing) \in Seq(Action)
      BY <1>s, <2>0, AppendProperties
    <3>2. spent' \in [step : Nat, turn : Nat]
      <4>1. CASE doing = "step"
        <5>1. spent \in [step : Nat, turn : Nat] /\ spent' = [spent EXCEPT !["step"] = @ + Cost]
          BY <1>t, <2>0, <4>1 DEF TypeOK
        <5>2. spent' = [spent EXCEPT !["step"] = spent.step + Cost] /\ spent.step + Cost \in Nat
          BY <1>n, <5>1
        <5> QED  BY <5>1, <5>2
      <4>2. CASE doing = "turn"
        <5>1. spent \in [step : Nat, turn : Nat] /\ spent' = [spent EXCEPT !["turn"] = @ + Cost]
          BY <1>t, <2>0, <4>2 DEF TypeOK
        <5>2. spent' = [spent EXCEPT !["turn"] = spent.turn + Cost] /\ spent.turn + Cost \in Nat
          BY <1>n, <5>1
        <5> QED  BY <5>1, <5>2
      <4> QED  BY <2>0, <4>1, <4>2 DEF Action
    <3>3. moving' \in BOOLEAN
      BY <2>0 DEF KeepsMoving
    <3> QED  BY <1>t, <2>0, <2>a, <3>1, <3>2, <3>3 DEF TypeOK
  <2>2. InLoop' /\ BusyIsDoing'
    BY <2>0 DEF InLoop, BusyIsDoing
  <2>3. NothingLost'
    <3>1. Append(done, doing) = done \o <<doing>>
      BY <1>s, <2>0, AppendIsConcat
    <3>2. Current' = <<>> /\ done' \o Current' = done'
      BY <1>s, <2>0, AppendProperties, ConcatEmptySeq DEF Current
    <3> QED  BY <1>t, <2>0, <3>1, <3>2 DEF NothingLost
  <2>4. Balanced' /\ PaidFirst'
    <3>1. /\ debt'.step \in Nat /\ debt'.turn \in Int /\ paid'.step \in Nat /\ paid'.turn \in Nat
          /\ doing' # "step" /\ doing' # "turn"
      BY <2>0, <2>a DEF None
    <3>2. CASE doing = "step"
      <4>1. debt'.step <= 0
        BY <2>0, <2>a, <3>2 DEF IsPaid
      <4>2. spent'.step = spent.step + Cost /\ spent'.turn = spent.turn
        BY <1>t, <2>0, <3>2 DEF TypeOK
      <4> QED  BY <1>t, <1>n, <2>a, <3>1, <3>2, <4>1, <4>2 DEF Balanced, OfCurrent, PaidFirst
    <3>3. CASE doing = "turn"
      <4>1. debt'.turn <= 0
        BY <2>0, <2>a, <3>3 DEF IsPaid
      <4>2. spent'.turn = spent.turn + Cost /\ spent'.step = spent.step
        BY <1>t, <2>0, <3>3 DEF TypeOK
      <4> QED  BY <1>t, <1>n, <2>a, <3>1, <3>3, <4>1, <4>2 DEF Balanced, OfCurrent, PaidFirst
    <3> QED  BY <2>0, <3>2, <3>3 DEF Action
  <2> QED  BY <2>1, <2>2, <2>3, <2>4 DEF IInv
<1>7. CASE TicksDone
  <2>1. TypeOK'
    BY <1>t, <1>7 DEF TicksDone, TypeOK
  <2>2. InLoop' /\ BusyIsDoing'
    BY <1>t, <1>7 DEF TicksDone, InLoop, BusyIsDoing
  <2>3. NothingLost'
    BY <1>t, <1>7 DEF TicksDone, NothingLost, Current
  <2>4. Balanced' /\ PaidFirst'
    BY <1>t, <1>7 DEF TicksDone, Balanced, OfCurrent, PaidFirst
  <2> QED  BY <2>1, <2>2, <2>3, <2>4 DEF IInv
<1>8. CASE RunActions
  <2>1. TypeOK'
    BY <1>t, <1>8 DEF RunActions, TypeOK
  <2>2. InLoop' /\ BusyIsDoing'
    BY <1>t, <1>8 DEF RunActions, InLoop, BusyIsDoing
  <2>3. NothingLost'
    BY <1>t, <1>8 DEF RunActions, NothingLost, Current
  <2>4. Balanced' /\ PaidFirst'
    BY <1>t, <1>8 DEF RunActions, Balanced, OfCurrent, PaidFirst
  <2> QED  BY <2>1, <2>2, <2>3, <2>4 DEF IInv
<1>9. CASE RunFront
  <2>0. phase = "free" /\ queue # <<>> /\ Head(queue) \in Action /\ Tail(queue) \in Seq(Action)
    <3>1. queue # <<>> /\ Looping /\ ~(phase = "busied" /\ Waits(Head(queue)))
      BY <1>9 DEF RunFront, LoopEnds
    <3>2. Head(queue) \in Action /\ Tail(queue) \in Seq(Action)
      BY <1>s, <3>1, ShiftHead
    <3> QED  BY <3>1, <3>2 DEF Looping, Waits
  <2>a. /\ phase' = "busied" /\ busy' = TRUE /\ doing' = Head(queue) /\ moving' = TRUE
        /\ debt' = [debt EXCEPT ![Head(queue)] = @ + Cost] /\ queue' = Tail(queue)
        /\ UNCHANGED <<controlled, live, placed, history>> /\ doing = None
    <3>1. Busies(Head(queue))
      BY <2>0 DEF Busies
    <3> QED  BY <1>t, <1>9, <2>0, <3>1 DEF RunFront, InLoop, BusyIsDoing
  <2>1. TypeOK'
    <3>1. debt' \in [step : Nat, turn : {n \in Int : n >= -Cost}]
      <4>0. debt = [step |-> debt.step, turn |-> debt.turn]
        BY <1>t DEF TypeOK
      <4>1. CASE Head(queue) = "step"
        <5>1. debt' = [step |-> debt.step + Cost, turn |-> debt.turn]
          BY <2>a, <4>0, <4>1
        <5> QED  BY <1>n, <5>1
      <4>2. CASE Head(queue) = "turn"
        <5>1. debt' = [step |-> debt.step, turn |-> debt.turn + Cost]
          BY <2>a, <4>0, <4>2
        <5> QED  BY <1>n, <5>1
      <4> QED  BY <2>0, <4>1, <4>2 DEF Action
    <3> QED  BY <1>t, <2>0, <2>a, <3>1 DEF TypeOK
  <2>2. InLoop' /\ BusyIsDoing'
    <3>1. doing' # None
      BY <2>0, <2>a DEF Action, None
    <3> QED  BY <2>a, <3>1 DEF InLoop, BusyIsDoing
  <2>3. NothingLost'
    <3>1. (done \o <<Head(queue)>>) \o Tail(queue) = done \o queue
      BY <1>s, <2>0, ShiftHead
    <3>2. Current = <<>> /\ Current' = <<Head(queue)>>
      BY <1>c, <2>0, <2>a DEF Current, Action, None
    <3> QED  BY <1>t, <1>s, <2>a, <3>1, <3>2 DEF NothingLost
  <2>4. Balanced' /\ PaidFirst'
    <3>1. OfCurrent("step") = 0 /\ OfCurrent("turn") = 0
      BY <2>a DEF OfCurrent, None
    <3>2. CASE Head(queue) = "step"
      <4>1. debt'.step = debt.step + Cost /\ debt'.turn = debt.turn
        BY <1>t, <2>a, <3>2 DEF TypeOK
      <4>2. OfCurrent("step")' = Cost /\ OfCurrent("turn")' = 0
        BY <2>a, <3>2 DEF OfCurrent
      <4>3. spent' = spent /\ paid' = paid
        BY <2>a
      <4> QED  BY <1>t, <1>n, <3>1, <4>1, <4>2, <4>3 DEF Balanced, PaidFirst
    <3>3. CASE Head(queue) = "turn"
      <4>1. debt'.turn = debt.turn + Cost /\ debt'.step = debt.step
        BY <1>t, <2>a, <3>3 DEF TypeOK
      <4>2. OfCurrent("turn")' = Cost /\ OfCurrent("step")' = 0
        BY <2>a, <3>3 DEF OfCurrent
      <4>3. spent' = spent /\ paid' = paid
        BY <2>a
      <4> QED  BY <1>t, <1>n, <3>1, <4>1, <4>2, <4>3 DEF Balanced, PaidFirst
    <3> QED  BY <2>0, <3>2, <3>3 DEF Action
  <2> QED  BY <2>1, <2>2, <2>3, <2>4 DEF IInv
<1>10. CASE LoopDone
  <2>1. TypeOK'
    BY <1>t, <1>10 DEF LoopDone, TypeOK, Looping
  <2>2. InLoop' /\ BusyIsDoing'
    BY <1>t, <1>10 DEF LoopDone, InLoop, BusyIsDoing, Looping
  <2>3. NothingLost'
    BY <1>t, <1>10 DEF LoopDone, NothingLost, Current
  <2>4. Balanced' /\ PaidFirst'
    BY <1>t, <1>10 DEF LoopDone, Balanced, OfCurrent, PaidFirst
  <2> QED  BY <2>1, <2>2, <2>3, <2>4 DEF IInv
<1>11. CASE Login
  <2>1. TypeOK'
    <3>1. doing # None => Append(done, doing) \in Seq(Action)
      BY <1>c, <1>s, AppendProperties
    <3> QED  BY <1>t, <1>11, <1>s, <3>1 DEF Login, TypeOK
  <2>2. InLoop' /\ BusyIsDoing'
    BY <1>t, <1>11 DEF Login, InLoop, BusyIsDoing
  <2>3. NothingLost'
    <3>1. Current' = Current /\ done' = done /\ queue' = <<>>
      BY <1>11 DEF Login, Current
    <3>2. done \o Current \in Seq(Action)
      BY <1>c, <1>s, ConcatProperties
    <3>3. pledged' = done \o Current
      <4>1. CASE doing = None
        BY <1>c, <1>s, <1>11, <4>1 DEF Login
      <4>2. CASE doing # None
        BY <1>c, <1>s, <1>11, <4>2, AppendIsConcat DEF Login
      <4> QED  BY <4>1, <4>2
    <3> QED  BY <1>s, <3>1, <3>2, <3>3 DEF NothingLost
  <2>4. Balanced' /\ PaidFirst'
    BY <1>t, <1>11 DEF Login, Balanced, OfCurrent, PaidFirst
  <2> QED  BY <2>1, <2>2, <2>3, <2>4 DEF IInv
<1>12. CASE Unload
  <2>1. TypeOK'
    BY <1>t, <1>12 DEF Unload, TypeOK
  <2>2. InLoop' /\ BusyIsDoing'
    BY <1>t, <1>12 DEF Unload, InLoop, BusyIsDoing
  <2>3. NothingLost'
    BY <1>t, <1>12 DEF Unload, NothingLost, Current
  <2>4. Balanced' /\ PaidFirst'
    BY <1>t, <1>12 DEF Unload, Balanced, OfCurrent, PaidFirst
  <2> QED  BY <2>1, <2>2, <2>3, <2>4 DEF IInv
<1>13. CASE FrameDone
  <2>1. TypeOK'
    BY <1>t, <1>13 DEF FrameDone, TypeOK
  <2>2. InLoop' /\ BusyIsDoing'
    BY <1>t, <1>13 DEF FrameDone, InLoop, BusyIsDoing
  <2>3. NothingLost'
    BY <1>t, <1>13 DEF FrameDone, NothingLost, Current
  <2>4. Balanced' /\ PaidFirst'
    BY <1>t, <1>13 DEF FrameDone, Balanced, OfCurrent, PaidFirst
  <2> QED  BY <2>1, <2>2, <2>3, <2>4 DEF IInv
<1>14. CASE UNCHANGED vars
  BY <1>t, <1>14 DEF vars, IInv, TypeOK, InLoop, BusyIsDoing, NothingLost, Current,
                     Balanced, OfCurrent, PaidFirst
<1> QED
  BY <1>1, <1>2, <1>3, <1>4, <1>5, <1>6, <1>7, <1>8, <1>9, <1>10, <1>11, <1>12, <1>13, <1>14
     DEF Next

-----------------------------------------------------------------------------
\* The inductive invariant holds in every reachable state.
THEOREM Invariant == Spec => []IInv
<1>1. Init => IInv
  BY InitIInv
<1>2. IInv /\ [Next]_vars => IInv'
  BY StepIInv
<1> QED  BY <1>1, <1>2, PTL DEF Spec

\* Every variable keeps its type; in particular no debt falls below its floor.
THEOREM TypeCorrect == Spec => []TypeOK
<1>1. IInv => TypeOK
  BY DEF IInv
<1> QED  BY <1>1, Invariant, PTL

\* Actions are carried out once, in the order in which they were queued.
THEOREM ActionsKept == Spec => []NothingLost
<1>1. IInv => NothingLost
  BY DEF IInv
<1> QED  BY <1>1, Invariant, PTL

\* No mixture of steps, turns, stops and logins beats the speed of a character.
THEOREM NothingIsFree == Spec => []PaidFirst
<1>1. IInv => PaidFirst
  BY DEF IInv
<1> QED  BY <1>1, Invariant, PTL

\* Busy and MoveAction come and go together.
THEOREM BusyMatches == Spec => []BusyIsDoing
<1>1. IInv => BusyIsDoing
  BY DEF IInv
<1> QED  BY <1>1, Invariant, PTL

-----------------------------------------------------------------------------
(* The queue, seen through the action under way, is an ActionQueue.        *)

\* The step by which the loop of run_actions starts an action: nothing is under way.
LEMMA StartIsQuiet ==
  ASSUME IInv, RunFront
  PROVE  Current' \o queue' = Current \o queue
<1>0. /\ TypeOK /\ queue \in Seq(Action) /\ <<>> \in Seq(Action)
      /\ \A s \in Seq(Action) : <<>> \o s = s
  BY ConcatEmptySeq DEF IInv, TypeOK
<1>1. queue # <<>> /\ phase = "free"
  <2>1. queue # <<>> /\ Looping /\ ~(phase = "busied" /\ Waits(Head(queue)))
    BY DEF RunFront, LoopEnds
  <2>2. Head(queue) \in Action
    BY <1>0, <2>1, ShiftHead
  <2> QED  BY <2>1, <2>2 DEF Looping, Waits
<1>2. Head(queue) \in Action /\ <<>> \o <<Head(queue)>> = <<Head(queue)>>
      /\ (<<>> \o <<Head(queue)>>) \o Tail(queue) = <<>> \o queue
  BY <1>0, <1>1, ShiftHead
<1>3. Current = <<>>
  BY <1>1 DEF IInv, InLoop, BusyIsDoing, Current
<1>4. Current' = <<Head(queue)>> /\ queue' = Tail(queue)
  BY <1>2 DEF RunFront, Current, Action, None
<1> QED  BY <1>2, <1>3, <1>4

LEMMA FrontOfBoth ==
  ASSUME NEW S, NEW x \in S, NEW q \in Seq(S)
  PROVE  <<x>> \o q # <<>> /\ Head(<<x>> \o q) = x /\ Tail(<<x>> \o q) = q
<1>1. /\ <<x>> \o q \in Seq(S) /\ Len(<<x>> \o q) = Len(q) + 1 /\ Len(q) \in Nat
      /\ (<<x>> \o q)[1] = x /\ \A i \in 1..Len(q) : (<<x>> \o q)[i + 1] = q[i]
  OBVIOUS
<1> DEFINE both == <<x>> \o q
<1> HIDE DEF both
<1>2. both # <<>> /\ Head(both) = x
  BY <1>1 DEF both
<1>3. /\ Tail(both) \in Seq(S) /\ Len(Tail(both)) = Len(q)
      /\ \A i \in 1..Len(q) : Tail(both)[i] = q[i]
  BY <1>1, <1>2, HeadTailProperties DEF both
<1>4. Tail(both) = q
  BY <1>3, SeqEqual
<1> QED  BY <1>2, <1>4 DEF both

LEMMA StepRefines == IInv /\ [Next]_vars => [Given!Next]_Given!qvars
<1> SUFFICES ASSUME IInv, [Next]_vars  PROVE [Given!Next]_Given!qvars
  OBVIOUS
<1> DEFINE pending == Current \o queue
<1> USE DEF frame, body, history, Given!qvars
<1>t. TypeOK /\ queue \in Seq(Action) /\ <<>> \in Seq(Action)
  BY DEF IInv, TypeOK
<1>c. /\ Current \in Seq(Action) /\ (doing = None => Current = <<>>)
      /\ (doing # None => doing \in Action /\ Current = <<doing>>)
  BY <1>t, CurrentType
<1>1. ASSUME NEW a \in Action, Issue(a)  PROVE Given!Give
  <2>1. Current' = Current /\ queue' = Append(queue, a) /\ done' = done
    BY <1>1 DEF Issue, Current
  <2>2. Current \o Append(queue, a) = Append(Current \o queue, a)
    BY <1>t, <1>c, ConcatAppend
  <2> QED  BY <2>1, <2>2 DEF Given!Give
<1>2. CASE Finish
  <2>1. /\ doing # None /\ doing' = None /\ queue' = queue /\ done' = Append(done, doing)
    BY <1>2 DEF Finish, Completes
  <2>2. Current = <<doing>> /\ doing \in Action
    BY <1>c, <2>1
  <2>3. <<doing>> \o queue # <<>> /\ Head(<<doing>> \o queue) = doing
        /\ Tail(<<doing>> \o queue) = queue
    BY <1>t, <2>2, FrontOfBoth
  <2>4. Current' = <<>> /\ <<>> \o queue = queue
    BY <1>t, <2>1, ConcatEmptySeq DEF Current
  <2> QED  BY <2>1, <2>2, <2>3, <2>4 DEF Given!Complete, Given!Next
<1>3. CASE Stop
  <2>1. Current' = <<>> /\ queue' = <<>> /\ <<>> \o <<>> = <<>> /\ done' = done
    BY <1>3 DEF Stop, Current
  <2> QED  BY <2>1 DEF Given!GiveUp, Given!Next
<1>4. CASE Login
  <2>1. Current' = Current /\ queue' = <<>> /\ done' = done /\ Current \o <<>> = Current
    BY <1>c, <1>4, ConcatEmptySeq DEF Login, Current
  <2>2. CASE doing = None
    <3>1. Current' \o queue' = <<>>
      BY <1>c, <2>1, <2>2
    <3> QED  BY <2>1, <3>1 DEF Given!GiveUp, Given!Next
  <2>3. CASE doing # None
    <3>1. <<doing>> \o queue # <<>> /\ Head(<<doing>> \o queue) = doing
      BY <1>t, <1>c, <2>3, FrontOfBoth
    <3>2. Current' \o queue' = <<doing>>
      BY <1>c, <2>1, <2>3
    <3> QED  BY <1>c, <2>1, <2>3, <3>1, <3>2 DEF Given!GiveUp, Given!Next
  <2> QED  BY <2>2, <2>3
<1>5. CASE RunFront
  <2>1. done' = done
    BY <1>5 DEF RunFront
  <2> QED  BY <1>5, <2>1, StartIsQuiet
<1>6. CASE UNCHANGED <<doing, queue, done>>
  BY <1>6 DEF Current
<1>7. CASE \/ Teleport \/ CommandsDone \/ Tick \/ TicksDone \/ RunActions \/ LoopDone
           \/ Unload \/ FrameDone \/ UNCHANGED vars
  BY <1>6, <1>7 DEF Teleport, CommandsDone, Tick, TicksDone, RunActions, LoopDone, Unload,
                    FrameDone, vars
<1> QED  BY <1>1, <1>2, <1>3, <1>4, <1>5, <1>7 DEF Next, Given!Next

\* A character does what its player gives it, in order and one at a time, and only
\* a stop or a login makes it give up any of it.
THEOREM IsAQueue == Spec => QueueSpec
<1>1. Init => Given!Init
  BY DEF Init, Given!Init, Current
<1>2. IInv /\ [Next]_vars => [Given!Next]_Given!qvars
  BY StepRefines
<1> QED  BY <1>1, <1>2, Invariant, PTL DEF Spec, QueueSpec, Given!Spec
=============================================================================
