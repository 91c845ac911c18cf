------------------------------- MODULE Movement --------------------------------
(***************************************************************************)
(* How one character carries out the actions its player queues: the queue  *)
(* and run_actions of src/action.rs, MoveAction, the two systems of        *)
(* FixedUpdate and stop_moving of src/movement.rs.                         *)
(*                                                                         *)
(* A frame runs commands ("pre"), any number of ticks ("fixed"), and       *)
(* Update: "update" until run_actions starts, "free" and "busied" in its   *)
(* loop, "late" after it.  Characters do not interact, coordinates are     *)
(* left out: a step is any move to a neighbouring hex, a turn one of 60    *)
(* degrees.  Debts are counted in ticks: Cost of them pay for one action.  *)
(* A missing MoveDebt behaves like the default one and is modelled by it.  *)
(***************************************************************************)
EXTENDS Integers, Sequences

CONSTANTS
  Cost,       \* the ticks it takes to pay for one step, or one turn
  MaxIssued   \* bound: how many actions the player queues in all

ASSUME MovementAssumption == Cost \in Nat \ {0} /\ MaxIssued \in Nat

Action == {"step", "turn"}
None == "none"

VARIABLES
  phase,       \* where the frame is
  controlled,  \* a connection has the character as its puppet
  live,        \* Live: in the world rather than in storage
  placed,      \* Transform: on some map
  queue,       \* Queue
  busy,        \* Busy
  doing,       \* MoveAction: the action under way, or None
  moving,      \* Moving
  debt,        \* MoveDebt
  issued,      \* history: how many actions have been queued
  pledged,     \* history: the actions queued and neither stopped nor dropped
  done,        \* history: the actions completed
  spent,       \* history: what the actions completed have cost, in ticks
  paid         \* history: the ticks that have lowered a debt

frame == <<phase, controlled, live, placed>>
body == <<busy, doing, moving, debt>>
history == <<issued, pledged, done, spent, paid>>
vars == <<frame, queue, body, history>>

TypeOK ==
  /\ phase \in {"pre", "fixed", "update", "free", "busied", "late"}
  /\ controlled \in BOOLEAN /\ live \in BOOLEAN /\ placed \in BOOLEAN
  /\ queue \in Seq(Action) /\ doing \in Action \cup {None}
  /\ busy \in BOOLEAN /\ moving \in BOOLEAN
  /\ debt \in [step : Nat, turn : {n \in Int : n >= -Cost}]
  /\ issued \in Nat
  /\ pledged \in Seq(Action) /\ done \in Seq(Action)
  /\ spent \in [step : Nat, turn : Nat] /\ paid \in [step : Nat, turn : Nat]

\* A character of the loaded world, or one that login_system has just spawned:
\* the new one is controlled, but neither Live nor on any map.
Init ==
  /\ phase = "pre"
  /\ controlled \in BOOLEAN
  /\ IF controlled THEN live = FALSE /\ placed = FALSE
     ELSE live \in BOOLEAN /\ placed \in BOOLEAN
  /\ queue = <<>> /\ busy = FALSE /\ doing = None /\ moving = FALSE
  /\ debt = [step |-> 0, turn |-> -Cost]
  /\ issued = 0 /\ pledged = <<>> /\ done = <<>>
  /\ spent = [step |-> 0, turn |-> 0] /\ paid = [step |-> 0, turn |-> 0]

-----------------------------------------------------------------------------
(* PreUpdate: the commands of the player, and @teleport of an admin.       *)

\* Mutant: push_front for push_back.
IssueFirst(a) ==
  /\ phase = "pre" /\ controlled /\ issued < MaxIssued
  /\ queue' = <<a>> \o queue
  /\ issued' = issued + 1 /\ pledged' = Append(pledged, a)
  /\ UNCHANGED <<frame, body, done, spent, paid>>

Issue(a) ==
  /\ phase = "pre" /\ controlled /\ issued < MaxIssued
  /\ queue' = Append(queue, a)
  /\ issued' = issued + 1 /\ pledged' = Append(pledged, a)
  /\ UNCHANGED <<frame, body, done, spent, paid>>

\* Mutant: stop_moving leaves the action where it is.
StopHalf ==
  /\ phase = "pre" /\ controlled
  /\ queue' = <<>>
  /\ busy' = FALSE /\ moving' = FALSE
  /\ pledged' = done
  /\ UNCHANGED <<frame, doing, debt, issued, done, spent, paid>>

\* stop clears the queue and the action under way, but forgives no debt.
Stop ==
  /\ phase = "pre" /\ controlled
  /\ queue' = <<>>
  /\ busy' = FALSE /\ doing' = None /\ moving' = FALSE
  /\ pledged' = done
  /\ UNCHANGED <<frame, debt, issued, done, spent, paid>>

Teleport ==
  /\ phase = "pre"
  /\ placed' = TRUE
  /\ UNCHANGED <<phase, controlled, live, queue, body, history>>

CommandsDone ==
  /\ phase = "pre"
  /\ phase' = "fixed"
  /\ UNCHANGED <<controlled, live, placed, queue, body, history>>

-----------------------------------------------------------------------------
(* FixedUpdate: movedebt_system, then movement_system.                     *)

Floor == [step |-> 0, turn |-> -Cost]

Lowered == [a \in Action |-> IF debt[a] > Floor[a] THEN debt[a] - 1 ELSE debt[a]]

\* Mutant: any debt that is less than one action is small enough.
IsPaidEarly(d, a) == d[a] < Cost

\* Steps and turns alike complete at no more than zero.
IsPaid(d, a) == d[a] <= 0

Completes == doing # None /\ placed /\ IsPaid(Lowered, doing)

\* The next action in the queue would keep Moving.  It is a Box<dyn Action>
\* there, and Any asks whether the box is a MoveAction, which it never is.
KeepsMoving == FALSE

Pay ==
  /\ debt' = Lowered
  /\ paid' = [a \in Action |-> paid[a] + (debt[a] - Lowered[a])]

Tick ==
  /\ phase = "fixed" /\ ~Completes
  /\ Pay
  /\ UNCHANGED <<frame, queue, busy, doing, moving, issued, pledged, done, spent>>

\* Mutant: the flag is left to somebody else.
FinishBusy ==
  /\ phase = "fixed" /\ Completes
  /\ Pay
  /\ done' = Append(done, doing)
  /\ spent' = [spent EXCEPT ![doing] = @ + Cost]
  /\ doing' = None
  /\ moving' = (moving /\ KeepsMoving)
  /\ UNCHANGED <<frame, queue, busy, issued, pledged>>

Finish ==
  /\ phase = "fixed" /\ Completes
  /\ Pay
  /\ done' = Append(done, doing)
  /\ spent' = [spent EXCEPT ![doing] = @ + Cost]
  /\ doing' = None /\ busy' = FALSE
  /\ moving' = (moving /\ KeepsMoving)
  /\ UNCHANGED <<frame, queue, issued, pledged>>

TicksDone ==
  /\ phase = "fixed"
  /\ phase' = "update"
  /\ UNCHANGED <<controlled, live, placed, queue, body, history>>

-----------------------------------------------------------------------------
(* Update: run_actions; login_system and despawn_system before or after.   *)

\* Mutant: the trait's default.
WaitsNot(a) == FALSE

\* Every action of the repository is a MoveAction, which does both.
Waits(a) == a \in Action
Busies(a) == a \in Action

RunActions ==
  /\ phase = "update"
  /\ phase' = IF busy THEN "late" ELSE "free"
  /\ UNCHANGED <<controlled, live, placed, queue, body, history>>

Looping == phase \in {"free", "busied"}
LoopEnds == queue # <<>> => phase = "busied" /\ Waits(Head(queue))

\* The action at the front is executed and popped.
RunFront ==
  /\ Looping /\ ~LoopEnds
  /\ phase' = IF Busies(Head(queue)) THEN "busied" ELSE phase
  /\ busy' = (busy \/ Busies(Head(queue)))
  /\ doing' = Head(queue) /\ moving' = TRUE
  /\ debt' = [debt EXCEPT ![Head(queue)] = @ + Cost]
  /\ queue' = Tail(queue)
  /\ UNCHANGED <<controlled, live, placed, history>>

LoopDone ==
  /\ Looping /\ LoopEnds
  /\ phase' = "late"
  /\ UNCHANGED <<controlled, live, placed, queue, body, history>>

\* The bundle of a login replaces the queue; an action under way goes on.
Login ==
  /\ phase \in {"update", "late"}
  /\ controlled' = TRUE /\ live' = TRUE
  /\ queue' = <<>>
  /\ pledged' = IF doing = None THEN done ELSE Append(done, doing)
  /\ UNCHANGED <<phase, placed, body, issued, done, spent, paid>>

Unload ==
  /\ phase \in {"update", "late"} /\ ~controlled
  /\ live' = FALSE
  /\ UNCHANGED <<phase, controlled, placed, queue, body, history>>

\* The end of the frame, in which the connection may be reaped.
FrameDone ==
  /\ phase = "late"
  /\ phase' = "pre"
  /\ controlled' \in {controlled, FALSE}
  /\ UNCHANGED <<live, placed, queue, body, history>>

-----------------------------------------------------------------------------
Next ==
  \/ \E a \in Action : Issue(a)
  \/ Stop \/ Teleport \/ CommandsDone
  \/ Tick \/ Finish \/ TicksDone
  \/ RunActions \/ RunFront \/ LoopDone
  \/ Login \/ Unload \/ FrameDone

Ticking == Tick \/ Finish
FrameStep ==
  CommandsDone \/ TicksDone \/ RunActions \/ RunFront \/ LoopDone \/ FrameDone

\* The frame loop runs on, and time passes: there is a tick again and again.
Spec == Init /\ [][Next]_vars /\ WF_vars(FrameStep) /\ SF_vars(Ticking)

-----------------------------------------------------------------------------
(* Properties.                                                             *)

Current == IF doing = None THEN <<>> ELSE <<doing>>

\* What a player has queued and not stopped is done, under way or still in the
\* queue, once and in order: no action is skipped, repeated or overwritten by
\* the next one, and what was stopped is gone.
NothingLost == pledged = done \o Current \o queue

\* What a player sees of it: actions done in order, the oldest first, and none given
\* up but by a stop, which spares nothing, or a login, which spares the one under way.
Given == INSTANCE ActionQueue WITH pending <- Current \o queue
QueueSpec == Given!Spec

\* However turns, stops and logins are mixed, no character outruns its speed:
\* every step completed has been paid for, and every turn but a first free one.
PaidFirst == spent.step <= paid.step /\ spent.turn <= paid.turn + Cost

\* Nothing under way is forgotten: while an action is, the character is busy,
\* and it is never busy with nothing.
BusyIsDoing == busy <=> doing # None

\* Whatever is queued is done, stopped or dropped at a login, on a map.
ActionsEnd == placed /\ pledged # done ~> pledged = done

\* "Note that the action is responsible for clearing this flag." (action.rs)
\* A character without a Transform stays busy for ever.
BusyEnds == busy ~> ~busy
=============================================================================
