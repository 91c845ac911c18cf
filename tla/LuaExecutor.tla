------------------------------ MODULE LuaExecutor ------------------------------
(***************************************************************************)
(* The threads of the Lua virtual machine and the executor that runs them  *)
(* (piccolo/src/thread/executor.rs, thread.rs), driven by a host that      *)
(* calls step with a portion of fuel at a time (lua.rs, bevy_piccolo).     *)
(*                                                                         *)
(* Of a stack there is its height, of a Lua frame what LuaVM tells about   *)
(* it: FrameSize registers, of which the first may be captured and the     *)
(* second is where it calls.  What a callback and a sequence return is any *)
(* of what their types allow.  A panic is a thread with the frame "panic". *)
(***************************************************************************)
EXTENDS Integers, Sequences, SequencesExt

CONSTANTS
  Thread,
  FrameSize,            \* the registers of a Lua function
  MaxValues,            \* how many values are passed at most
  Fuel,                 \* what the host gives to a step
  FuelPerCallback, FuelPerSeqStep, FuelPerStep,
  Instructions,         \* how many instructions a run of the VM may take
  MaxFrames, MaxWork    \* bounds: the frames of a thread, the choices of one behaviour

ASSUME ExecutorAssumption ==
  /\ FrameSize \in Nat \ {0, 1} /\ MaxValues \in Nat /\ Fuel \in Nat
  /\ FuelPerCallback \in Nat /\ FuelPerSeqStep \in Nat /\ FuelPerStep \in Nat \ {0}
  /\ Instructions \subseteq Nat

VARIABLES
  ts,      \* the state of every thread: frames, height of the stack, open upvalues
  chain,   \* thread_stack
  at,      \* idle, or where in the loop of step: look, run
  fuel,
  work     \* bound: what is left of MaxWork

vars == <<ts, chain, at, fuel, work>>

-----------------------------------------------------------------------------
(* A thread.                                                               *)

Lua(bottom) == [is |-> "lua", bottom |-> bottom, called |-> FALSE]
Callback(bottom) == [is |-> "callback", bottom |-> bottom]
Sequence(bottom, pending) == [is |-> "sequence", bottom |-> bottom, pending |-> pending]
Result(bottom) == [is |-> "result", bottom |-> bottom]
Bare(kind) == [is |-> kind]   \* start, yielded, wait, error, panic

Stopped == [frames |-> <<>>, height |-> 0, open |-> {}]

Top(s) == Last(s.frames)
Pop(s) == [s EXCEPT !.frames = Front(@)]
Push(s, frame) == [s EXCEPT !.frames = Append(@, frame)]
Put(s, height) == [s EXCEPT !.height = height]
Panic(s) == [s EXCEPT !.frames = <<Bare("panic")>>]

\* ThreadState::mode.
Mode(s) ==
  IF s.frames = <<>> THEN "stopped"
  ELSE CASE Top(s).is \in {"lua", "callback", "sequence"} -> "normal"
         [] Top(s).is \in {"start", "yielded"} -> "suspended"
         [] Top(s).is = "wait" -> "waiting"
         [] Top(s).is = "result" -> "result"
         [] Top(s).is = "error" -> IF Len(s.frames) = 1 THEN "result" ELSE "normal"
         [] OTHER -> "panic"

\* Mutant: upvalues stay open.
LeavesOpen(s, bottom) == [s EXCEPT !.height = bottom]

\* close_upvalues and the truncation of the stack.
Cut(s, bottom) == [s EXCEPT !.open = {i \in @ : i < bottom}, !.height = bottom]

\* push_call: of a Lua function or of a callback, with n values above bottom.
PushCall(s, bottom, n, f) ==
  IF f = "lua" THEN Push(Put(s, bottom + 1 + FrameSize), Lua(bottom))
  ELSE Push(Put(s, bottom + n), Callback(bottom))

\* return_to: with n values above bottom.
ReturnTo(s, bottom, n) ==
  IF s.frames = <<>> THEN Push(Put(s, bottom + n), Result(bottom))
  ELSE CASE Top(s).is = "sequence" /\ Top(s).bottom = bottom -> Put(s, bottom + n)
         [] Top(s).is = "lua" /\ Top(s).called ->
              [s EXCEPT !.frames[Len(s.frames)].called = FALSE,
                        !.height = Top(s).bottom + 1 + FrameSize]
         [] OTHER -> Panic(s)

Fail(s) == Push(s, Bare("error"))

\* Thread::resume of a suspended thread, with n values.
Resumed(s, n, f) ==
  LET t == Pop(s) IN
  CASE Top(s).is = "start" /\ t = Stopped -> PushCall(t, 0, n, f)
    [] Top(s).is = "yielded" -> ReturnTo(t, s.height, n)
    [] OTHER -> Panic(s)

\* take_result: the thread, after its values or its error have been taken.
Taken(s) ==
  CASE Top(s).is = "result" -> Put(Pop(s), Top(s).bottom)
    [] s = Fail(Stopped) -> Stopped
    [] OTHER -> Panic(s)

Given(s) == IF Top(s).is = "result" THEN s.height - Top(s).bottom ELSE 0

-----------------------------------------------------------------------------
(* The loop of step: a thread that is done is taken from the chain, then   *)
(* one frame of the last thread is run.                                    *)

Running == Last(chain)
Current == ts[Running]

\* Fuel is looked at when an iteration is over; interrupted: by the callback.
Spend(cost, interrupted) ==
  LET left == fuel - cost - FuelPerStep
      on == left > 0 /\ ~interrupted
  IN  fuel' = (IF on THEN left ELSE 0) /\ at' = (IF on THEN "look" ELSE "idle")

Works == work > 0 /\ work' = work - 1

\* What the thread that waits does with the one that is done.
Settled(low, done) ==
  CASE Mode(low) # "waiting" -> Fail(low)
    [] Mode(done) # "result" -> Fail(Pop(low))
    [] Top(done).is = "error" -> Fail(Pop(low))
    [] OTHER -> ReturnTo(Pop(low), low.height, Given(done))

Look ==
  /\ at = "look" /\ Mode(Current) = "normal"
  /\ at' = "run" /\ UNCHANGED <<ts, chain, fuel, work>>

StepDone ==
  /\ at = "look" /\ Mode(Current) # "normal" /\ Len(chain) = 1
  /\ at' = "idle" /\ fuel' = 0 /\ UNCHANGED <<ts, chain, work>>

\* Mutant: the one below is taken for the first of them.
HandsToRoot ==
  LET low == chain[1] IN
  /\ at = "look" /\ Mode(Current) # "normal" /\ Len(chain) > 1
  /\ ts' = [ts EXCEPT ![low] = Settled(@, Current),
                      ![Running] = IF Mode(@) = "result" THEN Taken(@) ELSE @]
  /\ chain' = <<low>> /\ at' = "run" /\ UNCHANGED <<fuel, work>>

HandBack ==
  LET low == chain[Len(chain) - 1] IN
  /\ at = "look" /\ Mode(Current) # "normal" /\ Len(chain) > 1
  /\ ts' = [ts EXCEPT ![low] = Settled(@, Current),
                      ![Running] = IF Mode(@) = "result" THEN Taken(@) ELSE @]
  /\ chain' = Front(chain) /\ at' = "run" /\ UNCHANGED <<fuel, work>>

Becomes(s) == ts' = [ts EXCEPT ![Running] = s] /\ UNCHANGED chain
Runs(kind) == at = "run" /\ Mode(Current) = "normal" /\ Top(Current).is = kind
Room(s) == Len(s.frames) < MaxFrames

-----------------------------------------------------------------------------
(* A Lua frame: as far as run_vm gets with it.                             *)

LuaGoesOn == Works /\ Becomes(Current)

LuaCaptures == Works /\ Becomes([Current EXCEPT !.open = @ \cup {Top(Current).bottom + 1}])

LuaCalls(n, f) ==
  /\ Room(Current) /\ Works
  /\ Becomes(PushCall([Current EXCEPT !.frames[Len(Current.frames)].called = TRUE],
                      Top(Current).bottom + 2, n, f))

LuaTailCalls(n, f) ==
  LET bottom == Top(Current).bottom IN
  Works /\ Becomes(PushCall(Cut(Pop(Current), bottom), bottom, n, f))

LuaReturns(n) ==
  LET bottom == Top(Current).bottom IN
  UNCHANGED work /\ Becomes(ReturnTo(Cut(Pop(Current), bottom), bottom, n))

RunLua ==
  /\ Runs("lua")
  /\ \/ LuaGoesOn \/ LuaCaptures
     \/ \E n \in 0 .. MaxValues :
          \/ LuaReturns(n)
          \/ \E f \in {"lua", "callback"} : LuaCalls(n, f) \/ LuaTailCalls(n, f)
  /\ \E n \in Instructions : Spend(n, FALSE)

\* A call that fails has already noted what it would have returned to.
LuaFails ==
  /\ Runs("lua") /\ Spend(0, FALSE) /\ UNCHANGED work
  /\ \E called \in BOOLEAN :
       Becomes(Fail([Current EXCEPT !.frames[Len(Current.frames)].called = called]))

-----------------------------------------------------------------------------
(* What a callback, or a poll of a sequence, comes to: n values are above  *)
(* bottom, its frame is popped (s); then: it goes on when it is answered.  *)

Then(s, bottom, then) == IF then THEN Push(s, Sequence(bottom, FALSE)) ELSE s

Returns(s, bottom, n) == UNCHANGED work /\ Becomes(ReturnTo(s, bottom, n))
Errs(s, bottom) == UNCHANGED work /\ Becomes(Fail(Put(s, bottom)))
GoesOn(s, bottom, n) == Room(s) /\ Works /\ Becomes(Put(Then(s, bottom, TRUE), bottom + n))

\* coroutine.create.
Creates(s, bottom, t) ==
  /\ t \notin Range(chain) /\ ts[t] = Stopped /\ Works
  /\ ts' = [ts EXCEPT ![Running] = ReturnTo(s, bottom, 1), ![t] = Push(@, Bare("start"))]
  /\ UNCHANGED chain

Calls(s, bottom, n, then, f) ==
  Room(s) /\ Works /\ Becomes(PushCall(Then(s, bottom, then), bottom, n, f))

\* coroutine.yield.
Yields(s, bottom, n, then) ==
  /\ Works
  /\ Becomes(Push(Push(Put(Then(s, bottom, then), bottom + n), Bare("yielded")), Result(bottom)))

Gives(waiting, t, n, f, new) ==
  IF t # Running /\ Mode(ts[t]) = "suspended"
  THEN ts' = [ts EXCEPT ![Running] = waiting, ![t] = Resumed(@, n, f)] /\ chain' = Append(new, t)
  ELSE Becomes(Fail(waiting))

\* coroutine.yieldto.
YieldsTo(s, bottom, n, then, t, f) ==
  /\ Works
  /\ Gives(Push(Put(Then(s, bottom, then), bottom), Bare("yielded")), t, n, f, Front(chain))

\* coroutine.resume; coroutine.continue, where nothing is left to do but to wait.
Resumes(s, bottom, n, then, t, f) ==
  LET waiting == Push(Put(Then(s, bottom, then), bottom), Bare("wait")) IN
  /\ Works
  /\ Gives(waiting, t, n, f, IF Len(waiting.frames) = 1 THEN Front(chain) ELSE chain)

Replies(s, bottom) ==
  \/ Errs(s, bottom)
  \/ \E t \in Thread : Creates(s, bottom, t)
  \/ \E n \in 0 .. MaxValues :
       \/ Returns(s, bottom, n)
       \/ GoesOn(s, bottom, n)
       \/ \E then \in BOOLEAN :
            \/ Yields(s, bottom, n, then)
            \/ \E f \in {"lua", "callback"} :
                 \/ Calls(s, bottom, n, then, f)
                 \/ \E t \in Thread : YieldsTo(s, bottom, n, then, t, f) \/ Resumes(s, bottom, n, then, t, f)

RunCallback ==
  /\ Runs("callback") /\ Replies(Pop(Current), Top(Current).bottom)
  /\ \E interrupted \in BOOLEAN : Spend(FuelPerCallback, interrupted)

\* Sequence::poll, or error when it is pending.
RunSequence ==
  /\ Runs("sequence") /\ Replies(Pop(Current), Top(Current).bottom)
  /\ \E interrupted \in BOOLEAN : Spend(FuelPerSeqStep, interrupted)

\* An error goes down a frame, or stays at a sequence.
Unwound(s) ==
  LET below == Pop(s)
      frame == Top(below)
  IN  CASE frame.is = "lua" -> Fail(Cut(Pop(below), frame.bottom))
        [] frame.is = "sequence" /\ ~frame.pending -> Push(Pop(below), Sequence(frame.bottom, TRUE))
        [] frame.is = "sequence" /\ frame.pending -> Panic(s)
        [] OTHER -> Fail(Pop(below))

RunError == Runs("error") /\ Becomes(Unwound(Current)) /\ Spend(0, FALSE) /\ UNCHANGED work

-----------------------------------------------------------------------------
(* The host, between steps.                                                *)

Root == chain[1]
Idle == at = "idle"
Alone == Idle /\ Len(chain) = 1
BecomesRoot(s) == ts' = [ts EXCEPT ![Root] = s] /\ chain' = <<Root>> /\ UNCHANGED <<at, fuel>>

Step ==
  /\ Idle /\ (Len(chain) > 1 \/ Mode(ts[Root]) = "normal")
  /\ at' = "look" /\ fuel' = Fuel /\ UNCHANGED <<ts, chain, work>>

TakeResult ==
  Alone /\ Mode(ts[Root]) = "result" /\ BecomesRoot(Taken(ts[Root])) /\ UNCHANGED work

HostResume(n, f) ==
  Alone /\ Mode(ts[Root]) = "suspended" /\ Works /\ BecomesRoot(Resumed(ts[Root], n, f))

HostResumeErr ==
  Alone /\ Mode(ts[Root]) = "suspended" /\ Works /\ BecomesRoot(Fail(Pop(ts[Root])))

Restart(n, f) == Idle /\ Works /\ BecomesRoot(PushCall(Stopped, 0, n, f))

Stop == Idle /\ Works /\ BecomesRoot(Stopped)

\* A thread that nothing refers to any more is reset before it is freed; the next that
\* is created may be in its place.
Finalize(t) ==
  /\ Idle /\ t \notin Range(chain) /\ ts[t] # Stopped /\ Works
  /\ ts' = [ts EXCEPT ![t] = Stopped] /\ UNCHANGED <<chain, at, fuel>>

-----------------------------------------------------------------------------
Init ==
  /\ ts = [t \in Thread |-> Stopped] /\ \E t \in Thread : chain = <<t>>
  /\ at = "idle" /\ fuel = 0 /\ work = MaxWork

Next ==
  \/ Look \/ StepDone \/ HandBack
  \/ RunLua \/ LuaFails \/ RunCallback \/ RunSequence \/ RunError
  \/ Step \/ TakeResult \/ HostResumeErr \/ Stop
  \/ \E n \in 0 .. MaxValues, f \in {"lua", "callback"} : HostResume(n, f) \/ Restart(n, f)
  \/ \E t \in Thread : Finalize(t)

Spec == Init /\ [][Next]_vars

-----------------------------------------------------------------------------
(* Properties.                                                             *)

FrameType ==
  [is : {"lua"}, bottom : Nat, called : BOOLEAN] \cup [is : {"callback", "result"}, bottom : Nat]
    \cup [is : {"sequence"}, bottom : Nat, pending : BOOLEAN]
    \cup [is : {"start", "yielded", "wait", "error"}]

\* Where the frame above this one has its bottom.
Above(frame) == IF frame.is = "lua" THEN frame.bottom + 2 ELSE frame.bottom

\* The frames below the last are such as can be answered or unwound.
Answerable(frame) ==
  \/ frame.is = "lua" /\ frame.called
  \/ frame.is = "sequence" /\ ~frame.pending

\* An error is above whatever it leaves; values may lie on a frame that yielded.
Covers(s) ==
  LET n == Len(s.frames) IN
  /\ n > 1
  /\ \/ Top(s).is = "error" /\ \/ s.frames[n - 1].is \in {"lua", "yielded", "wait"}
                               \/ Answerable(s.frames[n - 1])
     \/ Top(s).is = "result" /\ s.frames[n - 1].is = "yielded"

\* How many frames wait for an answer from the frame above them.
Waiting(s) == Len(s.frames) - (IF Covers(s) THEN 2 ELSE 1)

Floor(s, i) == IF i = 0 THEN 0 ELSE Above(s.frames[i])

Nested(s) ==
  LET top == Top(s)
      floor == Floor(s, Waiting(s))
  IN  /\ \A i \in DOMAIN s.frames :
           s.frames[i].is \in {"lua", "callback", "sequence"} => s.frames[i].bottom = Floor(s, i - 1)
      /\ \A i \in 1 .. Waiting(s) : Answerable(s.frames[i])
      /\ CASE top.is = "lua" -> ~top.called /\ s.height = top.bottom + 1 + FrameSize
           [] top.is \in {"callback", "sequence"} -> s.height >= top.bottom
           [] top.is = "result" -> top.bottom = floor /\ s.height >= floor
           [] top.is = "start" -> s = Push(Stopped, Bare("start"))
           [] top.is \in {"yielded", "wait"} -> s.height = floor
           [] OTHER -> TRUE

Sound(s) ==
  /\ s.frames = <<>> => s = Stopped
  /\ s.frames # <<>> => Nested(s)
  /\ \A i \in s.open : \E frame \in Range(s.frames) : frame.is = "lua" /\ i = frame.bottom + 1

FramesNest ==
  /\ ts \in [Thread -> [frames : Seq(FrameType), height : Nat, open : SUBSET Nat]]
  /\ \A t \in Thread : Sound(ts[t])

ChainWaits ==
  /\ chain \in Seq(Thread) /\ chain # <<>>
  /\ \A i, j \in DOMAIN chain : chain[i] = chain[j] => i = j
  /\ \A i \in 1 .. Len(chain) - 1 : Mode(ts[chain[i]]) = "waiting"

\* A thread that has stopped is empty; the frames of any other lie one above the other on
\* its stack, all but the last such as can be answered, and in the chain of threads each
\* but the last waits for the next: so return_to, resume and take_result never meet a
\* frame they do not expect (their panics), and step always has a frame to run.  An upvalue is open only where a running Lua
\* function has its variable.
ThreadsSound ==
  /\ FramesNest /\ ChainWaits
  /\ at \in {"idle", "look", "run"} /\ fuel \in Nat
  /\ at = "run" => Mode(Current) = "normal"

Rest(t) ==
  CASE t \in Range(chain) -> "running"
    [] t \notin Range(chain) /\ Mode(ts[t]) \in {"stopped", "suspended"} -> Mode(ts[t])
    [] OTHER -> "gone"

C == INSTANCE Coroutines WITH rest <- [t \in Thread |-> Rest(t)]

\* Control is in one chain of threads, passed on to suspended threads only and handed back
\* to the one that waits, as coroutines promise; a thread that gave its place up for good
\* is not heard of again.
ControlPasses == C!Spec
================================================================================
