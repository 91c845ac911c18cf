---------------------------- MODULE ScriptingProofs ----------------------------
(***************************************************************************)
(* What runs the scripts of the server.                                    *)
(*                                                                         *)
(* The executor of Lua threads (LuaExecutor) never meets a frame it does   *)
(* not expect (its panics), and control passes as coroutines promise: for  *)
(* every number of threads, of frames and of values, and any amount of     *)
(* fuel.                                                                   *)
(*                                                                         *)
(* In the host (ScriptHost) a script which is not the asset is always      *)
(* older by its time, and no machine goes back to an older version: for    *)
(* any number of threads, edits and loads.                                 *)
(***************************************************************************)
EXTENDS LuaExecutor, ScriptHost, SequenceTheorems, TLAPS

ThreadType == [frames : Seq(FrameType), height : Nat, open : SUBSET Nat]

\* Floor of a sequence of frames.
FloorAt(fs, i) == IF i = 0 THEN 0 ELSE Above(fs[i])
FloorOf(fs) == FloorAt(fs, Len(fs))

\* Frames that wait for an answer, one above the other.
Base(fs) ==
  /\ fs \in Seq(FrameType)
  /\ \A i \in DOMAIN fs : Answerable(fs[i]) /\ fs[i].bottom = FloorAt(fs, i - 1)

\* Where upvalues may be open.
OpenIn(fs) == {u \in Nat : \E i \in DOMAIN fs : fs[i].is = "lua" /\ u = fs[i].bottom + 1}

\* A thread whose last frame has been taken.
Ready(s) ==
  /\ s \in ThreadType /\ Base(s.frames)
  /\ s.open \subseteq OpenIn(s.frames) /\ s.height >= FloorOf(s.frames)

LuaFrame(bottom, c) == [is |-> "lua", bottom |-> bottom, called |-> c]

\* The last frame, above those that wait.
Fits(s, base, top) ==
  \/ top = Lua(FloorOf(base)) /\ s.height = FloorOf(base) + 1 + FrameSize
  \/ top = Callback(FloorOf(base)) /\ s.height >= FloorOf(base)
  \/ (\E p \in BOOLEAN : top = Sequence(FloorOf(base), p)) /\ s.height >= FloorOf(base)
  \/ top = Result(0) /\ base = <<>>
  \/ top = Bare("start") /\ base = <<>> /\ s.height = 0
  \/ top \in {Bare("yielded"), Bare("wait")} /\ s.height = FloorOf(base)
  \/ top = Bare("error") /\ s.height >= FloorOf(base) /\ (base = <<>> => s.height = 0)

\* An error above the frame it left, or the values that one has yielded.
Covered(s, base, below, top) ==
  \/ top = Bare("error") /\ \E c \in BOOLEAN : below = LuaFrame(FloorOf(base), c)
  \/ top = Bare("error") /\ below \in {Bare("yielded"), Bare("wait")} /\ s.height = FloorOf(base)
  \/ top = Result(FloorOf(base)) /\ below = Bare("yielded") /\ s.height >= FloorOf(base)

OneTop(s, base, top) == s.frames = Append(base, top) /\ Fits(s, base, top)
TwoTops(s, base, below, top) ==
  s.frames = Append(Append(base, below), top) /\ Covered(s, base, below, top)

Shape(s) ==
  /\ s \in ThreadType /\ s.open \subseteq OpenIn(s.frames)
  /\ \/ s = Stopped
     \/ \E base \in Seq(FrameType) :
          /\ Base(base)
          /\ \/ \E top \in FrameType : OneTop(s, base, top)
             \/ \E below \in FrameType, top \in FrameType : TwoTops(s, base, below, top)

-----------------------------------------------------------------------------
LEMMA AppendFacts ==
  ASSUME NEW S, NEW q \in Seq(S), NEW x \in S
  PROVE  /\ Append(q, x) \in Seq(S) /\ Append(q, x) # <<>>
         /\ Len(Append(q, x)) = Len(q) + 1 /\ Len(q) \in Nat
         /\ DOMAIN Append(q, x) = 1..(Len(q) + 1) /\ DOMAIN q = 1..Len(q)
         /\ \A i \in 1..Len(q) : Append(q, x)[i] = q[i]
         /\ Append(q, x)[Len(q) + 1] = x
         /\ Last(Append(q, x)) = x
         /\ Front(Append(q, x)) = q
<1>1. /\ Append(q, x) \in Seq(S) /\ Append(q, x) # <<>>
      /\ Len(Append(q, x)) = Len(q) + 1 /\ Len(q) \in Nat
      /\ DOMAIN Append(q, x) = 1..(Len(q) + 1) /\ DOMAIN q = 1..Len(q)
      /\ \A i \in 1..Len(q) : Append(q, x)[i] = q[i]
      /\ Append(q, x)[Len(q) + 1] = x
  OBVIOUS
<1>2. Last(Append(q, x)) = x
  BY <1>1 DEF Last
<1>3. Front(Append(q, x)) = q
  BY <1>1 DEF Front
<1> QED
  BY <1>1, <1>2, <1>3

\* Whatever is not empty is something with a last frame.
LEMMA Split ==
  ASSUME NEW S, NEW q \in Seq(S), q # <<>>
  PROVE  /\ Front(q) \in Seq(S) /\ Last(q) \in S /\ q = Append(Front(q), Last(q))
         /\ Len(q) \in Nat \ {0} /\ Len(Front(q)) = Len(q) - 1
         /\ \A i \in 1..(Len(q) - 1) : Front(q)[i] = q[i]
<1>1. Len(q) \in Nat \ {0}
  OBVIOUS
<1>2. /\ Front(q) \in Seq(S) /\ Len(Front(q)) = Len(q) - 1
      /\ \A i \in 1..(Len(q) - 1) : Front(q)[i] = q[i]
  <2>1. Front(q) = SubSeq(q, 1, Len(q) - 1)
    BY DEF Front
  <2>2. \A i \in 1..(Len(q) - 1) : q[i] \in S
    BY <1>1
  <2>3. /\ SubSeq(q, 1, Len(q) - 1) \in Seq(S)
        /\ Len(SubSeq(q, 1, Len(q) - 1)) = IF 1 <= Len(q) - 1 THEN Len(q) - 1 - 1 + 1 ELSE 0
        /\ \A i \in 1..(Len(q) - 1 - 1 + 1) : SubSeq(q, 1, Len(q) - 1)[i] = q[1 + i - 1]
    BY <1>1, <2>2, SubSeqProperties
  <2> DEFINE f == SubSeq(q, 1, Len(q) - 1)
  <2>4. /\ f \in Seq(S) /\ Len(f) = IF 1 <= Len(q) - 1 THEN Len(q) - 1 - 1 + 1 ELSE 0
        /\ \A i \in 1..(Len(q) - 1 - 1 + 1) : f[i] = q[1 + i - 1]
    BY <2>3
  <2> HIDE DEF f
  <2> DEFINE n == Len(q)
             m == Len(f)
  <2>5. Len(f) = Len(q) - 1
    <3>1. n \in Nat \ {0} /\ m = IF 1 <= n - 1 THEN n - 1 - 1 + 1 ELSE 0
      BY <1>1, <2>4
    <3> HIDE DEF n, m
    <3>2. m = n - 1
      BY <3>1
    <3> QED
      BY <3>2 DEF n, m
  <2>6. ASSUME NEW i \in 1..(Len(q) - 1) PROVE f[i] = q[i]
    <3>1. i \in 1..(Len(q) - 1 - 1 + 1) /\ 1 + i - 1 = i
      BY <1>1
    <3> QED
      BY <2>4, <3>1
  <2>7. Front(q) = f
    BY <2>1 DEF f
  <2> QED
    BY <2>4, <2>5, <2>6, <2>7
<1>3. Last(q) \in S
  BY <1>1 DEF Last
<1>4. q = Append(Front(q), Last(q))
  <2> DEFINE r == Append(Front(q), Last(q))
  <2>1. /\ r \in Seq(S) /\ Len(r) = Len(q) /\ r[Len(q)] = Last(q)
        /\ \A i \in 1..(Len(q) - 1) : r[i] = q[i]
    BY <1>1, <1>2, <1>3, AppendFacts
  <2> HIDE DEF r
  <2>2. \A i \in 1..Len(q) : r[i] = q[i]
    BY <1>1, <2>1 DEF Last
  <2>3. r = q
    BY <2>1, <2>2
  <2> QED
    BY <2>3 DEF r
<1> QED
  BY <1>1, <1>2, <1>3, <1>4

LEMMA ExceptLast ==
  ASSUME NEW S, NEW q \in Seq(S), NEW x \in S, NEW y \in S
  PROVE  [Append(q, x) EXCEPT ![Len(Append(q, x))] = y] = Append(q, y)
<1> DEFINE a == Append(q, x)
           r == [a EXCEPT ![Len(a)] = y]
           t == Append(q, y)
<1>0. /\ a \in Seq(S) /\ Len(a) = Len(q) + 1 /\ Len(q) \in Nat
      /\ \A i \in 1..Len(q) : a[i] = q[i]
  BY AppendFacts
<1> HIDE DEF a
<1>1. /\ r \in Seq(S) /\ Len(r) = Len(q) + 1 /\ r[Len(q) + 1] = y
      /\ \A i \in 1..Len(q) : r[i] = q[i]
  BY <1>0
<1>2. /\ t \in Seq(S) /\ Len(t) = Len(q) + 1 /\ t[Len(q) + 1] = y
      /\ \A i \in 1..Len(q) : t[i] = q[i]
  BY AppendFacts
<1> HIDE DEF r, t
<1>3. \A i \in 1..(Len(q) + 1) : r[i] = t[i]
  BY <1>1, <1>2
<1>4. r = t
  BY <1>1, <1>2, <1>3
<1> QED
  BY <1>4 DEF r, t, a

LEMMA FrameTypes ==
  ASSUME NEW b \in Nat, NEW c \in BOOLEAN
  PROVE  /\ Lua(b) = LuaFrame(b, FALSE) /\ LuaFrame(b, c) \in FrameType
         /\ Callback(b) \in FrameType /\ Sequence(b, c) \in FrameType /\ Result(b) \in FrameType
         /\ \A k \in {"start", "yielded", "wait", "error"} : Bare(k) \in FrameType
<1> QED
  BY DEF Lua, LuaFrame, Callback, Sequence, Result, Bare, FrameType

LEMMA FrameFields ==
  ASSUME NEW b, NEW c
  PROVE  /\ LuaFrame(b, c).is = "lua" /\ LuaFrame(b, c).bottom = b /\ LuaFrame(b, c).called = c
         /\ Callback(b).is = "callback" /\ Callback(b).bottom = b
         /\ Sequence(b, c).is = "sequence" /\ Sequence(b, c).bottom = b /\ Sequence(b, c).pending = c
         /\ Result(b).is = "result" /\ Result(b).bottom = b
         /\ \A k : Bare(k).is = k
<1> QED
  BY DEF LuaFrame, Callback, Sequence, Result, Bare

LEMMA CalledFrame ==
  ASSUME NEW b \in Nat, NEW c, NEW d
  PROVE  [LuaFrame(b, c) EXCEPT !.called = d] = LuaFrame(b, d)
<1> QED
  BY DEF LuaFrame

LEMMA AnswerableFrames ==
  ASSUME NEW f \in FrameType, Answerable(f)
  PROVE  /\ f.bottom \in Nat /\ Above(f) \in Nat /\ f.is \in {"lua", "sequence"}
         /\ f.is = "lua" => f = LuaFrame(f.bottom, TRUE) /\ Above(f) = f.bottom + 2
         /\ f.is = "sequence" => f = Sequence(f.bottom, FALSE) /\ Above(f) = f.bottom
<1> QED
  BY DEF FrameType, Answerable, Above, LuaFrame, Sequence

-----------------------------------------------------------------------------
(* Frames that wait.                                                       *)

LEMMA FloorNat == ASSUME NEW fs, Base(fs) PROVE FloorOf(fs) \in Nat
<1>1. CASE fs = <<>>
  BY <1>1 DEF FloorOf, FloorAt
<1>2. CASE fs # <<>>
  <2>1. fs \in Seq(FrameType) /\ Len(fs) \in DOMAIN fs /\ Len(fs) # 0
    BY <1>2 DEF Base
  <2>2. fs[Len(fs)] \in FrameType /\ Answerable(fs[Len(fs)])
    BY <2>1 DEF Base
  <2> QED
    BY <2>1, <2>2, AnswerableFrames DEF FloorOf, FloorAt
<1> QED
  BY <1>1, <1>2

LEMMA BaseAppend ==
  ASSUME NEW fs, Base(fs), NEW f \in FrameType, Answerable(f), f.bottom = FloorOf(fs)
  PROVE  Base(Append(fs, f)) /\ FloorOf(Append(fs, f)) = Above(f)
<1> DEFINE gs == Append(fs, f)
<1>1. fs \in Seq(FrameType)
  BY DEF Base
<1>2. /\ gs \in Seq(FrameType) /\ Len(gs) = Len(fs) + 1 /\ Len(fs) \in Nat
      /\ DOMAIN gs = 1..(Len(fs) + 1) /\ DOMAIN fs = 1..Len(fs)
      /\ \A i \in 1..Len(fs) : gs[i] = fs[i]
      /\ gs[Len(fs) + 1] = f
  BY <1>1, AppendFacts
<1> HIDE DEF gs
<1>3. \A i \in 0..Len(fs) : FloorAt(gs, i) = FloorAt(fs, i)
  BY <1>2 DEF FloorAt
<1>4. \A i \in 1..Len(fs) : Answerable(gs[i]) /\ gs[i].bottom = FloorAt(gs, i - 1)
  BY <1>2, <1>3 DEF Base
<1>5. Answerable(gs[Len(fs) + 1]) /\ gs[Len(fs) + 1].bottom = FloorAt(gs, Len(fs))
  BY <1>2, <1>3 DEF FloorOf
<1>6. \A i \in 1..(Len(fs) + 1) : i \in 1..Len(fs) \/ i = Len(fs) + 1
  BY <1>2
<1>7. \A i \in DOMAIN gs : Answerable(gs[i]) /\ gs[i].bottom = FloorAt(gs, i - 1)
  BY <1>2, <1>4, <1>5, <1>6
<1>8. FloorOf(gs) = Above(f)
  BY <1>2 DEF FloorOf, FloorAt
<1> QED
  BY <1>2, <1>7, <1>8 DEF Base, gs

LEMMA BaseFront ==
  ASSUME NEW fs, Base(fs), fs # <<>>
  PROVE  /\ Base(Front(fs)) /\ fs = Append(Front(fs), Last(fs))
         /\ Last(fs) \in FrameType /\ Answerable(Last(fs))
         /\ Last(fs).bottom = FloorOf(Front(fs)) /\ Above(Last(fs)) = FloorOf(fs)
<1>1. /\ fs \in Seq(FrameType) /\ DOMAIN fs = 1..Len(fs) /\ Len(fs) \in Nat \ {0}
      /\ \A i \in 1..Len(fs) : Answerable(fs[i]) /\ fs[i].bottom = FloorAt(fs, i - 1)
  BY DEF Base
<1> DEFINE gs == Front(fs)
<1>2. /\ gs \in Seq(FrameType) /\ Last(fs) \in FrameType /\ fs = Append(gs, Last(fs))
      /\ Len(gs) = Len(fs) - 1 /\ \A i \in 1..(Len(fs) - 1) : gs[i] = fs[i]
      /\ DOMAIN gs = 1..Len(gs)
  <2>1. /\ gs \in Seq(FrameType) /\ Last(fs) \in FrameType /\ fs = Append(gs, Last(fs))
        /\ Len(gs) = Len(fs) - 1 /\ \A i \in 1..(Len(fs) - 1) : gs[i] = fs[i]
    BY <1>1, Split
  <2> HIDE DEF gs
  <2> QED
    BY <2>1
<1>3. Last(fs) = fs[Len(fs)]
  BY DEF Last
<1> HIDE DEF gs
<1>4. \A i \in 0..Len(gs) : FloorAt(gs, i) = FloorAt(fs, i)
  BY <1>1, <1>2 DEF FloorAt
<1>5. \A i \in DOMAIN gs : Answerable(gs[i]) /\ gs[i].bottom = FloorAt(gs, i - 1)
  BY <1>1, <1>2, <1>4
<1>6. Answerable(Last(fs)) /\ Last(fs).bottom = FloorAt(fs, Len(fs) - 1)
  BY <1>1, <1>3
<1>7. FloorAt(fs, Len(fs) - 1) = FloorOf(gs)
  BY <1>1, <1>2, <1>4 DEF FloorOf
<1>8. Above(Last(fs)) = FloorOf(fs)
  BY <1>1, <1>3 DEF FloorOf, FloorAt
<1> QED
  BY <1>2, <1>5, <1>6, <1>7, <1>8 DEF Base, gs

LEMMA OpenAppend ==
  ASSUME NEW fs \in Seq(FrameType), NEW f \in FrameType
  PROVE  OpenIn(Append(fs, f)) =
           OpenIn(fs) \cup {u \in Nat : f.is = "lua" /\ u = f.bottom + 1}
<1>1. /\ DOMAIN Append(fs, f) = 1..(Len(fs) + 1) /\ DOMAIN fs = 1..Len(fs)
      /\ \A i \in 1..Len(fs) : Append(fs, f)[i] = fs[i]
      /\ Append(fs, f)[Len(fs) + 1] = f /\ Len(fs) \in Nat
  BY AppendFacts
<1>2. \A i \in 1..(Len(fs) + 1) : i \in 1..Len(fs) \/ i = Len(fs) + 1
  BY <1>1
<1>3. Len(fs) + 1 \in 1..(Len(fs) + 1) /\ 1..Len(fs) \subseteq 1..(Len(fs) + 1)
  BY <1>1
<1> QED
  BY <1>1, <1>2, <1>3 DEF OpenIn

LEMMA NoFrames ==
  /\ Base(<<>>) /\ FloorOf(<<>>) = 0 /\ OpenIn(<<>>) = {}
  /\ Stopped \in ThreadType /\ Ready(Stopped) /\ Shape(Stopped)
<1>1. <<>> \in Seq(FrameType) /\ DOMAIN <<>> = {} /\ Len(<<>>) = 0
  OBVIOUS
<1>2. Base(<<>>) /\ FloorOf(<<>>) = 0 /\ OpenIn(<<>>) = {}
  BY <1>1 DEF Base, FloorOf, FloorAt, OpenIn
<1>3. Stopped \in ThreadType
  BY <1>1 DEF Stopped, ThreadType
<1> QED
  BY <1>2, <1>3 DEF Ready, Shape, Stopped

-----------------------------------------------------------------------------
(* Threads whose last frame has been taken.                                *)

LEMMA SizeFacts == FrameSize \in Nat /\ FrameSize > 1
<1> QED
  BY ExecutorAssumption

LEMMA ThreadFields ==
  ASSUME NEW s \in ThreadType
  PROVE  /\ s.frames \in Seq(FrameType) /\ s.height \in Nat /\ s.open \in SUBSET Nat
         /\ s = [frames |-> s.frames, height |-> s.height, open |-> s.open]
<1> QED
  BY DEF ThreadType

LEMMA PutReady ==
  ASSUME NEW s, Ready(s), NEW h \in Nat, h >= FloorOf(s.frames)
  PROVE  /\ Ready(Put(s, h)) /\ Put(s, h).frames = s.frames
         /\ Put(s, h).height = h /\ Put(s, h).open = s.open
<1> QED
  BY DEF Ready, Put, ThreadType

LEMMA PushFields ==
  ASSUME NEW s \in ThreadType, NEW top \in FrameType
  PROVE  /\ Push(s, top) \in ThreadType /\ Push(s, top).frames = Append(s.frames, top)
         /\ Push(s, top).height = s.height /\ Push(s, top).open = s.open
         /\ Push(s, top).frames # <<>> /\ Len(Push(s, top).frames) = Len(s.frames) + 1
         /\ Top(Push(s, top)) = top /\ Len(s.frames) \in Nat
<1>1. s.frames \in Seq(FrameType)
  BY ThreadFields
<1>2. /\ Append(s.frames, top) \in Seq(FrameType) /\ Append(s.frames, top) # <<>>
      /\ Len(Append(s.frames, top)) = Len(s.frames) + 1 /\ Len(s.frames) \in Nat
      /\ Last(Append(s.frames, top)) = top
  BY <1>1, AppendFacts
<1>3. /\ Push(s, top) = [s EXCEPT !.frames = Append(s.frames, top)]
      /\ Push(s, top) \in ThreadType /\ Push(s, top).frames = Append(s.frames, top)
      /\ Push(s, top).height = s.height /\ Push(s, top).open = s.open
  BY <1>2 DEF Push, ThreadType
<1> QED
  BY <1>2, <1>3 DEF Top

\* A frame is pushed that fits.
LEMMA PushShape ==
  ASSUME NEW s, Ready(s), NEW top \in FrameType, Fits(s, s.frames, top)
  PROVE  Shape(Push(s, top))
<1> DEFINE r == Push(s, top)
<1>1. s \in ThreadType /\ Base(s.frames) /\ s.frames \in Seq(FrameType)
  BY DEF Ready, Base
<1>2. /\ r \in ThreadType /\ r.frames = Append(s.frames, top)
      /\ r.height = s.height /\ r.open = s.open
  BY <1>1, PushFields
<1>3. OpenIn(s.frames) \subseteq OpenIn(r.frames)
  BY <1>1, <1>2, OpenAppend
<1> HIDE DEF r
<1>4. OneTop(r, s.frames, top)
  BY <1>2 DEF OneTop, Fits
<1>5. r.open \subseteq OpenIn(r.frames)
  BY <1>2, <1>3 DEF Ready
<1> QED
  BY <1>1, <1>2, <1>4, <1>5 DEF Shape, r

\* Two frames are pushed, of which the second covers the first.
LEMMA PushTwoShape ==
  ASSUME NEW s, s \in ThreadType, Base(s.frames), NEW below \in FrameType, NEW top \in FrameType,
         s.open \subseteq OpenIn(Append(s.frames, below)), Covered(s, s.frames, below, top)
  PROVE  Shape(Push(Push(s, below), top))
<1> DEFINE q == Push(s, below)
           r == Push(q, top)
<1>1. s.frames \in Seq(FrameType)
  BY DEF Base
<1>2. /\ q \in ThreadType /\ q.frames = Append(s.frames, below)
      /\ q.height = s.height /\ q.open = s.open
  BY PushFields
<1> HIDE DEF q
<1>3. /\ r \in ThreadType /\ r.frames = Append(q.frames, top)
      /\ r.height = s.height /\ r.open = s.open
  BY <1>2, PushFields
<1>4. q.frames \in Seq(FrameType)
  BY <1>2, ThreadFields
<1>5. OpenIn(q.frames) \subseteq OpenIn(r.frames)
  BY <1>3, <1>4, OpenAppend
<1> HIDE DEF r
<1>6. TwoTops(r, s.frames, below, top)
  BY <1>2, <1>3 DEF TwoTops, Covered
<1>7. r.open \subseteq OpenIn(r.frames)
  BY <1>2, <1>3, <1>5
<1> QED
  BY <1>1, <1>3, <1>6, <1>7 DEF Shape, r, q

-----------------------------------------------------------------------------
(* What the executor puts on a thread.                                     *)

LEMMA ModeOfTop ==
  ASSUME NEW s \in ThreadType, NEW top \in FrameType
  PROVE  /\ top.is \in {"lua", "callback", "sequence"} => Mode(Push(s, top)) = "normal"
         /\ top.is \in {"start", "yielded"} => Mode(Push(s, top)) = "suspended"
         /\ top.is = "wait" => Mode(Push(s, top)) = "waiting"
         /\ top.is = "result" => Mode(Push(s, top)) = "result"
         /\ top.is = "error" =>
              Mode(Push(s, top)) = IF s.frames = <<>> THEN "result" ELSE "normal"
<1> DEFINE r == Push(s, top)
<1>1. /\ r.frames # <<>> /\ Top(r) = top /\ Len(r.frames) = Len(s.frames) + 1
      /\ Len(s.frames) \in Nat
  BY PushFields
<1>2. s.frames = <<>> <=> Len(s.frames) = 0
  BY ThreadFields
<1> HIDE DEF r
<1> QED
  BY <1>1, <1>2 DEF Mode, r

LEMMA PushCallShape ==
  ASSUME NEW s, Ready(s), NEW n \in Nat, NEW f \in {"lua", "callback"}
  PROVE  /\ Shape(PushCall(s, FloorOf(s.frames), n, f))
         /\ Mode(PushCall(s, FloorOf(s.frames), n, f)) = "normal"
<1> DEFINE b == FloorOf(s.frames)
<1>1. b \in Nat
  BY FloorNat DEF Ready
<1> HIDE DEF b
<1>2. CASE f = "lua"
  <2> DEFINE h == b + 1 + FrameSize
             t == Put(s, h)
  <2>1. h \in Nat /\ h >= b
    BY <1>1, SizeFacts
  <2>2. Ready(t) /\ t.frames = s.frames /\ t.height = h
    BY <2>1, PutReady DEF b
  <2>3. Lua(b) \in FrameType /\ Lua(b).is = "lua"
    BY <1>1 DEF Lua, FrameType
  <2>4. PushCall(s, b, n, f) = Push(t, Lua(b))
    BY <1>2 DEF PushCall
  <2> HIDE DEF t
  <2>5. Fits(t, t.frames, Lua(b))
    BY <2>2 DEF Fits, b, h
  <2>6. Shape(Push(t, Lua(b)))
    BY <2>2, <2>3, <2>5, PushShape
  <2>7. Mode(Push(t, Lua(b))) = "normal"
    BY <2>2, <2>3, ModeOfTop DEF Ready
  <2> QED
    BY <2>4, <2>6, <2>7 DEF b
<1>3. CASE f = "callback"
  <2> DEFINE t == Put(s, b + n)
  <2>1. b + n \in Nat /\ b + n >= b
    BY <1>1
  <2>2. Ready(t) /\ t.frames = s.frames /\ t.height = b + n
    BY <2>1, PutReady DEF b
  <2>3. Callback(b) \in FrameType /\ Callback(b).is = "callback"
    BY <1>1, FrameTypes, FrameFields
  <2>4. PushCall(s, b, n, f) = Push(t, Callback(b))
    BY <1>3 DEF PushCall
  <2> HIDE DEF t
  <2>5. Fits(t, t.frames, Callback(b))
    BY <2>1, <2>2 DEF Fits, b
  <2>6. Shape(Push(t, Callback(b)))
    BY <2>2, <2>3, <2>5, PushShape
  <2>7. Mode(Push(t, Callback(b))) = "normal"
    BY <2>2, <2>3, ModeOfTop DEF Ready
  <2> QED
    BY <2>4, <2>6, <2>7 DEF b
<1> QED
  BY <1>2, <1>3

\* The last of the frames that wait is exchanged for one that does not.
LEMMA ExchangeShape ==
  ASSUME NEW s, Ready(s), s.frames # <<>>, NEW t \in ThreadType, NEW top \in FrameType,
         t.frames = Append(Front(s.frames), top), t.open = s.open,
         Fits(t, Front(s.frames), top), top.is = Last(s.frames).is,
         top.bottom = Last(s.frames).bottom
  PROVE  Shape(t)
<1> DEFINE base == Front(s.frames)
           last == Last(s.frames)
<1>1. /\ Base(base) /\ s.frames = Append(base, last) /\ last \in FrameType
      /\ base \in Seq(FrameType)
  BY BaseFront DEF Ready, Base
<1> HIDE DEF base, last
<1>2. OpenIn(t.frames) = OpenIn(s.frames)
  <2>1. t.frames = Append(base, top) /\ top.is = last.is /\ top.bottom = last.bottom
    BY DEF base, last
  <2>2. OpenIn(t.frames) = OpenIn(base) \cup {u \in Nat : last.is = "lua" /\ u = last.bottom + 1}
    BY <1>1, <2>1, OpenAppend
  <2>3. OpenIn(s.frames) = OpenIn(base) \cup {u \in Nat : last.is = "lua" /\ u = last.bottom + 1}
    BY <1>1, OpenAppend
  <2> QED
    BY <2>2, <2>3
<1>3. OneTop(t, base, top)
  BY DEF OneTop, base
<1>4. t.open \subseteq OpenIn(t.frames)
  BY <1>2 DEF Ready
<1> QED
  BY <1>1, <1>3, <1>4 DEF Shape

\* An answer meets a frame that waits for it, or none.
LEMMA ReturnToShape ==
  ASSUME NEW s, Ready(s), NEW n \in Nat
  PROVE  /\ Shape(ReturnTo(s, FloorOf(s.frames), n))
         /\ Mode(ReturnTo(s, FloorOf(s.frames), n)) =
              IF s.frames = <<>> THEN "result" ELSE "normal"
<1> DEFINE b == FloorOf(s.frames)
           t == Put(s, b + n)
<1>1. b \in Nat /\ b + n \in Nat /\ b + n >= b
  BY FloorNat DEF Ready
<1> HIDE DEF b
<1>2. /\ Ready(t) /\ t.frames = s.frames /\ t.height = b + n /\ t.open = s.open
      /\ t \in ThreadType
  BY <1>1, PutReady DEF b, Ready
<1>3. CASE s.frames = <<>>
  <2>1. b = 0
    BY <1>3, NoFrames DEF b
  <2>2. ReturnTo(s, b, n) = Push(t, Result(0))
    BY <1>3, <2>1 DEF ReturnTo
  <2>3. Result(0) \in FrameType /\ Result(0).is = "result"
    BY DEF Result, FrameType
  <2> HIDE DEF t
  <2>4. Fits(t, t.frames, Result(0))
    BY <1>2, <1>3 DEF Fits
  <2>5. Shape(Push(t, Result(0))) /\ Mode(Push(t, Result(0))) = "result"
    BY <1>2, <2>3, <2>4, PushShape, ModeOfTop
  <2> QED
    BY <1>3, <2>2, <2>5 DEF b
<1>4. CASE s.frames # <<>>
  <2> DEFINE base == Front(s.frames)
             last == Last(s.frames)
  <2>1. /\ Base(base) /\ s.frames = Append(base, last) /\ last \in FrameType
        /\ Answerable(last) /\ last.bottom = FloorOf(base) /\ Above(last) = b
        /\ base \in Seq(FrameType) /\ Top(s) = last
    BY <1>4, BaseFront DEF Ready, Base, b, Top
  <2>2. Len(s.frames) \in Nat \ {0} /\ s.frames[Len(s.frames)] = last
    BY <1>4, ThreadFields DEF Ready, Last
  <2> HIDE DEF base, last, t
  <2>3. last.is \in {"lua", "sequence"} /\ last.bottom \in Nat
    BY <2>1, AnswerableFrames
  <2>4. CASE last.is = "sequence"
    <3>1. last.bottom = b /\ last = Sequence(last.bottom, FALSE)
      BY <2>1, <2>4, AnswerableFrames
    <3>2. ReturnTo(s, b, n) = t
      BY <1>4, <2>1, <2>4, <3>1 DEF ReturnTo, t
    <3>3. Fits(t, base, last)
      BY <1>1, <1>2, <2>1, <3>1 DEF Fits
    <3>4. Shape(t)
      BY <1>2, <1>4, <2>1, <3>3, ExchangeShape DEF base, last
    <3>5. Top(t) = last /\ t.frames # <<>>
      BY <1>2, <1>4, <2>1 DEF Top
    <3>6. Mode(t) = "normal"
      BY <2>4, <3>5 DEF Mode
    <3> QED
      BY <1>4, <3>2, <3>4, <3>6 DEF b
  <2>5. CASE last.is = "lua"
    <3> DEFINE k == last.bottom
               h == k + 1 + FrameSize
               frames == [s.frames EXCEPT ![Len(s.frames)].called = FALSE]
               r == [s EXCEPT !.frames = frames, !.height = h]
    <3>1. k \in Nat /\ last.called /\ last = LuaFrame(k, TRUE)
      BY <2>1, <2>3, <2>5, AnswerableFrames DEF Answerable
    <3>2. ReturnTo(s, b, n) = r
      BY <1>4, <2>1, <2>5, <3>1 DEF ReturnTo
    <3> HIDE DEF k
    <3>3. [last EXCEPT !.called = FALSE] = Lua(k) /\ Lua(k) \in FrameType
      <4>1. [LuaFrame(k, TRUE) EXCEPT !.called = FALSE] = LuaFrame(k, FALSE)
        BY <3>1, CalledFrame
      <4> QED
        BY <3>1, <4>1, FrameTypes
    <3>4. frames = Append(base, Lua(k))
      <4>1. frames = [s.frames EXCEPT ![Len(s.frames)] = [last EXCEPT !.called = FALSE]]
        BY <2>2
      <4>2. frames = [Append(base, last) EXCEPT ![Len(Append(base, last))] = Lua(k)]
        BY <2>1, <3>3, <4>1
      <4> HIDE DEF frames
      <4> QED
        BY <2>1, <3>3, <4>2, ExceptLast
    <3> HIDE DEF frames
    <3>5. /\ frames \in Seq(FrameType) /\ Last(frames) = Lua(k) /\ frames # <<>>
      <4>1. base \in Seq(FrameType) /\ Lua(k) \in FrameType
        BY <2>1, <3>3
      <4>2. /\ Append(base, Lua(k)) \in Seq(FrameType) /\ Append(base, Lua(k)) # <<>>
            /\ Last(Append(base, Lua(k))) = Lua(k)
        BY <4>1, AppendFacts
      <4> QED
        BY <3>4, <4>2
    <3>6. h \in Nat
      BY <3>1, SizeFacts
    <3>7. /\ r \in ThreadType /\ r.frames = frames /\ r.height = h /\ r.open = s.open
      BY <3>5, <3>6 DEF Ready, ThreadType
    <3> HIDE DEF r
    <3>8. Lua(k).is = "lua" /\ Lua(k).bottom = k
      BY DEF Lua
    <3>9. Fits(r, base, Lua(k))
      BY <2>1, <3>7 DEF Fits, k
    <3>10. Shape(r)
      BY <1>4, <2>5, <3>3, <3>4, <3>7, <3>8, <3>9, ExchangeShape DEF base, last, k
    <3>11. Mode(r) = "normal"
      BY <3>5, <3>7, <3>8 DEF Mode, Top
    <3> QED
      BY <1>4, <3>2, <3>10, <3>11 DEF b
  <2> QED
    BY <2>3, <2>4, <2>5
<1> QED
  BY <1>3, <1>4

LEMMA FailShape ==
  ASSUME NEW s, Ready(s), s.frames = <<>> => s.height = 0
  PROVE  /\ Shape(Fail(s)) /\ Mode(Fail(s)) = IF s.frames = <<>> THEN "result" ELSE "normal"
<1>1. Bare("error") \in FrameType /\ Bare("error").is = "error"
  BY DEF Bare, FrameType
<1>2. Fits(s, s.frames, Bare("error"))
  BY DEF Fits, Ready
<1>3. s \in ThreadType
  BY DEF Ready
<1> QED
  BY <1>1, <1>2, <1>3, PushShape, ModeOfTop DEF Fail

\* A frame that waits is put above the others.
LEMMA PushReady ==
  ASSUME NEW s, Ready(s), NEW f \in FrameType, Answerable(f),
         f.bottom = FloorOf(s.frames), s.height >= Above(f)
  PROVE  /\ Ready(Push(s, f)) /\ FloorOf(Push(s, f).frames) = Above(f)
         /\ Push(s, f).frames # <<>> /\ Push(s, f).height = s.height
<1> DEFINE r == Push(s, f)
<1>1. s \in ThreadType /\ Base(s.frames) /\ s.frames \in Seq(FrameType)
  BY DEF Ready, Base
<1>2. /\ r \in ThreadType /\ r.frames = Append(s.frames, f)
      /\ r.height = s.height /\ r.open = s.open /\ r.frames # <<>>
  BY <1>1, PushFields
<1> HIDE DEF r
<1>3. Base(r.frames) /\ FloorOf(r.frames) = Above(f)
  BY <1>1, <1>2, BaseAppend
<1>4. OpenIn(s.frames) \subseteq OpenIn(r.frames)
  BY <1>1, <1>2, OpenAppend
<1>5. Ready(r)
  BY <1>2, <1>3, <1>4 DEF Ready
<1> QED
  BY <1>2, <1>3, <1>5 DEF r

LEMMA ThenReady ==
  ASSUME NEW s, Ready(s), NEW then \in BOOLEAN
  PROVE  LET r == Then(s, FloorOf(s.frames), then)
         IN  Ready(r) /\ FloorOf(r.frames) = FloorOf(s.frames) /\ r.height = s.height
<1> DEFINE b == FloorOf(s.frames)
           f == Sequence(b, FALSE)
<1>1. b \in Nat
  BY FloorNat DEF Ready
<1> HIDE DEF b
<1>2. /\ f \in FrameType /\ f.is = "sequence" /\ ~f.pending /\ f.bottom = b
      /\ Above(f) = b
  BY <1>1 DEF Sequence, FrameType, Above
<1> HIDE DEF f
<1>3. Answerable(f)
  BY <1>2 DEF Answerable
<1>4. s.height >= b
  BY DEF Ready, b
<1>5. Ready(Push(s, f)) /\ FloorOf(Push(s, f).frames) = b /\ Push(s, f).height = s.height
  BY <1>2, <1>3, <1>4, PushReady DEF b
<1>6. CASE then
  BY <1>5, <1>6 DEF Then, f, b
<1>7. CASE ~then
  BY <1>7 DEF Then
<1> QED
  BY <1>6, <1>7

-----------------------------------------------------------------------------
(* What is below the last frame.                                           *)

LEMMA PopFields ==
  ASSUME NEW s \in ThreadType, NEW base \in Seq(FrameType), NEW top \in FrameType,
         s.frames = Append(base, top)
  PROVE  /\ Top(s) = top /\ s.frames # <<>> /\ Len(s.frames) = Len(base) + 1
         /\ Pop(s) \in ThreadType /\ Pop(s).frames = base
         /\ Pop(s).height = s.height /\ Pop(s).open = s.open
<1>1. /\ Last(Append(base, top)) = top /\ Front(Append(base, top)) = base
      /\ Append(base, top) # <<>> /\ Len(Append(base, top)) = Len(base) + 1
  BY AppendFacts
<1>2. Pop(s) = [s EXCEPT !.frames = base]
  BY <1>1 DEF Pop
<1> QED
  BY <1>1, <1>2 DEF Top, ThreadType

LEMMA ShapeCases ==
  ASSUME NEW s, Shape(s), s.frames # <<>>
  PROVE  \E base \in Seq(FrameType) :
           /\ Base(base)
           /\ \/ \E top \in FrameType : OneTop(s, base, top)
              \/ \E below \in FrameType, top \in FrameType : TwoTops(s, base, below, top)
<1>1. s # Stopped
  BY DEF Stopped
<1> QED
  BY <1>1 DEF Shape

\* A thread with the last frame top, above whatever waits or is covered.
LEMMA OneOrTwo ==
  ASSUME NEW s, Shape(s), s.frames # <<>>, Top(s).is \notin {"error", "result"}
  PROVE  \E base \in Seq(FrameType) :
           Base(base) /\ Top(s) \in FrameType /\ OneTop(s, base, Top(s))
<1>1. PICK base \in Seq(FrameType) :
        /\ Base(base)
        /\ \/ \E top \in FrameType : OneTop(s, base, top)
           \/ \E below \in FrameType, top \in FrameType : TwoTops(s, base, below, top)
  BY ShapeCases
<1>2. CASE \E top \in FrameType : OneTop(s, base, top)
  <2>1. PICK top \in FrameType : OneTop(s, base, top)
    BY <1>2
  <2>2. Top(s) = top
    BY <2>1, PopFields DEF OneTop, Shape
  <2> QED
    BY <1>1, <2>1, <2>2
<1>3. ASSUME NEW below \in FrameType, NEW top \in FrameType, TwoTops(s, base, below, top)
      PROVE  FALSE
  <2>1. Append(base, below) \in Seq(FrameType)
    BY AppendFacts
  <2>2. Top(s) = top
    <3>1. s \in ThreadType /\ s.frames = Append(Append(base, below), top)
      BY <1>3 DEF TwoTops, Shape
    <3> QED
      BY <2>1, <3>1, PopFields
  <2>3. top.is \in {"error", "result"}
    BY <1>3 DEF TwoTops, Covered, Bare, Result
  <2> QED
    BY <2>2, <2>3
<1> QED
  BY <1>1, <1>2, <1>3

LEMMA CutReady ==
  ASSUME NEW s \in ThreadType, Base(s.frames),
         s.open \subseteq OpenIn(s.frames) \cup {FloorOf(s.frames) + 1}
  PROVE  LET r == Cut(s, FloorOf(s.frames))
         IN  Ready(r) /\ r.frames = s.frames /\ r.height = FloorOf(s.frames)
<1> DEFINE b == FloorOf(s.frames)
           r == Cut(s, b)
<1>1. b \in Nat
  BY FloorNat
<1>2. s.open \subseteq OpenIn(s.frames) \cup {b + 1}
  OBVIOUS
<1> HIDE DEF b
<1>3. r = [s EXCEPT !.open = {i \in s.open : i < b}, !.height = b]
  BY DEF Cut
<1>4. {i \in s.open : i < b} \in SUBSET Nat
  BY ThreadFields
<1>5. r \in ThreadType /\ r.frames = s.frames /\ r.height = b /\ r.open = {i \in s.open : i < b}
  BY <1>1, <1>3, <1>4 DEF ThreadType
<1> HIDE DEF r
<1>6. r.open \subseteq OpenIn(r.frames)
  BY <1>1, <1>2, <1>5
<1>7. Ready(r)
  BY <1>1, <1>5, <1>6 DEF Ready, b
<1> QED
  BY <1>5, <1>7 DEF b, r

LEMMA LuaTop ==
  ASSUME NEW s, Shape(s), s.frames # <<>>, Top(s).is = "lua"
  PROVE  LET b == Top(s).bottom
             base == Pop(s).frames
         IN  /\ b \in Nat /\ Base(base) /\ b = FloorOf(base) /\ base \in Seq(FrameType)
             /\ s.frames = Append(base, LuaFrame(b, FALSE)) /\ s.height = b + 1 + FrameSize
             /\ s \in ThreadType /\ Pop(s) \in ThreadType
             /\ s.open \subseteq OpenIn(base) \cup {b + 1} /\ Pop(s).open = s.open
<1> DEFINE top == Top(s)
<1>1. PICK base \in Seq(FrameType) : Base(base) /\ top \in FrameType /\ OneTop(s, base, top)
  BY OneOrTwo
<1>2. s \in ThreadType /\ s.open \subseteq OpenIn(s.frames)
  BY DEF Shape
<1>3. /\ s.frames = Append(base, top) /\ Pop(s) \in ThreadType
      /\ Pop(s).frames = base /\ Pop(s).open = s.open
  BY <1>1, <1>2, PopFields DEF OneTop
<1>4. top.is = "lua"
  OBVIOUS
<1> DEFINE b == FloorOf(base)
<1>5. b \in Nat
  BY <1>1, FloorNat
<1>6. top = Lua(b) /\ s.height = b + 1 + FrameSize
  BY <1>1, <1>4 DEF OneTop, Fits, Callback, Sequence, Result, Bare
<1>7. top = LuaFrame(b, FALSE) /\ top.bottom = b
  BY <1>5, <1>6 DEF Lua, LuaFrame
<1>8. OpenIn(s.frames) \subseteq OpenIn(base) \cup {b + 1}
  <2> HIDE DEF b, top
  <2>1. OpenIn(s.frames) = OpenIn(base) \cup {u \in Nat : top.is = "lua" /\ u = top.bottom + 1}
    BY <1>1, <1>3, OpenAppend
  <2> QED
    BY <1>7, <2>1
<1> QED
  BY <1>1, <1>2, <1>3, <1>5, <1>6, <1>7, <1>8

LEMMA CallTop ==
  ASSUME NEW s, Shape(s), s.frames # <<>>, Top(s).is \in {"callback", "sequence"}
  PROVE  Ready(Pop(s)) /\ Top(s).bottom = FloorOf(Pop(s).frames) /\ Top(s).bottom \in Nat
<1> DEFINE top == Top(s)
<1>1. PICK base \in Seq(FrameType) : Base(base) /\ top \in FrameType /\ OneTop(s, base, top)
  BY OneOrTwo
<1>2. s \in ThreadType /\ s.open \subseteq OpenIn(s.frames)
  BY DEF Shape
<1>3. /\ s.frames = Append(base, top) /\ Pop(s) \in ThreadType
      /\ Pop(s).frames = base /\ Pop(s).open = s.open /\ Pop(s).height = s.height
  BY <1>1, <1>2, PopFields DEF OneTop
<1>4. top.is \in {"callback", "sequence"}
  OBVIOUS
<1> DEFINE b == FloorOf(base)
<1>5. b \in Nat
  BY <1>1, FloorNat
<1>6. top.bottom = b /\ s.height >= b
  BY <1>1, <1>4 DEF OneTop, Fits, Lua, Callback, Sequence, Result, Bare
<1>7. OpenIn(s.frames) = OpenIn(base)
  <2> HIDE DEF b, top
  <2>1. OpenIn(s.frames) = OpenIn(base) \cup {u \in Nat : top.is = "lua" /\ u = top.bottom + 1}
    BY <1>1, <1>3, OpenAppend
  <2> QED
    BY <1>4, <2>1
<1>8. Ready(Pop(s))
  BY <1>1, <1>2, <1>3, <1>6, <1>7 DEF Ready
<1> QED
  BY <1>3, <1>5, <1>6, <1>8

\* An upvalue is opened.
LEMMA CapturesShape ==
  ASSUME NEW s, Shape(s), s.frames # <<>>, Top(s).is = "lua"
  PROVE  LET r == [s EXCEPT !.open = @ \cup {Top(s).bottom + 1}]
         IN  Shape(r) /\ Mode(r) = "normal"
<1> DEFINE top == Top(s)
           b == top.bottom
           r == [s EXCEPT !.open = @ \cup {b + 1}]
<1>1. PICK base \in Seq(FrameType) : Base(base) /\ top \in FrameType /\ OneTop(s, base, top)
  BY OneOrTwo
<1>2. b \in Nat /\ s \in ThreadType /\ s.open \subseteq OpenIn(s.frames)
  BY LuaTop DEF Shape
<1>3. top.is = "lua" /\ s.frames = Append(base, top) /\ s.frames # <<>>
  BY <1>1 DEF OneTop
<1>4. /\ r \in ThreadType /\ r.frames = s.frames /\ r.height = s.height
      /\ r.open = s.open \cup {b + 1}
  BY <1>2 DEF ThreadType
<1> HIDE DEF r
<1>5. b + 1 \in OpenIn(s.frames)
  BY <1>1, <1>2, <1>3, OpenAppend
<1>6. OneTop(r, base, top)
  BY <1>1, <1>4 DEF OneTop, Fits
<1>7. Shape(r)
  BY <1>1, <1>2, <1>4, <1>5, <1>6 DEF Shape
<1>8. Mode(r) = "normal"
  BY <1>3, <1>4 DEF Mode, Top
<1> QED
  BY <1>7, <1>8 DEF r

\* A call has noted what it returns to.
LEMMA Called ==
  ASSUME NEW s, Shape(s), s.frames # <<>>, Top(s).is = "lua", NEW c \in BOOLEAN
  PROVE  LET r == [s EXCEPT !.frames[Len(s.frames)].called = c]
         IN  r = Push(Pop(s), LuaFrame(Top(s).bottom, c))
<1> DEFINE b == Top(s).bottom
           base == Pop(s).frames
           frames == [s.frames EXCEPT ![Len(s.frames)].called = c]
           r == [s EXCEPT !.frames[Len(s.frames)].called = c]
<1>1. /\ b \in Nat /\ base \in Seq(FrameType) /\ s \in ThreadType /\ Pop(s) \in ThreadType
      /\ s.frames = Append(base, LuaFrame(b, FALSE))
  BY LuaTop
<1>2. r = [s EXCEPT !.frames = frames] /\ Pop(s) = [s EXCEPT !.frames = Front(s.frames)]
  BY DEF Pop
<1> HIDE DEF b, base
<1> DEFINE before == LuaFrame(b, FALSE)
           after == LuaFrame(b, c)
<1>3. before \in FrameType /\ after \in FrameType /\ [before EXCEPT !.called = c] = after
  <2>1. before \in FrameType
    BY <1>1 DEF LuaFrame, FrameType
  <2>2. after \in FrameType
    BY <1>1, FrameTypes
  <2>3. [before EXCEPT !.called = c] = after
    BY <1>1, CalledFrame
  <2> QED
    BY <2>1, <2>2, <2>3
<1>0. s.frames = Append(base, before)
  BY <1>1
<1> HIDE DEF before, after
<1>4. s.frames[Len(s.frames)] = before
  <2>1. /\ Len(Append(base, before)) = Len(base) + 1
        /\ Append(base, before)[Len(base) + 1] = before
    BY <1>1, <1>3, AppendFacts
  <2> QED
    BY <1>0, <2>1
<1>5. frames = [s.frames EXCEPT ![Len(s.frames)] = after]
  <2>1. frames = [s.frames EXCEPT ![Len(s.frames)] = [s.frames[Len(s.frames)] EXCEPT !.called = c]]
    OBVIOUS
  <2> HIDE DEF frames
  <2> QED
    BY <1>3, <1>4, <2>1
<1> HIDE DEF frames, r
<1>6. frames = Append(base, after)
  <2>1. [Append(base, before) EXCEPT ![Len(Append(base, before))] = after] = Append(base, after)
    BY <1>1, <1>3, ExceptLast
  <2> QED
    BY <1>0, <1>5, <2>1
<1>7. Push(Pop(s), after) = [Pop(s) EXCEPT !.frames = frames]
  BY <1>6 DEF Push, base
<1>8. r = Push(Pop(s), after)
  BY <1>1, <1>2, <1>7 DEF ThreadType
<1> QED
  BY <1>8 DEF r, b, after

LEMMA LuaCallsShape ==
  ASSUME NEW s, Shape(s), s.frames # <<>>, Top(s).is = "lua",
         NEW n \in Nat, NEW f \in {"lua", "callback"}
  PROVE  LET r == PushCall([s EXCEPT !.frames[Len(s.frames)].called = TRUE], Top(s).bottom + 2, n, f)
         IN  Shape(r) /\ Mode(r) = "normal"
<1> DEFINE b == Top(s).bottom
           base == Pop(s).frames
           frame == LuaFrame(b, TRUE)
           r == [s EXCEPT !.frames[Len(s.frames)].called = TRUE]
<1>1. /\ b \in Nat /\ Base(base) /\ b = FloorOf(base) /\ base \in Seq(FrameType)
      /\ Pop(s) \in ThreadType /\ Pop(s).open = s.open
      /\ s.open \subseteq OpenIn(base) \cup {b + 1} /\ s.height = b + 1 + FrameSize
  BY LuaTop
<1>2. Pop(s).height = s.height
  BY LuaTop DEF Pop, ThreadType
<1>3. r = Push(Pop(s), frame)
  BY Called
<1> HIDE DEF r, b, base
<1>4. /\ frame \in FrameType /\ frame.is = "lua" /\ frame.called /\ frame.bottom = b
      /\ Above(frame) = b + 2
  BY <1>1 DEF LuaFrame, FrameType, Above
<1> HIDE DEF frame
<1>5. Answerable(frame)
  BY <1>4 DEF Answerable
<1>6. /\ r \in ThreadType /\ r.frames = Append(base, frame)
      /\ r.height = s.height /\ r.open = s.open
  BY <1>1, <1>2, <1>3, <1>4, PushFields DEF base
<1>7. Base(r.frames) /\ FloorOf(r.frames) = b + 2
  BY <1>1, <1>4, <1>5, <1>6, BaseAppend
<1>8. OpenIn(r.frames) = OpenIn(base) \cup {u \in Nat : u = b + 1}
  BY <1>1, <1>4, <1>6, OpenAppend
<1>9. r.open \subseteq OpenIn(r.frames)
  BY <1>1, <1>6, <1>8
<1>10. r.height >= b + 2
  BY <1>1, <1>6, SizeFacts
<1>11. Ready(r)
  BY <1>6, <1>7, <1>9, <1>10 DEF Ready
<1>12. Shape(PushCall(r, b + 2, n, f)) /\ Mode(PushCall(r, b + 2, n, f)) = "normal"
  BY <1>7, <1>11, PushCallShape
<1> QED
  BY <1>12 DEF r, b

\* The frame of a function that returns, is replaced or fails.
LEMMA LuaGone ==
  ASSUME NEW s, Shape(s), s.frames # <<>>, Top(s).is = "lua"
  PROVE  LET r == Cut(Pop(s), Top(s).bottom)
         IN  Ready(r) /\ FloorOf(r.frames) = Top(s).bottom
<1>1. /\ Base(Pop(s).frames) /\ Top(s).bottom = FloorOf(Pop(s).frames)
      /\ Pop(s) \in ThreadType /\ Pop(s).open = s.open
      /\ s.open \subseteq OpenIn(Pop(s).frames) \cup {Top(s).bottom + 1}
  BY LuaTop
<1> QED
  BY <1>1, CutReady

LEMMA LuaTailCallsShape ==
  ASSUME NEW s, Shape(s), s.frames # <<>>, Top(s).is = "lua",
         NEW n \in Nat, NEW f \in {"lua", "callback"}
  PROVE  LET b == Top(s).bottom
             r == PushCall(Cut(Pop(s), b), b, n, f)
         IN  Shape(r) /\ Mode(r) = "normal"
<1> DEFINE r == Cut(Pop(s), Top(s).bottom)
<1>1. Ready(r) /\ FloorOf(r.frames) = Top(s).bottom
  BY LuaGone
<1> HIDE DEF r
<1>2. /\ Shape(PushCall(r, FloorOf(r.frames), n, f))
      /\ Mode(PushCall(r, FloorOf(r.frames), n, f)) = "normal"
  BY <1>1, PushCallShape
<1> QED
  BY <1>1, <1>2 DEF r

LEMMA LuaReturnsShape ==
  ASSUME NEW s, Shape(s), s.frames # <<>>, Top(s).is = "lua", NEW n \in Nat
  PROVE  LET b == Top(s).bottom
             r == ReturnTo(Cut(Pop(s), b), b, n)
         IN  Shape(r) /\ Mode(r) \in {"normal", "result"}
<1> DEFINE r == Cut(Pop(s), Top(s).bottom)
<1>1. Ready(r) /\ FloorOf(r.frames) = Top(s).bottom
  BY LuaGone
<1> HIDE DEF r
<1>2. /\ Shape(ReturnTo(r, FloorOf(r.frames), n))
      /\ Mode(ReturnTo(r, FloorOf(r.frames), n)) \in {"normal", "result"}
  BY <1>1, ReturnToShape
<1> QED
  BY <1>1, <1>2 DEF r

LEMMA LuaFailsShape ==
  ASSUME NEW s, Shape(s), s.frames # <<>>, Top(s).is = "lua", NEW c \in BOOLEAN
  PROVE  LET r == Fail([s EXCEPT !.frames[Len(s.frames)].called = c])
         IN  Shape(r) /\ Mode(r) = "normal"
<1> DEFINE b == Top(s).bottom
           frame == LuaFrame(b, c)
           r == [s EXCEPT !.frames[Len(s.frames)].called = c]
<1>1. /\ b \in Nat /\ Base(Pop(s).frames) /\ b = FloorOf(Pop(s).frames)
      /\ Pop(s) \in ThreadType /\ Pop(s).frames \in Seq(FrameType) /\ Pop(s).open = s.open
      /\ s.open \subseteq OpenIn(Pop(s).frames) \cup {b + 1}
  BY LuaTop
<1>2. r = Push(Pop(s), frame)
  BY Called
<1>3. Bare("error") \in FrameType /\ Bare("error").is = "error"
  BY DEF Bare, FrameType
<1> HIDE DEF r, b
<1>4. frame \in FrameType /\ frame.is = "lua" /\ frame.bottom = b
  BY <1>1, FrameTypes DEF LuaFrame
<1>5. Covered(Pop(s), Pop(s).frames, frame, Bare("error"))
  BY <1>1 DEF Covered
<1> HIDE DEF frame
<1>6. OpenIn(Append(Pop(s).frames, frame)) = OpenIn(Pop(s).frames) \cup {u \in Nat : u = b + 1}
  BY <1>1, <1>4, OpenAppend
<1>7. Pop(s).open \subseteq OpenIn(Append(Pop(s).frames, frame))
  BY <1>1, <1>6
<1>8. Shape(Fail(r))
  BY <1>1, <1>2, <1>3, <1>4, <1>5, <1>7, PushTwoShape DEF Fail
<1>9. r \in ThreadType /\ r.frames # <<>>
  BY <1>1, <1>2, <1>4, PushFields
<1>10. Mode(Fail(r)) = "normal"
  BY <1>3, <1>9, ModeOfTop DEF Fail
<1> QED
  BY <1>8, <1>10 DEF r

-----------------------------------------------------------------------------
(* Errors.                                                                 *)

\* What an error does to the frame below it: base is what is below that.
LEMMA UnwoundOver ==
  ASSUME NEW s, NEW base \in Seq(FrameType), NEW below \in FrameType,
         s \in ThreadType, s.open \subseteq OpenIn(s.frames), Base(base),
         s.frames = Append(Append(base, below), Bare("error")),
         \/ \E c \in BOOLEAN : below = LuaFrame(FloorOf(base), c)
         \/ below = Sequence(FloorOf(base), FALSE) /\ s.height >= FloorOf(base)
         \/ below \in {Bare("yielded"), Bare("wait")} /\ s.height = FloorOf(base)
  PROVE  Shape(Unwound(s)) /\ Mode(Unwound(s)) \in {"normal", "result"}
<1> DEFINE b == FloorOf(base)
           t == Pop(s)
           q == Pop(t)
<1>1. Bare("error") \in FrameType /\ Bare("error").is = "error" /\ b \in Nat
  BY FloorNat DEF Bare, FrameType
<1>2. Append(base, below) \in Seq(FrameType)
  BY AppendFacts
<1>3. t \in ThreadType /\ t.frames = Append(base, below) /\ t.height = s.height /\ t.open = s.open
  BY <1>1, <1>2, PopFields
<1> HIDE DEF t
<1>4. /\ Top(t) = below /\ q \in ThreadType /\ q.frames = base
      /\ q.height = s.height /\ q.open = s.open
  BY <1>3, PopFields
<1>5. s.open \subseteq OpenIn(base) \cup {u \in Nat : below.is = "lua" /\ u = below.bottom + 1}
  <2>1. OpenIn(s.frames) = OpenIn(Append(base, below))
                             \cup {u \in Nat : Bare("error").is = "lua" /\ u = Bare("error").bottom + 1}
    BY <1>1, <1>2, OpenAppend
  <2>2. OpenIn(Append(base, below)) =
          OpenIn(base) \cup {u \in Nat : below.is = "lua" /\ u = below.bottom + 1}
    BY OpenAppend
  <2> QED
    BY <1>1, <2>1, <2>2
<1> HIDE DEF q, b
<1>6. CASE \E c \in BOOLEAN : below = LuaFrame(b, c)
  <2>1. below.is = "lua" /\ below.bottom = b
    BY <1>6 DEF LuaFrame
  <2>2. q.open \subseteq OpenIn(q.frames) \cup {FloorOf(q.frames) + 1}
    BY <1>4, <1>5, <2>1 DEF b
  <2> DEFINE r == Cut(q, FloorOf(q.frames))
  <2>3. Ready(r) /\ r.frames = q.frames /\ r.height = FloorOf(q.frames)
    BY <1>4, <2>2, CutReady
  <2>4. Unwound(s) = Fail(r)
    BY <1>4, <2>1 DEF Unwound, t, q, b
  <2> HIDE DEF r
  <2>5. r.frames = <<>> => r.height = 0
    BY <2>3, NoFrames
  <2> QED
    BY <2>3, <2>4, <2>5, FailShape
<1>7. CASE below = Sequence(b, FALSE) /\ s.height >= b
  <2>1. below.is = "sequence" /\ ~below.pending /\ below.bottom = b
    BY <1>7 DEF Sequence
  <2>2. q.open \subseteq OpenIn(q.frames)
    BY <1>4, <1>5, <2>1
  <2>3. Ready(q)
    BY <1>4, <1>7, <2>2 DEF Ready, b
  <2> DEFINE frame == Sequence(b, TRUE)
  <2>4. frame \in FrameType /\ frame.is = "sequence"
    BY <1>1 DEF Sequence, FrameType
  <2>5. Unwound(s) = Push(q, frame)
    BY <1>4, <2>1 DEF Unwound, t, q
  <2>6. Fits(q, q.frames, frame)
    BY <1>4, <1>7 DEF Fits, b
  <2> HIDE DEF frame
  <2>7. Shape(Push(q, frame)) /\ Mode(Push(q, frame)) = "normal"
    BY <1>4, <2>3, <2>4, <2>6, PushShape, ModeOfTop
  <2> QED
    BY <2>5, <2>7
<1>8. CASE below \in {Bare("yielded"), Bare("wait")} /\ s.height = b
  <2>1. below.is \in {"yielded", "wait"}
    BY <1>8 DEF Bare
  <2>2. q.open \subseteq OpenIn(q.frames)
    BY <1>4, <1>5, <2>1
  <2>3. Ready(q)
    BY <1>1, <1>4, <1>8, <2>2 DEF Ready, b
  <2>4. Unwound(s) = Fail(q)
    BY <1>4, <2>1 DEF Unwound, t, q
  <2>5. q.frames = <<>> => q.height = 0
    BY <1>4, <1>8, NoFrames DEF b
  <2> QED
    BY <2>3, <2>4, <2>5, FailShape
<1> QED
  BY <1>6, <1>7, <1>8 DEF b

LEMMA UnwoundShape ==
  ASSUME NEW s, Shape(s), Mode(s) = "normal", Top(s).is = "error"
  PROVE  Shape(Unwound(s)) /\ Mode(Unwound(s)) \in {"normal", "result"}
<1>1. s.frames # <<>> /\ Len(s.frames) # 1
  BY DEF Mode
<1>2. s \in ThreadType /\ s.open \subseteq OpenIn(s.frames)
  BY DEF Shape
<1>3. PICK base \in Seq(FrameType) :
        /\ Base(base)
        /\ \/ \E top \in FrameType : OneTop(s, base, top)
           \/ \E below \in FrameType, top \in FrameType : TwoTops(s, base, below, top)
  BY <1>1, ShapeCases
<1>4. ASSUME NEW top \in FrameType, OneTop(s, base, top)
      PROVE  Shape(Unwound(s)) /\ Mode(Unwound(s)) \in {"normal", "result"}
  <2>1. s.frames = Append(base, top)
    BY <1>4 DEF OneTop
  <2>2. Top(s) = top /\ Len(s.frames) = Len(base) + 1
    BY <1>2, <2>1, PopFields
  <2>3. base # <<>>
    <3>1. base = <<>> => Len(base) = 0
      OBVIOUS
    <3> QED
      BY <1>1, <2>2, <3>1
  <2>4. top = Bare("error") /\ s.height >= FloorOf(base)
    BY <1>4, <2>2 DEF OneTop, Fits, Lua, Callback, Sequence, Result, Bare
  <2> DEFINE front == Front(base)
             below == Last(base)
  <2>5. /\ Base(front) /\ base = Append(front, below) /\ below \in FrameType
        /\ Answerable(below) /\ below.bottom = FloorOf(front) /\ Above(below) = FloorOf(base)
        /\ front \in Seq(FrameType)
    BY <1>3, <2>3, BaseFront DEF Base
  <2> HIDE DEF front, below
  <2>6. \/ below = LuaFrame(FloorOf(front), TRUE)
        \/ below = Sequence(FloorOf(front), FALSE) /\ s.height >= FloorOf(front)
    BY <2>4, <2>5, AnswerableFrames
  <2>7. s.frames = Append(Append(front, below), Bare("error"))
    BY <2>1, <2>4, <2>5
  <2> QED
    BY <1>2, <2>5, <2>6, <2>7, UnwoundOver
<1>5. ASSUME NEW below \in FrameType, NEW top \in FrameType, TwoTops(s, base, below, top)
      PROVE  Shape(Unwound(s)) /\ Mode(Unwound(s)) \in {"normal", "result"}
  <2>1. s.frames = Append(Append(base, below), top) /\ Append(base, below) \in Seq(FrameType)
    BY <1>5, AppendFacts DEF TwoTops
  <2>2. Top(s) = top
    BY <1>2, <2>1, PopFields
  <2>3. /\ top = Bare("error")
        /\ \/ \E c \in BOOLEAN : below = LuaFrame(FloorOf(base), c)
           \/ below \in {Bare("yielded"), Bare("wait")} /\ s.height = FloorOf(base)
    BY <1>5, <2>2 DEF TwoTops, Covered, Result
  <2> QED
    BY <1>2, <1>3, <2>1, <2>3, UnwoundOver
<1> QED
  BY <1>3, <1>4, <1>5

-----------------------------------------------------------------------------
(* What callbacks and sequences come to.                                   *)

LEMMA ErrsShape ==
  ASSUME NEW s, Ready(s)
  PROVE  LET r == Fail(Put(s, FloorOf(s.frames)))
         IN  Shape(r) /\ Mode(r) \in {"normal", "result"}
<1> DEFINE q == Put(s, FloorOf(s.frames))
<1>1. FloorOf(s.frames) \in Nat
  BY FloorNat DEF Ready
<1>2. Ready(q) /\ q.frames = s.frames /\ q.height = FloorOf(s.frames)
  BY <1>1, PutReady
<1> HIDE DEF q
<1>3. q.frames = <<>> => q.height = 0
  BY <1>2, NoFrames
<1>4. Shape(Fail(q)) /\ Mode(Fail(q)) \in {"normal", "result"}
  BY <1>2, <1>3, FailShape
<1> QED
  BY <1>4 DEF q

LEMMA GoesOnShape ==
  ASSUME NEW s, Ready(s), NEW n \in Nat
  PROVE  LET b == FloorOf(s.frames)
             r == Put(Then(s, b, TRUE), b + n)
         IN  Shape(r) /\ Mode(r) = "normal"
<1> DEFINE b == FloorOf(s.frames)
           h == b + n
           q == Put(s, h)
           frame == Sequence(b, FALSE)
           r == Put(Then(s, b, TRUE), h)
<1>1. b \in Nat
  BY FloorNat DEF Ready
<1>2. h \in Nat /\ h >= b
  BY <1>1
<1>3. /\ Ready(q) /\ q.frames = s.frames /\ q.height = h /\ q.open = s.open
      /\ q \in ThreadType /\ s \in ThreadType
  BY <1>2, PutReady DEF Ready
<1>4. frame \in FrameType /\ frame.is = "sequence"
  BY <1>1 DEF Sequence, FrameType
<1>5. r = Push(q, frame)
  BY <1>3 DEF Then, Push, Put, ThreadType
<1>6. Fits(q, q.frames, frame)
  BY <1>2, <1>3 DEF Fits
<1> HIDE DEF q, r, frame
<1>7. Shape(r) /\ Mode(r) = "normal"
  BY <1>3, <1>4, <1>5, <1>6, PushShape, ModeOfTop
<1> QED
  BY <1>7 DEF r

LEMMA CallsShape ==
  ASSUME NEW s, Ready(s), NEW n \in Nat, NEW then \in BOOLEAN, NEW f \in {"lua", "callback"}
  PROVE  LET b == FloorOf(s.frames)
             r == PushCall(Then(s, b, then), b, n, f)
         IN  Shape(r) /\ Mode(r) = "normal"
<1> DEFINE b == FloorOf(s.frames)
           q == Then(s, b, then)
<1>1. Ready(q) /\ FloorOf(q.frames) = b
  BY ThenReady
<1> HIDE DEF q
<1>2. Shape(PushCall(q, FloorOf(q.frames), n, f)) /\ Mode(PushCall(q, FloorOf(q.frames), n, f)) = "normal"
  BY <1>1, PushCallShape
<1> QED
  BY <1>1, <1>2 DEF q

\* A thread that yields to another, or waits for it; it cannot, and fails.
LEMMA WaitingShape ==
  ASSUME NEW s, Ready(s), NEW then \in BOOLEAN, NEW kind \in {"yielded", "wait"}
  PROVE  LET b == FloorOf(s.frames)
             r == Push(Put(Then(s, b, then), b), Bare(kind))
         IN  /\ Shape(r) /\ Mode(r) = (IF kind = "wait" THEN "waiting" ELSE "suspended")
             /\ Shape(Fail(r)) /\ Mode(Fail(r)) = "normal"
             /\ Len(r.frames) \in Nat \ {0}
<1> DEFINE b == FloorOf(s.frames)
           t == Then(s, b, then)
           q == Put(t, b)
           frame == Bare(kind)
           r == Push(q, frame)
<1>1. b \in Nat
  BY FloorNat DEF Ready
<1>2. Ready(t) /\ FloorOf(t.frames) = b
  BY ThenReady
<1> HIDE DEF t, b
<1>3. /\ Ready(q) /\ q.frames = t.frames /\ q.height = b /\ FloorOf(q.frames) = b
  BY <1>1, <1>2, PutReady
<1>4. /\ q \in ThreadType /\ q.frames \in Seq(FrameType) /\ Base(q.frames)
      /\ q.open \subseteq OpenIn(q.frames)
  BY <1>3 DEF Ready, Base
<1>5. /\ frame \in FrameType /\ frame.is = kind
      /\ Bare("error") \in FrameType /\ Bare("error").is = "error"
  BY DEF Bare, FrameType
<1>6. Fits(q, q.frames, frame)
  BY <1>3 DEF Fits
<1>7. Covered(q, q.frames, frame, Bare("error"))
  BY <1>3 DEF Covered
<1> HIDE DEF q, frame
<1>8. Shape(r)
  BY <1>3, <1>5, <1>6, PushShape
<1>9. Mode(r) = (IF kind = "wait" THEN "waiting" ELSE "suspended")
  BY <1>4, <1>5, ModeOfTop
<1>10. q.open \subseteq OpenIn(Append(q.frames, frame))
  BY <1>4, <1>5, OpenAppend
<1>11. Shape(Fail(r))
  BY <1>4, <1>5, <1>7, <1>10, PushTwoShape DEF Fail
<1>12. r \in ThreadType /\ r.frames # <<>> /\ Len(r.frames) \in Nat \ {0}
  BY <1>4, <1>5, PushFields
<1> HIDE DEF r
<1>13. Mode(Fail(r)) = "normal"
  BY <1>5, <1>12, ModeOfTop DEF Fail
<1> QED
  BY <1>8, <1>9, <1>11, <1>12, <1>13 DEF r, q, t, b, frame

LEMMA YieldsShape ==
  ASSUME NEW s, Ready(s), NEW then \in BOOLEAN, NEW n \in Nat
  PROVE  LET b == FloorOf(s.frames)
             r == Push(Push(Put(Then(s, b, then), b + n), Bare("yielded")), Result(b))
         IN  Shape(r) /\ Mode(r) = "result"
<1> DEFINE b == FloorOf(s.frames)
           t == Then(s, b, then)
           h == b + n
           q == Put(t, h)
           frame == Bare("yielded")
           top == Result(b)
<1>1. b \in Nat
  BY FloorNat DEF Ready
<1>2. Ready(t) /\ FloorOf(t.frames) = b
  BY ThenReady
<1> HIDE DEF t, b
<1>3. h \in Nat /\ h >= b
  BY <1>1
<1>4. /\ Ready(q) /\ q.frames = t.frames /\ q.height = h /\ FloorOf(q.frames) = b
  BY <1>2, <1>3, PutReady
<1>5. /\ q \in ThreadType /\ q.frames \in Seq(FrameType) /\ Base(q.frames)
      /\ q.open \subseteq OpenIn(q.frames)
  BY <1>4 DEF Ready, Base
<1>6. frame \in FrameType /\ top \in FrameType /\ top.is = "result"
  BY <1>1 DEF Bare, Result, FrameType
<1>7. Covered(q, q.frames, frame, top)
  BY <1>3, <1>4 DEF Covered
<1> HIDE DEF q, frame, top
<1>8. q.open \subseteq OpenIn(Append(q.frames, frame))
  BY <1>5, <1>6, OpenAppend
<1>9. Shape(Push(Push(q, frame), top))
  BY <1>5, <1>6, <1>7, <1>8, PushTwoShape
<1>10. Mode(Push(Push(q, frame), top)) = "result"
  BY <1>5, <1>6, PushFields, ModeOfTop
<1> QED
  BY <1>9, <1>10 DEF q, t, b, frame, top

-----------------------------------------------------------------------------
(* Threads that are resumed, taken from, or answered.                      *)

\* A thread that does not run, without its last frame.
LEMMA SuspendedTop ==
  ASSUME NEW s, Shape(s), s.frames # <<>>, Top(s).is \in {"start", "yielded", "wait"}
  PROVE  /\ Ready(Pop(s)) /\ s.height = FloorOf(Pop(s).frames) /\ Pop(s).height = s.height
         /\ Len(s.frames) = Len(Pop(s).frames) + 1
         /\ Top(s).is = "start" => Pop(s) = Stopped
<1> DEFINE top == Top(s)
<1>1. PICK base \in Seq(FrameType) : Base(base) /\ top \in FrameType /\ OneTop(s, base, top)
  BY OneOrTwo
<1>2. s \in ThreadType /\ s.open \subseteq OpenIn(s.frames)
  BY DEF Shape
<1>3. /\ s.frames = Append(base, top) /\ Pop(s) \in ThreadType /\ Len(s.frames) = Len(base) + 1
      /\ Pop(s).frames = base /\ Pop(s).open = s.open /\ Pop(s).height = s.height
  BY <1>1, <1>2, PopFields DEF OneTop
<1>4. top.is \in {"start", "yielded", "wait"}
  OBVIOUS
<1> DEFINE b == FloorOf(base)
<1>5. b \in Nat
  BY <1>1, FloorNat
<1>6. s.height = b /\ (top.is = "start" => base = <<>>)
  <2>1. base = <<>> => b = 0
    BY NoFrames
  <2> QED
    BY <1>1, <1>4, <2>1 DEF OneTop, Fits, Lua, Callback, Sequence, Result, Bare
<1>7. OpenIn(s.frames) = OpenIn(base)
  <2> HIDE DEF b, top
  <2>1. OpenIn(s.frames) = OpenIn(base) \cup {u \in Nat : top.is = "lua" /\ u = top.bottom + 1}
    BY <1>1, <1>3, OpenAppend
  <2> QED
    BY <1>4, <2>1
<1>8. Ready(Pop(s))
  BY <1>1, <1>2, <1>3, <1>5, <1>6, <1>7 DEF Ready
<1>9. ASSUME top.is = "start" PROVE Pop(s) = Stopped
  <2>1. base = <<>> /\ s.height = 0 /\ s.open = {}
    BY <1>2, <1>6, <1>7, <1>9, NoFrames
  <2>2. Pop(s) = [frames |-> Pop(s).frames, height |-> Pop(s).height, open |-> Pop(s).open]
    BY <1>3, ThreadFields
  <2> QED
    BY <1>3, <2>1, <2>2 DEF Stopped
<1> QED
  BY <1>3, <1>6, <1>8, <1>9

LEMMA ResumedShape ==
  ASSUME NEW s, Shape(s), Mode(s) = "suspended", NEW n \in Nat, NEW f \in {"lua", "callback"}
  PROVE  Shape(Resumed(s, n, f)) /\ Mode(Resumed(s, n, f)) \in {"normal", "result"}
<1>1. s.frames # <<>> /\ Top(s).is \in {"start", "yielded"}
  BY DEF Mode
<1> DEFINE t == Pop(s)
<1>2. /\ Ready(t) /\ s.height = FloorOf(t.frames)
      /\ Top(s).is = "start" => t = Stopped
  BY <1>1, SuspendedTop
<1>3. CASE Top(s).is = "start"
  <2>1. t = Stopped /\ Resumed(s, n, f) = PushCall(Stopped, 0, n, f)
    BY <1>2, <1>3 DEF Resumed
  <2>2. Ready(Stopped) /\ FloorOf(Stopped.frames) = 0
    BY NoFrames DEF Stopped
  <2>3. Shape(PushCall(Stopped, 0, n, f)) /\ Mode(PushCall(Stopped, 0, n, f)) = "normal"
    BY <2>2, PushCallShape
  <2> QED
    BY <2>1, <2>3
<1>4. CASE Top(s).is = "yielded"
  <2>1. Resumed(s, n, f) = ReturnTo(t, FloorOf(t.frames), n)
    BY <1>2, <1>4 DEF Resumed
  <2> HIDE DEF t
  <2>2. /\ Shape(ReturnTo(t, FloorOf(t.frames), n))
        /\ Mode(ReturnTo(t, FloorOf(t.frames), n)) \in {"normal", "result"}
    BY <1>2, ReturnToShape
  <2> QED
    BY <2>1, <2>2
<1> QED
  BY <1>1, <1>3, <1>4

\* The host resumes it with an error.
LEMMA ResumedErrShape ==
  ASSUME NEW s, Shape(s), Mode(s) = "suspended"
  PROVE  Shape(Fail(Pop(s))) /\ Mode(Fail(Pop(s))) \in {"normal", "result"}
<1>1. s.frames # <<>> /\ Top(s).is \in {"start", "yielded"}
  BY DEF Mode
<1>2. Ready(Pop(s)) /\ Pop(s).height = FloorOf(Pop(s).frames)
  BY <1>1, SuspendedTop
<1>3. Pop(s).frames = <<>> => Pop(s).height = 0
  BY <1>2, NoFrames
<1> QED
  BY <1>2, <1>3, FailShape

LEMMA FailFields ==
  /\ Fail(Stopped) = [frames |-> <<Bare("error")>>, height |-> 0, open |-> {}]
  /\ Top(Fail(Stopped)) = Bare("error") /\ Bare("error").is = "error"
<1>1. Bare("error") \in FrameType /\ Bare("error").is = "error" /\ Stopped \in ThreadType
  BY NoFrames DEF Bare, FrameType
<1> DEFINE e == Bare("error")
           r == Push(Stopped, e)
<1> HIDE DEF e
<1>2. /\ r \in ThreadType /\ r.frames = Append(<<>>, e) /\ r.height = 0 /\ r.open = {}
      /\ Top(r) = e
  BY <1>1, PushFields DEF Stopped, e
<1>3. Append(<<>>, e) = <<e>>
  OBVIOUS
<1> HIDE DEF r
<1>4. r = [frames |-> <<e>>, height |-> 0, open |-> {}]
  BY <1>2, <1>3, ThreadFields
<1> QED
  BY <1>1, <1>2, <1>4 DEF Fail, r, e

LEMMA TakenShape ==
  ASSUME NEW s, Shape(s), Mode(s) = "result"
  PROVE  /\ Shape(Taken(s)) /\ Mode(Taken(s)) \in {"stopped", "suspended"}
         /\ Given(s) \in Nat
<1>1. s.frames # <<>> /\ (Top(s).is = "result" \/ (Top(s).is = "error" /\ Len(s.frames) = 1))
  BY DEF Mode
<1>2. s \in ThreadType /\ s.open \subseteq OpenIn(s.frames) /\ s.height \in Nat
  BY ThreadFields DEF Shape
<1>0. Mode(Stopped) = "stopped"
  BY DEF Mode, Stopped
<1>3. PICK base \in Seq(FrameType) :
        /\ Base(base)
        /\ \/ \E top \in FrameType : OneTop(s, base, top)
           \/ \E below \in FrameType, top \in FrameType : TwoTops(s, base, below, top)
  BY <1>1, ShapeCases
<1>4. FloorOf(base) \in Nat
  BY <1>3, FloorNat
<1>5. ASSUME NEW top \in FrameType, OneTop(s, base, top)
      PROVE  /\ Shape(Taken(s)) /\ Mode(Taken(s)) \in {"stopped", "suspended"}
             /\ Given(s) \in Nat
  <2>1. s.frames = Append(base, top)
    BY <1>5 DEF OneTop
  <2>2. /\ Top(s) = top /\ Len(s.frames) = Len(base) + 1 /\ Pop(s) \in ThreadType
        /\ Pop(s).frames = base /\ Pop(s).height = s.height /\ Pop(s).open = s.open
    BY <1>2, <2>1, PopFields
  <2>3. base = <<>>
    <3>1. CASE top.is = "result"
      BY <1>5, <3>1 DEF OneTop, Fits, Lua, Callback, Sequence, Bare
    <3>2. CASE Len(s.frames) = 1
      <4> DEFINE n == Len(base)
      <4>1. n \in Nat /\ (n = 0 => base = <<>>)
        OBVIOUS
      <4>2. 1 = n + 1
        BY <2>2, <3>2
      <4> HIDE DEF n
      <4> QED
        BY <4>1, <4>2
    <3> QED
      BY <1>1, <2>2, <3>1, <3>2
  <2>4. s.open = {}
    <3>1. OpenIn(s.frames) = {u \in Nat : top.is = "lua" /\ u = top.bottom + 1}
      BY <2>1, <2>3, OpenAppend, NoFrames
    <3> QED
      BY <1>1, <1>2, <2>2, <3>1
  <2>5. CASE top.is = "result"
    <3>1. top.bottom = 0
      BY <1>5, <2>5 DEF OneTop, Fits, Lua, Callback, Sequence, Bare, Result
    <3>2. Taken(s) = Put(Pop(s), 0)
      BY <2>2, <2>5, <3>1, FailFields DEF Taken
    <3>3. Put(Pop(s), 0) = Stopped
      <4> DEFINE q == Put(Pop(s), 0)
      <4>1. q \in ThreadType /\ q.frames = <<>> /\ q.height = 0 /\ q.open = {}
        BY <2>2, <2>3, <2>4 DEF Put, ThreadType
      <4> HIDE DEF q
      <4>2. q = [frames |-> <<>>, height |-> 0, open |-> {}]
        BY <4>1, ThreadFields
      <4> QED
        BY <4>2 DEF Stopped, q
    <3>4. Given(s) = s.height - 0
      BY <2>2, <2>5, <3>1 DEF Given
    <3> QED
      BY <1>0, <1>2, <3>2, <3>3, <3>4, NoFrames
  <2>6. CASE top.is = "error"
    <3>1. top = Bare("error") /\ s.height = 0
      BY <1>5, <2>3, <2>6 DEF OneTop, Fits, Lua, Callback, Sequence, Bare, Result
    <3>2. s = [frames |-> Append(<<>>, Bare("error")), height |-> 0, open |-> {}]
      BY <1>2, <2>1, <2>3, <2>4, <3>1, ThreadFields
    <3>3. s = Fail(Stopped)
      <4>1. Append(<<>>, Bare("error")) = <<Bare("error")>>
        OBVIOUS
      <4> QED
        BY <3>2, <4>1, FailFields
    <3>4. Taken(s) = Stopped /\ Given(s) = 0
      BY <2>2, <2>6, <3>3 DEF Taken, Given
    <3> QED
      BY <1>0, <3>4, NoFrames
  <2> QED
    BY <1>1, <2>2, <2>5, <2>6
<1>6. ASSUME NEW below \in FrameType, NEW top \in FrameType, TwoTops(s, base, below, top)
      PROVE  /\ Shape(Taken(s)) /\ Mode(Taken(s)) \in {"stopped", "suspended"}
             /\ Given(s) \in Nat
  <2> DEFINE b == FloorOf(base)
             waits == Append(base, below)
             r == Put(Pop(s), b)
  <2>1. s.frames = Append(waits, top) /\ waits \in Seq(FrameType)
    BY <1>6, AppendFacts DEF TwoTops
  <2>2. waits # <<>> /\ Len(waits) = Len(base) + 1 /\ Len(base) \in Nat /\ Last(waits) = below
    BY AppendFacts
  <2> HIDE DEF waits
  <2>3. /\ Top(s) = top /\ Len(s.frames) = Len(waits) + 1 /\ Pop(s) \in ThreadType
        /\ Pop(s).frames = waits /\ Pop(s).height = s.height /\ Pop(s).open = s.open
    BY <1>2, <2>1, PopFields
  <2>4. Len(s.frames) # 1
    BY <2>2, <2>3
  <2>5. top = Result(b) /\ below = Bare("yielded") /\ s.height >= b
    BY <1>1, <1>6, <2>3, <2>4 DEF TwoTops, Covered, Bare
  <2>6. top.is = "result" /\ top.bottom = b /\ below.is = "yielded"
    BY <2>5 DEF Result, Bare
  <2>7. Taken(s) = r /\ Given(s) = s.height - b
    BY <2>3, <2>6, FailFields DEF Taken, Given
  <2>8. r \in ThreadType /\ r.frames = waits /\ r.height = b /\ r.open = s.open
    BY <1>4, <2>3 DEF Put, ThreadType
  <2> HIDE DEF r
  <2>9. OpenIn(s.frames) = OpenIn(waits)
    <3>1. OpenIn(s.frames) = OpenIn(waits) \cup {u \in Nat : top.is = "lua" /\ u = top.bottom + 1}
      BY <2>1, OpenAppend
    <3> QED
      BY <2>6, <3>1
  <2>10. OneTop(r, base, below)
    BY <2>5, <2>8 DEF OneTop, Fits, waits
  <2>11. Shape(r)
    BY <1>2, <1>3, <2>8, <2>9, <2>10 DEF Shape
  <2>12. Mode(r) = "suspended"
    BY <2>2, <2>6, <2>8 DEF Mode, Top
  <2> QED
    BY <1>2, <1>4, <2>5, <2>7, <2>11, <2>12
<1> QED
  BY <1>3, <1>5, <1>6

\* A thread that waits, with more than the frame that says so, runs on.
LEMMA SettledShape ==
  ASSUME NEW low, Shape(low), Mode(low) = "waiting", Len(low.frames) > 1,
         NEW done, Shape(done), Mode(done) = "result"
  PROVE  Shape(Settled(low, done)) /\ Mode(Settled(low, done)) = "normal"
<1>1. low.frames # <<>> /\ Top(low).is = "wait"
  BY DEF Mode
<1> DEFINE t == Pop(low)
           n == Given(done)
<1>2. /\ Ready(t) /\ low.height = FloorOf(t.frames) /\ t.height = low.height
      /\ Len(low.frames) = Len(t.frames) + 1
  BY <1>1, SuspendedTop
<1>3. t.frames # <<>>
  <2>1. t.frames = <<>> => Len(t.frames) = 0
    OBVIOUS
  <2> QED
    BY <1>2, <2>1
<1>4. n \in Nat
  BY TakenShape
<1>5. Settled(low, done) \in {Fail(t), ReturnTo(t, FloorOf(t.frames), n)}
  BY <1>2 DEF Settled
<1> HIDE DEF t, n
<1>6. Shape(Fail(t)) /\ Mode(Fail(t)) = "normal"
  BY <1>2, <1>3, FailShape
<1>7. /\ Shape(ReturnTo(t, FloorOf(t.frames), n))
      /\ Mode(ReturnTo(t, FloorOf(t.frames), n)) = "normal"
  BY <1>2, <1>3, <1>4, ReturnToShape
<1> QED
  BY <1>5, <1>6, <1>7

-----------------------------------------------------------------------------
(* That a thread of this shape is sound.                                   *)

LEMMA OneTopNested ==
  ASSUME NEW s \in ThreadType, NEW base \in Seq(FrameType), Base(base),
         NEW top \in FrameType, OneTop(s, base, top), s.open \subseteq OpenIn(s.frames)
  PROVE  Nested(s)
<1> DEFINE n == Len(base)
           fs == s.frames
<1>1. s.frames = Append(base, top) /\ Fits(s, base, top)
  BY DEF OneTop
<1>2. /\ n \in Nat /\ Len(fs) = n + 1 /\ DOMAIN fs = 1..(n + 1) /\ DOMAIN base = 1..n
      /\ \A i \in 1..n : fs[i] = base[i]
      /\ fs[n + 1] = top /\ fs # <<>>
  BY <1>1, AppendFacts
<1>3. Top(s) = top
  BY <1>1, PopFields
<1>4. \A i \in DOMAIN base : Answerable(base[i]) /\ base[i].bottom = FloorAt(base, i - 1)
  BY DEF Base
<1>5. FloorOf(base) \in Nat /\ FloorOf(base) = FloorAt(base, n)
  BY FloorNat DEF FloorOf
<1>6. (n = 0 <=> base = <<>>)
  OBVIOUS
<1> HIDE DEF n, fs
<1>7. \A i \in 0..n : Floor(s, i) = FloorAt(base, i)
  BY <1>2 DEF Floor, FloorAt, fs
<1>8. Floor(s, n) = FloorOf(base)
  BY <1>2, <1>5, <1>7
<1>9. top.is \in {"lua", "callback", "sequence"} => top.bottom = FloorOf(base)
  BY <1>1 DEF Fits, Lua, Callback, Sequence, Result, Bare
<1>10. \A i \in DOMAIN fs :
         fs[i].is \in {"lua", "callback", "sequence"} => fs[i].bottom = Floor(s, i - 1)
  <2> TAKE i \in DOMAIN fs
  <2>1. CASE i \in 1..n
    <3>1. fs[i] = base[i] /\ i - 1 \in 0..n /\ i \in DOMAIN base
      BY <1>2, <2>1
    <3> QED
      BY <1>4, <1>7, <3>1
  <2>2. CASE i = n + 1
    <3>1. fs[i] = top /\ i - 1 = n
      BY <1>2, <2>2
    <3> QED
      BY <1>8, <1>9, <3>1
  <2> QED
    BY <1>2, <2>1, <2>2
<1>11. Waiting(s) \in Int /\ Waiting(s) <= n /\ (top.is # "error" => Waiting(s) = n)
  <2>1. top.is = "result" => n = 0
    BY <1>1, <1>6 DEF Fits, Lua, Callback, Sequence, Bare
  <2>2. top.is # "error" => ~Covers(s)
    BY <1>2, <1>3, <2>1 DEF Covers, fs
  <2> QED
    BY <1>2, <2>2 DEF Waiting, fs
<1>12. \A i \in 1 .. Waiting(s) : Answerable(fs[i])
  BY <1>2, <1>4, <1>11
<1>13. top.is = "start" => s = Push(Stopped, Bare("start"))
  <2> SUFFICES ASSUME top.is = "start" PROVE s = Push(Stopped, Bare("start"))
    OBVIOUS
  <2>1. top = Bare("start") /\ base = <<>> /\ s.height = 0
    BY <1>1 DEF Fits, Lua, Callback, Sequence, Result, Bare
  <2>2. s.open = {}
    <3>1. OpenIn(s.frames) = {u \in Nat : top.is = "lua" /\ u = top.bottom + 1}
      BY <1>1, <2>1, OpenAppend, NoFrames
    <3> QED
      BY <3>1
  <2> DEFINE r == Push(Stopped, top)
  <2>3. r \in ThreadType /\ r.frames = Append(<<>>, top) /\ r.height = 0 /\ r.open = {}
    BY NoFrames, PushFields DEF Stopped
  <2> HIDE DEF r
  <2>4. r = s
    BY <1>1, <2>1, <2>2, <2>3, ThreadFields
  <2> QED
    BY <2>1, <2>4 DEF r
<1>14. Floor(s, Waiting(s)) = FloorOf(base) \/ top.is = "error"
  BY <1>8, <1>11
<1>15. CASE top.is = "error"
  BY <1>3, <1>10, <1>12, <1>15 DEF Nested, fs
<1>16. CASE top.is = "lua"
  <2>1. ~top.called /\ s.height = top.bottom + 1 + FrameSize
    BY <1>1, <1>9, <1>16 DEF Fits, Lua, Callback, Sequence, Result, Bare
  <2> QED
    BY <1>3, <1>10, <1>12, <1>16, <2>1 DEF Nested, fs
<1>17. CASE top.is \in {"callback", "sequence"}
  <2>1. s.height >= top.bottom
    BY <1>1, <1>9, <1>17 DEF Fits, Lua, Callback, Sequence, Result, Bare
  <2> QED
    BY <1>3, <1>10, <1>12, <1>17, <2>1 DEF Nested, fs
<1>18. CASE top.is = "result"
  <2>1. top.bottom = 0 /\ base = <<>> /\ s.height >= 0
    BY <1>1, <1>18, ThreadFields DEF Fits, Lua, Callback, Sequence, Result, Bare
  <2>2. FloorOf(base) = 0
    BY <2>1, NoFrames
  <2> QED
    BY <1>3, <1>10, <1>12, <1>14, <1>18, <2>1, <2>2 DEF Nested, fs
<1>19. CASE top.is = "start"
  BY <1>3, <1>10, <1>12, <1>13, <1>19 DEF Nested, fs
<1>20. CASE top.is \in {"yielded", "wait"}
  <2>1. s.height = FloorOf(base)
    BY <1>1, <1>20 DEF Fits, Lua, Callback, Sequence, Result, Bare
  <2> QED
    BY <1>3, <1>10, <1>12, <1>14, <1>20, <2>1 DEF Nested, fs
<1>21. top.is \in {"error", "lua", "callback", "sequence", "result", "start", "yielded", "wait"}
  BY DEF FrameType
<1> QED
  BY <1>15, <1>16, <1>17, <1>18, <1>19, <1>20, <1>21

LEMMA TwoTopsNested ==
  ASSUME NEW s \in ThreadType, NEW base \in Seq(FrameType), Base(base),
         NEW below \in FrameType, NEW top \in FrameType, TwoTops(s, base, below, top)
  PROVE  Nested(s)
<1> DEFINE n == Len(base)
           waits == Append(base, below)
           fs == s.frames
<1>1. s.frames = Append(waits, top) /\ Covered(s, base, below, top)
  BY DEF TwoTops
<1>2. /\ n \in Nat /\ Len(waits) = n + 1 /\ DOMAIN base = 1..n /\ waits \in Seq(FrameType)
      /\ \A i \in 1..n : waits[i] = base[i]
      /\ waits[n + 1] = below
  BY AppendFacts
<1>3. \A i \in DOMAIN base : Answerable(base[i]) /\ base[i].bottom = FloorAt(base, i - 1)
  BY DEF Base
<1>4. FloorOf(base) \in Nat /\ FloorOf(base) = FloorAt(base, n)
  BY FloorNat DEF FloorOf
<1> HIDE DEF n, waits
<1>5. Top(s) = top
  BY <1>1, <1>2, PopFields
<1>6. /\ Len(fs) = Len(waits) + 1 /\ DOMAIN fs = 1..(Len(waits) + 1)
      /\ \A i \in 1..Len(waits) : fs[i] = waits[i]
      /\ fs[Len(waits) + 1] = top
  BY <1>1, <1>2, AppendFacts
<1> HIDE DEF fs
<1>7. /\ Len(fs) = n + 2 /\ DOMAIN fs = 1..(n + 2) /\ \A i \in 1..n : fs[i] = base[i]
      /\ fs[n + 1] = below /\ fs[n + 2] = top
  BY <1>2, <1>6
<1>8. \A i \in 0..n : Floor(s, i) = FloorAt(base, i)
  BY <1>2, <1>7 DEF Floor, FloorAt, fs
<1>9. Floor(s, n) = FloorOf(base)
  BY <1>2, <1>4, <1>8
<1>10. /\ below.is = "lua" => below.bottom = FloorOf(base)
       /\ below.is \in {"lua", "yielded", "wait"}
       /\ top.is \in {"error", "result"} /\ (top.is = "result" => below.is = "yielded")
       /\ top.is = "result" => top.bottom = FloorOf(base) /\ s.height >= FloorOf(base)
  BY <1>1 DEF Covered, LuaFrame, Bare, Result
<1>11. \A i \in DOMAIN fs :
         fs[i].is \in {"lua", "callback", "sequence"} => fs[i].bottom = Floor(s, i - 1)
  <2> TAKE i \in DOMAIN fs
  <2>1. CASE i \in 1..n
    <3>1. fs[i] = base[i] /\ i - 1 \in 0..n /\ i \in DOMAIN base
      BY <1>2, <1>7, <2>1
    <3> QED
      BY <1>3, <1>8, <3>1
  <2>2. CASE i = n + 1
    <3>1. fs[i] = below /\ i - 1 = n
      BY <1>2, <1>7, <2>2
    <3> QED
      BY <1>9, <1>10, <3>1
  <2>3. CASE i = n + 2
    BY <1>7, <1>10, <2>3
  <2> QED
    BY <1>2, <1>7, <2>1, <2>2, <2>3
<1>12. Covers(s)
  <2>1. fs[Len(fs) - 1] = below /\ Len(fs) > 1
    BY <1>2, <1>7
  <2> QED
    BY <1>5, <1>10, <2>1 DEF Covers, fs
<1>13. Waiting(s) = n
  BY <1>2, <1>7, <1>12 DEF Waiting, fs
<1>14. \A i \in 1 .. Waiting(s) : Answerable(fs[i])
  BY <1>2, <1>3, <1>7, <1>13
<1> QED
  BY <1>5, <1>9, <1>10, <1>11, <1>13, <1>14 DEF Nested, fs

LEMMA ShapeSound == ASSUME NEW s, Shape(s) PROVE Sound(s)
<1>1. s \in ThreadType /\ s.open \subseteq OpenIn(s.frames)
  BY DEF Shape
<1>2. s.frames = <<>> => s = Stopped
  <2> SUFFICES ASSUME s # Stopped PROVE s.frames # <<>>
    OBVIOUS
  <2>1. PICK base \in Seq(FrameType) :
          \/ \E top \in FrameType : OneTop(s, base, top)
          \/ \E below \in FrameType, top \in FrameType : TwoTops(s, base, below, top)
    BY DEF Shape
  <2>2. ASSUME NEW top \in FrameType, OneTop(s, base, top) PROVE s.frames # <<>>
    BY <2>2, AppendFacts DEF OneTop
  <2>3. ASSUME NEW below \in FrameType, NEW top \in FrameType, TwoTops(s, base, below, top)
        PROVE  s.frames # <<>>
    <3>1. Append(base, below) \in Seq(FrameType)
      BY AppendFacts
    <3> QED
      BY <2>3, <3>1, AppendFacts DEF TwoTops
  <2> QED
    BY <2>1, <2>2, <2>3
<1>3. ASSUME s.frames # <<>> PROVE Nested(s)
  <2>1. PICK base \in Seq(FrameType) :
          /\ Base(base)
          /\ \/ \E top \in FrameType : OneTop(s, base, top)
             \/ \E below \in FrameType, top \in FrameType : TwoTops(s, base, below, top)
    BY <1>3, ShapeCases
  <2> QED
    BY <1>1, <2>1, OneTopNested, TwoTopsNested
<1>4. \A i \in s.open : \E frame \in Range(s.frames) : frame.is = "lua" /\ i = frame.bottom + 1
  BY <1>1 DEF OpenIn, Range
<1> QED
  BY <1>2, <1>3, <1>4 DEF Sound

-----------------------------------------------------------------------------
(* The chain of threads.                                                   *)

\* Threads that wait, each for the next.
Waits(low, states) ==
  /\ low \in Seq(Thread)
  /\ \A i, j \in DOMAIN low : low[i] = low[j] => i = j
  /\ \A i \in DOMAIN low : Mode(states[low[i]]) = "waiting" /\ Len(states[low[i]].frames) > 1

LEMMA RangeAppend ==
  ASSUME NEW S, NEW low \in Seq(S), NEW t \in S
  PROVE  Range(Append(low, t)) = Range(low) \cup {t} /\ Range(low) \subseteq S
<1> DEFINE c == Append(low, t)
<1>1. /\ DOMAIN c = 1..(Len(low) + 1) /\ DOMAIN low = 1..Len(low) /\ Len(low) \in Nat
      /\ \A i \in 1..Len(low) : c[i] = low[i]
      /\ c[Len(low) + 1] = t
  BY AppendFacts
<1> HIDE DEF c
<1>2. 1..(Len(low) + 1) = (1..Len(low)) \cup {Len(low) + 1}
  BY <1>1
<1>3. Range(c) = Range(low) \cup {t}
  BY <1>1, <1>2 DEF Range
<1>4. Range(low) \subseteq S
  BY <1>1 DEF Range
<1> QED
  BY <1>3, <1>4 DEF c

LEMMA WaitsAppend ==
  ASSUME NEW low, NEW f, Waits(low, f), NEW t \in Thread, t \notin Range(low),
         Mode(f[t]) = "waiting", Len(f[t].frames) > 1
  PROVE  Waits(Append(low, t), f)
<1> DEFINE c == Append(low, t)
           n == Len(low)
<1>1. low \in Seq(Thread)
  BY DEF Waits
<1>2. /\ c \in Seq(Thread) /\ DOMAIN c = 1..(n + 1) /\ DOMAIN low = 1..n /\ n \in Nat
      /\ \A i \in 1..n : c[i] = low[i]
      /\ c[n + 1] = t
  BY <1>1, AppendFacts
<1> HIDE DEF c, n
<1>3. \A i \in 1..(n + 1) : i \in 1..n \/ i = n + 1
  BY <1>2
<1>4. \A i \in 1..n : low[i] # t
  BY <1>2 DEF Range
<1>5. \A i, j \in DOMAIN c : c[i] = c[j] => i = j
  BY <1>2, <1>3, <1>4 DEF Waits
<1>6. \A i \in DOMAIN c : Mode(f[c[i]]) = "waiting" /\ Len(f[c[i]].frames) > 1
  BY <1>2, <1>3 DEF Waits
<1>7. Waits(c, f)
  BY <1>2, <1>5, <1>6 DEF Waits
<1> QED
  BY <1>7 DEF c

LEMMA WaitsKept ==
  ASSUME NEW low, NEW f, NEW g, Waits(low, f), \A u \in Range(low) : g[u] = f[u]
  PROVE  Waits(low, g)
<1>1. \A i \in DOMAIN low : g[low[i]] = f[low[i]]
  BY DEF Range
<1> QED
  BY <1>1 DEF Waits

LEMMA WaitsFront ==
  ASSUME NEW low, NEW f, Waits(low, f), low # <<>>
  PROVE  /\ Waits(Front(low), f) /\ Last(low) \in Thread /\ Last(low) \notin Range(Front(low))
         /\ Mode(f[Last(low)]) = "waiting" /\ Len(f[Last(low)].frames) > 1
         /\ Range(low) = Range(Front(low)) \cup {Last(low)}
         /\ Last(low) = low[Len(low)]
<1> DEFINE c == Front(low)
           n == Len(low)
<1>1. low \in Seq(Thread)
  BY DEF Waits
<1>2. /\ c \in Seq(Thread) /\ Last(low) \in Thread /\ low = Append(c, Last(low))
      /\ n \in Nat \ {0} /\ Len(c) = n - 1
      /\ \A i \in 1..(n - 1) : c[i] = low[i]
      /\ Last(low) = low[n]
  BY <1>1, Split DEF Last
<1>3. DOMAIN low = 1..n /\ DOMAIN c = 1..(n - 1)
  BY <1>1, <1>2
<1>4. Range(Append(c, Last(low))) = Range(c) \cup {Last(low)}
  BY <1>2, RangeAppend
<1> HIDE DEF c, n
<1>5. n \in DOMAIN low /\ \A i \in 1..(n - 1) : i \in DOMAIN low /\ i # n
  BY <1>2, <1>3
<1>6. Last(low) \notin Range(c)
  BY <1>2, <1>3, <1>5 DEF Waits, Range
<1>7. Waits(c, f)
  BY <1>2, <1>3, <1>5 DEF Waits
<1>8. Mode(f[Last(low)]) = "waiting" /\ Len(f[Last(low)].frames) > 1
  BY <1>2, <1>5 DEF Waits
<1> QED
  BY <1>2, <1>4, <1>6, <1>7, <1>8 DEF c, n

-----------------------------------------------------------------------------
(* The invariant.                                                          *)

Chained ==
  /\ chain \in Seq(Thread) /\ chain # <<>>
  /\ Waits(Front(chain), ts) /\ Running \notin Range(Front(chain))

ExecInv ==
  /\ ts \in [Thread -> ThreadType] /\ \A t \in Thread : Shape(ts[t])
  /\ Chained
  /\ Front(chain) # <<>> => Mode(Current) \in {"normal", "result"}
  /\ at \in {"idle", "look", "run"} /\ fuel \in Nat
  /\ at = "run" => Mode(Current) = "normal"

LEMMA ChainParts ==
  ASSUME Chained
  PROVE  /\ Running \in Thread /\ Front(chain) \in Seq(Thread)
         /\ chain = Append(Front(chain), Running)
         /\ Len(chain) \in Nat \ {0} /\ Len(Front(chain)) = Len(chain) - 1
         /\ (Len(chain) > 1 <=> Front(chain) # <<>>)
         /\ (Len(chain) = 1 <=> Front(chain) = <<>>)
         /\ Range(chain) = Range(Front(chain)) \cup {Running}
         /\ Range(Front(chain)) \subseteq Thread
<1> DEFINE low == Front(chain)
           t == Last(chain)
<1>1. /\ low \in Seq(Thread) /\ t \in Thread /\ chain = Append(low, t)
      /\ Len(chain) \in Nat \ {0} /\ Len(low) = Len(chain) - 1
  BY Split DEF Chained
<1>2. Range(Append(low, t)) = Range(low) \cup {t} /\ Range(low) \subseteq Thread
  BY <1>1, RangeAppend
<1> HIDE DEF low, t
<1>3. (Len(low) = 0 <=> low = <<>>) /\ Len(low) \in Nat
  BY <1>1
<1>4. (Len(chain) > 1 <=> low # <<>>) /\ (Len(chain) = 1 <=> low = <<>>)
  BY <1>1, <1>3
<1> QED
  BY <1>1, <1>2, <1>4 DEF low, t, Running

LEMMA SpendFacts ==
  ASSUME fuel \in Nat, NEW cost \in Nat, NEW interrupted \in BOOLEAN, Spend(cost, interrupted)
  PROVE  fuel' \in Nat /\ at' \in {"look", "idle"}
<1> DEFINE left == fuel - cost - FuelPerStep
           on == left > 0 /\ ~interrupted
<1>1. left \in Int
  BY ExecutorAssumption
<1>2. on => left \in Nat
  BY <1>1
<1>3. fuel' = (IF on THEN left ELSE 0) /\ at' = (IF on THEN "look" ELSE "idle")
  BY DEF Spend
<1> HIDE DEF on, left
<1> QED
  BY <1>2, <1>3

\* Only the running thread changes.
LEMMA BecomesInv ==
  ASSUME ExecInv, NEW s, Shape(s), Mode(s) \in {"normal", "result"},
         Becomes(s), at' \in {"look", "idle"}, fuel' \in Nat
  PROVE  ExecInv'
<1>1. Running \in Thread /\ Range(Front(chain)) \subseteq Thread
  BY ChainParts DEF ExecInv
<1>2. ts' = [ts EXCEPT ![Running] = s] /\ chain' = chain /\ s \in ThreadType
  BY DEF Becomes, Shape
<1>3. /\ ts' \in [Thread -> ThreadType] /\ \A t \in Thread : Shape(ts'[t])
      /\ \A u \in Thread : u # Running => ts'[u] = ts[u]
      /\ ts'[Running] = s
  BY <1>1, <1>2 DEF ExecInv
<1>4. Waits(Front(chain), ts')
  BY <1>1, <1>3, WaitsKept DEF ExecInv, Chained
<1>5. Chained'
  BY <1>2, <1>4 DEF ExecInv, Chained, Running
<1>6. Current' = s
  BY <1>2, <1>3 DEF Current, Running
<1> QED
  BY <1>3, <1>5, <1>6 DEF ExecInv
\* A thread that is put on the chain.
LEMMA ChainedWith ==
  ASSUME NEW low, NEW t \in Thread, chain' = Append(low, t), t \notin Range(low), Waits(low, ts')
  PROVE  Chained' /\ Running' = t /\ Front(chain') = low
<1>1. low \in Seq(Thread)
  BY DEF Waits
<1>2. /\ Append(low, t) \in Seq(Thread) /\ Append(low, t) # <<>>
      /\ Last(Append(low, t)) = t /\ Front(Append(low, t)) = low
  BY <1>1, AppendFacts
<1> QED
  BY <1>2 DEF Chained, Running

\* No thread of the chain but the last can be resumed.
LEMMA OutOfChain ==
  ASSUME ExecInv, NEW t \in Thread, t # Running, Mode(ts[t]) # "waiting"
  PROVE  t \notin Range(chain) /\ t \notin Range(Front(chain))
<1>1. Waits(Front(chain), ts)
  BY DEF ExecInv, Chained
<1>2. t \notin Range(Front(chain))
  BY <1>1 DEF Waits, Range
<1> QED
  BY <1>2, ChainParts DEF ExecInv

LEMMA GivesInv ==
  ASSUME ExecInv, NEW waiting, NEW t \in Thread, NEW n \in Nat, NEW f \in {"lua", "callback"},
         NEW new, Shape(waiting), Shape(Fail(waiting)), Mode(Fail(waiting)) = "normal",
         \/ new = Front(chain)
         \/ new = chain /\ Mode(waiting) = "waiting" /\ Len(waiting.frames) > 1,
         Gives(waiting, t, n, f, new), at' \in {"look", "idle"}, fuel' \in Nat
  PROVE  ExecInv'
<1>1. /\ Running \in Thread /\ Front(chain) \in Seq(Thread)
      /\ chain = Append(Front(chain), Running) /\ Range(Front(chain)) \subseteq Thread
      /\ Range(chain) = Range(Front(chain)) \cup {Running}
      /\ Waits(Front(chain), ts) /\ Running \notin Range(Front(chain))
  BY ChainParts DEF ExecInv, Chained
<1>2. CASE ~(t # Running /\ Mode(ts[t]) = "suspended")
  <2>1. Becomes(Fail(waiting))
    BY <1>2 DEF Gives
  <2> QED
    BY <2>1, BecomesInv
<1>3. CASE t # Running /\ Mode(ts[t]) = "suspended"
  <2> DEFINE r == Resumed(ts[t], n, f)
  <2>1. ts' = [ts EXCEPT ![Running] = waiting, ![t] = r] /\ chain' = Append(new, t)
    BY <1>1, <1>3 DEF Gives, ExecInv
  <2>2. t \notin Range(chain) /\ t \notin Range(Front(chain))
    BY <1>3, OutOfChain
  <2>3. Shape(r) /\ Mode(r) \in {"normal", "result"}
    BY <1>3, ResumedShape DEF ExecInv
  <2> HIDE DEF r
  <2>4. waiting \in ThreadType /\ r \in ThreadType
    BY <2>3 DEF Shape
  <2>5. /\ ts' \in [Thread -> ThreadType] /\ \A u \in Thread : Shape(ts'[u])
        /\ \A u \in Thread : u # Running /\ u # t => ts'[u] = ts[u]
        /\ ts'[Running] = waiting /\ ts'[t] = r
    BY <1>1, <1>3, <2>1, <2>3, <2>4 DEF ExecInv
  <2>6. Waits(Front(chain), ts')
    BY <1>1, <2>2, <2>5, WaitsKept
  <2>7. Waits(new, ts') /\ t \notin Range(new)
    <3>1. CASE new = Front(chain)
      BY <2>2, <2>6, <3>1
    <3>2. CASE new = chain /\ Mode(waiting) = "waiting" /\ Len(waiting.frames) > 1
      <4>1. Waits(Append(Front(chain), Running), ts')
        BY <1>1, <2>5, <2>6, <3>2, WaitsAppend
      <4> QED
        BY <1>1, <2>2, <3>2, <4>1
    <3> QED
      BY <3>1, <3>2
  <2>8. Chained' /\ Running' = t
    BY <2>1, <2>7, ChainedWith
  <2>9. Current' = r
    BY <2>5, <2>8 DEF Current
  <2> QED
    BY <2>3, <2>5, <2>8, <2>9 DEF ExecInv
<1> QED
  BY <1>2, <1>3

\* A thread that was created is outside of the chain, and has not run.
LEMMA StartShape == Shape(Push(Stopped, Bare("start")))
<1>1. Bare("start") \in FrameType
  BY DEF Bare, FrameType
<1>2. Fits(Stopped, Stopped.frames, Bare("start"))
  BY DEF Fits, Stopped
<1> QED
  BY <1>1, <1>2, NoFrames, PushShape

LEMMA CreatesInv ==
  ASSUME ExecInv, NEW s, Ready(s), NEW t \in Thread, Creates(s, FloorOf(s.frames), t),
         at' \in {"look", "idle"}, fuel' \in Nat
  PROVE  ExecInv'
<1> DEFINE r == ReturnTo(s, FloorOf(s.frames), 1)
           new == Push(Stopped, Bare("start"))
<1>1. /\ Running \in Thread /\ Range(Front(chain)) \subseteq Thread
      /\ Range(chain) = Range(Front(chain)) \cup {Running}
      /\ Waits(Front(chain), ts)
  BY ChainParts DEF ExecInv, Chained
<1>2. t \notin Range(chain) /\ t # Running /\ t \notin Range(Front(chain))
  BY <1>1 DEF Creates
<1>3. ts' = [ts EXCEPT ![Running] = r, ![t] = new] /\ chain' = chain
  BY <1>1, <1>2 DEF Creates, ExecInv
<1>4. Shape(r) /\ Mode(r) \in {"normal", "result"}
  BY ReturnToShape
<1>5. Shape(new)
  BY StartShape
<1> HIDE DEF r, new
<1>6. r \in ThreadType /\ new \in ThreadType
  BY <1>4, <1>5 DEF Shape
<1>7. /\ ts' \in [Thread -> ThreadType] /\ \A u \in Thread : Shape(ts'[u])
      /\ \A u \in Thread : u # Running /\ u # t => ts'[u] = ts[u]
      /\ ts'[Running] = r
  BY <1>1, <1>2, <1>3, <1>4, <1>5, <1>6 DEF ExecInv
<1>8. Waits(Front(chain), ts')
  BY <1>1, <1>2, <1>7, WaitsKept DEF ExecInv, Chained
<1>9. Chained'
  BY <1>3, <1>8 DEF ExecInv, Chained, Running
<1>10. Current' = r
  BY <1>3, <1>7 DEF Current, Running
<1> QED
  BY <1>4, <1>7, <1>9, <1>10 DEF ExecInv

\* Whatever a callback or a sequence comes to.
LEMMA RepliesInv ==
  ASSUME ExecInv, NEW s, Ready(s), Replies(s, FloorOf(s.frames)),
         at' \in {"look", "idle"}, fuel' \in Nat
  PROVE  ExecInv'
<1> DEFINE b == FloorOf(s.frames)
<1>0. 0 .. MaxValues \subseteq Nat
  BY ExecutorAssumption
<1>1. CASE Errs(s, b)
  BY <1>1, ErrsShape, BecomesInv DEF Errs
<1>2. ASSUME NEW t \in Thread, Creates(s, b, t) PROVE ExecInv'
  BY <1>2, CreatesInv
<1>3. ASSUME NEW n \in 0 .. MaxValues, Returns(s, b, n) PROVE ExecInv'
  <2>1. Shape(ReturnTo(s, b, n)) /\ Mode(ReturnTo(s, b, n)) \in {"normal", "result"}
    BY <1>0, ReturnToShape
  <2> QED
    BY <1>3, <2>1, BecomesInv DEF Returns
<1>4. ASSUME NEW n \in 0 .. MaxValues, GoesOn(s, b, n) PROVE ExecInv'
  <2> DEFINE r == Put(Then(s, b, TRUE), b + n)
  <2>1. Shape(r) /\ Mode(r) = "normal"
    BY <1>0, GoesOnShape
  <2> HIDE DEF r
  <2>2. Becomes(r)
    BY <1>4 DEF GoesOn, r
  <2> QED
    BY <2>1, <2>2, BecomesInv
<1>5. ASSUME NEW n \in 0 .. MaxValues, NEW then \in BOOLEAN, Yields(s, b, n, then) PROVE ExecInv'
  <2> DEFINE r == Push(Push(Put(Then(s, b, then), b + n), Bare("yielded")), Result(b))
  <2>1. Shape(r) /\ Mode(r) = "result"
    BY <1>0, YieldsShape
  <2> HIDE DEF r
  <2>2. Becomes(r)
    BY <1>5 DEF Yields, r
  <2> QED
    BY <2>1, <2>2, BecomesInv
<1>6. ASSUME NEW n \in 0 .. MaxValues, NEW then \in BOOLEAN, NEW f \in {"lua", "callback"},
             Calls(s, b, n, then, f)
      PROVE  ExecInv'
  <2> DEFINE r == PushCall(Then(s, b, then), b, n, f)
  <2>1. Shape(r) /\ Mode(r) = "normal"
    BY <1>0, CallsShape
  <2> HIDE DEF r
  <2>2. Becomes(r)
    BY <1>6 DEF Calls, r
  <2> QED
    BY <2>1, <2>2, BecomesInv
<1>7. ASSUME NEW n \in 0 .. MaxValues, NEW then \in BOOLEAN, NEW f \in {"lua", "callback"},
             NEW t \in Thread, YieldsTo(s, b, n, then, t, f)
      PROVE  ExecInv'
  <2> DEFINE w == Push(Put(Then(s, b, then), b), Bare("yielded"))
  <2>1. Shape(w) /\ Shape(Fail(w)) /\ Mode(Fail(w)) = "normal"
    BY WaitingShape
  <2> HIDE DEF w
  <2>2. Gives(w, t, n, f, Front(chain))
    BY <1>7 DEF YieldsTo, w
  <2> QED
    BY <1>0, <2>1, <2>2, GivesInv
<1>8. ASSUME NEW n \in 0 .. MaxValues, NEW then \in BOOLEAN, NEW f \in {"lua", "callback"},
             NEW t \in Thread, Resumes(s, b, n, then, t, f)
      PROVE  ExecInv'
  <2> DEFINE w == Push(Put(Then(s, b, then), b), Bare("wait"))
             new == IF Len(w.frames) = 1 THEN Front(chain) ELSE chain
  <2>1. /\ Shape(w) /\ Mode(w) = "waiting" /\ Shape(Fail(w)) /\ Mode(Fail(w)) = "normal"
        /\ Len(w.frames) \in Nat \ {0}
    BY WaitingShape
  <2>2. Gives(w, t, n, f, new)
    BY <1>8 DEF Resumes
  <2> HIDE DEF w
  <2>3. new = Front(chain) \/ (new = chain /\ Len(w.frames) > 1)
    <3> DEFINE k == Len(w.frames)
    <3>1. k \in Nat \ {0}
      BY <2>1
    <3>2. new = IF k = 1 THEN Front(chain) ELSE chain
      OBVIOUS
    <3> HIDE DEF k, new
    <3>3. new = Front(chain) \/ (new = chain /\ k > 1)
      BY <3>1, <3>2
    <3> QED
      BY <3>3 DEF k
  <2> HIDE DEF new
  <2> QED
    BY <1>0, <2>1, <2>2, <2>3, GivesInv
<1> QED
  BY <1>1, <1>2, <1>3, <1>4, <1>5, <1>6, <1>7, <1>8 DEF Replies
-----------------------------------------------------------------------------
(* The actions.                                                            *)

\* The thread below the last, which gets what the last has come to.
LEMMA HandBackParts ==
  ASSUME ExecInv, HandBack
  PROVE  LET low == chain[Len(chain) - 1] IN
         /\ low \in Thread /\ low # Running /\ Running \in Thread /\ Len(chain) > 1
         /\ Mode(ts[low]) = "waiting" /\ Len(ts[low].frames) > 1
         /\ low \notin Range(Front(Front(chain))) /\ Running \notin Range(Front(Front(chain)))
         /\ Waits(Front(Front(chain)), ts)
         /\ Front(chain) = Append(Front(Front(chain)), low)
         /\ Range(Front(chain)) = Range(Front(Front(chain))) \cup {low}
         /\ Mode(Current) = "result"
         /\ ts' = [ts EXCEPT ![low] = Settled(ts[low], Current), ![Running] = Taken(Current)]
         /\ ts'[low] = Settled(ts[low], Current) /\ ts'[Running] = Taken(Current)
<1> DEFINE front == Front(chain)
           low == Last(front)
<1>1. /\ Running \in Thread /\ front \in Seq(Thread) /\ chain = Append(front, Running)
      /\ Len(front) = Len(chain) - 1 /\ front # <<>> /\ Len(chain) > 1
      /\ Waits(front, ts) /\ Running \notin Range(front)
  BY ChainParts DEF ExecInv, Chained, HandBack
<1>2. /\ Waits(Front(front), ts) /\ low \in Thread /\ low \notin Range(Front(front))
      /\ Mode(ts[low]) = "waiting" /\ Len(ts[low].frames) > 1
      /\ Range(front) = Range(Front(front)) \cup {low} /\ low = front[Len(front)]
  BY <1>1, WaitsFront
<1>3. front = Append(Front(front), low)
  BY <1>1, Split
<1>4. Len(front) \in 1..Len(front)
  BY <1>1
<1>5. low = chain[Len(chain) - 1]
  <2>1. \A i \in 1..Len(front) : Append(front, Running)[i] = front[i]
    BY <1>1, AppendFacts
  <2> QED
    BY <1>1, <1>2, <1>4, <2>1
<1>6. low # Running /\ Running \notin Range(Front(front))
  BY <1>1, <1>2
<1>7. Mode(Current) = "result"
  BY <1>1 DEF ExecInv, HandBack
<1> HIDE DEF front, low
<1>8. ts' = [ts EXCEPT ![low] = Settled(ts[low], Current), ![Running] = Taken(Current)]
  BY <1>1, <1>2, <1>5, <1>6, <1>7 DEF HandBack, Current, ExecInv
<1>9. ts'[low] = Settled(ts[low], Current) /\ ts'[Running] = Taken(Current)
  BY <1>1, <1>2, <1>6, <1>8 DEF ExecInv
<1> QED
  BY <1>1, <1>2, <1>3, <1>5, <1>6, <1>7, <1>8, <1>9 DEF front

LEMMA HandBackInv == ASSUME ExecInv, HandBack PROVE ExecInv'
<1> DEFINE low == chain[Len(chain) - 1]
           r == Settled(ts[low], Current)
           d == Taken(Current)
<1>1. /\ low \in Thread /\ low # Running /\ Running \in Thread
      /\ Mode(ts[low]) = "waiting" /\ Len(ts[low].frames) > 1
      /\ low \notin Range(Front(Front(chain))) /\ Running \notin Range(Front(Front(chain)))
      /\ Waits(Front(Front(chain)), ts)
      /\ Front(chain) = Append(Front(Front(chain)), low)
      /\ Mode(Current) = "result"
      /\ ts' = [ts EXCEPT ![low] = r, ![Running] = d] /\ ts'[low] = r /\ ts'[Running] = d
  BY HandBackParts
<1>2. Shape(Current) /\ Shape(ts[low])
  BY <1>1 DEF ExecInv, Current
<1>3. Shape(r) /\ Mode(r) = "normal"
  BY <1>1, <1>2, SettledShape
<1>4. Shape(d)
  BY <1>1, <1>2, TakenShape
<1>5. chain' = Front(chain) /\ at' = "run" /\ fuel' = fuel
  BY DEF HandBack
<1> HIDE DEF r, d, low
<1>6. r \in ThreadType /\ d \in ThreadType
  BY <1>3, <1>4 DEF Shape
<1>7. /\ ts' \in [Thread -> ThreadType] /\ \A u \in Thread : Shape(ts'[u])
      /\ \A u \in Thread : u # Running /\ u # low => ts'[u] = ts[u]
  BY <1>1, <1>3, <1>4, <1>6 DEF ExecInv
<1>8. Range(Front(Front(chain))) \subseteq Thread
  BY <1>1, RangeAppend DEF Waits
<1>9. Waits(Front(Front(chain)), ts')
  BY <1>1, <1>7, <1>8, WaitsKept
<1>10. Chained' /\ Running' = low
  BY <1>1, <1>5, <1>9, ChainedWith
<1>11. Current' = r
  BY <1>1, <1>10 DEF Current
<1> QED
  BY <1>3, <1>5, <1>7, <1>10, <1>11 DEF ExecInv

LEMMA RunLuaInv == ASSUME ExecInv, RunLua \/ LuaFails PROVE ExecInv'
<1> DEFINE b == Top(Current).bottom
<1>1. /\ Shape(Current) /\ Current.frames # <<>> /\ Top(Current).is = "lua"
      /\ Mode(Current) = "normal"
  BY ChainParts DEF ExecInv, RunLua, LuaFails, Runs, Mode, Current
<1>2. at' \in {"look", "idle"} /\ fuel' \in Nat
  <2>1. Instructions \subseteq Nat /\ 0 \in Nat /\ fuel \in Nat
    BY ExecutorAssumption DEF ExecInv
  <2> QED
    BY <2>1, SpendFacts DEF RunLua, LuaFails
<1>3. 0 .. MaxValues \subseteq Nat
  BY ExecutorAssumption
<1>4. CASE LuaGoesOn
  BY <1>1, <1>2, <1>4, BecomesInv DEF LuaGoesOn
<1>5. CASE LuaCaptures
  <2> DEFINE r == [Current EXCEPT !.open = @ \cup {Top(Current).bottom + 1}]
  <2>1. Shape(r) /\ Mode(r) = "normal"
    BY <1>1, CapturesShape
  <2> HIDE DEF r
  <2>2. Becomes(r)
    BY <1>5 DEF LuaCaptures, r
  <2> QED
    BY <1>2, <2>1, <2>2, BecomesInv
<1>6. ASSUME NEW n \in 0 .. MaxValues, LuaReturns(n) PROVE ExecInv'
  <2> DEFINE r == ReturnTo(Cut(Pop(Current), b), b, n)
  <2>1. Shape(r) /\ Mode(r) \in {"normal", "result"}
    BY <1>1, <1>3, LuaReturnsShape
  <2> HIDE DEF r
  <2>2. Becomes(r)
    BY <1>6 DEF LuaReturns, r
  <2> QED
    BY <1>2, <2>1, <2>2, BecomesInv
<1>7. ASSUME NEW n \in 0 .. MaxValues, NEW f \in {"lua", "callback"}, LuaCalls(n, f)
      PROVE  ExecInv'
  <2> DEFINE r == PushCall([Current EXCEPT !.frames[Len(Current.frames)].called = TRUE],
                           Top(Current).bottom + 2, n, f)
  <2>1. Shape(r) /\ Mode(r) = "normal"
    BY <1>1, <1>3, LuaCallsShape
  <2> HIDE DEF r
  <2>2. Becomes(r)
    BY <1>7 DEF LuaCalls, r
  <2> QED
    BY <1>2, <2>1, <2>2, BecomesInv
<1>8. ASSUME NEW n \in 0 .. MaxValues, NEW f \in {"lua", "callback"}, LuaTailCalls(n, f)
      PROVE  ExecInv'
  <2> DEFINE r == PushCall(Cut(Pop(Current), b), b, n, f)
  <2>1. Shape(r) /\ Mode(r) = "normal"
    BY <1>1, <1>3, LuaTailCallsShape
  <2> HIDE DEF r
  <2>2. Becomes(r)
    BY <1>8 DEF LuaTailCalls, r
  <2> QED
    BY <1>2, <2>1, <2>2, BecomesInv
<1>9. CASE LuaFails
  <2>1. PICK was \in BOOLEAN :
          Becomes(Fail([Current EXCEPT !.frames[Len(Current.frames)].called = was]))
    BY <1>9 DEF LuaFails
  <2> DEFINE r == Fail([Current EXCEPT !.frames[Len(Current.frames)].called = was])
  <2>2. Shape(r) /\ Mode(r) = "normal"
    BY <1>1, LuaFailsShape
  <2>3. Becomes(r)
    BY <2>1
  <2> HIDE DEF r
  <2> QED
    BY <1>2, <2>2, <2>3, BecomesInv
<1> QED
  BY <1>4, <1>5, <1>6, <1>7, <1>8, <1>9 DEF RunLua

LEMMA RunCallInv == ASSUME ExecInv, RunCallback \/ RunSequence PROVE ExecInv'
<1>1. Shape(Current) /\ Current.frames # <<>> /\ Top(Current).is \in {"callback", "sequence"}
  BY ChainParts DEF ExecInv, RunCallback, RunSequence, Runs, Mode, Current
<1>2. Ready(Pop(Current)) /\ Top(Current).bottom = FloorOf(Pop(Current).frames)
  BY <1>1, CallTop
<1>3. at' \in {"look", "idle"} /\ fuel' \in Nat
  <2>1. FuelPerCallback \in Nat /\ FuelPerSeqStep \in Nat /\ fuel \in Nat
    BY ExecutorAssumption DEF ExecInv
  <2> QED
    BY <2>1, SpendFacts DEF RunCallback, RunSequence
<1>4. Replies(Pop(Current), FloorOf(Pop(Current).frames))
  BY <1>2 DEF RunCallback, RunSequence
<1> QED
  BY <1>2, <1>3, <1>4, RepliesInv

LEMMA RunErrorInv == ASSUME ExecInv, RunError PROVE ExecInv'
<1>1. Shape(Current) /\ Mode(Current) = "normal" /\ Top(Current).is = "error"
  BY ChainParts DEF ExecInv, RunError, Runs, Current
<1>2. Shape(Unwound(Current)) /\ Mode(Unwound(Current)) \in {"normal", "result"}
  BY <1>1, UnwoundShape
<1>3. at' \in {"look", "idle"} /\ fuel' \in Nat
  BY SpendFacts DEF RunError, ExecInv
<1> QED
  BY <1>2, <1>3, BecomesInv DEF RunError

LEMMA LooksInv == ASSUME ExecInv, Look \/ StepDone \/ Step PROVE ExecInv'
<1>1. ts' = ts /\ chain' = chain
  BY DEF Look, StepDone, Step
<1>2. Running' = Running /\ Current' = Current /\ Chained'
  BY <1>1 DEF Running, Current, Chained, ExecInv
<1>3. CASE Look
  BY <1>1, <1>2, <1>3 DEF Look, ExecInv
<1>4. CASE StepDone
  BY <1>1, <1>2, <1>4 DEF StepDone, ExecInv
<1>5. CASE Step
  BY <1>1, <1>2, <1>5, ExecutorAssumption DEF Step, ExecInv
<1> QED
  BY <1>3, <1>4, <1>5

\* What the host does to the first thread.
LEMMA BecomesRootInv ==
  ASSUME ExecInv, Idle, NEW s, Shape(s), BecomesRoot(s)
  PROVE  ExecInv'
<1>1. Root \in Thread
  BY DEF ExecInv, Chained, Root
<1>2. ts' = [ts EXCEPT ![Root] = s] /\ chain' = <<Root>> /\ at' = "idle" /\ fuel' = fuel
  BY DEF BecomesRoot, Idle
<1>3. s \in ThreadType
  BY DEF Shape
<1>4. ts' \in [Thread -> ThreadType] /\ \A u \in Thread : Shape(ts'[u])
  BY <1>1, <1>2, <1>3 DEF ExecInv
<1>5. Waits(<<>>, ts') /\ Root \notin Range(<<>>) /\ chain' = Append(<<>>, Root)
  BY <1>1, <1>2 DEF Waits, Range
<1>6. Chained' /\ Front(chain') = <<>>
  BY <1>1, <1>5, ChainedWith
<1> QED
  BY <1>2, <1>4, <1>6 DEF ExecInv

LEMMA HostInv ==
  ASSUME ExecInv,
         \/ TakeResult \/ HostResumeErr \/ Stop
         \/ \E n \in 0 .. MaxValues, f \in {"lua", "callback"} : HostResume(n, f) \/ Restart(n, f)
  PROVE  ExecInv'
<1>0. 0 .. MaxValues \subseteq Nat
  BY ExecutorAssumption
<1>1. Shape(ts[Root])
  BY DEF ExecInv, Chained, Root
<1>2. CASE TakeResult
  BY <1>1, <1>2, TakenShape, BecomesRootInv DEF TakeResult, Alone
<1>3. CASE HostResumeErr
  BY <1>1, <1>3, ResumedErrShape, BecomesRootInv DEF HostResumeErr, Alone
<1>4. CASE Stop
  BY <1>4, NoFrames, BecomesRootInv DEF Stop
<1>5. ASSUME NEW n \in 0 .. MaxValues, NEW f \in {"lua", "callback"}, HostResume(n, f)
      PROVE  ExecInv'
  BY <1>0, <1>1, <1>5, ResumedShape, BecomesRootInv DEF HostResume, Alone
<1>6. ASSUME NEW n \in 0 .. MaxValues, NEW f \in {"lua", "callback"}, Restart(n, f)
      PROVE  ExecInv'
  <2>1. FloorOf(Stopped.frames) = 0 /\ Ready(Stopped)
    BY NoFrames DEF Stopped
  <2>2. Shape(PushCall(Stopped, 0, n, f))
    BY <1>0, <2>1, PushCallShape
  <2> QED
    BY <1>6, <2>2, BecomesRootInv DEF Restart
<1> QED
  BY <1>2, <1>3, <1>4, <1>5, <1>6

LEMMA FinalizeInv == ASSUME ExecInv, NEW t \in Thread, Finalize(t) PROVE ExecInv'
<1>1. /\ Running \in Thread /\ Range(Front(chain)) \subseteq Thread
      /\ Range(chain) = Range(Front(chain)) \cup {Running}
      /\ Waits(Front(chain), ts)
  BY ChainParts DEF ExecInv, Chained
<1>2. t # Running /\ t \notin Range(Front(chain))
  BY <1>1 DEF Finalize
<1>3. /\ ts' = [ts EXCEPT ![t] = Stopped] /\ chain' = chain /\ at' = at /\ fuel' = fuel
  BY DEF Finalize
<1>4. /\ ts' \in [Thread -> ThreadType] /\ \A u \in Thread : Shape(ts'[u])
      /\ \A u \in Thread : u # t => ts'[u] = ts[u]
  BY <1>3, NoFrames DEF ExecInv
<1>5. Waits(Front(chain), ts')
  BY <1>1, <1>2, <1>4, WaitsKept
<1>6. Running' = Running /\ Current' = Current /\ Chained'
  BY <1>1, <1>2, <1>3, <1>4, <1>5 DEF Running, Current, Chained, ExecInv
<1> QED
  BY <1>3, <1>4, <1>6 DEF ExecInv

-----------------------------------------------------------------------------
LEMMA InitInv == ASSUME Init PROVE ExecInv
<1>1. ts = [t \in Thread |-> Stopped] /\ at = "idle" /\ fuel = 0
  BY DEF Init
<1>2. PICK t \in Thread : chain = <<t>>
  BY DEF Init
<1>3. chain = Append(<<>>, t) /\ <<>> \in Seq(Thread)
  BY <1>2
<1>4. Front(chain) = <<>> /\ Last(chain) = t
  <2>1. Front(Append(<<>>, t)) = <<>> /\ Last(Append(<<>>, t)) = t
    <3>1. ASSUME NEW q \in Seq(Thread), q = <<>>
          PROVE  Front(Append(q, t)) = q /\ Last(Append(q, t)) = t
      BY AppendFacts
    <3> QED
      BY <1>3, <3>1, Zenon
  <2> QED
    BY <1>3, <2>1
<1>5. Waits(<<>>, ts) /\ t \notin Range(<<>>)
  BY DEF Waits, Range
<1>6. Chained
  BY <1>2, <1>4, <1>5 DEF Chained, Running
<1> QED
  BY <1>1, <1>4, <1>6, NoFrames DEF ExecInv

LEMMA NextInv == ASSUME ExecInv, [Next]_vars PROVE ExecInv'
<1>1. CASE Look \/ StepDone \/ Step
  BY <1>1, LooksInv
<1>2. CASE HandBack
  BY <1>2, HandBackInv
<1>3. CASE RunLua \/ LuaFails
  BY <1>3, RunLuaInv
<1>4. CASE RunCallback \/ RunSequence
  BY <1>4, RunCallInv
<1>5. CASE RunError
  BY <1>5, RunErrorInv
<1>6. CASE \/ TakeResult \/ HostResumeErr \/ Stop
           \/ \E n \in 0 .. MaxValues, f \in {"lua", "callback"} : HostResume(n, f) \/ Restart(n, f)
  BY <1>6, HostInv
<1>7. ASSUME NEW t \in Thread, Finalize(t) PROVE ExecInv'
  BY <1>7, FinalizeInv
<1>8. CASE UNCHANGED vars
  <2>1. ts' = ts /\ chain' = chain /\ at' = at /\ fuel' = fuel
    BY <1>8 DEF vars
  <2> QED
    BY <2>1 DEF ExecInv, Chained, Running, Current
<1> QED
  BY <1>1, <1>2, <1>3, <1>4, <1>5, <1>6, <1>7, <1>8 DEF Next

LEMMA InvSound == ASSUME ExecInv PROVE ThreadsSound
<1>1. FramesNest
  BY ShapeSound DEF ExecInv, FramesNest, ThreadType
<1>2. ChainWaits
  <2>1. /\ chain \in Seq(Thread) /\ chain # <<>> /\ Waits(Front(chain), ts)
        /\ Running \in Thread /\ Running \notin Range(Front(chain))
        /\ chain = Append(Front(chain), Running)
        /\ Len(chain) \in Nat \ {0} /\ Len(Front(chain)) = Len(chain) - 1
    BY ChainParts DEF ExecInv, Chained
  <2> DEFINE low == Front(chain)
             n == Len(chain)
  <2>2. /\ low \in Seq(Thread) /\ DOMAIN low = 1..(n - 1) /\ DOMAIN chain = 1..n
        /\ \A i \in 1..(n - 1) : chain[i] = low[i]
        /\ chain[n] = Running /\ n \in Nat \ {0}
    BY <2>1, AppendFacts, Split DEF Waits, Running, Last
  <2>3. Waits(low, ts) /\ Running \notin Range(low)
    BY <2>1
  <2> HIDE DEF low, n
  <2>4. \A i \in 1..n : i \in 1..(n - 1) \/ i = n
    BY <2>2
  <2>5. \A i \in 1..(n - 1) : low[i] # Running
    BY <2>2, <2>3 DEF Range
  <2>6. \A i, j \in DOMAIN chain : chain[i] = chain[j] => i = j
    BY <2>2, <2>3, <2>4, <2>5 DEF Waits
  <2>7. \A i \in 1..(n - 1) : Mode(ts[chain[i]]) = "waiting"
    BY <2>2, <2>3 DEF Waits
  <2> QED
    BY <2>1, <2>6, <2>7 DEF ChainWaits, n
<1> QED
  BY <1>1, <1>2 DEF ThreadsSound, ExecInv

\* Frames always lie one above the other, and threads wait for each other in one chain:
\* no panic of the executor is reached, whatever the functions, callbacks and sequences
\* do and however little fuel there is (thread.rs return_to, resume, take_result).
THEOREM ThreadsAlwaysSound == Spec => []ThreadsSound
<1>1. Spec => []ExecInv
  BY InitInv, NextInv, PTL DEF Spec
<1> QED
  BY <1>1, InvSound, PTL
-----------------------------------------------------------------------------
(* Control passes as coroutines promise.                                   *)

LEMMA RestCases ==
  ASSUME NEW t
  PROVE  /\ t \in Range(chain) => Rest(t) = "running"
         /\ t \notin Range(chain) /\ Mode(ts[t]) \in {"stopped", "suspended"}
              => Rest(t) = Mode(ts[t])
         /\ t \notin Range(chain) /\ Mode(ts[t]) \notin {"stopped", "suspended"}
              => Rest(t) = "gone"
<1> QED
  BY DEF Rest

LEMMA RestCasesNext ==
  ASSUME NEW t
  PROVE  /\ t \in Range(chain') => Rest(t)' = "running"
         /\ t \notin Range(chain') /\ Mode(ts'[t]) \in {"stopped", "suspended"}
              => Rest(t)' = Mode(ts'[t])
         /\ t \notin Range(chain') /\ Mode(ts'[t]) \notin {"stopped", "suspended"}
              => Rest(t)' = "gone"
<1>1. /\ t \in Range(chain)' => Rest(t)' = "running"
      /\ t \notin Range(chain)' /\ Mode(ts[t])' \in {"stopped", "suspended"}
           => Rest(t)' = Mode(ts[t])'
      /\ t \notin Range(chain)' /\ Mode(ts[t])' \notin {"stopped", "suspended"}
           => Rest(t)' = "gone"
  BY DEF Rest
<1> QED
  BY <1>1

\* A thread of which nothing changes is where it was.
LEMMA RestKept ==
  ASSUME NEW t, ts'[t] = ts[t], t \in Range(chain') <=> t \in Range(chain)
  PROVE  Rest(t)' = Rest(t)
<1> QED
  BY RestCases, RestCasesNext

LEMMA Stutters ==
  ASSUME chain' = chain, \A u \in Thread : u \notin Range(chain) => ts'[u] = ts[u]
  PROVE  UNCHANGED C!vars
<1>1. ASSUME NEW u \in Thread PROVE Rest(u)' = Rest(u)
  <2>1. CASE u \in Range(chain)
    BY <2>1, RestCases, RestCasesNext
  <2>2. CASE u \notin Range(chain)
    BY <2>2, RestKept
  <2> QED
    BY <2>1, <2>2
<1>2. [t \in Thread |-> Rest(t)]' = [t \in Thread |-> Rest(t)]
  BY <1>1
<1> QED
  BY <1>2 DEF C!vars

LEMMA BecomesStutters == ASSUME ExecInv, NEW s, Becomes(s) PROVE UNCHANGED C!vars
<1>1. Running \in Range(chain) /\ chain' = chain
  BY ChainParts DEF ExecInv, Becomes
<1>2. \A u \in Thread : u \notin Range(chain) => ts'[u] = ts[u]
  BY <1>1 DEF Becomes, ExecInv
<1> QED
  BY <1>1, <1>2, Stutters

LEMMA RootStutters ==
  ASSUME ExecInv, NEW s, BecomesRoot(s), Len(chain) = 1 PROVE UNCHANGED C!vars
<1>1. chain \in Seq(Thread)
  BY DEF ExecInv, Chained
<1>2. chain = <<Root>> /\ Root \in Range(chain)
  BY <1>1 DEF Root, Range
<1>3. \A u \in Thread : u \notin Range(chain) => ts'[u] = ts[u]
  BY <1>2 DEF BecomesRoot, ExecInv
<1> QED
  BY <1>2, <1>3, Stutters DEF BecomesRoot

LEMMA CreatesControl ==
  ASSUME ExecInv, NEW s, NEW b, NEW t \in Thread, Creates(s, b, t)
  PROVE  C!Create(t)
<1> DEFINE new == Push(Stopped, Bare("start"))
           r == ReturnTo(s, b, 1)
<1>1. Running \in Range(chain) /\ Running \in Thread
  BY ChainParts DEF ExecInv
<1>2. /\ t \notin Range(chain) /\ ts[t] = Stopped /\ t # Running /\ chain' = chain
  BY <1>1 DEF Creates
<1>3. ts' = [ts EXCEPT ![Running] = r, ![t] = new]
  BY <1>1, <1>2 DEF Creates, ExecInv
<1>4. Mode(new) = "suspended"
  BY NoFrames, ModeOfTop DEF Bare, FrameType
<1> HIDE DEF new, r
<1>5. ts'[t] = new /\ \A u \in Thread : u # Running /\ u # t => ts'[u] = ts[u]
  BY <1>1, <1>2, <1>3 DEF ExecInv
<1>6. Mode(ts[t]) = "stopped"
  BY <1>2 DEF Mode, Stopped
<1>7. Rest(t) = "stopped" /\ Rest(t)' = "suspended"
  BY <1>2, <1>4, <1>5, <1>6, RestCases, RestCasesNext
<1>8. ASSUME NEW u \in Thread, u # t PROVE Rest(u)' = Rest(u)
  BY <1>1, <1>2, <1>5, <1>8, RestKept, RestCases, RestCasesNext
<1>9. [u \in Thread |-> Rest(u)]' = [[u \in Thread |-> Rest(u)] EXCEPT ![t] = "suspended"]
  BY <1>7, <1>8
<1> QED
  BY <1>2, <1>7, <1>9 DEF C!Create, C!In, Range

\* Butlast is Front; the last is the thread that runs.
LEMMA LastOfChain ==
  Running = chain[Len(chain)] /\ C!Butlast(chain) = Front(chain) /\ C!In(chain) = Range(chain)
<1> QED
  BY DEF Running, Last, Front, C!Butlast, C!In, Range

LEMMA GivesControl ==
  ASSUME ExecInv, NEW waiting, NEW t \in Thread, NEW n, NEW f, NEW new,
         \/ new = Front(chain) /\ Mode(waiting) \in {"suspended", "waiting"}
         \/ new = chain,
         Gives(waiting, t, n, f, new)
  PROVE  [C!Next]_(C!vars)
<1>1. /\ Running \in Thread /\ Front(chain) \in Seq(Thread) /\ chain \in Seq(Thread)
      /\ Range(chain) = Range(Front(chain)) \cup {Running} /\ Running \notin Range(Front(chain))
  BY ChainParts DEF ExecInv, Chained
<1>2. CASE ~(t # Running /\ Mode(ts[t]) = "suspended")
  BY <1>2, BecomesStutters DEF Gives
<1>3. CASE t # Running /\ Mode(ts[t]) = "suspended"
  <2> DEFINE r == Resumed(ts[t], n, f)
  <2>1. ts' = [ts EXCEPT ![Running] = waiting, ![t] = r] /\ chain' = Append(new, t)
    BY <1>1, <1>3 DEF Gives, ExecInv
  <2> HIDE DEF r
  <2>2. t \notin Range(chain) /\ t \notin Range(Front(chain)) /\ Rest(t) = "suspended"
    BY <1>3, OutOfChain, RestCases
  <2>3. ts'[Running] = waiting /\ \A u \in Thread : u # Running /\ u # t => ts'[u] = ts[u]
    BY <1>1, <1>3, <2>1 DEF ExecInv
  <2>4. CASE new = chain
    <3>1. Range(chain') = Range(chain) \cup {t}
      BY <1>1, <2>1, <2>4, RangeAppend
    <3>2. Rest(t)' = "running"
      BY <3>1, RestCasesNext
    <3>3. ASSUME NEW u \in Thread, u # t PROVE Rest(u)' = Rest(u)
      BY <1>1, <2>3, <3>1, <3>3, RestKept, RestCases, RestCasesNext
    <3>4. [u \in Thread |-> Rest(u)]' = [[u \in Thread |-> Rest(u)] EXCEPT ![t] = "running"]
      BY <3>2, <3>3
    <3>5. C!Resume(t)
      BY <2>1, <2>2, <2>4, <3>4 DEF C!Resume
    <3> QED
      BY <3>5 DEF C!Next
  <2>5. CASE new = Front(chain) /\ Mode(waiting) \in {"suspended", "waiting"}
    <3> DEFINE as == IF Mode(waiting) = "suspended" THEN "suspended" ELSE "gone"
    <3>1. Range(chain') = Range(Front(chain)) \cup {t}
      BY <1>1, <2>1, <2>5, RangeAppend
    <3>2. Rest(t)' = "running"
      BY <3>1, RestCasesNext
    <3>3. ASSUME NEW u, u = Running PROVE Rest(u)' = as
      BY <1>1, <1>3, <2>3, <2>5, <3>1, <3>3, RestCasesNext
    <3>4. ASSUME NEW u \in Thread, u # t, u # Running PROVE Rest(u)' = Rest(u)
      BY <1>1, <2>3, <3>1, <3>4, RestKept
    <3>5. as \in {"suspended", "gone"}
      OBVIOUS
    <3> HIDE DEF as
    <3>6. [u \in Thread |-> Rest(u)]'
            = [[u \in Thread |-> Rest(u)] EXCEPT ![t] = "running", ![Running] = as]
      BY <1>1, <1>3, <3>2, <3>3, <3>4
    <3>7. C!PassOn(t, as)
      BY <2>1, <2>2, <2>5, <3>5, <3>6, LastOfChain DEF C!PassOn
    <3> QED
      BY <3>5, <3>7 DEF C!Next, C!Off
  <2> QED
    BY <2>4, <2>5
<1> QED
  BY <1>2, <1>3

LEMMA HandBackControl == ASSUME ExecInv, HandBack PROVE C!Next
<1> DEFINE low == chain[Len(chain) - 1]
           d == Taken(Current)
           r == Settled(ts[low], Current)
           as == Mode(d)
<1>1. /\ low \in Thread /\ low # Running /\ Running \in Thread /\ Len(chain) > 1
      /\ Range(Front(chain)) = Range(Front(Front(chain))) \cup {low}
      /\ Mode(Current) = "result"
      /\ ts' = [ts EXCEPT ![low] = r, ![Running] = d] /\ ts'[Running] = d
  BY HandBackParts
<1>2. /\ Range(chain) = Range(Front(chain)) \cup {Running} /\ Running \notin Range(Front(chain))
  BY ChainParts DEF ExecInv, Chained
<1>3. as \in {"stopped", "suspended"}
  BY <1>1, TakenShape DEF ExecInv, Current
<1>4. chain' = Front(chain)
  BY DEF HandBack
<1> HIDE DEF low, d, r
<1>5. \A u \in Thread : u # Running /\ u # low => ts'[u] = ts[u]
  BY <1>1 DEF ExecInv
<1>6. ASSUME NEW u, u = Running PROVE Rest(u)' = as
  BY <1>1, <1>2, <1>3, <1>4, <1>6, RestCasesNext
<1>7. ASSUME NEW u \in Thread, u # Running PROVE Rest(u)' = Rest(u)
  <2>1. CASE u \in Range(Front(chain))
    BY <1>2, <1>4, <2>1, RestCases, RestCasesNext
  <2>2. CASE u \notin Range(Front(chain))
    BY <1>1, <1>2, <1>4, <1>5, <1>7, <2>2, RestKept
  <2> QED
    BY <2>1, <2>2
<1> HIDE DEF as
<1>8. [u \in Thread |-> Rest(u)]' = [[u \in Thread |-> Rest(u)] EXCEPT ![Running] = as]
  BY <1>1, <1>6, <1>7
<1>9. C!HandBack(as)
  BY <1>1, <1>3, <1>4, <1>8, LastOfChain DEF C!HandBack
<1> QED
  BY <1>3, <1>9 DEF C!Next, C!Off

\* The host starts anew: the threads that waited, and the one that ran, are left behind.
LEMMA RootControl ==
  ASSUME ExecInv, NEW s, BecomesRoot(s) PROVE [C!Next]_(C!vars)
<1>1. /\ Len(chain) \in Nat \ {0} /\ chain \in Seq(Thread) /\ Running \in Thread
      /\ Range(chain) = Range(Front(chain)) \cup {Running} /\ Waits(Front(chain), ts)
      /\ (Len(chain) > 1 <=> Front(chain) # <<>>)
  BY ChainParts DEF ExecInv, Chained
<1>2. CASE Len(chain) = 1
  BY <1>2, RootStutters
<1>3. CASE Len(chain) > 1
  <2>1. Root \in Thread /\ Root \in Range(chain)
    BY <1>1 DEF Root, Range
  <2>2. chain' = <<Root>> /\ Range(chain') = {Root}
    BY DEF BecomesRoot, Range
  <2>3. \A u \in Thread : u # Root => ts'[u] = ts[u]
    BY <2>1 DEF BecomesRoot, ExecInv
  <2>4. Mode(Current) \in {"normal", "result"}
    BY <1>1, <1>3 DEF ExecInv
  <2>5. ASSUME NEW u \in Range(chain) PROVE Mode(ts[u]) \notin {"stopped", "suspended"}
    <3>1. CASE u = Running
      BY <2>4, <3>1 DEF Current
    <3>2. CASE u \in Range(Front(chain))
      BY <1>1, <3>2 DEF Waits, Range
    <3> QED
      BY <1>1, <3>1, <3>2
  <2>6. ASSUME NEW u \in Thread
        PROVE  Rest(u)' = IF u \in Range(chain) \ {Root} THEN "gone" ELSE Rest(u)
    <3>1. CASE u = Root
      BY <2>1, <2>2, <3>1, RestCases, RestCasesNext
    <3>2. CASE u # Root /\ u \in Range(chain)
      BY <2>2, <2>3, <2>5, <3>2, RestCasesNext
    <3>3. CASE u # Root /\ u \notin Range(chain)
      BY <2>2, <2>3, <3>3, RestKept
    <3> QED
      BY <3>1, <3>2, <3>3
  <2>7. [u \in Thread |-> Rest(u)]'
          = [u \in Thread |-> IF u \in Range(chain) \ {Root} THEN "gone"
                              ELSE [t \in Thread |-> Rest(t)][u]]
    BY <2>6
  <2>8. C!Restart
    BY <1>3, <2>2, <2>7, LastOfChain DEF C!Restart, Root
  <2> QED
    BY <2>8 DEF C!Next
<1> QED
  BY <1>1, <1>2, <1>3

LEMMA FinalizeControl == ASSUME ExecInv, NEW t \in Thread, Finalize(t) PROVE C!Forget(t)
<1>1. t \notin Range(chain) /\ chain' = chain /\ ts' = [ts EXCEPT ![t] = Stopped]
  BY DEF Finalize
<1>2. ts'[t] = Stopped /\ \A u \in Thread : u # t => ts'[u] = ts[u]
  BY <1>1 DEF ExecInv
<1>3. Mode(ts'[t]) = "stopped"
  BY <1>2 DEF Mode, Stopped
<1>4. Rest(t)' = "stopped"
  BY <1>1, <1>3, RestCasesNext
<1>5. ASSUME NEW u \in Thread, u # t PROVE Rest(u)' = Rest(u)
  BY <1>1, <1>2, <1>5, RestKept
<1>6. [u \in Thread |-> Rest(u)]' = [[u \in Thread |-> Rest(u)] EXCEPT ![t] = "stopped"]
  BY <1>4, <1>5
<1> QED
  BY <1>1, <1>6, LastOfChain DEF C!Forget

LEMMA RepliesControl ==
  ASSUME ExecInv, NEW s, Ready(s), Replies(s, FloorOf(s.frames))
  PROVE  [C!Next]_(C!vars)
<1> DEFINE b == FloorOf(s.frames)
<1>1. CASE Errs(s, b)
  BY <1>1, BecomesStutters DEF Errs
<1>2. ASSUME NEW t \in Thread, Creates(s, b, t) PROVE [C!Next]_(C!vars)
  BY <1>2, CreatesControl DEF C!Next
<1>3. ASSUME NEW n, Returns(s, b, n) \/ GoesOn(s, b, n) PROVE [C!Next]_(C!vars)
  BY <1>3, BecomesStutters DEF Returns, GoesOn
<1>4. ASSUME NEW n, NEW then, Yields(s, b, n, then) PROVE [C!Next]_(C!vars)
  BY <1>4, BecomesStutters DEF Yields
<1>5. ASSUME NEW n, NEW then, NEW f, Calls(s, b, n, then, f) PROVE [C!Next]_(C!vars)
  BY <1>5, BecomesStutters DEF Calls
<1>6. ASSUME NEW n, NEW then \in BOOLEAN, NEW f, NEW t \in Thread, YieldsTo(s, b, n, then, t, f)
      PROVE  [C!Next]_(C!vars)
  <2> DEFINE w == Push(Put(Then(s, b, then), b), Bare("yielded"))
  <2>1. Mode(w) = "suspended"
    BY WaitingShape
  <2> HIDE DEF w
  <2>2. Gives(w, t, n, f, Front(chain))
    BY <1>6 DEF YieldsTo, w
  <2> QED
    BY <2>1, <2>2, GivesControl
<1>7. ASSUME NEW n, NEW then \in BOOLEAN, NEW f, NEW t \in Thread, Resumes(s, b, n, then, t, f)
      PROVE  [C!Next]_(C!vars)
  <2> DEFINE w == Push(Put(Then(s, b, then), b), Bare("wait"))
             new == IF Len(w.frames) = 1 THEN Front(chain) ELSE chain
  <2>1. Mode(w) = "waiting"
    BY WaitingShape
  <2>2. Gives(w, t, n, f, new)
    BY <1>7 DEF Resumes
  <2>3. new = Front(chain) \/ new = chain
    OBVIOUS
  <2> HIDE DEF w, new
  <2> QED
    BY <2>1, <2>2, <2>3, GivesControl
<1> QED
  BY <1>1, <1>2, <1>3, <1>4, <1>5, <1>6, <1>7 DEF Replies

LEMMA NextControl == ASSUME ExecInv, [Next]_vars PROVE [C!Next]_(C!vars)
<1>1. CASE Look \/ StepDone \/ Step \/ UNCHANGED vars
  BY <1>1, Stutters DEF Look, StepDone, Step, vars
<1>2. CASE HandBack
  BY <1>2, HandBackControl
<1>3. CASE RunLua
  <2>1. \/ LuaGoesOn \/ LuaCaptures
        \/ \E n \in 0 .. MaxValues :
             \/ LuaReturns(n)
             \/ \E f \in {"lua", "callback"} : LuaCalls(n, f) \/ LuaTailCalls(n, f)
    BY <1>3 DEF RunLua
  <2>2. \E s : Becomes(s)
    BY <2>1 DEF LuaGoesOn, LuaCaptures, LuaReturns, LuaCalls, LuaTailCalls
  <2> QED
    BY <2>2, BecomesStutters
<1>4. CASE LuaFails \/ RunError
  BY <1>4, BecomesStutters DEF LuaFails, RunError
<1>5. CASE RunCallback \/ RunSequence
  <2>1. /\ Shape(Current) /\ Current.frames # <<>>
        /\ Top(Current).is \in {"callback", "sequence"}
    BY <1>5, ChainParts DEF ExecInv, RunCallback, RunSequence, Runs, Mode, Current
  <2>2. Ready(Pop(Current)) /\ Top(Current).bottom = FloorOf(Pop(Current).frames)
    BY <2>1, CallTop
  <2>3. Replies(Pop(Current), FloorOf(Pop(Current).frames))
    BY <1>5, <2>2 DEF RunCallback, RunSequence
  <2> QED
    BY <2>2, <2>3, RepliesControl
<1>6. CASE TakeResult \/ HostResumeErr \/ Stop
  BY <1>6, RootControl DEF TakeResult, HostResumeErr, Stop
<1>7. ASSUME NEW n, NEW f, HostResume(n, f) \/ Restart(n, f) PROVE [C!Next]_(C!vars)
  BY <1>7, RootControl DEF HostResume, Restart
<1>8. ASSUME NEW t \in Thread, Finalize(t) PROVE [C!Next]_(C!vars)
  BY <1>8, FinalizeControl DEF C!Next
<1> QED
  BY <1>1, <1>2, <1>3, <1>4, <1>5, <1>6, <1>7, <1>8 DEF Next

LEMMA InitControl == ASSUME Init PROVE C!Init
<1>1. PICK t \in Thread : chain = <<t>>
  BY DEF Init
<1>2. Range(chain) = {t}
  BY <1>1 DEF Range
<1>3. ASSUME NEW u \in Thread PROVE Mode(ts[u]) = "stopped"
  BY DEF Init, Mode, Stopped
<1>4. ASSUME NEW u \in Thread PROVE Rest(u) = IF u = t THEN "running" ELSE "stopped"
  BY <1>2, <1>3, RestCases
<1> QED
  BY <1>1, <1>4 DEF C!Init

\* The executor implements the coroutines: whatever runs, control is in one chain of
\* threads, is passed on to a suspended thread only, and is handed back to the one that
\* waits (executor.rs thread_stack, step; stdlib/coroutine.rs).
THEOREM ControlAlwaysPasses == Spec => ControlPasses
<1>1. Spec => []ExecInv
  BY InitInv, NextInv, PTL DEF Spec
<1>2. Spec => C!Init /\ [][C!Next]_(C!vars)
  BY <1>1, InitControl, NextControl, PTL DEF Spec
<1> QED
  BY <1>2 DEF ControlPasses, C!Spec

-----------------------------------------------------------------------------
(* The host of the scripts. *)

Timed(i) == loads[i].time # None

\* The loads under way are in the order of their versions, those that have been
\* compiled come first, and in the order of their times.
LoadsInOrder ==
  /\ \A i, j \in DOMAIN loads : i < j => loads[i].v < loads[j].v
  /\ \A i \in DOMAIN loads : loads[i].v <= file.v
  /\ \A i, j \in DOMAIN loads :
       i < j /\ Timed(j) => Timed(i) /\ loads[i].time < loads[j].time
  /\ \A i \in DOMAIN loads : Timed(i) => loads[i].time < clock

\* The asset is older than all of them.
AssetFirst ==
  asset # None =>
    /\ asset.time < clock
    /\ asset.v <= file.v
    /\ \A i \in DOMAIN loads :
         asset.v < loads[i].v /\ (Timed(i) => asset.time < loads[i].time)

\* A script is the asset, or older than it in both respects.
ScriptsFirst ==
  \A m \in Vm :
    scripts[m] # None =>
      /\ asset # None
      /\ scripts[m].v <= asset.v /\ scripts[m].time <= asset.time
      /\ scripts[m].v # asset.v => scripts[m].time < asset.time

InOrder == TypeOK /\ LoadsInOrder /\ AssetFirst /\ ScriptsFirst

-----------------------------------------------------------------------------
LEMMA InitInOrder == HostInit => InOrder
<1> SUFFICES ASSUME HostInit PROVE InOrder
  OBVIOUS
<1> USE ScriptHostAssumption
<1>1. PICK kind \in Kinds : file = [v |-> 1, kind |-> kind]
  BY DEF HostInit
<1>2. Reading(file) \in Entry /\ Reading(file).v = 1 /\ Reading(file).time = None
  BY <1>1 DEF Reading, Entry
<1>3. loads = <<Reading(file)>> /\ loads \in Seq(Entry) /\ DOMAIN loads = {1}
  BY <1>2 DEF HostInit
<1>4. TypeOK
  BY <1>1, <1>3 DEF HostInit, TypeOK
<1>5. LoadsInOrder
  BY <1>1, <1>2, <1>3 DEF LoadsInOrder, Timed
<1>6. AssetFirst /\ ScriptsFirst
  BY DEF HostInit, AssetFirst, ScriptsFirst
<1> QED
  BY <1>4, <1>5, <1>6 DEF InOrder

LEMMA LoadTypes ==
  ASSUME TypeOK, NEW i \in DOMAIN loads
  PROVE  loads[i] \in Entry /\ loads[i].v \in Nat /\ loads[i].time \in Nat \cup {None}
<1>1. loads \in Seq(Entry)
  BY DEF TypeOK
<1>2. loads[i] \in Entry
  BY <1>1
<1> QED
  BY <1>2 DEF Entry

LEMMA EditKeeps ==
  ASSUME InOrder, NEW kind \in Kinds, Edit(kind) PROVE InOrder'
<1> DEFINE new == [v |-> file.v + 1, kind |-> kind]
<1>1. /\ new \in [v : Nat, kind : Kinds] /\ file' = new
      /\ Reading(new) \in Entry /\ Reading(new).v = file.v + 1
      /\ Reading(new).time = None /\ file.v \in Nat
  BY DEF Edit, InOrder, TypeOK, Entry, Reading
<1>2. /\ loads \in Seq(Entry) /\ loads' = Append(loads, Reading(new))
      /\ loads' \in Seq(Entry) /\ Len(loads') = Len(loads) + 1
      /\ DOMAIN loads' = 1..(Len(loads) + 1) /\ DOMAIN loads = 1..Len(loads)
      /\ Len(loads) \in Nat
  BY <1>1 DEF Edit, InOrder, TypeOK
<1>3. \A i \in DOMAIN loads : loads'[i] = loads[i]
  BY <1>1, <1>2
<1>4. loads'[Len(loads) + 1] = Reading(new)
  BY <1>1, <1>2
<1>5. \A i \in DOMAIN loads' : i \in DOMAIN loads \/ i = Len(loads) + 1
  BY <1>2
<1>6. TypeOK'
  BY <1>1, <1>2 DEF Edit, InOrder, TypeOK
<1>7. LoadsInOrder'
  <2>1. \A i \in DOMAIN loads : loads[i].v \in Nat /\ i \in Nat /\ i < Len(loads) + 1
    BY <1>2, LoadTypes DEF InOrder
  <2>2. \A i, j \in DOMAIN loads' : i < j => loads'[i].v < loads'[j].v
    BY <1>1, <1>3, <1>4, <1>5, <2>1 DEF InOrder, LoadsInOrder
  <2>3. \A i \in DOMAIN loads' : loads'[i].v <= file'.v
    BY <1>1, <1>3, <1>4, <1>5, <2>1 DEF InOrder, LoadsInOrder
  <2>4. \A i, j \in DOMAIN loads' :
          i < j /\ loads'[j].time # None
            => loads'[i].time # None /\ loads'[i].time < loads'[j].time
    BY <1>1, <1>2, <1>3, <1>4, <1>5, <2>1 DEF InOrder, LoadsInOrder, Timed
  <2>5. \A i \in DOMAIN loads' : loads'[i].time # None => loads'[i].time < clock'
    <3>1. clock' = clock /\ \A i \in DOMAIN loads : loads[i].time # None => loads[i].time < clock
      BY DEF Edit, InOrder, LoadsInOrder, Timed
    <3> QED
      BY <1>1, <1>3, <1>4, <1>5, <3>1
  <2> QED
    BY <2>2, <2>3, <2>4, <2>5 DEF LoadsInOrder, Timed
<1>8. AssetFirst'
  <2> SUFFICES ASSUME asset # None
               PROVE  /\ asset.time < clock /\ asset.v <= file'.v
                      /\ \A i \in DOMAIN loads' :
                           /\ asset.v < loads'[i].v
                           /\ loads'[i].time # None => asset.time < loads'[i].time
    BY DEF Edit, AssetFirst, Timed
  <2>1. asset.v \in Nat /\ asset.v <= file.v /\ asset.time < clock
    BY DEF InOrder, TypeOK, AssetFirst
  <2> QED
    BY <1>1, <1>3, <1>4, <1>5, <2>1 DEF InOrder, AssetFirst, Timed
<1>9. ScriptsFirst'
  BY DEF Edit, InOrder, ScriptsFirst
<1> QED
  BY <1>6, <1>7, <1>8, <1>9 DEF InOrder

LEMMA CompileKeeps ==
  ASSUME InOrder, NEW k \in DOMAIN loads, Compile(k) PROVE InOrder'
<1> USE ScriptHostAssumption
<1>1. /\ loads \in Seq(Entry) /\ clock \in Nat /\ clock' = clock + 1
      /\ loads' = [loads EXCEPT ![k] = [@ EXCEPT !.time = clock]]
  BY DEF Compile, InOrder, TypeOK
<1>2. /\ DOMAIN loads' = DOMAIN loads
      /\ \A i \in DOMAIN loads : i # k => loads'[i] = loads[i]
      /\ loads'[k].v = loads[k].v /\ loads'[k].kind = loads[k].kind
      /\ loads'[k].time = clock
      /\ loads'[k] \in Entry
  <2> DEFINE timed == [loads[k] EXCEPT !.time = clock]
  <2>1. loads[k] \in Entry
    BY <1>1
  <2>2. /\ timed \in Entry /\ timed.v = loads[k].v /\ timed.kind = loads[k].kind
        /\ timed.time = clock
    BY <1>1, <2>1 DEF Entry
  <2>3. loads' = [loads EXCEPT ![k] = timed]
    BY <1>1
  <2> HIDE DEF timed
  <2> QED
    BY <1>1, <2>2, <2>3
<1>3. DOMAIN loads \subseteq Nat /\ \A i \in DOMAIN loads : i < k => i \in 1..(k - 1)
  <2>1. Len(loads) \in Nat /\ DOMAIN loads = 1..Len(loads)
    BY <1>1
  <2> QED
    BY <2>1
<1>4. \A i \in DOMAIN loads : i < k => Timed(i)
  BY <1>3 DEF Compile, Timed
<1>5. \A i \in DOMAIN loads : k < i => ~Timed(i)
  BY DEF Compile, InOrder, LoadsInOrder, Timed
<1>6. \A i \in DOMAIN loads : loads[i].v \in Nat /\ loads[i].time \in Nat \cup {None}
  BY LoadTypes DEF InOrder
<1>7. TypeOK'
  BY <1>1, <1>2 DEF Compile, InOrder, TypeOK
<1>8. LoadsInOrder'
  <2>1. \A i, j \in DOMAIN loads' : i < j => loads'[i].v < loads'[j].v
    BY <1>2 DEF InOrder, LoadsInOrder
  <2>2. \A i \in DOMAIN loads' : loads'[i].v <= file'.v
    BY <1>2 DEF Compile, InOrder, LoadsInOrder
  <2>3. \A i, j \in DOMAIN loads' :
          i < j /\ loads'[j].time # None
            => loads'[i].time # None /\ loads'[i].time < loads'[j].time
    BY <1>1, <1>2, <1>3, <1>4, <1>5, <1>6 DEF InOrder, LoadsInOrder, Timed
  <2>4. \A i \in DOMAIN loads' : loads'[i].time # None => loads'[i].time < clock'
    BY <1>1, <1>2, <1>6 DEF InOrder, LoadsInOrder, Timed
  <2> QED
    BY <2>1, <2>2, <2>3, <2>4 DEF LoadsInOrder, Timed
<1>9. AssetFirst'
  <2> SUFFICES ASSUME asset # None
               PROVE  /\ asset.time < clock' /\ asset.v <= file.v
                      /\ \A i \in DOMAIN loads' :
                           /\ asset.v < loads'[i].v
                           /\ loads'[i].time # None => asset.time < loads'[i].time
    BY DEF Compile, AssetFirst, Timed
  <2>1. asset.time \in Nat /\ asset.v <= file.v /\ asset.time < clock
    BY DEF InOrder, TypeOK, AssetFirst
  <2> QED
    BY <1>1, <1>2, <2>1 DEF InOrder, AssetFirst, Timed
<1>10. ScriptsFirst'
  BY DEF Compile, InOrder, ScriptsFirst
<1> QED
  BY <1>7, <1>8, <1>9, <1>10 DEF InOrder

LEMMA InsertKeeps == ASSUME InOrder, Insert PROVE InOrder'
<1> USE ScriptHostAssumption
<1>1. /\ loads \in Seq(Entry) /\ loads # <<>> /\ Len(loads) \in Nat \ {0}
      /\ loads' = Tail(loads) /\ loads' \in Seq(Entry)
      /\ DOMAIN loads = 1..Len(loads) /\ DOMAIN loads' = 1..(Len(loads) - 1)
      /\ Head(loads) = loads[1] /\ loads[1] \in Entry /\ 1 \in DOMAIN loads
  BY DEF Insert, InOrder, TypeOK
<1>2. \A i \in DOMAIN loads' :
        i \in Nat /\ i + 1 \in DOMAIN loads /\ 1 < i + 1 /\ loads'[i] = loads[i + 1]
  BY <1>1
<1>3. Timed(1) /\ loads[1].time \in Nat /\ loads[1].v \in Nat
  BY <1>1 DEF Insert, Timed, Entry
<1>4. \/ asset' = asset
      \/ asset' = loads[1] /\ loads[1] \in [v : Nat, kind : Kinds, time : Nat]
  BY <1>1, <1>3 DEF Insert, Entry
<1>5. TypeOK'
  BY <1>1, <1>4 DEF Insert, InOrder, TypeOK
<1>6. LoadsInOrder'
  <2>1. \A i, j \in DOMAIN loads' : i < j => loads'[i].v < loads'[j].v
    BY <1>2 DEF InOrder, LoadsInOrder
  <2>2. \A i \in DOMAIN loads' : loads'[i].v <= file'.v
    BY <1>2 DEF Insert, InOrder, LoadsInOrder
  <2>3. \A i, j \in DOMAIN loads' :
          i < j /\ loads'[j].time # None
            => loads'[i].time # None /\ loads'[i].time < loads'[j].time
    BY <1>2 DEF InOrder, LoadsInOrder, Timed
  <2>4. \A i \in DOMAIN loads' : loads'[i].time # None => loads'[i].time < clock'
    BY <1>2 DEF Insert, InOrder, LoadsInOrder, Timed
  <2> QED
    BY <2>1, <2>2, <2>3, <2>4 DEF LoadsInOrder, Timed
<1>7. AssetFirst'
  <2>1. CASE asset' = asset
    BY <1>2, <2>1 DEF Insert, InOrder, AssetFirst, Timed
  <2>2. CASE asset' = loads[1]
    <3>1. loads[1].time < clock /\ loads[1].v <= file.v
      BY <1>1, <1>3 DEF InOrder, LoadsInOrder
    <3>2. \A i \in DOMAIN loads' :
            /\ loads[1].v < loads'[i].v
            /\ loads'[i].time # None => loads[1].time < loads'[i].time
      BY <1>1, <1>2 DEF InOrder, LoadsInOrder, Timed
    <3> QED
      BY <2>2, <3>1, <3>2 DEF Insert, AssetFirst, Timed
  <2> QED
    BY <1>4, <2>1, <2>2
<1>8. ScriptsFirst'
  <2>1. CASE asset' = asset
    BY <2>1 DEF Insert, InOrder, ScriptsFirst
  <2>2. CASE asset' = loads[1]
    <3> SUFFICES ASSUME NEW m \in Vm, scripts[m] # None
                 PROVE  /\ loads[1] # None
                        /\ scripts[m].v <= loads[1].v
                        /\ scripts[m].time < loads[1].time
      BY <1>3, <2>2 DEF Insert, InOrder, TypeOK, ScriptsFirst, Script
    <3>1. /\ asset # None /\ scripts[m].v <= asset.v /\ scripts[m].time <= asset.time
          /\ scripts[m].v \in Nat /\ scripts[m].time \in Nat
          /\ asset.v \in Nat /\ asset.time \in Nat
      BY DEF InOrder, TypeOK, ScriptsFirst, Script
    <3>2. asset.v < loads[1].v /\ asset.time < loads[1].time
      BY <1>1, <1>3, <3>1 DEF InOrder, AssetFirst
    <3> QED
      BY <1>1, <1>3, <3>1, <3>2
  <2> QED
    BY <1>4, <2>1, <2>2
<1> QED
  BY <1>5, <1>6, <1>7, <1>8 DEF InOrder

LEMMA TickKeeps == ASSUME InOrder, Tick PROVE InOrder'
<1>1. clock \in Nat /\ clock' = clock + 1
  BY DEF Tick, InOrder, TypeOK
<1>2. \A i \in DOMAIN loads : loads[i].time \in Nat \cup {None}
  BY LoadTypes DEF InOrder
<1>3. TypeOK'
  BY <1>1 DEF Tick, InOrder, TypeOK
<1>4. LoadsInOrder'
  BY <1>1, <1>2 DEF Tick, InOrder, LoadsInOrder, Timed
<1>5. AssetFirst'
  BY <1>1 DEF Tick, InOrder, TypeOK, AssetFirst, Timed
<1>6. ScriptsFirst'
  BY DEF Tick, InOrder, ScriptsFirst
<1> QED
  BY <1>3, <1>4, <1>5, <1>6 DEF InOrder

\* What a frame does to the scripts of the machines.
LEMMA FrameLoads ==
  ASSUME InOrder, Frame
  PROVE  /\ called' \in Nat \cup {None}
         /\ scripts' = scripts
              \/ \E m \in Vm : scripts' = [scripts EXCEPT ![m] = Loaded(asset)]
<1>1. asset # None /\ asset \in [v : Nat, kind : Kinds, time : Nat]
  BY DEF Frame, InOrder, TypeOK
<1>2. PICK m \in Vm : CallLoaded(m) \/ CallNew(m) \/ LoadFails(m)
  BY DEF Frame
<1>3. CASE CallLoaded(m)
  BY <1>3 DEF CallLoaded, NeedsLoad, InOrder, TypeOK, Script
<1>4. CASE CallNew(m)
  BY <1>1, <1>4 DEF CallNew
<1>5. CASE LoadFails(m)
  BY <1>5 DEF LoadFails
<1> QED
  BY <1>2, <1>3, <1>4, <1>5

LEMMA FrameKeeps == ASSUME InOrder, Frame PROVE InOrder'
<1>1. asset # None /\ asset \in [v : Nat, kind : Kinds, time : Nat]
  BY DEF Frame, InOrder, TypeOK
<1>2. Loaded(asset) \in Script /\ Loaded(asset).v = asset.v /\ Loaded(asset).time = asset.time
  BY <1>1 DEF Loaded, Script
<1>3. \A m \in Vm : scripts'[m] = scripts[m] \/ scripts'[m] = Loaded(asset)
  BY FrameLoads DEF InOrder, TypeOK
<1>4. TypeOK'
  BY <1>2, FrameLoads DEF Frame, InOrder, TypeOK
<1>5. LoadsInOrder' /\ AssetFirst'
  BY DEF Frame, InOrder, LoadsInOrder, AssetFirst, Timed
<1>6. ScriptsFirst'
  BY <1>1, <1>2, <1>3 DEF Frame, InOrder, ScriptsFirst
<1> QED
  BY <1>4, <1>5, <1>6 DEF InOrder

LEMMA NextInOrder == InOrder /\ [HostNext]_hostVars => InOrder'
<1> SUFFICES ASSUME InOrder, [HostNext]_hostVars PROVE InOrder'
  OBVIOUS
<1>1. CASE \E kind \in Kinds : Edit(kind)
  BY <1>1, EditKeeps
<1>2. CASE Compiles
  BY <1>2, CompileKeeps DEF Compiles
<1>3. CASE Insert
  BY <1>3, InsertKeeps
<1>4. CASE Tick
  BY <1>4, TickKeeps
<1>5. CASE Frame
  BY <1>5, FrameKeeps
<1>6. CASE UNCHANGED hostVars
  BY <1>6 DEF hostVars, InOrder, TypeOK, LoadsInOrder, AssetFirst, ScriptsFirst, Timed
<1> QED
  BY <1>1, <1>2, <1>3, <1>4, <1>5, <1>6 DEF HostNext

-----------------------------------------------------------------------------
\* The invariant, for any number of threads and versions.
THEOREM AlwaysInOrder == HostSpec => []InOrder
  BY InitInOrder, NextInOrder, PTL DEF HostSpec

\* The variables of the script host have their types.
THEOREM ScriptTypes == HostSpec => []TypeOK
<1>1. InOrder => TypeOK
  BY DEF InOrder
<1> QED
  BY <1>1, AlwaysInOrder, PTL

\* get_script compares times only, and that tells every old script from the asset.
THEOREM OldIsAlwaysSeen == HostSpec => []OldIsSeen
<1>1. InOrder => OldIsSeen
  BY DEF InOrder, ScriptsFirst, OldIsSeen
<1> QED
  BY <1>1, AlwaysInOrder, PTL

\* No machine goes back to an older version of the script.
THEOREM NeverBackToOlder == HostSpec => NeverBack
<1> USE ScriptHostAssumption
<1>1. InOrder /\ [HostNext]_hostVars =>
        [\A m \in Vm : scripts[m] # None
                         => scripts'[m] # None /\ scripts'[m].v >= scripts[m].v]_hostVars
  <2> SUFFICES ASSUME InOrder, [HostNext]_hostVars, NEW m \in Vm, scripts[m] # None
               PROVE  scripts'[m] # None /\ scripts'[m].v >= scripts[m].v
    OBVIOUS
  <2>1. scripts[m].v \in Nat /\ asset # None /\ scripts[m].v <= asset.v /\ asset.v \in Nat
    BY DEF InOrder, TypeOK, Script, ScriptsFirst
  <2>2. CASE Frame
    <3>1. Loaded(asset) \in Script /\ Loaded(asset).v = asset.v
      BY <2>1 DEF Loaded, Script, InOrder, TypeOK
    <3>2. scripts'[m] = scripts[m] \/ scripts'[m] = Loaded(asset)
      BY <2>2, FrameLoads DEF InOrder, TypeOK
    <3> QED
      BY <2>1, <3>1, <3>2
  <2>3. CASE ~Frame
    <3>1. scripts' = scripts
      BY <2>3 DEF HostNext, Compiles, Edit, Compile, Insert, Tick, hostVars
    <3> QED
      BY <2>1, <3>1
  <2> QED
    BY <2>2, <2>3
<1> QED
  BY <1>1, AlwaysInOrder, PTL DEF HostSpec, NeverBack
================================================================================
