--------------------------------- MODULE LuaVM ---------------------------------
(***************************************************************************)
(* The virtual machine (piccolo/src/thread/vm.rs, thread.rs, meta_ops.rs): *)
(* one thread that runs a compiled chunk, an instruction or a callback at  *)
(* a step.                                                                 *)
(*                                                                         *)
(* The stack of the source counts from 0, the sequence here from 1.  Lua   *)
(* functions and tables are values <<"fn", id>> and <<"table", id>>; the   *)
(* functions of the host are <<"native", name>>: emit, which records its   *)
(* arguments; setmetatable; and the two that carry an index or an          *)
(* assignment on to the table a metatable names.  <<"bound", v, f>> calls  *)
(* f with v before its arguments.                                          *)
(***************************************************************************)
EXTENDS LuaCode, TLC

CONSTANT Loaded   \* a sequence of programs, each as Load makes it of its tokens

Compiled(c) == c.parsed = None /\ c.err = None

\* The machine is given what its compiler makes: TLC checks it of every program that a
\* run compiles.
ASSUME LoadedAssumption ==
  \A p \in DOMAIN Loaded : LET c == Loaded[p] IN Compiled(c) => Sound(c)

VARIABLES
  pgm,      \* which of them is run
  code,     \* the prototypes it was compiled to
  status,   \* running, result, error (a Lua error), uncompiled; overrun: the panic of a
            \* tail call with more parameters than there is stack; or fault: what only wrong
            \* code can do, an assertion or VMError::ExpectedVariableStack
  th,       \* the thread: its frames, its stack and its open upvalues, by place
  heap,     \* the upvalues, closures and tables there have been
  out       \* what emit was called with

vars == <<pgm, code, status, th, heap, out>>

ProtoOf(h, f) == code[h.closures[f[2]].proto]

IsFunction(v) == v[1] \in {"fn", "native", "bound"}

-----------------------------------------------------------------------------
(* The stack.                                                              *)

Truncate(s, n) == SubSeq(s, 1, IF n < Len(s) THEN n ELSE Len(s))
Resize(s, n) == [i \in 1 .. n |-> IF i <= Len(s) THEN s[i] ELSE NilValue]

\* Mutant: the arguments stay where they are.
NotTurned(s, n, k) == s

\* What is from index n on, turned by k places.
TurnLeft(s, n, k) == SubSeq(s, 1, n) \o SubSeq(s, n + k + 1, Len(s)) \o SubSeq(s, n + 1, n + k)

Frame == Last(th.frames)
Reg(r) == th.stack[Frame.base + r + 1]
UpTo(r, n) == SubSeq(th.stack, Frame.base + r + 1, Frame.base + r + n)

WithStack(t, s) == [t EXCEPT !.stack = s]
SetReg(t, r, v) == [t EXCEPT !.stack[Last(t.frames).base + r + 1] = v]
WithFrame(t, f) == [t EXCEPT !.frames[Len(t.frames)] = f]
Skip(t, n) == [t EXCEPT !.frames[Len(t.frames)].pc = @ + n]

LuaFrame(bottom, base, size) ==
  [is |-> "lua", bottom |-> bottom, base |-> base, size |-> size, variable |-> FALSE, pc |-> 0,
   ret |-> <<>>]

CallbackFrame(bottom, f) == [is |-> "callback", bottom |-> bottom, func |-> f]

\* A Lua function at the given index, n arguments after it: those that are not for
\* parameters go below its registers.
Enter(t, h, bottom, n, f) ==
  LET p == ProtoOf(h, f)
      extra == IF n > p.params THEN n - p.params ELSE 0
      args == IF extra = 0 THEN t.stack
              ELSE TurnLeft(Truncate(t.stack, bottom + 1 + n), bottom + 1, p.params)
      base == bottom + 1 + extra
  IN  [t EXCEPT !.stack = Resize([args EXCEPT ![bottom + 1] = f], base + p.size),
                !.frames = Append(@, LuaFrame(bottom, base, p.size))]

\* ThreadState::push_call: the arguments are all there is above bottom.
PushCall(t, h, bottom, f) ==
  LET n == Len(t.stack) - bottom
      s == SubSeq(t.stack, 1, bottom) \o <<f>> \o SubSeq(t.stack, bottom + 1, Len(t.stack))
  IN  IF f[1] = "fn" THEN Enter(WithStack(t, s), h, bottom, n, f)
      ELSE [t EXCEPT !.frames = Append(@, CallbackFrame(bottom, f))]

\* What a Lua frame does with the value of a metamethod it called.
MetaReturn(t, ret, v) ==
  CASE ret[2] = "none" -> t
    [] ret[2] = "register" -> SetReg(t, ret[3], v)
    [] ret[2] = "skip_if" -> IF IsTrue(v) = ret[3] THEN Skip(t, 1) ELSE t

\* Mutant: the stack is left as it is.
Unfilled(t) == t.stack

\* All registers of the frame, and nothing above them.
Full(t) == Resize(t.stack, Last(t.frames).base + Last(t.frames).size)

\* return_to, and the end of return_upper: values for the Lua frame at the top, from
\* index bottom on.
Returned(t, bottom, values) ==
  LET f == Last(t.frames)
      done == WithFrame(t, [f EXCEPT !.ret = <<>>, !.variable = FALSE])
      first == IF values = <<>> THEN NilValue ELSE values[1]
      n == IF f.ret[2] = Variable THEN Len(values) ELSE f.ret[2]
      s == SubSeq(t.stack, 1, bottom) \o Resize(values, n)
  IN  IF f.ret[1] = "meta" THEN MetaReturn(WithStack(done, Full(done)), f.ret, first)
      ELSE IF f.ret[2] = Variable
      THEN WithFrame(WithStack(done, s), [f EXCEPT !.ret = <<>>, !.variable = TRUE])
      ELSE WithStack(done, Resize(s, f.base + f.size))

\* To the frame below, or to whoever takes the results.
ReturnTo(t, bottom, values) ==
  IF t.frames = <<>>
  THEN [t EXCEPT !.stack = SubSeq(@, 1, bottom) \o values,
                 !.frames = <<[is |-> "result", bottom |-> bottom]>>]
  ELSE Returned(t, bottom, values)

-----------------------------------------------------------------------------
(* Upvalues.                                                               *)

\* binary_search_by: where the first of those that are open at i or above is.
PlaceFor(t, h, i) ==
  CHOOSE k \in 1 .. Len(t.open) + 1 :
    \A j \in DOMAIN t.open : j < k <=> h.cells[t.open[j]].at < i

\* close_upvalues: those at bottom and above keep the values they have.
Closed(t, h, bottom) ==
  LET start == PlaceFor(t, h, bottom)
      gone == Range(SubSeq(t.open, start, Len(t.open)))
      Shut(u) == [open |-> FALSE, at |-> 0, value |-> t.stack[h.cells[u].at + 1]]
  IN  [t |-> [t EXCEPT !.open = SubSeq(@, 1, start - 1)],
       h |-> [h EXCEPT !.cells = [u \in DOMAIN h.cells |-> IF u \in gone THEN Shut(u) ELSE h.cells[u]]]]

OpenCell(i) == [open |-> TRUE, at |-> i, value |-> NilValue]

\* A new upvalue, the k-th that is open.
Opening(t, h, i, k) ==
  LET new == Len(h.cells) + 1
  IN  [u |-> new, t |-> [t EXCEPT !.open = SubSeq(@, 1, k - 1) \o <<new>> \o SubSeq(@, k, Len(@))],
       h |-> [h EXCEPT !.cells = Append(@, OpenCell(i))]]

\* Mutant: every closure gets a cell of its own.
NeverShared(t, h, i) == Opening(t, h, i, PlaceFor(t, h, i))

\* open_upvalue: one for each place of the stack, kept in their order.
Opened(t, h, i) ==
  LET k == PlaceFor(t, h, i)
  IN  IF k <= Len(t.open) /\ h.cells[t.open[k]].at = i THEN [u |-> t.open[k], t |-> t, h |-> h]
      ELSE Opening(t, h, i, k)

ClosureOf(f) == heap.closures[f[2]]
Current == th.stack[Frame.bottom + 1]
Cell(i) == heap.cells[ClosureOf(Current).ups[i]]

\* The assertion of get_upvalue and set_upvalue.
AboveFrame(i) == Cell(i).open => Cell(i).at < Frame.bottom

CellValue(i) == IF Cell(i).open THEN th.stack[Cell(i).at + 1] ELSE Cell(i).value

-----------------------------------------------------------------------------
(* Tables and metatables.                                                  *)

RawGet(h, t, k) == LET m == h.tables[t[2]].map IN IF k \in DOMAIN m THEN m[k] ELSE NilValue

RawSet(h, t, k, v) ==
  LET m == h.tables[t[2]].map
      keys == IF v = NilValue THEN DOMAIN m \ {k} ELSE DOMAIN m \cup {k}
  IN  [h EXCEPT !.tables[t[2]].map = [x \in keys |-> IF x = k THEN v ELSE m[x]]]

\* The values from start + 1 on.
RawSetList(h, t, start, values) ==
  LET m == h.tables[t[2]].map
      keys == {<<"int", start + i>> : i \in DOMAIN values}
      new(k) == IF k \in keys
                THEN values[CHOOSE i \in DOMAIN values : k = <<"int", start + i>>] ELSE m[k]
  IN  [h EXCEPT !.tables[t[2]].map =
        [k \in {x \in DOMAIN m \cup keys : new(x) # NilValue} |-> new(k)]]

IsTable(v) == v[1] = "table"

\* The field of the metatable of a table, nil without one.
MetaField(h, v, name) ==
  IF IsTable(v) /\ h.tables[v[2]].meta # NilValue
  THEN RawGet(h, h.tables[v[2]].meta, Str(name)) ELSE NilValue

\* meta_ops::call: the function that is called for v, nil for an error.
CallableFor(h, v) ==
  LET f == MetaField(h, v, "__call")
  IN  IF IsFunction(v) THEN v
      ELSE IF IsFunction(f) \/ IsTable(f) THEN <<"bound", v, f>> ELSE NilValue

Value(v) == [is |-> "value", value |-> v]
Error == [is |-> "error"]
CallFor(h, f, args) ==
  IF CallableFor(h, f) = NilValue THEN Error
  ELSE [is |-> "call", func |-> CallableFor(h, f), args |-> args]

\* meta_ops::index.
Index(h, t, k) ==
  LET raw == RawGet(h, t, k)
      idx == MetaField(h, t, "__index")
  IN  IF ~IsTable(t) THEN Error
      ELSE IF raw # NilValue \/ idx = NilValue THEN Value(raw)
      ELSE IF IsTable(idx)
      THEN [is |-> "call", func |-> <<"native", "index">>, args |-> <<idx, k>>]
      ELSE CallFor(h, idx, <<t, k>>)

\* meta_ops::new_index.
NewIndex(h, t, k, v) ==
  LET raw == RawGet(h, t, k)
      idx == MetaField(h, t, "__newindex")
  IN  IF ~IsTable(t) THEN Error
      ELSE IF raw # NilValue \/ idx = NilValue
      THEN IF k = NilValue THEN Error ELSE [is |-> "set", heap |-> RawSet(h, t, k, v)]
      ELSE IF IsTable(idx)
      THEN [is |-> "call", func |-> <<"native", "newindex">>, args |-> <<idx, k, v>>]
      ELSE CallFor(h, idx, <<t, k, v>>)

\* A border of a table.
Border(h, t) ==
  CHOOSE n \in 0 .. Cardinality(DOMAIN h.tables[t[2]].map) :
    /\ n = 0 \/ <<"int", n>> \in DOMAIN h.tables[t[2]].map
    /\ <<"int", n + 1>> \notin DOMAIN h.tables[t[2]].map

\* meta_ops::len, of a table.
LengthOf(h, v) ==
  LET len == MetaField(h, v, "__len")
  IN  IF ~IsTable(v) THEN Error
      ELSE IF len # NilValue THEN CallFor(h, len, <<v>>) ELSE Value(<<"int", Border(h, v)>>)

\* meta_ops::equal: only two tables that are not the same are asked for __eq.
Equals(h, a, b) ==
  LET eq == IF MetaField(h, a, "__eq") # NilValue THEN MetaField(h, a, "__eq")
            ELSE MetaField(h, b, "__eq")
  IN  IF a = b \/ ~IsTable(a) \/ ~IsTable(b) \/ eq = NilValue THEN Value(<<"bool", a = b>>)
      ELSE CallFor(h, eq, <<a, b>>)

\* What a value adds to a string; <<>> for one that cannot be part of one.
Piece(v) ==
  CASE v[1] = "nil" -> <<"nil">>
    [] v[1] = "bool" -> <<IF v[2] THEN "true" ELSE "false">>
    [] v[1] = "int" -> <<ToString(v[2])>>
    [] v[1] = "str" -> v[2]
    [] OTHER -> <<>>

-----------------------------------------------------------------------------
(* Instructions.  The pc is already after the one that is executed.        *)

Proto == ProtoOf(heap, Current)
Operation == Decode(Proto.ops[Frame.pc + 1])
Ahead == Skip(th, 1)

Goes(t, h) == th' = t /\ heap' = h /\ UNCHANGED <<pgm, code, status, out>>
Ends(s) == status' = s /\ UNCHANGED <<pgm, code, th, heap, out>>
Sets(r, v) == Goes(SetReg(Ahead, r, v), heap)

Rc(o) == IF o[1] = "r" THEN Reg(o[2]) ELSE Proto.consts[o[2]]

\* call_meta_function: above everything the frame uses.
CallMeta(t, f, args, ret) ==
  LET top == Last(t.frames).base + Last(t.frames).size
      waiting == WithFrame(t, [Last(t.frames) EXCEPT !.ret = <<"meta">> \o ret])
      full == WithStack(waiting, SubSeq(t.stack, 1, top) \o args)
  IN  PushCall(full, heap, top, f)

\* The result of a meta operation, to a register or to decide a jump.
Answers(m, ret) ==
  CASE m.is = "error" -> Ends("error")
    [] m.is = "value" -> Goes(MetaReturn(Ahead, <<"meta">> \o ret, m.value), heap)
    [] m.is = "set" -> Goes(Ahead, m.heap)
    [] m.is = "call" ->
         IF Frame.variable THEN Ends("fault") ELSE Goes(CallMeta(Ahead, m.func, m.args, ret), heap)

ToRegister(r) == <<"register", r>>

Move(o) == o.op = "Move" /\ Sets(o.dest, Reg(o.source))
LoadConstant(o) == o.op = "LoadConstant" /\ Sets(o.dest, Proto.consts[o.constant])

LoadBoolean(o) ==
  /\ o.op = "LoadBool"
  /\ Goes(Skip(SetReg(Ahead, o.dest, <<"bool", o.value>>), IF o.skip_next THEN 1 ELSE 0), heap)

LoadNils(o) ==
  /\ o.op = "LoadNil"
  /\ LET nils == Frame.base + o.dest + 1 .. Frame.base + o.dest + o.count
     IN  Goes(WithStack(Ahead, [i \in DOMAIN th.stack |->
                                 IF i \in nils THEN NilValue ELSE th.stack[i]]), heap)

EmptyTable == [map |-> [k \in {} |-> NilValue], meta |-> NilValue]

NewTable(o) ==
  /\ o.op = "NewTable"
  /\ Goes(SetReg(Ahead, o.dest, <<"table", Len(heap.tables) + 1>>),
          [heap EXCEPT !.tables = Append(@, EmptyTable)])

GetTable(o) == o.op = "GetTable" /\ Answers(Index(heap, Reg(o.table), Rc(o.key)), ToRegister(o.dest))

PutTable(o) ==
  o.op = "SetTable" /\ Answers(NewIndex(heap, Reg(o.table), Rc(o.key), Rc(o.value)), <<"none">>)

GetUpTable(o) ==
  /\ o.op = "GetUpTable"
  /\ IF ~AboveFrame(o.table) THEN Ends("fault")
     ELSE Answers(Index(heap, CellValue(o.table), Rc(o.key)), ToRegister(o.dest))

PutUpTable(o) ==
  /\ o.op = "SetUpTable"
  /\ IF ~AboveFrame(o.table) THEN Ends("fault")
     ELSE Answers(NewIndex(heap, CellValue(o.table), Rc(o.key), Rc(o.value)), <<"none">>)

\* set_table_list.
SetList(o) ==
  LET at == o.base
      n == IF o.count = Variable THEN Len(th.stack) - Frame.base - at - 2 ELSE o.count
      start == Reg(at + 1)[2]
      done == SetReg(Ahead, at + 1, <<"int", start + n>>)
      rest == WithFrame(done, [Last(done.frames) EXCEPT !.variable = FALSE])
      values == SubSeq(th.stack, Frame.base + at + 3, Frame.base + at + 2 + n)
  IN  /\ o.op = "SetList"
      /\ IF (o.count = Variable) # Frame.variable THEN Ends("fault")
         ELSE IF ~IsTable(Reg(at)) \/ Reg(at + 1)[1] # "int" THEN Ends("error")
         ELSE Goes(IF o.count = Variable THEN WithStack(rest, Full(rest)) ELSE done,
                   RawSetList(heap, Reg(at), start, values))

\* call_function.
CallInstruction(o) ==
  LET at == Frame.base + o.func
      n == IF o.args = Variable THEN Len(th.stack) - at - 1 ELSE o.args
      f == CallableFor(heap, th.stack[at + 1])
      waiting == WithFrame(Ahead, [Last(Ahead.frames) EXCEPT !.ret = <<"normal", o.returns>>])
      args == SubSeq(th.stack, 1, at) \o SubSeq(th.stack, at + 2, at + 1 + n)
  IN  /\ o.op = "Call"
      /\ IF (o.args = Variable) # Frame.variable THEN Ends("fault")
         ELSE IF f = NilValue THEN Ends("error")
         ELSE Goes(IF f[1] = "fn" THEN Enter(waiting, heap, at, n, f)
                   ELSE PushCall(WithStack(waiting, args), heap, at, f), heap)

\* call_function_keep: the function and its arguments are needed again.
GenericForCall(o) ==
  LET at == Frame.base + o.base
      top == at + 3
      f == CallableFor(heap, th.stack[at + 1])
      waiting == WithFrame(Ahead, [Last(Ahead.frames) EXCEPT !.ret = <<"normal", o.var_count>>])
      args == SubSeq(th.stack, 1, top) \o SubSeq(th.stack, at + 2, at + 3)
  IN  /\ o.op = "GenericForCall"
      /\ IF Frame.variable THEN Ends("fault")
         ELSE IF f = NilValue THEN Ends("error")
         ELSE Goes(PushCall(WithStack(waiting, args), heap, top, f), heap)

\* tail_call_function: in the place of this frame.  Parameters that are not given
\* are set to nil; the stack has to reach as far.
TailCallInstruction(o) ==
  LET at == Frame.base + o.func
      n == IF o.args = Variable THEN Len(th.stack) - at - 1 ELSE o.args
      f == CallableFor(heap, th.stack[at + 1])
      c == Closed(th, heap, Frame.bottom)
      popped == [c.t EXCEPT !.frames = Front(@)]
      args == SubSeq(th.stack, at + 2, at + 1 + n)
      params == ProtoOf(heap, f).params
      filled == [i \in DOMAIN th.stack |->
                   LET k == i - Frame.bottom - 1
                   IN  IF k \in 1 .. n THEN args[k]
                       ELSE IF k \in n + 1 .. params THEN NilValue ELSE th.stack[i]]
  IN  /\ o.op = "TailCall"
      /\ IF (o.args = Variable) # Frame.variable THEN Ends("fault")
         ELSE IF f = NilValue THEN Ends("error")
         ELSE IF f[1] # "fn"
         THEN Goes(PushCall(WithStack(popped, SubSeq(th.stack, 1, Frame.bottom) \o args),
                            c.h, Frame.bottom, f), c.h)
         ELSE IF n < params /\ Len(th.stack) < Frame.bottom + 1 + params THEN Ends("overrun")
         ELSE Goes(Enter(WithStack(popped, filled), c.h, Frame.bottom, n, f), c.h)

\* return_upper.
ReturnInstruction(o) ==
  LET at == Frame.base + o.start
      n == IF o.count = Variable THEN Len(th.stack) - at ELSE o.count
      c == Closed(th, heap, Frame.bottom)
  IN  /\ o.op = "Return"
      /\ IF (o.count = Variable) # Frame.variable THEN Ends("fault")
         ELSE Goes(ReturnTo([c.t EXCEPT !.frames = Front(@)], Frame.bottom,
                            SubSeq(th.stack, at + 1, at + n)), c.h)

\* varargs.
VarArgs(o) ==
  LET given == SubSeq(th.stack, Frame.bottom + 2, Frame.base)
      at == Frame.base + o.dest
      some == [i \in DOMAIN th.stack |->
                 IF i \in at + 1 .. at + o.count THEN Resize(given, o.count)[i - at] ELSE th.stack[i]]
      all == Resize(th.stack, at) \o given
  IN  /\ o.op = "VarArgs"
      /\ IF Frame.variable THEN Ends("fault")
         ELSE IF o.count # Variable THEN Goes(WithStack(Ahead, some), heap)
         ELSE Goes(WithFrame(WithStack(Ahead, all), [Last(Ahead.frames) EXCEPT !.variable = TRUE]),
                   heap)

JumpInstruction(o) ==
  LET t == Skip(Ahead, o.offset)
      c == Closed(t, heap, Frame.base + o.close)
  IN  o.op = "Jump" /\ IF o.close = NoClose THEN Goes(t, heap) ELSE Goes(c.t, c.h)

TestInstruction(o) ==
  /\ o.op = "Test"
  /\ Goes(IF IsTrue(Reg(o.value)) = o.is_true THEN Skip(Ahead, 1) ELSE Ahead, heap)

TestSet(o) ==
  /\ o.op = "TestSet"
  /\ Goes(IF IsTrue(Reg(o.value)) = o.is_true THEN Skip(Ahead, 1)
          ELSE SetReg(Ahead, o.dest, Reg(o.value)), heap)

\* Each captured variable is an upvalue that is open already, a new one, or one of
\* this function.
Capture(a, d) ==
  LET u == Opened(a.t, a.h, Frame.base + d[2])
  IN  IF d[1] = "local" THEN [t |-> u.t, h |-> u.h, ups |-> Append(a.ups, u.u)]
      ELSE [a EXCEPT !.ups = Append(@, ClosureOf(Current).ups[d[2]])]

TakenIn(descs) ==
  LET after[k \in 0 .. Len(descs)] ==
        IF k = 0 THEN [t |-> Ahead, h |-> heap, ups |-> <<>>] ELSE Capture(after[k - 1], descs[k])
  IN  after[Len(descs)]

NewClosure(o) ==
  LET id == Proto.protos[o.proto]
      all == TakenIn(code[id].ups)
  IN  /\ o.op = "Closure"
      /\ Goes(SetReg(all.t, o.dest, <<"fn", Len(heap.closures) + 1>>),
              [all.h EXCEPT !.closures = Append(@, [proto |-> id, ups |-> all.ups])])

AllInts(vs) == \A i \in DOMAIN vs : vs[i][1] = "int"

NumericForPrep(o) ==
  /\ o.op = "NumericForPrep"
  /\ IF ~AllInts(<<Reg(o.base), Reg(o.base + 2)>>) THEN Ends("error")
     ELSE Goes(Skip(SetReg(Ahead, o.base, <<"int", Reg(o.base)[2] - Reg(o.base + 2)[2]>>), o.jump),
               heap)

NumericForLoop(o) ==
  LET step == Reg(o.base + 2)[2]
      index == Reg(o.base)[2] + step
      past == IF step < 0 THEN index < Reg(o.base + 1)[2] ELSE Reg(o.base + 1)[2] < index
      t == SetReg(Ahead, o.base, <<"int", index>>)
  IN  /\ o.op = "NumericForLoop"
      /\ IF ~AllInts(UpTo(o.base, 3)) THEN Ends("error")
         ELSE Goes(IF past THEN t ELSE Skip(SetReg(t, o.base + 3, <<"int", index>>), o.jump), heap)

\* Mutant: the control variable is not advanced.
GenericForStuck(o) ==
  /\ o.op = "GenericForLoop"
  /\ Goes(IF IsTrue(Reg(o.base + 1)) THEN Skip(Ahead, o.jump) ELSE Ahead, heap)

GenericForLoop(o) ==
  /\ o.op = "GenericForLoop"
  /\ Goes(IF IsTrue(Reg(o.base + 1)) THEN Skip(SetReg(Ahead, o.base, Reg(o.base + 1)), o.jump)
          ELSE Ahead, heap)

\* The object goes to base + 1 before it is asked for the method.
MethodInstruction(o) ==
  LET m == Index(heap, Reg(o.table), Rc(o.key))
      t == SetReg(Ahead, o.base + 1, Reg(o.table))
  IN  /\ o.op = "Method"
      /\ CASE m.is = "error" -> Ends("error")
           [] m.is = "value" -> Goes(SetReg(t, o.base, m.value), heap)
           [] m.is = "call" -> Goes(CallMeta(t, m.func, m.args, ToRegister(o.base)), heap)

Concat(o) ==
  LET parts == UpTo(o.source, o.count)
  IN  /\ o.op = "Concat"
      /\ IF \E i \in DOMAIN parts : parts[i][1] \notin {"nil", "bool", "int", "str"}
         THEN Ends("error")
         ELSE Sets(o.dest, <<"str", FoldLeft(LAMBDA s, v : s \o Piece(v), <<>>, parts)>>)

GetUpValue(o) ==
  /\ o.op = "GetUpValue"
  /\ IF ~AboveFrame(o.source) THEN Ends("fault") ELSE Sets(o.dest, CellValue(o.source))

PutUpValue(o) ==
  LET u == ClosureOf(Current).ups[o.dest]
  IN  /\ o.op = "SetUpValue"
      /\ IF ~AboveFrame(o.dest) THEN Ends("fault")
         ELSE IF Cell(o.dest).open
         THEN Goes([Ahead EXCEPT !.stack[Cell(o.dest).at + 1] = Reg(o.source)], heap)
         ELSE Goes(Ahead, [heap EXCEPT !.cells[u].value = Reg(o.source)])

Length(o) == o.op = "Length" /\ Answers(LengthOf(heap, Reg(o.source)), ToRegister(o.dest))

CompareEqual(o) ==
  o.op = "Eq" /\ Answers(Equals(heap, Rc(o.left), Rc(o.right)), <<"skip_if", o.skip_if>>)

CompareOrder(o) ==
  /\ o.op \in {"Less", "LessEq"}
  /\ IF ~BothInts(Rc(o.left), Rc(o.right)) THEN Ends("error")
     ELSE LET holds == CompareInts(IF o.op = "Less" THEN "<" ELSE "<=", Rc(o.left)[2], Rc(o.right)[2])
          IN  Goes(IF holds = o.skip_if THEN Skip(Ahead, 1) ELSE Ahead, heap)

Not(o) == o.op = "Not" /\ Sets(o.dest, <<"bool", ~IsTrue(Reg(o.source))>>)

Minus(o) ==
  /\ o.op = "Minus"
  /\ IF Reg(o.source)[1] # "int" THEN Ends("error") ELSE Sets(o.dest, <<"int", -Reg(o.source)[2]>>)

Arithmetic(o) ==
  LET sign == CASE o.op = "Add" -> "+" [] o.op = "Sub" -> "-" [] o.op = "Mul" -> "*"
      a == Rc(o.left)
      b == Rc(o.right)
  IN  /\ o.op \in {"Add", "Sub", "Mul"}
      /\ IF ~BothInts(a, b) THEN Ends("error")
         ELSE Sets(o.dest, <<"int", ArithmeticOf(sign, a[2], b[2])>>)

\* run_vm.
Instruction ==
  /\ status = "running" /\ Frame.is = "lua"
  /\ \E o \in {Operation} :
       \/ Move(o) \/ LoadConstant(o) \/ LoadBoolean(o) \/ LoadNils(o)
       \/ NewTable(o) \/ GetTable(o) \/ PutTable(o) \/ GetUpTable(o) \/ PutUpTable(o)
       \/ SetList(o) \/ CallInstruction(o) \/ TailCallInstruction(o) \/ ReturnInstruction(o)
       \/ VarArgs(o) \/ JumpInstruction(o) \/ TestInstruction(o) \/ TestSet(o)
       \/ NewClosure(o) \/ NumericForPrep(o) \/ NumericForLoop(o)
       \/ GenericForCall(o) \/ GenericForLoop(o) \/ MethodInstruction(o) \/ Concat(o)
       \/ GetUpValue(o) \/ PutUpValue(o) \/ Length(o) \/ CompareEqual(o) \/ CompareOrder(o)
       \/ Not(o) \/ Minus(o) \/ Arithmetic(o)

-----------------------------------------------------------------------------
(* Callbacks, run by the executor when their frame is at the top.          *)

CallbackArgs == SubSeq(th.stack, Frame.bottom + 1, Len(th.stack))
Popped == [th EXCEPT !.frames = Front(@)]

\* CallbackReturn::Return and CallbackReturn::Call.
Returns(values, h) == Goes(ReturnTo(Popped, Frame.bottom, values), h)
CallsOn(f, args) ==
  Goes(PushCall(WithStack(Popped, SubSeq(th.stack, 1, Frame.bottom) \o args), heap, Frame.bottom, f),
       heap)

Emits ==
  /\ Frame.func = <<"native", "emit">>
  /\ out' = Append(out, CallbackArgs)
  /\ th' = ReturnTo(Popped, Frame.bottom, <<>>)
  /\ UNCHANGED <<pgm, code, status, heap>>

SetMetatable ==
  LET args == Resize(CallbackArgs, 2)
  IN  /\ Frame.func = <<"native", "setmetatable">>
      /\ IF ~IsTable(args[1]) \/ ~(IsTable(args[2]) \/ args[2] = NilValue) THEN Ends("error")
         ELSE Returns(<<args[1]>>, [heap EXCEPT !.tables[args[1][2]].meta = args[2]])

\* The callbacks of index and new_index.
CarryOn ==
  LET args == CallbackArgs
      m == IF Frame.func[2] = "index" THEN Index(heap, args[1], args[2])
           ELSE NewIndex(heap, args[1], args[2], args[3])
  IN  /\ Frame.func \in {<<"native", "index">>, <<"native", "newindex">>}
      /\ CASE m.is = "error" -> Ends("error")
           [] m.is = "value" -> Returns(<<m.value>>, heap)
           [] m.is = "set" -> Returns(<<>>, m.heap)
           [] m.is = "call" -> CallsOn(m.func, m.args)

\* The callback of call.
CallBound ==
  /\ Frame.func[1] = "bound"
  /\ IF CallableFor(heap, Frame.func[3]) = NilValue THEN Ends("error")
     ELSE CallsOn(CallableFor(heap, Frame.func[3]), <<Frame.func[2]>> \o CallbackArgs)

Callback ==
  /\ status = "running" /\ Frame.is = "callback"
  /\ Emits \/ SetMetatable \/ CarryOn \/ CallBound

Finished == status = "running" /\ Frame.is = "result" /\ Ends("result")

-----------------------------------------------------------------------------

\* The names a program finds in its environment.
Globals == [k \in {Str("emit"), Str("setmetatable")} |-> <<"native", k[2][1]>>]

\* Closure::load: the chunk has _ENV for its only upvalue, if it uses it.  Whoever
\* starts a thread calls its function with no arguments.
StartHeap ==
  [cells |-> <<[open |-> FALSE, at |-> 0, value |-> <<"table", 1>>]>>,
   closures |-> <<[proto |-> 1, ups |-> <<1>>]>>,
   tables |-> <<[map |-> Globals, meta |-> NilValue]>>]

\* What could not be compiled is never started.
NewThread == [frames |-> <<>>, stack |-> <<>>, open |-> <<>>]

Init ==
  /\ pgm \in DOMAIN Loaded
  /\ \E c \in {Loaded[pgm]} :
       code = c.protos /\ status = IF Compiled(c) THEN "running" ELSE "uncompiled"
  /\ out = <<>>
  /\ heap = StartHeap
  /\ th = IF status = "running" THEN PushCall(NewThread, StartHeap, 0, <<"fn", 1>>) ELSE NewThread

Idle == status # "running" /\ UNCHANGED vars

Next == Instruction \/ Callback \/ Finished \/ Idle

\* Whoever has the executor steps it until it is done (Executor::finish): as long as
\* the thread runs there is another step.
Driven == <>(status # "running") \/ []<><<TRUE>>_vars

Spec == Init /\ [][Next]_vars /\ Driven

-----------------------------------------------------------------------------
(* What holds of a thread.                                                 *)

LuaFrames == {k \in DOMAIN th.frames : th.frames[k].is = "lua"}

\* Frames are one above the other, all but the top one wait for results, and the stack
\* ends where the registers of the top one do, unless it holds a variable number of
\* values: the slices of registers the VM takes are in bounds (thread.rs, registers()).
\* No assertion of the VM fails, and what takes a variable number of values finds one.
FramesFit ==
  /\ status # "fault"
  /\ status = "running" =>
      /\ 1 .. Len(th.frames) - 1 \subseteq LuaFrames
      /\ \A k \in LuaFrames :
           LET f == th.frames[k]
           IN  /\ th.stack[f.bottom + 1][1] = "fn" /\ f.bottom < f.base
               /\ f.pc < Len(ProtoOf(heap, th.stack[f.bottom + 1]).ops)
               /\ IF k < Len(th.frames)
                  THEN f.ret # <<>> /\ f.base <= th.frames[k + 1].bottom
                  ELSE /\ f.ret = <<>>
                       /\ IF f.variable THEN f.base <= Len(th.stack)
                          ELSE Len(th.stack) = f.base + f.size

\* The open upvalues of a thread are all there are, one for a place, in the order of
\* their places (get_open_upvalue and close_upvalues search the list by halves), and
\* what a running function has captured lies below its frame (get_upvalue).
UpvaluesOrdered ==
  LET Place(u) == heap.cells[u].at
      open == {u \in DOMAIN heap.cells : heap.cells[u].open}
  IN  /\ Range(th.open) = open
      /\ \A i, j \in DOMAIN th.open : i < j => Place(th.open[i]) < Place(th.open[j])
      /\ \A u \in open : Place(u) < Len(th.stack)
      /\ \A k \in LuaFrames :
           \A u \in Range(heap.closures[th.stack[th.frames[k].bottom + 1][2]].ups) :
             u \in open => Place(u) < th.frames[k].bottom

\* A thread that runs a program that ends, ends.
ProgramEnds == <>(status # "running")
================================================================================
