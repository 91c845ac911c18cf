------------------------------ MODULE LuaCompiler ------------------------------
(***************************************************************************)
(* The Lua compiler (piccolo/src/compiler/compiler.rs, operators.rs): from *)
(* the syntax tree of a chunk to a prototype, its operations and those of  *)
(* the functions in it.                                                    *)
(*                                                                         *)
(* An operator that compiles something takes the state of the compiler, c, *)
(* and returns it, c, with a result, v.  c.fns are the functions being     *)
(* compiled, the innermost last; c.err is what the first error was:        *)
(* "assert" for an assertion of the compiler.                              *)
(***************************************************************************)
EXTENDS LuaTrees, Registers, Opcodes, Sequences, SequencesExt

-----------------------------------------------------------------------------
(* The state of the compiler.                                              *)

\* CompilerFunction::start.
StartFunction(params, dots) ==
  [ra |-> IF params = <<>> THEN Fresh ELSE Push(Fresh, Len(params)),
   params |-> Len(params), dots |-> dots,
   locals |-> [i \in DOMAIN params |-> <<params[i], i - 1>>],
   consts |-> <<>>, ups |-> <<>>, protos |-> <<>>,
   blocks |-> <<>>, uniques |-> 0, targets |-> <<>>, pending |-> <<>>, ops |-> <<>>]

\* The implicit chunk function.
StartChunk == [fns |-> <<StartFunction(<<>>, TRUE)>>, err |-> None]

Cur(c) == c.fns[Len(c.fns)]
WithCur(c, f) == [c EXCEPT !.fns[Len(c.fns)] = f]
And(c, v) == [c |-> c, v |-> v]

Fail(c, kind) == IF c.err = None THEN [c EXCEPT !.err = kind] ELSE c
Require(c, holds) == IF holds THEN c ELSE Fail(c, "assert")

\* F for each of xs in turn, to the first error: of c, and of c with a result.
Each(F(_, _), c, xs) ==
  LET after[i \in 0 .. Len(xs)] ==
        IF i = 0 THEN c
        ELSE LET before == after[i - 1] IN IF before.err = None THEN F(before, xs[i]) ELSE before
  IN  after[Len(xs)]

EachWith(F(_, _), a, xs) ==
  LET after[i \in 0 .. Len(xs)] ==
        IF i = 0 THEN a
        ELSE LET before == after[i - 1] IN IF before.c.err = None THEN F(before, xs[i]) ELSE before
  IN  after[Len(xs)]

Emit(c, op) == WithCur(c, [Cur(c) EXCEPT !.ops = Append(@, op)])
Top(c) == Cur(c).ra.top
WithRa(c, ra) == WithCur(c, [Cur(c) EXCEPT !.ra = ra])

AllocateOne(c) ==
  IF CanAllocate(Cur(c).ra) THEN And(WithRa(c, Allocate(Cur(c).ra)), Cur(c).ra.free)
  ELSE And(Fail(c, "registers"), 0)

PushMany(c, n) ==
  IF CanPush(Cur(c).ra, n) THEN And(WithRa(c, Push(Cur(c).ra, n)), Top(c))
  ELSE And(Fail(c, "registers"), 0)

Free(c, r) ==
  IF CanFree(Cur(c).ra, r) THEN WithRa(c, FreeReg(Cur(c).ra, r)) ELSE Fail(c, "assert")

FreeAll(c, rs) == Each(Free, c, rs)
PoppedTo(c, t) == WithRa(c, PopTo(Cur(c).ra, t))

Declare(c, name, r) == WithCur(c, [Cur(c) EXCEPT !.locals = Append(@, <<name, r>>)])

\* names[i] is in register r + i - 1.
DeclareAll(c, names, r) ==
  WithCur(c, [Cur(c) EXCEPT !.locals = @ \o [i \in DOMAIN names |-> <<names[i], r + i - 1>>]])

\* get_constant: identical constants share an index.
ConstantIndex(c, v) ==
  IF Contains(Cur(c).consts, v)
  THEN And(c, CHOOSE i \in DOMAIN Cur(c).consts : Cur(c).consts[i] = v)
  ELSE And(WithCur(c, [Cur(c) EXCEPT !.consts = Append(@, v)]), Len(Cur(c).consts) + 1)

-----------------------------------------------------------------------------
(* Operators.                                                              *)

Comparisons == {"==", "~=", "<", "<=", ">", ">="}

\* simple_binop_const_fold, comparison_binop_const_fold, unop_const_fold: the
\* constant, or <<>>.
Folded(op, a, b) ==
  CASE op \in {"+", "-", "*"} /\ BothInts(a, b) -> <<<<"int", ArithmeticOf(op, a[2], b[2])>>>>
    [] op = "==" -> <<<<"bool", a = b>>>>
    [] op \in {"<", "<="} /\ BothInts(a, b) -> <<<<"bool", CompareInts(op, a[2], b[2])>>>>
    [] OTHER -> <<>>

FoldedUnary(op, a) ==
  CASE op = "-" /\ a[1] = "int" -> <<<<"int", -a[2]>>>>
    [] op = "not" -> <<<<"bool", ~IsTrue(a)>>>>
    [] OTHER -> <<>>

UnaryOperation(op, dest, source) ==
  [op |-> CASE op = "-" -> "Minus" [] op = "not" -> "Not" [] op = "#" -> "Length",
   dest |-> dest, source |-> source]

SimpleOperation(op, dest, left, right) ==
  [op |-> CASE op = "+" -> "Add" [] op = "-" -> "Sub" [] op = "*" -> "Mul",
   dest |-> dest, left |-> left, right |-> right]

\* comparison_binop_operation: > and >= are <= and < the other way about.
CompareOperation(op, left, right, skip_if) ==
  [op |-> CASE op \in {"==", "~="} -> "Eq"
            [] op \in {"<", ">="} -> "Less"
            [] op \in {"<=", ">"} -> "LessEq",
   skip_if |-> IF op \in {"~=", ">", ">="} THEN ~skip_if ELSE skip_if,
   left |-> left, right |-> right]

-----------------------------------------------------------------------------
(* Blocks and jumps.  A block is known by its number, the outermost is 1;  *)
(* an instruction by how many there are before it.                         *)

EnterBlock(c) ==
  WithCur(c, [Cur(c) EXCEPT !.blocks =
    Append(@, [bottom |-> Top(c), targets |-> Len(Cur(c).targets), owns |-> FALSE])])

\* Pending jumps out of a block that ends.
Outward(p, depth, top, owns) ==
  [p EXCEPT !.block = depth, !.top = top, !.close = @ \/ owns]

ExitBlock(c) ==
  LET f == Cur(c)
      last == Last(f.blocks)
      depth == Len(f.blocks) - 1
      gone == SelectInSeq(f.locals, LAMBDA l : l[2] >= last.bottom)
      leaving == IF gone = 0 THEN <<>> ELSE Reverse(SubSeq(f.locals, gone, Len(f.locals)))
      freed == FreeAll(c, [i \in DOMAIN leaving |-> leaving[i][2]])
      out == WithCur(freed,
               [Cur(freed) EXCEPT !.blocks = Front(@),
                                  !.locals = SubSeq(@, 1, Len(@) - Len(leaving)),
                                  !.targets = SubSeq(@, 1, last.targets)])
      closed == IF last.owns /\ depth > 0
                THEN Emit(out, [op |-> "Jump", offset |-> 0, close |-> last.bottom])
                ELSE out
      pending == Cur(closed).pending
      stays == SelectLastInSeq(pending, LAMBDA p : p.block <= depth)
      Out(i) == Outward(pending[i], depth, Top(closed), last.owns)
  IN  IF depth = 0 THEN closed
      ELSE WithCur(Require(closed, \A i \in stays + 1 .. Len(pending) : pending[i].top >= Top(closed)),
             [Cur(closed) EXCEPT !.pending =
               [i \in DOMAIN pending |-> IF i <= stays THEN pending[i] ELSE Out(i)]])

UniqueLabel(c) ==
  And(WithCur(c, [Cur(c) EXCEPT !.uniques = @ + 1]), <<"unique", Cur(c).uniques>>)

\* jump_offset: offsets count from the instruction after the jump.
Offset(source, target) == target - (source + 1)

\* The blocks from a target to here that own captured variables.
Owning(f, from) == {i \in from .. Len(f.blocks) : f.blocks[i].owns}

Jump(c, label) ==
  LET f == Cur(c)
      at == Len(f.ops)
      found == SelectLastInSeq(f.targets, LAMBDA t : t.label = label)
      target == f.targets[found]
      close == target.top < f.ra.top /\ Owning(f, target.block) # {}
      new == [label |-> label, at |-> at, block |-> Len(f.blocks), top |-> f.ra.top,
              close |-> FALSE]
  IN  IF found # 0
      THEN Emit(Require(c, target.top <= f.ra.top /\ target.block <= Len(f.blocks)),
                [op |-> "Jump", offset |-> Offset(at, target.at),
                 close |-> IF close THEN target.top ELSE NoClose])
      ELSE LET e == Emit(c, [op |-> "Jump", offset |-> 0, close |-> NoClose])
           IN  WithCur(e, [Cur(e) EXCEPT !.pending = Append(@, new)])

JumpTarget(c, label) ==
  LET f == Cur(c)
      at == Len(f.ops)
      depth == Len(f.blocks)
      twice == \E i \in DOMAIN f.targets : f.targets[i].block = depth /\ f.targets[i].label = label
      new == [label |-> label, at |-> at, top |-> f.ra.top, block |-> depth]
      Resolves(p) == p.block = depth /\ p.label = label
      due == SelectSeq(f.pending, Resolves)
      Landing(p) == [op |-> "Jump", offset |-> Offset(p.at, at),
                     close |-> IF p.close THEN f.ra.top ELSE NoClose]
      ops == [i \in DOMAIN f.ops |->
                IF \E p \in Range(due) : p.at = i - 1
                THEN Landing(CHOOSE p \in Range(due) : p.at = i - 1) ELSE f.ops[i]]
      g == [f EXCEPT !.targets = Append(@, new), !.ops = ops,
                     !.pending = SelectSeq(@, LAMBDA p : ~Resolves(p))]
  IN  IF twice THEN Fail(c, "duplicate_label")
      ELSE IF \E p \in Range(due) : p.top < f.ra.top THEN Fail(c, "jump_local")
      ELSE WithCur(Require(c, /\ \A p \in Range(f.pending) : p.block <= depth
                             /\ \A p \in Range(due) : p.top <= f.ra.top), g)

-----------------------------------------------------------------------------
(* Variables.                                                              *)

Local(r) == [is |-> "local", reg |-> r]
UpValue(i) == [is |-> "up", index |-> i]
Global(name) == [is |-> "global", name |-> name]
Constant(v) == [is |-> "const", value |-> v]

\* The upvalue desc of function k, and through it of all functions inside.
RECURSIVE Captured(_, _, _, _)
Captured(c, name, k, desc) ==
  LET d == [c EXCEPT !.fns[k].ups = Append(@, <<name, desc>>)]
      index == Len(d.fns[k].ups)
  IN  IF k = Len(c.fns) THEN And(d, UpValue(index))
      ELSE Captured(d, name, k + 1, <<"outer", index>>)

\* The block of function i that the variable in r belongs to owns a captured one.
MarkOwner(c, i, r) ==
  LET b == SelectLastInSeq(c.fns[i].blocks, LAMBDA x : x.bottom <= r)
  IN  IF b = 0 THEN c ELSE [c EXCEPT !.fns[i].blocks[b].owns = TRUE]

Named(s, name) == SelectInSeq(s, LAMBDA x : x[1] = name)
LastNamed(s, name) == SelectLastInSeq(s, LAMBDA x : x[1] = name)

\* find_variable.  The chunk has the upvalue _ENV once it is looked for.
FindVariable(c, name) ==
  LET env == name = "_ENV" /\ c.fns[1].ups = <<>>
      here == Len(c.fns)
      i == SelectLastInSeq(c.fns, LAMBDA f : Named(f.locals, name) # 0 \/ Named(f.ups, name) # 0)
      local == LastNamed(c.fns[i].locals, name)
      r == c.fns[i].locals[local][2]
      up == Named(c.fns[i].ups, name)
  IN  IF i = 0
      THEN IF ~env THEN And(c, Global(name))
           ELSE LET d == [c EXCEPT !.fns[1].ups = <<<<name, <<"env">>>>>>]
                IN  IF here = 1 THEN And(d, UpValue(1))
                    ELSE Captured(d, name, 2, <<"outer", 1>>)
      ELSE IF local # 0
      THEN IF i = here THEN And(c, Local(r))
           ELSE Captured(MarkOwner(c, i, r), name, i + 1, <<"local", r>>)
      ELSE IF i = here THEN And(c, UpValue(up))
           ELSE Captured(c, name, i + 1, <<"outer", up>>)

Environment(c) == FindVariable(c, "_ENV")

-----------------------------------------------------------------------------
(* Expressions, first half: what an expression is before its value is      *)
(* needed (ExprDescriptor).  Only functions are compiled by then.          *)

\* The places a value can be put.
AnyReg == <<"any">>
PushReg == <<"push">>
InReg(r) == <<"reg", r>>

Pieces(d) == IF d.is = "concat" THEN d.parts ELSE <<d>>

\* unary_operator_expression, with unop_const_fold.
UnaryDescriptor(op, arg) ==
  LET value == IF arg.is = "const" THEN FoldedUnary(op, arg.value) ELSE <<>>
  IN  IF value # <<>> THEN Constant(Head(value)) ELSE [is |-> "un", op |-> op, arg |-> arg]

\* binary_operator_expression: constants are folded, .. is flattened.
BinaryDescriptor(op, left, right) ==
  LET value == IF left.is = "const" /\ right.is = "const"
               THEN Folded(op, left.value, right.value) ELSE <<>>
  IN  IF value # <<>> THEN Constant(Head(value))
      ELSE IF op = ".." THEN [is |-> "concat", parts |-> Pieces(left) \o Pieces(right)]
      ELSE [is |-> IF op \in Comparisons THEN "cmp"
                   ELSE IF op \in {"and", "or"} THEN "short" ELSE "simple",
            op |-> op, left |-> left, right |-> right]

RECURSIVE Describe(_, _), DescribeAll(_, _), DescribeFields(_, _), NewPrototype(_, _)

\* expression, head_expression, simple_expression, suffixed_expression, primary_expression.
Describe(c, e) ==
  CASE e.is = "const" -> And(c, Constant(e.value))
    [] e.is = "dots" -> And(c, [is |-> "dots"])
    [] e.is = "name" -> FindVariable(c, e.name)
    [] e.is = "paren" -> Describe(c, e.arg)
    [] e.is = "un" -> LET a == Describe(c, e.arg) IN And(a.c, UnaryDescriptor(e.op, a.v))
    [] e.is = "bin" ->
         LET l == Describe(c, e.left)
             r == Describe(l.c, e.right)
         IN  And(r.c, BinaryDescriptor(e.op, l.v, r.v))
    [] e.is = "index" ->
         LET t == Describe(c, e.table)
             k == Describe(t.c, e.key)
         IN  And(k.c, [is |-> "field", table |-> t.v, key |-> k.v])
    [] e.is = "call" ->
         LET f == Describe(c, e.func)
             as == DescribeAll(f.c, e.args)
         IN  And(as.c, [is |-> "call", func |-> f.v, args |-> as.v])
    [] e.is = "method" ->
         LET t == Describe(c, e.table)
             as == DescribeAll(t.c, e.args)
         IN  And(as.c, [is |-> "method", table |-> t.v, key |-> Constant(Str(e.name)), args |-> as.v])
    [] e.is = "function" ->
         LET p == NewPrototype(c, e) IN And(p.c, [is |-> "closure", proto |-> p.v])
    [] e.is = "table" ->
         LET fs == DescribeFields(c, e.fields)
         IN  And(fs.c, [is |-> "table",
                        array |-> fs.v[1], record |-> fs.v[2]])

DescribeAll(c, es) ==
  EachWith(LAMBDA a, e : LET d == Describe(a.c, e) IN And(d.c, Append(a.v, d.v)), And(c, <<>>), es)

\* table_constructor_expression: the values of the list, and key and value of the rest.
DescribeFields(c, fields) ==
  LET Add(a, field) ==
        LET v == DescribeAll(a.c, field.key \o <<field.value>>)
        IN  And(v.c, IF field.key = <<>> THEN <<a.v[1] \o v.v, a.v[2]>>
                     ELSE <<a.v[1], Append(a.v[2], v.v)>>)
  IN  EachWith(Add, And(c, <<<<>>, <<>>>>), fields)

-----------------------------------------------------------------------------
(* Expressions, second half: operations that leave the value in a register. *)

Destination(c, dest) ==
  CASE dest = AnyReg -> AllocateOne(c)
    [] dest = PushReg -> PushMany(c, 1)
    [] OTHER -> And(c, dest[2])

\* Operations whose only destination is a register found for them.
EmitTo(c, dest, OpTo(_)) == LET d == Destination(c, dest) IN And(Emit(d.c, OpTo(d.v)), d.v)

RECURSIVE Discharge(_, _, _)

\* expr_any_register: v is the register and those to free when done with it.
AnyRegister(c, d) ==
  IF d.is = "local" THEN And(c, [at |-> d.reg, temps |-> <<>>])
  ELSE LET r == Discharge(c, d, AnyReg) IN And(r.c, [at |-> r.v, temps |-> <<r.v>>])

\* expr_any_register_or_constant.
Operand(c, d) ==
  LET k == ConstantIndex(c, d.value)
      r == AnyRegister(IF d.is = "const" THEN k.c ELSE c, d)
  IN  IF d.is = "const" /\ k.v <= 256 THEN And(k.c, [at |-> <<"c", k.v>>, temps |-> <<>>])
      ELSE And(r.c, [r.v EXCEPT !.at = <<"r", r.v.at>>])

\* Two operands, their temporaries given back once both are there.
Operands(c, left, right) ==
  LET l == Operand(c, left)
      r == Operand(l.c, right)
  IN  And(FreeAll(r.c, l.v.temps \o r.v.temps), <<l.v.at, r.v.at>>)

\* get_table.
GetField(c, table, key, dest) ==
  LET t == AnyRegister(c, table)
      k == Operand(IF table.is = "up" THEN c ELSE t.c, key)
      freed == FreeAll(k.c, (IF table.is = "up" THEN <<>> ELSE t.v.temps) \o k.v.temps)
  IN  EmitTo(freed, dest, LAMBDA r :
        [op |-> IF table.is = "up" THEN "GetUpTable" ELSE "GetTable", dest |-> r,
         table |-> IF table.is = "up" THEN table.index ELSE t.v.at, key |-> k.v.at])

\* set_rtable, set_uptable.
SetField(c, name, table, key, value) ==
  LET o == Operands(c, key, value)
  IN  Emit(o.c, [op |-> name, table |-> table, key |-> o.v[1], value |-> o.v[2]])

\* set_table.
SetTable(c, table, key, value) ==
  LET t == AnyRegister(c, table)
  IN  IF table.is = "up" THEN SetField(c, "SetUpTable", table.index, key, value)
      ELSE FreeAll(SetField(t.c, "SetTable", t.v.at, key, value), t.v.temps)

RECURSIVE PushArguments(_, _)

PushEach(c, ds) == Each(LAMBDA s, d : Discharge(s, d, PushReg).c, c, ds)

CallOf(returns) == [op |-> "Call", returns |-> returns]
TailCall == [op |-> "TailCall"]

EmitCall(c, kind, func, args) == Emit(c, kind @@ [func |-> func, args |-> args])

\* call_function: the results will be where the function was, at the top.
CallFunction(c, d, kind) ==
  LET f == Discharge(c, d.func, PushReg)
      n == PushArguments(f.c, d.args)
  IN  And(Free(EmitCall(n.c, kind, f.v, n.v), f.v), f.v)

\* call_method: the object is the first argument.
CallMethod(c, d, kind) ==
  LET t == AnyRegister(c, d.table)
      k == Operand(t.c, d.key)
      b == PushMany(FreeAll(k.c, t.v.temps \o k.v.temps), 2)
      m == Emit(b.c, [op |-> "Method", base |-> b.v, table |-> t.v.at, key |-> k.v.at])
      n == PushArguments(m, d.args)
      args == IF n.v = Variable THEN Variable ELSE n.v + 1
  IN  And(PoppedTo(EmitCall(n.c, kind, b.v, args), b.v), b.v)

IsCall(d) == d.is \in {"call", "method"}
Call(c, d, kind) == IF d.is = "call" THEN CallFunction(c, d, kind) ELSE CallMethod(c, d, kind)

\* push_arguments: at the top, not allocated; v is how many, of which the last may
\* be as many as there are.
PushArguments(c, ds) ==
  LET s == PushEach(c, Front(ds))
      last == Last(ds)
      at == Top(c) + Len(ds) - 1
      many == IF IsCall(last) THEN Call(s, last, CallOf(Variable)).c
              ELSE Emit(s, [op |-> "VarArgs", dest |-> at, count |-> Variable])
  IN  IF ds = <<>> THEN And(c, 0)
      ELSE IF IsCall(last) \/ last.is = "dots" THEN And(PoppedTo(many, Top(c)), Variable)
      ELSE And(PoppedTo(Discharge(s, last, PushReg).c, Top(c)), Len(ds))

\* The comparison of expr_discharge, and gen_comparison.
Compare(c, d, skip_if) ==
  LET o == Operands(c, d.left, d.right)
  IN  And(o.c, CompareOperation(d.op, o.v[1], o.v[2], skip_if))

LoadBool(r, value, skip_next) ==
  [op |-> "LoadBool", dest |-> r, value |-> value, skip_next |-> skip_next]

DischargeComparison(c, d, dest) ==
  LET o == Compare(c, d, FALSE)
      r == Destination(o.c, dest)
      s == Emit(Emit(r.c, o.v), [op |-> "Jump", offset |-> 1, close |-> NoClose])
  IN  And(Emit(Emit(s, LoadBool(r.v, FALSE, TRUE)), LoadBool(r.v, TRUE, FALSE)), r.v)

\* and, or: the right operand is evaluated unless the left one is the result.
DischargeShort(c, d, dest) ==
  LET l == AnyRegister(c, d.left)
      r == Destination(FreeAll(l.c, l.v.temps), dest)
      test == IF l.v.at = r.v THEN [op |-> "Test", value |-> l.v.at, is_true |-> d.op = "and"]
              ELSE [op |-> "TestSet", dest |-> r.v, value |-> l.v.at, is_true |-> d.op = "and"]
      skip == UniqueLabel(Emit(r.c, test))
      right == Discharge(Jump(skip.c, skip.v), d.right, InReg(r.v))
  IN  And(JumpTarget(right.c, skip.v), r.v)

\* A chunk of a list that is not its last: to registers allocated for it.
PushChunk(c, ds) ==
  LET r == PushMany(c, Len(ds))
      Put(s, i) == Discharge(s, ds[i], InReg(r.v + i - 1)).c
  IN  And(Each(Put, r.c, [i \in DOMAIN ds |-> i]), Len(ds))

FieldsPerFlush == 32

\* The list of a table constructor, a chunk at a time.
RECURSIVE SetLists(_, _, _)
SetLists(c, base, ds) ==
  LET last == Len(ds) <= FieldsPerFlush
      chunk == IF last THEN ds ELSE SubSeq(ds, 1, FieldsPerFlush)
      n == IF last THEN PushArguments(c, chunk) ELSE PushChunk(c, chunk)
      set == PoppedTo(Emit(n.c, [op |-> "SetList", base |-> base, count |-> n.v]), base + 2)
  IN  IF ds = <<>> THEN c
      ELSE IF last THEN set
      ELSE SetLists(set, base, SubSeq(ds, FieldsPerFlush + 1, Len(ds)))

DischargeTable(c, d, dest) ==
  LET t == PushMany(c, 1)
      new == Emit(t.c, [op |-> "NewTable", dest |-> t.v,
                        array_size |-> Len(d.array), map_size |-> Len(d.record)])
      Put(s, field) == SetField(s, "SetTable", t.v, field[1], field[2])
      index == PushMany(Each(Put, new, d.record), 1)
      zero == Discharge(Require(index.c, index.v = t.v + 1), Constant(<<"int", 0>>), InReg(index.v))
      full == Free(SetLists(zero.c, t.v, d.array), index.v)
  IN  IF dest \in {AnyReg, PushReg} THEN And(full, t.v)
      ELSE And(Free(Emit(full, [op |-> "Move", dest |-> dest[2], source |-> t.v]), t.v), dest[2])

DischargeCall(c, d, dest) ==
  LET r == Call(c, d, CallOf(1))
      p == PushMany(r.c, 1)
  IN  IF dest \in {AnyReg, PushReg} THEN And(Require(p.c, p.v = r.v), r.v)
      ELSE And(Emit(Require(r.c, dest[2] # r.v), [op |-> "Move", dest |-> dest[2], source |-> r.v]),
               dest[2])

\* The parts are pushed one above the other (the case of no register left for the
\* next of them is left out).
DischargeConcat(c, d, dest) ==
  LET r == Destination(c, dest)
      first == Discharge(r.c, Head(d.parts), PushReg)
      Put(s, part) == LET p == PushMany(s, 1) IN Discharge(p.c, part, InReg(p.v)).c
      all == Emit(Each(Put, first.c, Tail(d.parts)),
                  [op |-> "Concat", dest |-> r.v, source |-> first.v, count |-> Len(d.parts)])
  IN  And(PoppedTo(all, first.v), r.v)

\* expr_discharge.
Discharge(c, d, dest) ==
  CASE d.is = "local" ->
         EmitTo(c, dest, LAMBDA r : [op |-> "Move", dest |-> r, source |-> d.reg])
    [] d.is = "up" ->
         EmitTo(c, dest, LAMBDA r : [op |-> "GetUpValue", dest |-> r, source |-> d.index])
    [] d.is = "global" ->
         LET env == Environment(c) IN GetField(env.c, env.v, Constant(Str(d.name)), dest)
    [] d.is = "field" -> GetField(c, d.table, d.key, dest)
    [] d.is = "const" /\ d.value = NilValue ->
         EmitTo(c, dest, LAMBDA r : [op |-> "LoadNil", dest |-> r, count |-> 1])
    [] d.is = "const" /\ d.value[1] = "bool" ->
         EmitTo(c, dest, LAMBDA r : LoadBool(r, d.value[2], FALSE))
    [] d.is = "const" /\ d.value[1] \notin {"nil", "bool"} ->
         LET r == Destination(c, dest)
             k == ConstantIndex(r.c, d.value)
         IN  And(Emit(k.c, [op |-> "LoadConstant", dest |-> r.v, constant |-> k.v]), r.v)
    [] d.is = "dots" ->
         EmitTo(c, dest, LAMBDA r : [op |-> "VarArgs", dest |-> r, count |-> 1])
    [] d.is = "un" ->
         LET a == AnyRegister(c, d.arg)
         IN  EmitTo(FreeAll(a.c, a.v.temps), dest, LAMBDA r : UnaryOperation(d.op, r, a.v.at))
    [] d.is = "simple" ->
         LET o == Operands(c, d.left, d.right)
         IN  EmitTo(o.c, dest, LAMBDA r : SimpleOperation(d.op, r, o.v[1], o.v[2]))
    [] d.is = "cmp" -> DischargeComparison(c, d, dest)
    [] d.is = "short" -> DischargeShort(c, d, dest)
    [] d.is = "table" -> DischargeTable(c, d, dest)
    [] d.is = "closure" ->
         EmitTo(c, dest, LAMBDA r : [op |-> "Closure", dest |-> r, proto |-> d.proto])
    [] IsCall(d) -> DischargeCall(c, d, dest)
    [] d.is = "concat" -> DischargeConcat(c, d, dest)

LoadNil(r, n) == [op |-> "LoadNil", dest |-> r, count |-> n]

\* expr_push_count: n registers at the top, the first of them returned.
PushCount(c, d, n) ==
  LET call == Call(c, d, CallOf(n))
      p == PushMany(c, n)
      one == Discharge(c, d, PushReg)
      nils == PushMany(one.c, n - 1)
  IN  IF IsCall(d) THEN And(PushMany(call.c, n).c, call.v)
      ELSE IF d.is = "dots"
      THEN And(Emit(p.c, [op |-> "VarArgs", dest |-> p.v, count |-> n]), p.v)
      ELSE IF d = Constant(NilValue) THEN And(Emit(p.c, LoadNil(p.v, n)), p.v)
      ELSE IF n = 1 THEN one
      ELSE And(Emit(nils.c, LoadNil(nils.v, n - 1)), one.v)

EmitTest(c, d, is_true) ==
  LET a == AnyRegister(c, d)
  IN  Emit(FreeAll(a.c, a.v.temps), [op |-> "Test", value |-> a.v.at, is_true |-> is_true])

EmitCompare(c, d, skip_if) == LET o == Compare(c, d, skip_if) IN Emit(o.c, o.v)

\* expr_test: the next instruction is skipped if the value is as skip_if says.
Test(c, d, skip_if) ==
  CASE d.is = "const" ->
         IF IsTrue(d.value) = skip_if THEN Emit(c, [op |-> "Jump", offset |-> 1, close |-> NoClose])
         ELSE c
    [] d.is = "cmp" -> EmitCompare(c, d, skip_if)
    [] d.is = "un" /\ d.op = "not" ->
         IF d.arg.is = "cmp" THEN EmitCompare(c, d.arg, ~skip_if) ELSE EmitTest(c, d.arg, ~skip_if)
    [] OTHER -> EmitTest(c, d, skip_if)

-----------------------------------------------------------------------------
(* Statements.                                                             *)

RECURSIVE BlockStatements(_, _), Statement(_, _)

Statements(c, ss) == Each(Statement, c, ss)

\* block.
Block(c, b) == ExitBlock(BlockStatements(EnterBlock(c), b))

\* return_statement: a single call is a tail call.
Return(c, values) ==
  LET ds == DescribeAll(c, values)
      n == PushArguments(ds.c, ds.v)
  IN  IF Len(values) = 1 /\ IsCall(ds.v[1]) THEN Call(ds.c, ds.v[1], TailCall).c
      ELSE Emit(n.c, [op |-> "Return", start |-> Top(n.c), count |-> n.v])

\* block_statements: labels at the end of a block are outside the scope of its
\* variables.
BlockStatements(c, b) ==
  LET last == SelectLastInSeq(b.stmts, LAMBDA x : x.is # "label")
      inner == ExitBlock(Statements(EnterBlock(c), SubSeq(b.stmts, 1, last)))
  IN  IF b.ret # <<>> THEN Return(Statements(c, b.stmts), b.ret[1])
      ELSE Statements(inner, SubSeq(b.stmts, last + 1, Len(b.stmts)))

\* if_statement.  a.v is the label of the next part.
If(c, s) ==
  LET end == UniqueLabel(c)
      first == UniqueLabel(end.c)
      Part(a, i) ==
        LET here == JumpTarget(a.c, a.v)
            next == UniqueLabel(here)
            cond == Describe(next.c, s.parts[i].cond)
            body == BlockStatements(EnterBlock(Jump(Test(cond.c, cond.v, TRUE), next.v)),
                                    s.parts[i].body)
            out == IF i # Len(s.parts) \/ s.orelse # <<>> THEN Jump(body, end.v) ELSE body
        IN  And(ExitBlock(out), next.v)
      all == EachWith(Part, first, [i \in DOMAIN s.parts |-> i])
      tail == JumpTarget(all.c, all.v)
  IN  JumpTarget(IF s.orelse = <<>> THEN tail ELSE Block(tail, s.orelse[1]), end.v)

Break == <<"break">>
Label(name) == <<"label", name>>

DischargePush(c, e) == LET d == Describe(c, e) IN Discharge(d.c, d.v, PushReg)

WithJump(c, i, jump) == WithCur(c, [Cur(c) EXCEPT !.ops[i].jump = jump])
Here(c) == Len(Cur(c).ops)

\* for_statement, numeric.  s.bounds: the first value, the last and maybe the step.
NumericFor(c, s) ==
  LET one == [is |-> "const", value |-> <<"int", 1>>]
      Push1(x, e) == DischargePush(x, e).c
      bounds == IF Len(s.bounds) = 3 THEN s.bounds ELSE Append(s.bounds, one)
      base == Top(c)
      pushed == Each(Push1, c, bounds)
      prep == Emit(pushed, [op |-> "NumericForPrep", base |-> base, jump |-> 0])
      var == PushMany(EnterBlock(EnterBlock(prep)), 1)
      body == ExitBlock(BlockStatements(Declare(var.c, s.name, var.v), s.body))
      loop == Emit(body, [op |-> "NumericForLoop", base |-> base,
                          jump |-> Offset(Here(body), Here(prep))])
      patched == WithJump(loop, Here(prep), Offset(Here(pushed), Here(body)))
  IN  PoppedTo(ExitBlock(JumpTarget(patched, Break)), base)

\* for_statement, generic.
GenericFor(c, s) ==
  LET label == UniqueLabel(c)
      base == Top(c)
      only == Describe(label.c, s.args[1])
      nil == [is |-> "const", value |-> NilValue]
      Push1(x, i) == DischargePush(x, IF i <= Len(s.args) THEN s.args[i] ELSE nil).c
      pushed == IF Len(s.args) = 1 THEN PushCount(only.c, only.v, 3).c
                ELSE Each(Push1, label.c, <<1, 2, 3>>)
      vars == PushMany(EnterBlock(EnterBlock(pushed)), Len(s.names))
      start == Jump(DeclareAll(vars.c, s.names, vars.v), label.v)
      body == JumpTarget(ExitBlock(BlockStatements(start, s.body)), label.v)
      call == Emit(body, [op |-> "GenericForCall", base |-> base, var_count |-> Len(s.names)])
      loop == Emit(call, [op |-> "GenericForLoop", base |-> base + 2,
                          jump |-> Offset(Here(call), Here(start))])
  IN  PoppedTo(ExitBlock(JumpTarget(loop, Break)), base)

\* while_statement.
While(c, s) ==
  LET start == UniqueLabel(c)
      end == UniqueLabel(start.c)
      cond == Describe(JumpTarget(end.c, start.v), s.cond)
      body == BlockStatements(EnterBlock(Jump(Test(cond.c, cond.v, TRUE), end.v)), s.body)
  IN  JumpTarget(ExitBlock(JumpTarget(Jump(body, start.v), Break)), end.v)

\* repeat_statement: the condition sees the variables of the body.
Repeat(c, s) ==
  LET start == UniqueLabel(c)
      body == Statements(JumpTarget(EnterBlock(EnterBlock(start.c)), start.v), s.body.stmts)
      done == IF s.body.ret = <<>> THEN body ELSE Return(body, s.body.ret[1])
      cond == Describe(done, s.cond)
      again == Jump(Test(cond.c, cond.v, TRUE), start.v)
  IN  ExitBlock(JumpTarget(ExitBlock(again), Break))

\* local_statement: the last value gives as many values as there are names left.
LocalVariables(c, s) ==
  LET names == Len(s.names)
      values == Len(s.values)
      none == PushMany(c, names)
      Value(x, i) ==
        LET d == Describe(x, s.values[i])
            over == Discharge(d.c, d.v, AnyReg)
            rest == PushCount(d.c, d.v, 1 + names - values)
            one == Discharge(d.c, d.v, PushReg)
        IN  IF i > names THEN Free(over.c, over.v)
            ELSE IF i = values THEN DeclareAll(rest.c, SubSeq(s.names, values, names), rest.v)
            ELSE Declare(one.c, s.names[i], one.v)
  IN  IF values = 0 THEN DeclareAll(Emit(none.c, LoadNil(none.v, names)), s.names, none.v)
      ELSE Each(Value, c, [i \in 1 .. values |-> i])

\* local_function_statement: the function can name itself.
LocalFunction(c, s) ==
  LET r == PushMany(c, 1)
      p == NewPrototype(Declare(r.c, s.name, r.v), s.func)
  IN  Emit(p.c, [op |-> "Closure", dest |-> r.v, proto |-> p.v])

SetUpValue(c, r, index) == Emit(c, [op |-> "SetUpValue", dest |-> index, source |-> r])

\* assign: a value, not yet evaluated, to a target.
Assign(c, target, d) ==
  LET var == FindVariable(c, target.name)
      a == AnyRegister(var.c, d)
      env == Environment(var.c)
      table == Describe(c, target.table)
      key == Describe(table.c, target.key)
  IN  IF target.is = "index" THEN SetTable(key.c, table.v, key.v, d)
      ELSE CASE var.v.is = "local" -> Discharge(var.c, d, InReg(var.v.reg)).c
             [] var.v.is = "up" -> FreeAll(SetUpValue(a.c, a.v.at, var.v.index), a.v.temps)
             [] var.v.is = "global" -> SetTable(env.c, env.v, Constant(Str(target.name)), d)

\* assignment_statement: from left to right, each value evaluated as it is
\* assigned; the last gives as many values as there are targets left.
Assignment(c, s) ==
  LET targets == Len(s.targets)
      values == Len(s.values)
      Value(x, i) ==
        LET d == Describe(x, s.values[i])
            over == Discharge(d.c, d.v, AnyReg)
            rest == PushCount(d.c, d.v, 1 + targets - values)
            To(y, j) == Assign(y, s.targets[values + j - 1], Local(rest.v + j - 1))
        IN  IF i > targets THEN Free(over.c, over.v)
            ELSE IF i = values
            THEN PoppedTo(Each(To, rest.c, [j \in 1 .. 1 + targets - values |-> j]), Top(d.c))
            ELSE Assign(d.c, s.targets[i], d.v)
  IN  Each(Value, c, [i \in 1 .. values |-> i])

\* function_statement: a.b:c is the path <<"a", "b">> and the method <<"c">>.
FunctionStatement(c, s) ==
  LET path == s.path \o s.method
      key == Constant(Str(Last(path)))
      first == FindVariable(c, path[1])
      Field(t, name) == [is |-> "field", table |-> t, key |-> Constant(Str(name))]
      table == FoldLeft(Field, first.v, SubSeq(path, 2, Len(path) - 1))
      func == IF s.method = <<>> THEN s.func
              ELSE [s.func EXCEPT !.params = <<"self">> \o @]
      p == NewPrototype(IF Len(path) = 1 THEN c ELSE first.c, func)
      closure == [is |-> "closure", proto |-> p.v]
      var == FindVariable(p.c, path[1])
      r == Discharge(var.c, closure, AnyReg)
      env == Environment(var.c)
  IN  IF Len(path) > 1 THEN SetTable(p.c, table, key, closure)
      ELSE CASE var.v.is = "local" -> Discharge(var.c, closure, InReg(var.v.reg)).c
             [] var.v.is = "up" -> Free(SetUpValue(r.c, r.v, var.v.index), r.v)
             [] var.v.is = "global" -> SetTable(env.c, env.v, key, closure)

\* function_call_statement.
CallStatement(c, s) == LET d == Describe(c, s.call) IN Call(d.c, d.v, CallOf(0)).c

Statement(c, s) ==
  CASE s.is = "if" -> If(c, s)
    [] s.is = "while" -> While(c, s)
    [] s.is = "do" -> Block(c, s.body)
    [] s.is = "for" -> NumericFor(c, s)
    [] s.is = "forin" -> GenericFor(c, s)
    [] s.is = "repeat" -> Repeat(c, s)
    [] s.is = "function" -> FunctionStatement(c, s)
    [] s.is = "localfunction" -> LocalFunction(c, s)
    [] s.is = "local" -> LocalVariables(c, s)
    [] s.is = "label" -> JumpTarget(c, Label(s.name))
    [] s.is = "break" -> Jump(c, Break)
    [] s.is = "goto" -> Jump(c, Label(s.name))
    [] s.is = "call" -> CallStatement(c, s)
    [] s.is = "assign" -> Assignment(c, s)

-----------------------------------------------------------------------------
(* Functions.                                                              *)

\* finish: all registers are free again but those of the parameters, which go last.
Finish(c) ==
  LET e == Emit(c, [op |-> "Return", start |-> 0, count |-> 0])
      f == Cur(e)
      freed == FreeAll(e, [i \in DOMAIN f.locals |-> f.locals[i][2]])
      checked == Require(freed, Len(f.locals) = f.params /\ Top(freed) = 0)
  IN  IF f.pending # <<>> THEN Fail(checked, "goto_invalid") ELSE checked

\* A CompiledPrototype.
Prototype(f) ==
  LET OfAll(F(_), s) == FoldLeft(LAMBDA r, x : Append(r, F(x)), <<>>, s)
      Descriptor(u) == u[2]
  IN  [params |-> f.params, dots |-> f.dots, size |-> f.ra.size, consts |-> f.consts,
       ops |-> OfAll(Encode, f.ops), ups |-> OfAll(Descriptor, f.ups), protos |-> f.protos]

\* new_prototype: v is its index among those of the function around it.
NewPrototype(c, func) ==
  LET inner == [c EXCEPT !.fns = Append(@, StartFunction(func.params, func.dots))]
      done == Finish(Block(inner, func.body))
      outer == [done EXCEPT !.fns = Front(@)]
      proto == Prototype(Cur(done))
  IN  And(WithCur(outer, [Cur(outer) EXCEPT !.protos = Append(@, proto)]),
          Len(Cur(outer).protos) + 1)

\* compile_chunk: the error, None if there is none, and the prototype.
CompileChunk(b) ==
  LET done == Finish(Block(StartChunk, b))
  IN  [err |-> done.err, proto |-> Prototype(Cur(done))]
================================================================================
