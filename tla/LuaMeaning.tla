------------------------------- MODULE LuaMeaning ------------------------------
(***************************************************************************)
(* What a Lua program means, by its text alone: no registers, no jumps, no *)
(* upvalues.  Every execution of a declaration makes a new variable.       *)
(*                                                                         *)
(* s is what there is: the values of the variables, functions and tables,  *)
(* what was emitted, and whether all is well, there was an error or there  *)
(* is no fuel left.  e is where names are looked up: pairs of a name and a *)
(* variable, the innermost last, and the arguments of ... .                *)
(***************************************************************************)
EXTENDS LuaVM

\* How many calls and turns of a loop a program may take.
MaxFuel == 400

Got(s, v) == [s |-> s, v |-> v]
Ok(s) == s.state = "ok"
Stop(s, why) == IF Ok(s) THEN [s EXCEPT !.state = why] ELSE s
Burn(s) == IF s.fuel = 0 THEN Stop(s, "fuel") ELSE [s EXCEPT !.fuel = @ - 1]

First(vs) == IF vs = <<>> THEN NilValue ELSE vs[1]

\* New variables with these values.
Bind(s, e, names, values) ==
  [s |-> [s EXCEPT !.cells = @ \o Resize(values, Len(names))],
   e |-> [e EXCEPT !.names = @ \o [i \in DOMAIN names |-> <<names[i], Len(s.cells) + i>>]]]

\* The variable a name stands for, 0 for a global.
VariableOf(e, name) ==
  LET i == SelectLastInSeq(e.names, LAMBDA x : x[1] = name) IN IF i = 0 THEN 0 ELSE e.names[i][2]

Env(s, e) == s.cells[VariableOf(e, "_ENV")]

RECURSIVE Invoke(_, _, _), Fetch(_, _, _), Store(_, _, _, _), Many(_, _, _), All(_, _, _),
          AllFrom(_, _, _),           Run(_, _, _), RunFrom(_, _, _, _), Do(_, _, _), Turn(_, _, _, _)

One(s, e, x) == LET r == Many(s, e, x) IN Got(r.s, First(r.v))

\* t[k].
Fetch(s, t, k) ==
  LET idx == MetaField(s, t, "__index")
      r == Invoke(s, idx, <<t, k>>)
  IN  IF ~IsTable(t) THEN Got(Stop(s, "error"), NilValue)
      ELSE IF RawGet(s, t, k) # NilValue \/ idx = NilValue THEN Got(s, RawGet(s, t, k))
      ELSE IF IsTable(idx) THEN Fetch(s, idx, k)
      ELSE Got(r.s, First(r.v))

\* t[k] = v.
Store(s, t, k, v) ==
  LET idx == MetaField(s, t, "__newindex")
  IN  IF ~Ok(s) THEN s
      ELSE IF ~IsTable(t) THEN Stop(s, "error")
      ELSE IF RawGet(s, t, k) # NilValue \/ idx = NilValue
      THEN IF k = NilValue THEN Stop(s, "error") ELSE RawSet(s, t, k, v)
      ELSE IF IsTable(idx) THEN Store(s, idx, k, v)
      ELSE Invoke(s, idx, <<t, k, v>>).s

\* A call of f.
Invoke(s, f, args) ==
  LET func == s.funs[f[2]]
      bound == Bind(s, func.e, func.params, args)
      dots == IF func.dots THEN SubSeq(args, Len(func.params) + 1, Len(args)) ELSE <<>>
      r == Run(Burn(bound.s), [bound.e EXCEPT !.dots = dots], func.body)
      call == MetaField(s, f, "__call")
      two == Resize(args, 2)
  IN  IF ~Ok(s) THEN Got(s, <<>>)
      ELSE CASE f[1] = "fn" -> Got(r.s, IF r.k[1] = "return" THEN r.k[2] ELSE <<>>)
             [] f = <<"native", "emit">> -> Got([s EXCEPT !.out = Append(@, args)], <<>>)
             [] f = <<"native", "setmetatable">> /\ IsTable(two[1]) ->
                  Got([s EXCEPT !.tables[two[1][2]].meta = two[2]], <<two[1]>>)
             [] IsTable(f) /\ call # NilValue -> Invoke(s, call, <<f>> \o args)
             [] OTHER -> Got(Stop(s, "error"), <<>>)

Same(s, a, b) ==
  LET one == MetaField(s, a, "__eq")
      eq == IF one # NilValue THEN one ELSE MetaField(s, b, "__eq")
      r == Invoke(s, eq, <<a, b>>)
  IN  IF a = b \/ ~IsTable(a) \/ ~IsTable(b) \/ eq = NilValue THEN Got(s, a = b)
      ELSE Got(r.s, IsTrue(First(r.v)))

Binary(s, op, a, b) ==
  LET same == Same(s, a, b)
      Ints(v) == IF BothInts(a, b) THEN Got(s, v) ELSE Got(Stop(s, "error"), NilValue)
  IN  IF ~Ok(s) THEN Got(s, NilValue)
      ELSE CASE op = "+" -> Ints(<<"int", a[2] + b[2]>>)
             [] op = "-" -> Ints(<<"int", a[2] - b[2]>>)
             [] op = "*" -> Ints(<<"int", a[2] * b[2]>>)
             [] op = "<" -> Ints(<<"bool", a[2] < b[2]>>)
             [] op = "<=" -> Ints(<<"bool", a[2] <= b[2]>>)
             [] op = ">" -> Ints(<<"bool", a[2] > b[2]>>)
             [] op = ">=" -> Ints(<<"bool", a[2] >= b[2]>>)
             [] op = "==" -> Got(same.s, <<"bool", same.v>>)
             [] op = "~=" -> Got(same.s, <<"bool", ~same.v>>)
             [] op = ".." -> IF {a[1], b[1]} \subseteq {"int", "str"}
                             THEN Got(s, <<"str", Piece(a) \o Piece(b)>>)
                             ELSE Got(Stop(s, "error"), NilValue)

Unary(s, op, a) ==
  LET len == MetaField(s, a, "__len")
      r == Invoke(s, len, <<a>>)
  IN  IF ~Ok(s) THEN Got(s, NilValue)
      ELSE CASE op = "not" -> Got(s, <<"bool", ~IsTrue(a)>>)
             [] op = "-" /\ a[1] = "int" -> Got(s, <<"int", -a[2]>>)
             [] op = "#" /\ IsTable(a) ->
                  IF len = NilValue THEN Got(s, <<"int", Border(s, a)>>) ELSE Got(r.s, First(r.v))
             [] OTHER -> Got(Stop(s, "error"), NilValue)

\* The fields of a table constructor, from left to right.
Constructed(s, e, fields) ==
  LET table == <<"table", Len(s.tables) + 1>>
      last == Len(fields)
      Item(a, i) ==
        LET field == fields[i]
            k == All(a.s, e, field.key)
            vs == IF i = last THEN Many(k.s, e, field.value)
                  ELSE LET v == One(k.s, e, field.value) IN Got(v.s, <<v.v>>)
            Put(x, j) == RawSet(x, table, <<"int", a.n + j>>, vs.v[j])
        IN  IF field.key # <<>>
            THEN [s |-> RawSet(vs.s, table, k.v[1], First(vs.v)), n |-> a.n]
            ELSE [s |-> FoldLeft(Put, vs.s, [j \in DOMAIN vs.v |-> j]), n |-> a.n + Len(vs.v)]
      after[i \in 0 .. last] ==
        IF i = 0 THEN [s |-> [s EXCEPT !.tables = Append(@, EmptyTable)], n |-> 0]
        ELSE LET before == after[i - 1] IN IF Ok(before.s) THEN Item(before, i) ELSE before
  IN  Got(after[last].s, table)

\* The values of an expression: one, unless it is a call or ... .
Many(s, e, x) ==
  IF ~Ok(s) THEN Got(s, <<>>)
  ELSE CASE x.is = "const" -> Got(s, <<x.value>>)
         [] x.is = "dots" -> Got(s, e.dots)
         [] x.is = "name" ->
              IF VariableOf(e, x.name) # 0 THEN Got(s, <<s.cells[VariableOf(e, x.name)]>>)
              ELSE LET r == Fetch(s, Env(s, e), Str(x.name)) IN Got(r.s, <<r.v>>)
         [] x.is = "paren" -> LET r == One(s, e, x.arg) IN Got(r.s, <<r.v>>)
         [] x.is = "un" ->
              LET a == One(s, e, x.arg)
                  r == Unary(a.s, x.op, a.v)
              IN  Got(r.s, <<r.v>>)
         [] x.is = "bin" /\ x.op \in {"and", "or"} ->
              LET l == One(s, e, x.left)
                  r == One(l.s, e, x.right)
              IN  IF IsTrue(l.v) = (x.op = "or") THEN Got(l.s, <<l.v>>) ELSE Got(r.s, <<r.v>>)
         [] x.is = "bin" /\ x.op \notin {"and", "or"} ->
              LET l == One(s, e, x.left)
                  r == One(l.s, e, x.right)
                  v == Binary(r.s, x.op, l.v, r.v)
              IN  Got(v.s, <<v.v>>)
         [] x.is = "index" ->
              LET t == One(s, e, x.table)
                  k == One(t.s, e, x.key)
                  r == Fetch(k.s, t.v, k.v)
              IN  Got(r.s, <<r.v>>)
         [] x.is = "call" ->
              LET f == One(s, e, x.func)
                  args == All(f.s, e, x.args)
              IN  Invoke(args.s, f.v, args.v)
         [] x.is = "method" ->
              LET t == One(s, e, x.table)
                  f == Fetch(t.s, t.v, Str(x.name))
                  args == All(f.s, e, x.args)
              IN  Invoke(args.s, f.v, <<t.v>> \o args.v)
         [] x.is = "function" ->
              Got([s EXCEPT !.funs = Append(@, [params |-> x.params, dots |-> x.dots,
                                                body |-> x.body, e |-> e])],
                  <<<<"fn", Len(s.funs) + 1>>>>)
         [] x.is = "table" -> LET r == Constructed(s, e, x.fields) IN Got(r.s, <<r.v>>)

\* The values of a list of expressions, after those of a: all that the last one has.
AllFrom(a, e, xs) ==
  LET r == Many(a.s, e, Head(xs))
  IN  IF ~Ok(a.s) \/ xs = <<>> THEN a
      ELSE IF Len(xs) = 1 THEN Got(r.s, a.v \o r.v)
      ELSE AllFrom(Got(r.s, Append(a.v, First(r.v))), e, Tail(xs))

All(s, e, xs) == AllFrom(Got(s, <<>>), e, xs)

-----------------------------------------------------------------------------
(* Statements.  k says how a statement ended.                              *)

Normal == <<"normal">>
Ended(s, e, k) == [s |-> s, e |-> e, k |-> IF Ok(s) THEN k ELSE <<"stopped">>]

\* How many variables of the block are declared before its statement i.
Declared(stmts, i) ==
  LET Names(x) == CASE x.is = "local" -> Len(x.names)
                    [] x.is = "localfunction" -> 1
                    [] OTHER -> 0
  IN  FoldLeft(LAMBDA n, x : n + Names(x), 0, SubSeq(stmts, 1, i - 1))

LabelIn(stmts, name) == SelectInSeq(stmts, LAMBDA x : x.is = "label" /\ x.name = name)

\* The statements of a block from i on; outer is how many names are those around it.
RunFrom(s, e, b, at) ==
  LET r == Do(s, e, b.stmts[at.i])
      to == IF r.k[1] = "goto" THEN LabelIn(b.stmts, r.k[2]) ELSE 0
      back == Truncate(r.e.names, at.outer + Declared(b.stmts, to))
      values == All(s, e, b.ret[1])
  IN  IF at.i <= Len(b.stmts)
      THEN IF r.k = Normal THEN RunFrom(r.s, r.e, b, [at EXCEPT !.i = @ + 1])
           ELSE IF to # 0 THEN RunFrom(Burn(r.s), [r.e EXCEPT !.names = back], b, [at EXCEPT !.i = to])
           ELSE r
      ELSE IF b.ret # <<>> THEN Ended(values.s, e, <<"return", values.v>>)
      ELSE Ended(s, e, Normal)

Run(s, e, b) == RunFrom(s, e, b, [i |-> 1, outer |-> Len(e.names)])

\* The turns of a loop: head says whether there is one, and what it runs.
Turn(s, e, x, i) ==
  LET cond == One(Burn(s), e, x.cond)
      body == Run(Burn(s), e, x.body)
      until == One(body.s, body.e, x.cond)
      one == Bind(Burn(s), e, <<x.name>>, <<<<"int", i.at>>>>)
      counted == Run(one.s, one.e, x.body)
      past == IF i.step < 0 THEN i.at < i.last ELSE i.last < i.at
      got == Invoke(Burn(s), i.func, <<i.state, i.at>>)
      each == Bind(got.s, e, x.names, got.v)
      run == Run(each.s, each.e, x.body)
      Next1(r, j) ==
        CASE r.k = Normal -> Turn(r.s, e, x, j)
          [] r.k = <<"break">> -> Ended(r.s, e, Normal)
          [] OTHER -> Ended(r.s, e, r.k)
      While1 == Run(cond.s, e, x.body)
  IN  IF ~Ok(s) THEN Ended(s, e, Normal)
      ELSE CASE x.is = "while" ->
                  IF IsTrue(cond.v) /\ Ok(cond.s) THEN Next1(While1, i) ELSE Ended(cond.s, e, Normal)
             [] x.is = "repeat" ->
                  IF body.k # Normal THEN Next1(body, i)
                  ELSE IF IsTrue(until.v) THEN Ended(until.s, e, Normal) ELSE Turn(until.s, e, x, i)
             [] x.is = "for" ->
                  IF past THEN Ended(s, e, Normal)
                  ELSE Next1(counted, [i EXCEPT !.at = @ + i.step])
             [] x.is = "forin" ->
                  IF First(got.v) = NilValue \/ ~Ok(got.s) THEN Ended(got.s, e, Normal)
                  ELSE Next1(run, [i EXCEPT !.at = First(got.v)])

Loop(s, e, x) ==
  LET bounds == All(s, e, IF x.is = "for" THEN x.bounds ELSE x.args)
      three == Resize(bounds.v, 3)
      step == IF Len(x.bounds) = 3 THEN three[3][2] ELSE 1
  IN  CASE x.is \in {"while", "repeat"} -> Turn(s, e, x, 0)
        [] x.is = "for" ->
             IF ~AllInts(bounds.v) THEN Ended(Stop(bounds.s, "error"), e, Normal)
             ELSE Turn(bounds.s, e, x, [at |-> three[1][2], last |-> three[2][2], step |-> step])
        [] x.is = "forin" ->
             Turn(bounds.s, e, x, [func |-> three[1], state |-> three[2], at |-> three[3]])

\* The first part whose condition holds.
RECURSIVE Branch(_, _, _, _)
Branch(s, e, x, i) ==
  LET cond == One(s, e, x.parts[i].cond)
  IN  IF i > Len(x.parts)
      THEN IF x.orelse = <<>> THEN Ended(s, e, Normal) ELSE Run(s, e, x.orelse[1])
      ELSE IF ~Ok(cond.s) THEN Ended(cond.s, e, Normal)
      ELSE IF IsTrue(cond.v) THEN Run(cond.s, e, x.parts[i].body)
      ELSE Branch(cond.s, e, x, i + 1)

Assigned(s, e, name, v) ==
  IF ~Ok(s) THEN s
  ELSE IF VariableOf(e, name) # 0 THEN [s EXCEPT !.cells[VariableOf(e, name)] = v]
  ELSE Store(s, Env(s, e), Str(name), v)

\* All values first, then the assignments.
AssignedAll(s, e, x) ==
  LET values == All(s, e, x.values)
      vs == Resize(values.v, Len(x.targets))
      Put(a, i) ==
        LET t == One(a, e, x.targets[i].table)
            k == One(t.s, e, x.targets[i].key)
        IN  IF x.targets[i].is = "name" THEN Assigned(a, e, x.targets[i].name, vs[i])
            ELSE Store(k.s, t.v, k.v, vs[i])
  IN  FoldLeft(Put, values.s, [i \in DOMAIN x.targets |-> i])

\* function a.b:c ... end.
NamedFunction(s, e, x) ==
  LET path == x.path \o x.method
      func == IF x.method = <<>> THEN x.func ELSE [x.func EXCEPT !.params = <<"self">> \o @]
      Field(t, name) == [is |-> "index", table |-> t, key |-> [is |-> "const", value |-> Str(name)]]
      target == FoldLeft(Field, [is |-> "name", name |-> path[1]], Tail(path))
  IN  AssignedAll(s, e, [targets |-> <<target>>, values |-> <<func>>])

Do(s, e, x) ==
  CASE x.is = "do" -> LET r == Run(s, e, x.body) IN Ended(r.s, e, r.k)
    [] x.is = "if" -> LET r == Branch(s, e, x, 1) IN Ended(r.s, e, r.k)
    [] x.is \in {"while", "repeat", "for", "forin"} -> Loop(s, e, x)
    [] x.is = "local" ->
         LET values == All(s, e, x.values)
             b == Bind(values.s, e, x.names, values.v)
         IN  Ended(b.s, b.e, Normal)
    [] x.is = "localfunction" ->
         LET b == Bind(s, e, <<x.name>>, <<>>)
             f == One(b.s, b.e, x.func)
         IN  Ended(Assigned(f.s, b.e, x.name, f.v), b.e, Normal)
    [] x.is = "function" -> Ended(NamedFunction(s, e, x), e, Normal)
    [] x.is = "assign" -> Ended(AssignedAll(s, e, x), e, Normal)
    [] x.is = "call" -> Ended(Many(s, e, x.call).s, e, Normal)
    [] x.is = "label" -> Ended(s, e, Normal)
    [] x.is = "break" -> Ended(s, e, <<"break">>)
    [] x.is = "goto" -> Ended(s, e, <<"goto", x.name>>)

StartState ==
  [cells |-> <<<<"table", 1>>>>, funs |-> <<>>,
   tables |-> <<[map |-> Globals, meta |-> NilValue]>>,
   out |-> <<>>, state |-> "ok", fuel |-> MaxFuel]

\* What a chunk emits and returns, and whether it ends with an error.
Meaning(b) ==
  LET r == Run(StartState, [names |-> <<<<"_ENV", 1>>>>, dots |-> <<>>], b)
  IN  [out |-> r.s.out, state |-> r.s.state, values |-> IF r.k[1] = "return" THEN r.k[2] ELSE <<>>]
================================================================================
