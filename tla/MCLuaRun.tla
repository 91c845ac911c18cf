-------------------------------- MODULE MCLuaRun --------------------------------
(***************************************************************************)
(* Programs for LuaVM, and what their runs are compared with.              *)
(***************************************************************************)
EXTENDS LuaMeaning, LuaPrinter, LuaChunk

CONSTANT Meant   \* what each of the programs means

(* Syntax trees. *)
K(n) == [is |-> "const", value |-> <<"int", n>>]
S(s) == [is |-> "const", value |-> Str(s)]
C(v) == [is |-> "const", value |-> v]
N(x) == [is |-> "name", name |-> x]
Dots == [is |-> "dots"]
Op1(op, a) == [is |-> "un", op |-> op, arg |-> a]
Op2(a, op, b) == [is |-> "bin", op |-> op, left |-> a, right |-> b]
At(t, k) == [is |-> "index", table |-> t, key |-> k]
Dot(t, name) == At(t, S(name))
Fn(params, body) == [is |-> "function", params |-> params, dots |-> FALSE, body |-> body]
FnDots(params, body) == [is |-> "function", params |-> params, dots |-> TRUE, body |-> body]
Ap(f, args) == [is |-> "call", func |-> f, args |-> args]
Ask(t, name, args) == [is |-> "method", table |-> t, name |-> name, args |-> args]
Item(x) == [key |-> <<>>, value |-> x]
Field(name, x) == [key |-> <<S(name)>>, value |-> x]
Table(fields) == [is |-> "table", fields |-> fields]
List(xs) == Table([i \in DOMAIN xs |-> Item(xs[i])])

B(stmts) == [stmts |-> stmts, ret |-> <<>>]
BR(stmts, values) == [stmts |-> stmts, ret |-> <<values>>]
Declare1(names, values) == [is |-> "local", names |-> names, values |-> values]
LocalFn(name, f) == [is |-> "localfunction", name |-> name, func |-> f]
Set(targets, values) == [is |-> "assign", targets |-> targets, values |-> values]
Do1(call) == [is |-> "call", call |-> call]
Emit1(args) == Do1(Ap(N("emit"), args))
Block1(stmts) == [is |-> "do", body |-> B(stmts)]
While1(cond, stmts) == [is |-> "while", cond |-> cond, body |-> B(stmts)]
Repeat1(stmts, cond) == [is |-> "repeat", body |-> B(stmts), cond |-> cond]
If1(cond, b) == [is |-> "if", parts |-> <<[cond |-> cond, body |-> b]>>, orelse |-> <<>>]
If2(cond, b, other) ==
  [is |-> "if", parts |-> <<[cond |-> cond, body |-> b]>>, orelse |-> <<other>>]
For1(name, bounds, stmts) == [is |-> "for", name |-> name, bounds |-> bounds, body |-> B(stmts)]
ForIn(names, args, stmts) == [is |-> "forin", names |-> names, args |-> args, body |-> B(stmts)]
Mark(name) == [is |-> "label", name |-> name]
Goto(name) == [is |-> "goto", name |-> name]
Leave == [is |-> "break"]
DefFn(path, method, f) == [is |-> "function", path |-> path, method |-> method, func |-> f]

-----------------------------------------------------------------------------
(* What is done with i, which is 1, 2 and 3 in most contexts; fs is a      *)
(* table and n a number outside of it.  loop: only where break is allowed. *)

FsI == At(N("fs"), N("i"))
FsAt(k) == At(N("fs"), K(k))
Inc(x, e) == Set(<<N(x)>>, <<Op2(N(x), "+", e)>>)
IIs(k) == Op2(N("i"), "==", K(k))
CallIf(k) == Op2(FsAt(k), "and", Ap(FsAt(k), <<K(5)>>))
EmitCalls == <<Emit1(<<CallIf(1), CallIf(2), CallIf(3)>>), Emit1(<<CallIf(1), CallIf(3), N("n")>>)>>

Body(loop, stmts, after) == [loop |-> loop, stmts |-> stmts, after |-> after]

Counter ==
  Body(FALSE, <<Declare1(<<"x">>, <<Op2(N("i"), "*", K(10))>>),
                Set(<<FsI>>, <<Fn(<<>>, BR(<<Inc("x", K(1))>>, <<N("x")>>))>>)>>, EmitCalls)

\* Two functions with the same variables.
Sharing ==
  Body(FALSE, <<Declare1(<<"x", "y">>, <<N("i")>>),
                Set(<<FsI>>, <<Fn(<<"d">>, BR(<<Inc("x", N("d")), Set(<<N("y")>>, <<N("i")>>)>>,
                                              <<N("x"), N("y")>>))>>),
                Declare1(<<"g">>, <<Fn(<<>>, BR(<<Inc("n", N("x"))>>, <<N("y")>>))>>),
                Do1(Ap(FsI, <<K(1)>>)), Emit1(<<Ap(N("g"), <<>>), N("n")>>),
                Set(<<At(N("fs"), K(0))>>, <<N("g")>>)>>,
       Append(EmitCalls, Emit1(<<Ap(FsAt(0), <<>>), N("n")>>)))

\* if i == 2 then local y = i; fs[i] = function ... y ... end; break end; the same.
BreakOut ==
  Body(TRUE, <<If1(IIs(2), B(<<Declare1(<<"y">>, <<N("i")>>),
                               Set(<<FsI>>, <<Fn(<<>>, BR(<<Inc("y", K(7))>>, <<N("y")>>))>>), Leave>>)),
               Declare1(<<"x">>, <<N("i")>>),
               Set(<<FsI>>, <<Fn(<<>>, BR(<<>>, <<N("x")>>))>>)>>, EmitCalls)

Continue ==
  Body(FALSE, <<Block1(<<Declare1(<<"x">>, <<N("i")>>),
                         Set(<<FsI>>, <<Fn(<<"d">>, BR(<<Inc("x", N("d"))>>, <<N("x")>>))>>),
                         If1(IIs(2), B(<<Goto("continue")>>)),
                         Declare1(<<"y">>, <<N("x")>>), Inc("n", N("y")), Mark("continue")>>)>>, EmitCalls)

\* A function in a function that needs what is outside of both.
Nested ==
  Body(FALSE, <<Set(<<FsI>>, <<Fn(<<"d">>, BR(<<Declare1(<<"g">>, <<Fn(<<>>,
                   BR(<<Inc("n", N("d")), Inc("d", N("i"))>>, <<N("d")>>))>>), Do1(Ap(N("g"), <<>>))>>,
                   <<Ap(N("g"), <<>>)>>))>>)>>, EmitCalls)

Choice ==
  Body(FALSE, <<Declare1(<<"x">>, <<Op2(Op2(IIs(2), "and", S("two")), "or",
                                     Op2(Op2(N("i"), ">", K(2)), "and", N("n")))>>),
                Set(<<FsI>>, <<Fn(<<>>, BR(<<>>, <<Op1("not", N("x"))>>))>>),
                If2(Op2(N("x"), "~=", S("two")), B(<<Inc("n", K(1))>>), B(<<Inc("n", K(10))>>)),
                Emit1(<<N("x"), Op2(N("i"), "<=", K(2)), Op2(N("i"), ">=", N("n"))>>)>>, EmitCalls)

\* Blocks in a loop, the inner ones left by goto, with captured variables of both.
Outwards ==
  Body(FALSE, <<Block1(<<Declare1(<<"x">>, <<N("n")>>),
                  Block1(<<Declare1(<<"y">>, <<N("i")>>),
                    Set(<<FsI>>, <<Fn(<<>>, BR(<<Inc("x", N("y")), Inc("y", K(1))>>, <<N("x")>>))>>),
                    If1(IIs(1), B(<<Goto("out")>>)), Inc("y", K(100))>>),
                  Inc("x", K(1000)), Mark("out"), Inc("n", N("x"))>>)>>, EmitCalls)

Bodies == <<Counter, Sharing, BreakOut, Continue, Nested, Choice, Outwards>>

LoopContexts == <<"while", "repeat", "for", "down", "in">>
OtherContexts == <<"do", "function", "goto">>

Inside(context, ss) ==
  LET step == <<Inc("j", K(1)), Declare1(<<"i">>, <<N("j")>>)>>
      iterator == Fn(<<"last", "at">>, BR(<<If1(Op2(N("at"), "<", N("last")),
                        BR(<<>>, <<Op2(N("at"), "+", K(1)), N("n")>>))>>, <<C(NilValue)>>))
  IN  CASE context = "do" -> <<Block1(<<Declare1(<<"i">>, <<K(1)>>)>> \o ss)>>
        [] context = "while" -> <<Declare1(<<"j">>, <<K(0)>>), While1(Op2(N("j"), "<", K(3)), step \o ss)>>
        [] context = "repeat" -> <<Declare1(<<"j">>, <<K(0)>>), Repeat1(step \o ss, Op2(N("i"), ">", K(2)))>>
        [] context = "for" -> <<For1("i", <<K(1), K(3)>>, ss)>>
        [] context = "down" -> <<For1("i", <<K(3), K(1), Op1("-", K(1))>>, ss)>>
        [] context = "in" -> <<ForIn(<<"i", "j">>, <<iterator, K(3), K(0)>>, ss)>>
        [] context = "function" ->
             <<LocalFn("f", Fn(<<"i">>, B(ss))), Do1(Ap(N("f"), <<K(1)>>)), Do1(Ap(N("f"), <<K(2)>>)),
               For1("k", <<K(3), K(3)>>, <<Do1(Ap(N("f"), <<N("k")>>))>>)>>
        [] context = "goto" ->
             <<Declare1(<<"j">>, <<K(0)>>), Mark("top")>> \o <<Block1(step \o ss)>> \o
             <<If1(Op2(N("j"), "<", K(2)), B(<<Goto("top")>>))>>

Program(context, body) ==
  BR(<<Declare1(<<"fs", "n">>, <<List(<<>>), K(3)>>)>> \o Inside(context, body.stmts) \o body.after,
     <<N("n")>>)

\* Every body in every context that it is for.
Combined ==
  LET other == SelectSeq(Bodies, LAMBDA b : ~b.loop)
      Every(contexts, bodies) ==
        FlattenSeq([c \in DOMAIN contexts |->
                     [b \in DOMAIN bodies |-> Program(contexts[c], bodies[b])]])
  IN  Every(LoopContexts, Bodies) \o Every(OtherContexts, other)

\* The same in two contexts, one in the other.
OuterContexts == <<"while", "repeat", "for", "function">>

Twice ==
  LET bodies == <<Sharing, Continue, Nested, Outwards>>
      Nest(c, d, body) ==
        BR(<<Declare1(<<"fs", "n">>, <<List(<<>>), K(3)>>)>> \o Inside(c, Inside(d, body.stmts))
           \o body.after, <<N("n")>>)
      contexts == LoopContexts \o OtherContexts
  IN  FlattenSeq([b \in DOMAIN bodies |-> FlattenSeq([c \in DOMAIN OuterContexts |->
        [d \in DOMAIN contexts |-> Nest(OuterContexts[c], contexts[d], bodies[b])]])])

-----------------------------------------------------------------------------
(* Programs of their own.                                                  *)

Three == <<K(1), K(2), K(3)>>
Meta(t, fields) == Ap(N("setmetatable"), <<t, Table(fields)>>)

\* Methods that are found through __index, function t.a:b().
Methods ==
  BR(<<Declare1(<<"class">>, <<Table(<<Field("n", K(1)), Field("sub", List(<<>>))>>)>>),
       DefFn(<<"class", "sub">>, <<"get">>, Fn(<<"d">>, BR(<<>>, <<Op2(Dot(N("self"), "n"), "+", N("d"))>>))),
       DefFn(<<"class">>, <<"inc">>, Fn(<<"d">>,
         BR(<<Set(<<Dot(N("self"), "n")>>, <<Op2(Dot(N("self"), "n"), "+", N("d"))>>)>>, <<N("self")>>))),
       Declare1(<<"o">>, <<Meta(Table(<<>>), <<Field("__index", N("class"))>>)>>),
       Emit1(<<Dot(Ask(Ask(N("o"), "inc", <<K(2)>>), "inc", <<K(3)>>), "n"), Dot(N("class"), "n")>>),
       Set(<<Dot(Dot(N("class"), "sub"), "n")>>, <<K(7)>>)>>,
     <<Ask(Dot(N("class"), "sub"), "get", <<K(1)>>), Dot(N("o"), "missing")>>)

MetaMethods ==
  BR(<<Declare1(<<"seen", "base">>, <<List(<<>>), Table(<<Field("a", K(1))>>)>>),
       Declare1(<<"f">>, <<Fn(<<"t", "k">>, BR(<<Emit1(<<N("k")>>)>>, <<N("k"), K(9)>>))>>),
       Declare1(<<"eq">>, <<Fn(<<"a", "b">>, BR(<<>>, <<Op2(Dot(N("a"), "n"), "==", Dot(N("b"), "n"))>>))>>),
       Declare1(<<"t">>, <<Meta(Table(<<Field("n", K(4))>>),
         <<Field("__index", N("f")), Field("__newindex", N("seen")), Field("__eq", N("eq")),
           Field("__call", Fn(<<"self", "x">>, BR(<<>>, <<Dot(N("self"), "n"), N("x")>>))),
           Field("__len", Fn(<<"self">>, BR(<<>>, <<K(42)>>)))>>)>>),
       Declare1(<<"u">>, <<Meta(Table(<<Field("n", K(4))>>),
         <<Field("__newindex", Fn(<<"t", "k", "v">>, B(<<Set(<<At(N("seen"), N("v"))>>, <<N("k")>>)>>))),
           Field("__index", N("t"))>>)>>),
       Set(<<Dot(N("t"), "x"), Dot(N("t"), "n")>>, <<K(1), K(5)>>),
       Set(<<Dot(N("u"), "y")>>, <<K(2)>>),
       Emit1(<<Dot(N("seen"), "x"), At(N("seen"), K(2)), Dot(N("t"), "n"), Op1("#", N("t")),
               Dot(N("u"), "z")>>),
       Set(<<Dot(N("t"), "n")>>, <<K(4)>>),
       If2(Op2(N("t"), "==", N("u")), B(<<Emit1(<<S("equal")>>)>>), B(<<Emit1(<<S("not")>>)>>)),
       Emit1(<<Op2(N("t"), "~=", N("base")), Op2(N("t"), "==", N("t")), Ap(N("t"), <<K(6)>>)>>),
       Declare1(<<"call">>, <<Meta(Table(<<>>), <<Field("__call", N("t"))>>)>>)>>,
     <<Op2(Ap(N("t"), <<K(8)>>), "-", K(1))>>)

VarArguments ==
  BR(<<Declare1(<<"f">>, <<FnDots(<<"a">>, BR(<<Declare1(<<"b", "c">>, <<Dots>>)>>,
                                              <<N("a"), N("c"), N("b"), Dots>>))>>),
       Declare1(<<"g">>, <<FnDots(<<>>, BR(<<>>, <<Ap(N("f"), <<K(0), Dots>>)>>))>>),
       Emit1(<<Ap(N("f"), Three)>>), Emit1(<<Ap(N("f"), <<K(1), Ap(N("g"), Three)>>), K(5)>>),
       Declare1(<<"t">>, <<List(<<K(7), Ap(N("g"), Three)>>)>>),
       Emit1(<<Op1("#", N("t")), At(N("t"), K(3)), At(N("t"), K(6))>>),
       Declare1(<<"h">>, <<FnDots(<<>>, BR(<<Declare1(<<"t">>, <<List(<<Dots>>)>>)>>, <<Op1("#", N("t")), Dots>>))>>)>>,
     <<Ap(N("h"), <<K(4), Ap(N("f"), <<K(1)>>)>>)>>)

TailCalls ==
  BR(<<LocalFn("sum", Fn(<<"n", "acc">>, BR(<<If1(Op2(N("n"), "==", K(0)), BR(<<>>, <<N("acc")>>)),
                                              Declare1(<<"a">>, <<Op2(N("acc"), "+", N("n"))>>),
                                              Declare1(<<"get">>, <<Fn(<<>>, BR(<<>>, <<N("a")>>))>>)>>,
                                            <<Ap(N("sum"), <<Op2(N("n"), "-", K(1)), Ap(N("get"), <<>>)>>)>>))),
       LocalFn("fact", Fn(<<"n">>, BR(<<If1(Op2(N("n"), "<=", K(1)), BR(<<>>, <<K(1)>>))>>,
                                      <<Op2(N("n"), "*", Ap(N("fact"), <<Op2(N("n"), "-", K(1))>>))>>))),
       Emit1(<<Ap(N("sum"), <<K(4), K(0)>>), Ap(N("fact"), <<K(4)>>)>>),
       Declare1(<<"last">>, <<FnDots(<<>>, BR(<<>>, <<Ap(N("emit"), <<Dots, K(1)>>)>>))>>),
       Emit1(<<Ap(N("last"), Three)>>)>>, <<Ap(N("sum"), <<K(2), K(1), K(9)>>)>>)

\* More fields than are put in a table at a time, the last as many as there are.
LongTable ==
  BR(<<Declare1(<<"f">>, <<FnDots(<<>>, BR(<<>>, <<Dots>>))>>),
       Declare1(<<"t">>, <<Table([i \in 1 .. 34 |-> Item(K(i))] \o <<Field("x", K(5)), Item(Ap(N("f"), Three))>>)>>)>>,
     <<Op1("#", N("t")), At(N("t"), K(32)), At(N("t"), K(33)), At(N("t"), K(37)), Dot(N("t"), "x")>>)

Assignments ==
  BR(<<Declare1(<<"f">>, <<FnDots(<<>>, BR(<<>>, <<Dots>>))>>), Declare1(<<"a", "b", "c">>, <<>>),
       Set(<<N("a"), N("b"), N("c")>>, <<K(0), Ap(N("f"), Three)>>), Emit1(<<N("a"), N("b"), N("c")>>),
       Set(<<N("a"), N("b")>>, <<Ap(N("f"), Three), K(7), K(8)>>), Emit1(<<N("a"), N("b"), N("c")>>),
       Set(<<N("b"), N("c")>>, <<Ap(N("f"), <<K(6)>>)>>), Emit1(<<N("a"), N("b"), N("c")>>),
       Declare1(<<"t">>, <<List(<<>>)>>),
       Set(<<At(N("t"), K(1)), N("g"), At(N("t"), K(2))>>, <<Ap(N("f"), Three)>>),
       Declare1(<<"a">>, <<Op2(N("a"), "+", K(1)), K(2)>>),
       Declare1(<<"d", "e">>, <<Dots>>), Set(<<N("d")>>, <<Op1("-", N("g"))>>),
       DefFn(<<"g">>, <<>>, Fn(<<"x">>, BR(<<Set(<<N("a")>>, <<N("x")>>), Set(<<N("h")>>, <<N("a")>>)>>, <<N("h")>>))),
       DefFn(<<"b">>, <<>>, Fn(<<>>, BR(<<DefFn(<<"c">>, <<>>, Fn(<<>>, BR(<<>>, <<N("a")>>)))>>, <<Ap(N("c"), <<>>)>>))),
       Emit1(<<Ap(N("g"), <<K(3)>>), N("a"), Ap(N("b"), <<>>)>>)>>,
     <<N("d"), N("e"), N("h"), At(N("t"), K(1)), At(N("t"), K(2))>>)

Conditions ==
  LET x == N("x")
      Both(op, y) == Op2(x, op, y)
  IN  BR(<<Declare1(<<"x", "y", "z">>, <<K(2), C(<<"bool", FALSE>>)>>),
           Emit1(<<Op2(Both("<", K(3)), "and", Both(">", K(2))), Op2(N("y"), "or", N("z")),
                   Op2(N("y"), "or", Op2(N("z"), "or", x)), Op1("not", Op2(N("z"), "==", N("y"))),
                   Op1("not", N("z")), Both("~=", N("y"))>>),
           [is |-> "if", parts |-> <<[cond |-> Both(">=", K(3)), body |-> B(<<Emit1(<<K(3)>>)>>)],
                                     [cond |-> N("z"), body |-> B(<<Emit1(<<K(4)>>)>>)],
                                     [cond |-> Op1("not", Both("<", K(2))), body |-> B(<<Emit1(<<K(5)>>)>>)]>>,
            orelse |-> <<B(<<Emit1(<<K(6)>>)>>)>>],
           If2(C(NilValue), B(<<Emit1(<<K(7)>>)>>), B(<<Emit1(<<K(8)>>)>>)),
           If1(C(<<"bool", TRUE>>), B(<<Emit1(<<Op2(K(1), "<", K(2)), Op1("-", Op2(K(2), "*", K(3)))>>)>>)),
           Set(<<N("y")>>, <<Op2(Op2(x, "and", N("z")), "or", Op2(N("y"), "and", x))>>),
           Set(<<x>>, <<Op2(x, "and", Op2(x, "-", K(1)))>>)>>,
         <<x, N("y"), N("z"), Op2(Op2(S("a"), "..", x), "..", Op2(S("b"), "..", K(1))),
           Op2(Op2(x, "+", K(1)), "*", Op2(x, "-", Op1("-", x)))>>)

\* Loops that make nothing.
Loops ==
  LET next == Fn(<<"last", "at">>, BR(<<If1(Op2(N("at"), "<", N("last")),
                    BR(<<>>, <<Op2(N("at"), "+", K(1))>>))>>, <<C(NilValue)>>))
  IN  BR(<<Declare1(<<"x">>, <<K(0)>>), ForIn(<<"k">>, <<next, K(3), K(0)>>, <<Set(<<N("x")>>, <<N("k")>>)>>),
           Emit1(<<N("x")>>), For1("i", <<K(1), K(3)>>, <<Set(<<N("x")>>, <<N("i")>>)>>)>>, <<N("x")>>)

\* Names that hide others, _ENV among them.
Scopes ==
  BR(<<Declare1(<<"x", "out">>, <<K(1), N("emit")>>), Declare1(<<"x">>, <<Op2(N("x"), "+", K(1))>>),
       Block1(<<Declare1(<<"x">>, <<Op2(N("x"), "*", K(5))>>), Emit1(<<N("x")>>)>>), Emit1(<<N("x")>>),
       Declare1(<<"f">>, <<Fn(<<"_ENV">>, BR(<<Set(<<N("y")>>, <<N("z")>>)>>, <<N("y")>>))>>),
       Declare1(<<"t">>, <<Table(<<Field("z", K(4))>>)>>), Emit1(<<Ap(N("f"), <<N("t")>>), Dot(N("t"), "y"), N("y")>>),
       Declare1(<<"_ENV">>, <<N("t")>>), Set(<<N("x"), N("w")>>, <<N("z"), K(6)>>),
       Do1(Ap(N("out"), <<N("x"), N("y"), N("w")>>))>>,
     <<Ap(Fn(<<>>, BR(<<>>, <<N("w"), N("emit")>>)), <<>>)>>)

\* So many variables that temporaries take the last register there is, with some
\* that are freed in between and taken again; f gives back what it is given.
Crowded ==
  LET names == [k \in 1 .. 28 |-> "v" \o ToString(k)]
      sum == Op2(N("v1"), "+", N("v2"))
      deep == Op2(sum, "-", Op2(sum, "*", Op2(sum, "-", Op2(sum, "*", sum))))
  IN  BR(<<LocalFn("f", FnDots(<<>>, BR(<<>>, <<Dots>>))), Declare1(names, <<Ap(N("f"), Three)>>),
           Block1(<<Declare1(<<"x", "y">>, <<N("v3"), N("v28")>>), Inc("x", Op2(N("v1"), "*", N("v2"))),
                    Set(<<N("v27")>>, <<Fn(<<>>, BR(<<Inc("x", N("v3"))>>, <<N("x"), N("v26")>>))>>),
                    Emit1(<<Op2(N("x"), "+", N("v2")), Ap(N("f"), <<N("y"), N("x")>>), N("v2")>>)>>),
           Set(<<N("v26")>>, <<List(<<K(4), Op2(K(5), "-", N("v1")), Ap(N("v27"), <<>>)>>)>>),
           Declare1(<<"z", "w">>, <<Op1("#", N("v26")), Ap(N("f"), <<N("v3"), N("v28")>>)>>),
           Emit1(<<N("z"), N("w"), At(N("v26"), K(2)), Ap(N("f"), <<N("v1"), Ap(N("v27"), <<>>)>>)>>),
           Set(<<N("v28")>>, <<Op2(Op2(N("z"), "+", N("v1")), "*", Op2(Op2(N("z"), "-", N("v2")), "+",
                 Op2(sum, "*", Ap(N("f"), <<N("v3"), N("z"), N("v1"), N("v2")>>))))>>),
           Block1(<<Declare1(<<"a", "b", "c", "d">>, <<>>), Set(<<N("v4")>>, <<deep>>)>>)>>,
         <<N("v3"), N("v4"), N("v28"), N("z"), N("w"), Ap(N("f"), <<N("v2"), N("w")>>)>>)

\* Programs that end with an error: after one more emit, so that its place shows.
Bad == <<
  <<Do1(Ap(N("missing"), <<>>))>>,
  <<Emit1(<<Dot(N("missing"), "x")>>)>>,
  <<Set(<<Dot(K(1), "x")>>, <<K(2)>>)>>,
  <<Declare1(<<"t">>, <<List(<<>>)>>), Set(<<At(N("t"), N("missing"))>>, <<K(2)>>)>>,
  <<Emit1(<<Op2(S("a"), "+", K(1))>>)>>, <<Emit1(<<Op2(S("a"), "<", K(1))>>)>>,
  <<Emit1(<<Op1("-", N("emit"))>>)>>, <<Emit1(<<Op1("#", K(1))>>)>>, <<Emit1(<<Op2(S("a"), "..", N("emit"))>>)>>,
  <<For1("i", <<K(1), S("x")>>, <<>>)>>, <<For1("i", <<S("x"), K(1)>>, <<>>)>>,
  <<ForIn(<<"x">>, <<K(1)>>, <<>>)>>, <<Do1(Ask(N("missing"), "x", <<>>))>>,
  <<Do1(Ap(N("setmetatable"), <<K(1), K(2)>>))>>,
  <<Emit1(<<Dot(Meta(List(<<>>), <<Field("__index", K(1))>>), "x")>>)>>,
  <<Do1(Ap(Meta(List(<<>>), <<Field("__call", List(<<>>))>>), <<>>))>>,
  <<Set(<<Dot(Meta(List(<<>>), <<Field("__newindex", Meta(List(<<>>), <<Field("__newindex", K(1))>>))>>), "x")>>, <<K(1)>>)>>>>

Failing(stmts) ==
  B(<<LocalFn("f", Fn(<<"x">>, B(<<Declare1(<<"g">>, <<Fn(<<>>, BR(<<>>, <<N("x")>>))>>)>> \o stmts))),
      Emit1(<<K(1)>>), Do1(Ap(N("f"), <<K(2)>>)), Emit1(<<K(3)>>)>>)

Others == <<Methods, MetaMethods, VarArguments, TailCalls, LongTable, Assignments, Conditions, Loops, Scopes, Crowded>>

Trees == Combined \o Twice \o Others \o [i \in DOMAIN Bad |-> Failing(Bad[i])]

MCLoaded == LET Loading(p) == Load(Printed(Trees[p])) IN [p \in DOMAIN Trees |-> Loading(p)]
MCMeant == LET MeaningOf(p) == Meaning(Trees[p]) IN [p \in DOMAIN Trees |-> MeaningOf(p)]

\* The results of the thread.
Results == SubSeq(th.stack, Frame.bottom + 1, Len(th.stack))

\* A program does what its text says.
MeansWhatItSays ==
  status # "running" =>
    LET meaning == Meant[pgm]
    IN  /\ out = meaning.out
        /\ IF status = "result" THEN meaning.state = "ok" /\ Results = meaning.values
           ELSE meaning.state = status

=================================================================================
