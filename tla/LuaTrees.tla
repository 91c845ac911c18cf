-------------------------------- MODULE LuaTrees --------------------------------
(***************************************************************************)
(* Values and syntax trees of Lua.                                         *)
(*                                                                         *)
(* A value is a tuple: <<"nil">>, <<"bool", b>>, <<"int", n>>, <<"str", s>>, *)
(* with the pieces of a string in s.                                       *)
(* A tree is made of records whose field is says what they are: an         *)
(* expression is a const, name, dots, un, bin, paren, index, call, method, *)
(* function or table; a statement a local, localfunction, assign, call,    *)
(* do, while, repeat, if, for, forin, label, goto, break or function; a    *)
(* block has stmts, its statements, and ret: nothing, or the expressions   *)
(* it returns.  Line numbers are left out.                                 *)
(***************************************************************************)
EXTENDS Integers

NilValue == <<"nil">>
IsTrue(v) == v \notin {NilValue, <<"bool", FALSE>>}
Str(name) == <<"str", <<name>>>>

ArithmeticOf(op, a, b) ==
  CASE op = "+" -> a + b
    [] op = "-" -> a - b
    [] op = "*" -> a * b

BothInts(a, b) == a[1] = "int" /\ b[1] = "int"

CompareInts(op, a, b) == CASE op = "<" -> a < b [] op = "<=" -> a <= b

None == "none"     \* no error
================================================================================
