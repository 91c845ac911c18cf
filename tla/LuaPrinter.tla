------------------------------- MODULE LuaPrinter ------------------------------
(***************************************************************************)
(* The tokens of a syntax tree, by the grammar and the table of operators  *)
(* of the Lua 5.4 manual (3.4.8), with no parenthesis that is not needed,  *)
(* and the short forms where there are any: t.name, f{...}, f"...".        *)
(***************************************************************************)
EXTENDS LuaTrees, Integers, Sequences

\* How strong an operator binds.
Strength(op) ==
  CASE op = "or" -> 1 [] op = "and" -> 2
    [] op \in {"==", "~=", "<", "<=", ">", ">="} -> 3
    [] op = ".." -> 8 [] op \in {"+", "-"} -> 9 [] op = "*" -> 10

UnaryStrength == 11
Strongest == 12

\* Not equal is kept apart: the parser takes it for as strong as +.
Apart(op) == op = "~="

StrengthOf(x) ==
  CASE x.is = "bin" -> IF Apart(x.op) THEN 0 ELSE Strength(x.op)
    [] x.is = "un" -> UnaryStrength
    [] OTHER -> Strongest

Word(kind) == <<<<kind>>>>
NameWord(name) == <<<<"name", name>>>>

\* The sequences f(1), f(2), ... with the words between them.
Joined(f(_), n, between) ==
  LET upto[i \in 0 .. n] ==
        IF i = 0 THEN <<>>
        ELSE IF i = 1 THEN f(1) ELSE LET before == upto[i - 1] IN before \o between \o f(i)
  IN  upto[n]

NamesOf(names) == Joined(LAMBDA i : NameWord(names[i]), Len(names), Word(","))

RECURSIVE PrintExpr(_), PrintBlock(_)

PrintList(xs) == Joined(LAMBDA i : PrintExpr(xs[i]), Len(xs), Word(","))

Grouped(words) == Word("(") \o words \o Word(")")

\* An operand of an operator.
OperandWords(x, strength) ==
  IF StrengthOf(x) >= strength THEN PrintExpr(x) ELSE Grouped(PrintExpr(x))

\* What comes before a suffix.
PrintPrefix(x) ==
  IF x.is \in {"name", "index", "call", "method", "paren"} THEN PrintExpr(x) ELSE Grouped(PrintExpr(x))

IsString(x) == x.is = "const" /\ x.value[1] = "str"

PrintArgs(xs) ==
  IF Len(xs) = 1 /\ (IsString(xs[1]) \/ xs[1].is = "table") THEN PrintExpr(xs[1])
  ELSE Grouped(PrintList(xs))

PrintFunction(f) ==
  LET dots == IF ~f.dots THEN <<>>
              ELSE (IF f.params = <<>> THEN <<>> ELSE Word(",")) \o Word("...")
  IN  Grouped(NamesOf(f.params) \o dots) \o PrintBlock(f.body) \o Word("end")

PrintField(field) ==
  LET key == field.key[1]
  IN  IF field.key = <<>> THEN PrintExpr(field.value)
      ELSE (IF IsString(key) THEN NameWord(key.value[2][1])
            ELSE Word("[") \o PrintExpr(key) \o Word("]")) \o Word("=") \o PrintExpr(field.value)

PrintExpr(x) ==
  LET s == Strength(x.op)
      strong == IF Apart(x.op) THEN <<Strongest, Strongest>>
                ELSE IF x.op = ".." THEN <<s + 1, s>> ELSE <<s, s + 1>>
  IN  CASE x.is = "const" /\ x.value[1] = "bool" -> Word(IF x.value[2] THEN "true" ELSE "false")
        [] x.is = "const" /\ x.value[1] # "bool" -> <<x.value>>
        [] x.is = "name" -> NameWord(x.name)
        [] x.is = "dots" -> Word("...")
        [] x.is = "paren" -> Grouped(PrintExpr(x.arg))
        [] x.is = "un" -> Word(x.op) \o OperandWords(x.arg, UnaryStrength)
        [] x.is = "bin" -> OperandWords(x.left, strong[1]) \o Word(x.op) \o OperandWords(x.right, strong[2])
        [] x.is = "index" /\ IsString(x.key) ->
             PrintPrefix(x.table) \o Word(".") \o NameWord(x.key.value[2][1])
        [] x.is = "index" /\ ~IsString(x.key) ->
             PrintPrefix(x.table) \o Word("[") \o PrintExpr(x.key) \o Word("]")
        [] x.is = "call" -> PrintPrefix(x.func) \o PrintArgs(x.args)
        [] x.is = "method" -> PrintPrefix(x.table) \o Word(":") \o NameWord(x.name) \o PrintArgs(x.args)
        [] x.is = "function" -> Word("function") \o PrintFunction(x)
        [] x.is = "table" ->
             Word("{") \o Joined(LAMBDA i : PrintField(x.fields[i]), Len(x.fields), Word(","))
             \o Word("}")

PrintIf(x) ==
  LET Part(i) == Word(IF i = 1 THEN "if" ELSE "elseif") \o PrintExpr(x.parts[i].cond) \o Word("then")
                 \o PrintBlock(x.parts[i].body)
  IN  Joined(Part, Len(x.parts), <<>>)
      \o (IF x.orelse = <<>> THEN <<>> ELSE Word("else") \o PrintBlock(x.orelse[1])) \o Word("end")

PrintStatement(x) ==
  CASE x.is = "local" ->
         Word("local") \o NamesOf(x.names)
         \o (IF x.values = <<>> THEN <<>> ELSE Word("=") \o PrintList(x.values))
    [] x.is = "localfunction" -> <<<<"local">>, <<"function">>, <<"name", x.name>>>> \o PrintFunction(x.func)
    [] x.is = "assign" -> PrintList(x.targets) \o Word("=") \o PrintList(x.values)
    [] x.is = "call" -> PrintExpr(x.call)
    [] x.is = "do" -> Word("do") \o PrintBlock(x.body) \o Word("end")
    [] x.is = "while" ->
         Word("while") \o PrintExpr(x.cond) \o Word("do") \o PrintBlock(x.body) \o Word("end")
    [] x.is = "repeat" -> Word("repeat") \o PrintBlock(x.body) \o Word("until") \o PrintExpr(x.cond)
    [] x.is = "if" -> PrintIf(x)
    [] x.is = "for" ->
         Word("for") \o NameWord(x.name) \o Word("=") \o PrintList(x.bounds) \o Word("do")
         \o PrintBlock(x.body) \o Word("end")
    [] x.is = "forin" ->
         Word("for") \o NamesOf(x.names) \o Word("in") \o PrintList(x.args) \o Word("do")
         \o PrintBlock(x.body) \o Word("end")
    [] x.is = "label" -> Word("::") \o NameWord(x.name) \o Word("::")
    [] x.is = "goto" -> Word("goto") \o NameWord(x.name)
    [] x.is = "break" -> Word("break")
    [] x.is = "function" ->
         Word("function") \o Joined(LAMBDA i : NameWord(x.path[i]), Len(x.path), Word("."))
         \o (IF x.method = <<>> THEN <<>> ELSE Word(":") \o NameWord(x.method[1]))
         \o PrintFunction(x.func)

\* A statement that starts with a parenthesis would be taken for a call.
PrintBlock(b) ==
  LET Line(i) == LET words == PrintStatement(b.stmts[i])
                 IN  IF words[1] = <<"(">> THEN Word(";") \o words ELSE words
  IN  Joined(Line, Len(b.stmts), <<>>)
      \o (IF b.ret = <<>> THEN <<>> ELSE Word("return") \o PrintList(b.ret[1]))

Printed(b) == PrintBlock(b)
================================================================================
