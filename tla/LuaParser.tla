------------------------------- MODULE LuaParser -------------------------------
(***************************************************************************)
(* The Lua parser (piccolo/src/compiler/parser.rs): from the tokens of a   *)
(* chunk to its syntax tree, by recursive descent.                         *)
(*                                                                         *)
(* A token is a tuple: <<kind>>, or a kind and what it stands for: a name, *)
(* an int or a str.  p.rest are the tokens that are left, p.err the first  *)
(* error, p.depth how many recursion guards are alive.  The source keeps   *)
(* the suffixes of an expression and the operators that follow it in lists *)
(* that the compiler folds from left to right (suffixed_expression,        *)
(* expression): here the tree is made folded.                              *)
(***************************************************************************)
EXTENDS LuaTrees, Integers, Sequences, SequencesExt

CONSTANT MaxRecursion   \* MAX_RECURSION

ASSUME RecursionAssumption == MaxRecursion \in Nat \ {0}

Parsed(p, v) == [p |-> p, v |-> v]

-----------------------------------------------------------------------------
(* Tokens.  After an error there are none left.                            *)

Reject(p, kind) == IF p.err = None THEN [p EXCEPT !.err = kind, !.rest = <<>>] ELSE p

\* check_ahead, look_ahead: the kind of token n is one of these.
Sees(p, n, kinds) == n <= Len(p.rest) /\ p.rest[n][1] \in kinds
NextIs(p, kind) == Sees(p, 1, {kind})

\* take_next, expect_next, expect_name, expect_string.
Take(p) == IF p.rest = <<>> THEN Reject(p, "end_of_stream") ELSE [p EXCEPT !.rest = Tail(@)]

Expect(p, kind) ==
  IF p.rest = <<>> \/ NextIs(p, kind) THEN Take(p) ELSE Reject(p, "unexpected")

ExpectValue(p, kind) ==
  Parsed(Expect(p, kind), IF NextIs(p, kind) THEN p.rest[1][2] ELSE None)

\* recursion_guard.
Guard(p) == IF p.depth + 1 < MaxRecursion THEN [p EXCEPT !.depth = @ + 1] ELSE Reject(p, "recursion")
Unguard(r, p) == Parsed([r.p EXCEPT !.depth = p.depth], r.v)

-----------------------------------------------------------------------------
(* Operators.                                                              *)

UnaryOperators == {"not", "-", "~", "#"}
UnaryPriority == 12

\* binary_priority.
LeftPriority(op) ==
  CASE op = "or" -> 1 [] op = "and" -> 2
    [] op \in {"==", "<", "<=", ">", ">="} -> 3
    [] op = "|" -> 4 [] op = "~" -> 5 [] op = "&" -> 6 [] op \in {"<<", ">>"} -> 7
    [] op = ".." -> 9
    [] op \in {"+", "-", "~="} -> 10
    [] op \in {"*", "%", "/", "//"} -> 11
    [] op = "^" -> 14

RightPriority(op) == IF op \in {"..", "^"} THEN LeftPriority(op) - 1 ELSE LeftPriority(op)

BinaryOperators ==
  {"or", "and", "==", "<", "<=", ">", ">=", "|", "~", "&", "<<", ">>", "..", "+", "-", "~=",
   "*", "%", "/", "//", "^"}

-----------------------------------------------------------------------------
(* Expressions.                                                            *)

RECURSIVE ParseSub(_, _), ParseList(_, _), ParseSuffixes(_), ParseBlock(_, _), ParseFields(_, _)

ParseExpression(p) == ParseSub(p, 0)

\* parse_expression_list: after those of xs.
ParseList(p, xs) ==
  LET r == ParseExpression(p)
      all == Append(xs, r.v)
  IN  IF NextIs(r.p, ",") THEN ParseList(Take(r.p), all) ELSE Parsed(r.p, all)

\* name, name, ...
RECURSIVE ParseNames(_, _)
ParseNames(p, names) ==
  LET r == ExpectValue(p, "name")
      all == Append(names, r.v)
  IN  IF NextIs(r.p, ",") THEN ParseNames(Take(r.p), all) ELSE Parsed(r.p, all)

\* The parameters of a function, and whether it has varargs.
RECURSIVE ParseParameters(_, _)
ParseParameters(p, names) ==
  LET next == Take(p)
      all == Append(names, p.rest[1][2])
  IN  IF NextIs(p, "...") THEN Parsed(next, <<names, TRUE>>)
      ELSE IF ~NextIs(p, "name") THEN Parsed(Expect(p, "name"), <<names, FALSE>>)
      ELSE IF NextIs(next, ",") THEN ParseParameters(Take(next), all)
      ELSE Parsed(next, <<all, FALSE>>)

\* parse_function_definition.
ParseFunction(p) ==
  LET open == Expect(p, "(")
      params == IF NextIs(open, ")") THEN Parsed(open, <<<<>>, FALSE>>) ELSE ParseParameters(open, <<>>)
      body == ParseBlock(Expect(params.p, ")"), <<>>)
  IN  Parsed(Expect(body.p, "end"),
             [is |-> "function", params |-> params.v[1], dots |-> params.v[2], body |-> body.v])

ConstantTree(v) == [is |-> "const", value |-> v]

\* parse_constructor_field.
ParseField(p) ==
  LET key == ParseExpression(Take(p))
      value == ParseExpression(IF NextIs(p, "[") THEN Expect(Expect(key.p, "]"), "=") ELSE Take(Take(p)))
      item == ParseExpression(p)
  IN  CASE p.rest = <<>> -> Parsed(Reject(p, "end_of_stream"), None)
        [] NextIs(p, "[") -> Parsed(value.p, [key |-> <<key.v>>, value |-> value.v])
        [] NextIs(p, "name") /\ Sees(p, 2, {"="}) ->
             Parsed(value.p, [key |-> <<ConstantTree(Str(p.rest[1][2]))>>, value |-> value.v])
        [] OTHER -> Parsed(item.p, [key |-> <<>>, value |-> item.v])

\* The fields of a table constructor, after those of fs: the last may end with a comma.
ParseFields(p, fs) ==
  LET r == ParseField(p)
      all == Append(fs, r.v)
  IN  IF NextIs(p, "}") THEN Parsed(p, fs)
      ELSE IF Sees(r.p, 1, {",", ";"}) THEN ParseFields(Take(r.p), all)
      ELSE IF r.p.rest = <<>> THEN Parsed(Reject(r.p, "end_of_stream"), all)
      ELSE Parsed(r.p, all)

\* parse_table_constructor.
ParseTable(p) ==
  LET fields == ParseFields(Expect(p, "{"), <<>>)
  IN  Parsed(Expect(fields.p, "}"), [is |-> "table", fields |-> fields.v])

\* The arguments of parse_call_suffix: a list, a table or a string.
ParseArguments(p) ==
  LET list == ParseList(Take(p), <<>>)
      table == ParseTable(p)
  IN  CASE NextIs(p, "(") ->
             IF Sees(p, 2, {")"}) THEN Parsed(Take(Take(p)), <<>>)
             ELSE IF Len(p.rest) = 1 THEN Parsed(Reject(p, "end_of_stream"), <<>>)
             ELSE Parsed(Expect(list.p, ")"), list.v)
        [] NextIs(p, "{") -> Parsed(table.p, <<table.v>>)
        [] NextIs(p, "str") -> Parsed(Take(p), <<ConstantTree(p.rest[1])>>)
        [] OTHER -> Parsed(Reject(p, IF p.rest = <<>> THEN "end_of_stream" ELSE "unexpected"), <<>>)

\* parse_suffix_part, parse_field_suffix, parse_call_suffix: of the expression r.v.
ParseSuffix(r) ==
  LET name == ExpectValue(Take(r.p), "name")
      key == ParseExpression(Take(r.p))
      args == ParseArguments(IF NextIs(r.p, ":") THEN name.p ELSE r.p)
  IN  CASE NextIs(r.p, ".") ->
             Parsed(name.p, [is |-> "index", table |-> r.v, key |-> ConstantTree(Str(name.v))])
        [] NextIs(r.p, "[") ->
             Parsed(Expect(key.p, "]"), [is |-> "index", table |-> r.v, key |-> key.v])
        [] NextIs(r.p, ":") ->
             Parsed(args.p, [is |-> "method", table |-> r.v, name |-> name.v, args |-> args.v])
        [] OTHER -> Parsed(args.p, [is |-> "call", func |-> r.v, args |-> args.v])

\* parse_suffixed_expression, from its first suffix on.
ParseSuffixes(r) ==
  IF Sees(r.p, 1, {".", "[", ":", "(", "{", "str"}) THEN ParseSuffixes(ParseSuffix(r)) ELSE r

\* parse_primary_expression.
ParsePrimary(p) ==
  LET group == ParseExpression(Take(p))
      name == ExpectValue(p, "name")
  IN  IF NextIs(p, "(")
      THEN Parsed(Expect(group.p, ")"), [is |-> "paren", arg |-> group.v])
      ELSE Parsed(name.p, [is |-> "name", name |-> name.v])

ParseSuffixed(p) == ParseSuffixes(ParsePrimary(p))

\* parse_simple_expression.
ParseSimple(p) ==
  CASE Sees(p, 1, {"int", "str", "nil"}) -> Parsed(Take(p), ConstantTree(p.rest[1]))
    [] Sees(p, 1, {"true", "false"}) ->
         Parsed(Take(p), ConstantTree(<<"bool", NextIs(p, "true")>>))
    [] NextIs(p, "...") -> Parsed(Take(p), [is |-> "dots"])
    [] NextIs(p, "{") -> ParseTable(p)
    [] NextIs(p, "function") -> ParseFunction(Take(p))
    [] OTHER -> ParseSuffixed(p)

\* The operators after an expression that bind stronger than the limit.
RECURSIVE ParseTail(_, _)
ParseTail(r, limit) ==
  LET op == r.p.rest[1][1]
      right == ParseSub(Take(r.p), RightPriority(op))
      both == [is |-> "bin", op |-> op, left |-> r.v, right |-> right.v]
  IN  IF Sees(r.p, 1, BinaryOperators) /\ LeftPriority(op) > limit
      THEN ParseTail(Parsed(right.p, both), limit)
      ELSE r

\* parse_sub_expression.
ParseSub(p, limit) ==
  LET g == Guard(p)
      arg == ParseSub(Take(g), UnaryPriority)
      head == IF Sees(g, 1, UnaryOperators)
              THEN Parsed(arg.p, [is |-> "un", op |-> g.rest[1][1], arg |-> arg.v])
              ELSE ParseSimple(g)
  IN  IF g.err # None THEN Parsed(g, None)
      ELSE IF p.rest = <<>> THEN Parsed(Reject(p, "end_of_stream"), None)
      ELSE Unguard(ParseTail(head, limit), p)

-----------------------------------------------------------------------------
(* Statements.                                                             *)

\* A block between two tokens.
ParseBody(p, open, close) ==
  LET b == ParseBlock(Expect(p, open), <<>>) IN Parsed(Expect(b.p, close), b.v)

\* parse_return_statement.
ParseReturn(p) ==
  LET next == Expect(p, "return")
      none == next.rest = <<>> \/ Sees(next, 1, {"end", ";", "else", "elseif", "until"})
      r == IF none THEN Parsed(next, <<>>) ELSE ParseList(next, <<>>)
  IN  Parsed(IF NextIs(r.p, ";") THEN Take(r.p) ELSE r.p, r.v)

\* parse_if_statement: the parts from one that starts with if or elseif on.
RECURSIVE ParseParts(_, _)
ParseParts(p, parts) ==
  LET cond == ParseExpression(Take(p))
      body == ParseBlock(Expect(cond.p, "then"), <<>>)
      all == Append(parts, [cond |-> cond.v, body |-> body.v])
  IN  IF NextIs(body.p, "elseif") THEN ParseParts(body.p, all) ELSE Parsed(body.p, all)

ParseIf(p) ==
  LET parts == ParseParts(p, <<>>)
      other == ParseBlock(Take(parts.p), <<>>)
      orelse == IF NextIs(parts.p, "else") THEN Parsed(other.p, <<other.v>>) ELSE Parsed(parts.p, <<>>)
  IN  Parsed(Expect(orelse.p, "end"), [is |-> "if", parts |-> parts.v, orelse |-> orelse.v])

\* parse_while_statement, parse_repeat_statement.
ParseWhile(p) ==
  LET cond == ParseExpression(Take(p))
      body == ParseBody(cond.p, "do", "end")
  IN  Parsed(body.p, [is |-> "while", cond |-> cond.v, body |-> body.v])

ParseRepeat(p) ==
  LET body == ParseBody(p, "repeat", "until")
      cond == ParseExpression(body.p)
  IN  Parsed(cond.p, [is |-> "repeat", body |-> body.v, cond |-> cond.v])

\* parse_for_statement.
ParseFor(p) ==
  LET name == ExpectValue(Take(p), "name")
      first == ParseExpression(Take(name.p))
      last == ParseExpression(Expect(first.p, ","))
      step == ParseExpression(Take(last.p))
      bounds == IF NextIs(last.p, ",") THEN Parsed(step.p, <<first.v, last.v, step.v>>)
                ELSE Parsed(last.p, <<first.v, last.v>>)
      counted == ParseBody(bounds.p, "do", "end")
      names == IF NextIs(name.p, ",") THEN ParseNames(Take(name.p), <<name.v>>)
               ELSE Parsed(name.p, <<name.v>>)
      args == ParseList(Expect(names.p, "in"), <<>>)
      each == ParseBody(args.p, "do", "end")
  IN  CASE NextIs(name.p, "=") ->
             Parsed(counted.p, [is |-> "for", name |-> name.v, bounds |-> bounds.v, body |-> counted.v])
        [] Sees(name.p, 1, {",", "in"}) ->
             Parsed(each.p, [is |-> "forin", names |-> names.v, args |-> args.v, body |-> each.v])
        [] OTHER -> Parsed(Expect(name.p, "="), None)

\* parse_function_statement: a.b.c, and :d.
RECURSIVE ParsePath(_, _)
ParsePath(p, path) ==
  LET name == ExpectValue(Take(p), "name")
  IN  IF NextIs(p, ".") THEN ParsePath(name.p, Append(path, name.v))
      ELSE IF NextIs(p, ":") THEN Parsed(name.p, <<path, <<name.v>>>>)
      ELSE Parsed(p, <<path, <<>>>>)

ParseFunctionStatement(p) ==
  LET name == ExpectValue(Take(p), "name")
      path == ParsePath(name.p, <<name.v>>)
      func == ParseFunction(path.p)
  IN  Parsed(func.p, [is |-> "function", path |-> path.v[1], method |-> path.v[2], func |-> func.v])

\* parse_local_function_statement, parse_local_statement.
ParseLocal(p) ==
  LET name == ExpectValue(Take(Take(p)), "name")
      func == ParseFunction(name.p)
      names == ParseNames(Take(p), <<>>)
      list == ParseList(Take(names.p), <<>>)
      values == IF NextIs(names.p, "=") THEN list ELSE Parsed(names.p, <<>>)
  IN  IF Sees(p, 2, {"function"})
      THEN Parsed(func.p, [is |-> "localfunction", name |-> name.v, func |-> func.v])
      ELSE Parsed(values.p, [is |-> "local", names |-> names.v, values |-> values.v])

\* parse_label_statement, parse_goto_statement.
ParseLabel(p) ==
  LET name == ExpectValue(Take(p), "name")
  IN  Parsed(Expect(name.p, "::"), [is |-> "label", name |-> name.v])

ParseGoto(p) ==
  LET name == ExpectValue(Take(p), "name") IN Parsed(name.p, [is |-> "goto", name |-> name.v])

\* The targets of an assignment, the first of them read already.
RECURSIVE ParseTargets(_, _)
ParseTargets(r, targets) ==
  LET all == Append(targets, r.v)
  IN  IF r.v.is \notin {"name", "index"} THEN Parsed(Reject(r.p, "assign_to_expression"), all)
      ELSE IF NextIs(r.p, ",") THEN ParseTargets(ParseSuffixed(Take(r.p)), all)
      ELSE Parsed(r.p, all)

\* parse_expression_statement: an assignment or a call.
ParseExpressionStatement(p) ==
  LET r == ParseSuffixed(p)
      targets == ParseTargets(r, <<>>)
      values == ParseList(Expect(targets.p, "="), <<>>)
  IN  CASE Sees(r.p, 1, {"=", ","}) ->
             Parsed(values.p, [is |-> "assign", targets |-> targets.v, values |-> values.v])
        [] ~Sees(r.p, 1, {"=", ","}) /\ r.v.is \in {"call", "method"} ->
             Parsed(r.p, [is |-> "call", call |-> r.v])
        [] OTHER -> Parsed(Reject(r.p, "expression_not_statement"), None)

\* parse_statement.
ParseStatement(p) ==
  LET g == Guard(p)
      body == ParseBody(g, "do", "end")
      r == CASE NextIs(g, "if") -> ParseIf(g)
             [] NextIs(g, "while") -> ParseWhile(g)
             [] NextIs(g, "do") -> Parsed(body.p, [is |-> "do", body |-> body.v])
             [] NextIs(g, "for") -> ParseFor(g)
             [] NextIs(g, "repeat") -> ParseRepeat(g)
             [] NextIs(g, "function") -> ParseFunctionStatement(g)
             [] NextIs(g, "local") -> ParseLocal(g)
             [] NextIs(g, "::") -> ParseLabel(g)
             [] NextIs(g, "break") -> Parsed(Take(g), [is |-> "break"])
             [] NextIs(g, "goto") -> ParseGoto(g)
             [] OTHER -> ParseExpressionStatement(g)
  IN  IF g.err # None THEN Parsed(g, None) ELSE Unguard(r, p)

\* parse_block: the statements after those of ss.
ParseBlock(p, ss) ==
  LET s == ParseStatement(p)
      ret == ParseReturn(p)
  IN  IF p.rest = <<>> \/ Sees(p, 1, {"else", "elseif", "end", "until"})
      THEN Parsed(p, [stmts |-> ss, ret |-> <<>>])
      ELSE IF NextIs(p, ";") THEN ParseBlock(Take(p), ss)
      ELSE IF NextIs(p, "return") THEN Parsed(ret.p, [stmts |-> ss, ret |-> <<ret.v>>])
      ELSE ParseBlock(s.p, Append(ss, s.v))

\* parse_chunk: the first error, None if there is none, and the tree.
ParseChunk(tokens) ==
  LET b == ParseBlock([rest |-> tokens, err |-> None, depth |-> 0], <<>>)
  IN  [err |-> IF b.p.rest # <<>> THEN "end_of_stream" ELSE b.p.err, tree |-> b.v]
================================================================================
