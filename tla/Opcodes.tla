-------------------------------- MODULE Opcodes --------------------------------
(***************************************************************************)
(* The encoding of the operations of a Lua function (piccolo/src/opcode.rs). *)
(* An operand that is a register or a constant has no room for which of    *)
(* the two it is: every operation has one code for each combination.       *)
(***************************************************************************)
EXTENDS Integers, Sequences, SequencesExt

Variable == -1     \* a VarCount that is no constant
NoClose == -1      \* an Opt254 that is none

\* The operands of an operation that are a register or a constant (RCIndex).
EitherOperands(name) ==
  CASE name \in {"GetTable", "GetUpTable", "Method"} -> <<"key">>
    [] name \in {"SetTable", "SetUpTable"} -> <<"key", "value">>
    [] name \in {"Eq", "Less", "LessEq", "Add", "Sub", "Mul"} -> <<"left", "right">>
    [] OTHER -> <<>>

\* OpCode::encode.
Encode(op) ==
  LET either == EitherOperands(op.op)
      code == <<op.op>> \o [i \in DOMAIN either |-> op[either[i]][1]]
  IN  FoldLeft(LAMBDA o, f : [o EXCEPT ![f] = @[2]], [op EXCEPT !.op = code], either)

\* OpCode::decode.
Decode(o) ==
  LET name == Head(o.op)
      either == EitherOperands(name)
      Kind(f) == o.op[1 + SelectInSeq(either, LAMBDA x : x = f)]
  IN  FoldLeft(LAMBDA op, f : [op EXCEPT ![f] = <<Kind(f), @>>], [o EXCEPT !.op = name], either)
================================================================================
