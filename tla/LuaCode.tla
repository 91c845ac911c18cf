-------------------------------- MODULE LuaCode --------------------------------
(***************************************************************************)
(* Compiled Lua as the virtual machine takes it, and what is asked of it.  *)
(*                                                                         *)
(* A chunk is its prototypes, the first of them its own; a prototype names *)
(* those of the functions in it by their place in that list.  The source   *)
(* has no verifier: it trusts its compiler.  Sound says what it trusts it  *)
(* with, in the form of a verifier's check: with every instruction that    *)
(* can be reached comes a note of what holds before it, and each           *)
(* instruction is checked against its own note and those that follow.      *)
(***************************************************************************)
EXTENDS LuaTrees, Opcodes, Integers

\* A note: open are the registers that may be captured by open upvalues; from is Fixed, or
\* the register where a variable number of values starts, up to the top of the stack.
Fixed == -1
Note(open, from) == [open |-> open, from |-> from]

\* The registers there are to read and write.
Room(p, n) == IF n.from = Fixed THEN p.size ELSE n.from

Span(first, count) == first .. first + count - 1
OfEither(e) == IF e[1] = "r" THEN {e[2]} ELSE {}

\* The registers that an instruction reads or writes.
Touches(o) ==
  CASE o.op \in {"Move", "Length", "Not", "Minus"} -> {o.dest, o.source}
    [] o.op \in {"LoadConstant", "LoadBool", "NewTable", "GetUpValue", "Closure"} -> {o.dest}
    [] o.op = "LoadNil" -> Span(o.dest, o.count)
    [] o.op = "GetTable" -> {o.dest, o.table} \cup OfEither(o.key)
    [] o.op = "SetTable" -> {o.table} \cup OfEither(o.key) \cup OfEither(o.value)
    [] o.op = "GetUpTable" -> {o.dest} \cup OfEither(o.key)
    [] o.op = "SetUpTable" -> OfEither(o.key) \cup OfEither(o.value)
    [] o.op = "SetUpValue" -> {o.source}
    [] o.op = "SetList" -> Span(o.base, 2 + (IF o.count = Variable THEN 0 ELSE o.count))
    [] o.op \in {"Call", "TailCall"} -> Span(o.func, 1 + (IF o.args = Variable THEN 0 ELSE o.args))
    [] o.op = "Return" -> IF o.count = Variable THEN {} ELSE Span(o.start, o.count)
    [] o.op = "VarArgs" -> IF o.count = Variable THEN {} ELSE Span(o.dest, o.count)
    [] o.op = "Jump" -> {}
    [] o.op = "Test" -> {o.value}
    [] o.op = "TestSet" -> {o.dest, o.value}
    [] o.op \in {"NumericForPrep", "GenericForCall"} -> Span(o.base, 3)
    [] o.op = "NumericForLoop" -> Span(o.base, 4)
    [] o.op = "GenericForLoop" -> Span(o.base, 2)
    [] o.op = "Method" -> Span(o.base, 2) \cup {o.table} \cup OfEither(o.key)
    [] o.op = "Concat" -> {o.dest} \cup Span(o.source, o.count)
    [] o.op \in {"Eq", "Less", "LessEq"} -> OfEither(o.left) \cup OfEither(o.right)
    [] o.op \in {"Add", "Sub", "Mul"} -> {o.dest} \cup OfEither(o.left) \cup OfEither(o.right)
    [] OTHER -> {}

\* How many values it takes from the top of the stack, if that is where they are.
Takes(o) ==
  CASE o.op \in {"Call", "TailCall"} -> o.args
    [] o.op \in {"Return", "SetList"} -> o.count
    [] OTHER -> 0

\* Where the registers it is told to read or write start, and how many they are.
Counts(o) ==
  CASE o.op = "LoadNil" -> {o.dest, o.count}
    [] o.op = "Concat" -> {o.source, o.count}
    [] o.op = "GenericForCall" -> {o.base, o.var_count}
    [] o.op \in {"NumericForPrep", "NumericForLoop", "GenericForLoop", "Method"} -> {o.base}
    [] o.op = "Call" -> {o.func} \cup ({o.args, o.returns} \ {Variable})
    [] o.op = "TailCall" -> {o.func} \cup ({o.args} \ {Variable})
    [] o.op = "SetList" -> {o.base} \cup ({o.count} \ {Variable})
    [] o.op \in {"Return", "VarArgs"} -> {o.count} \ {Variable}
    [] OTHER -> {}

\* How far it jumps.
Jumps(o) ==
  CASE o.op = "Jump" -> {o.offset, o.close}
    [] o.op \in {"NumericForPrep", "NumericForLoop", "GenericForLoop"} -> {o.jump}
    [] OTHER -> {}

\* The places of constants, upvalues and prototypes that it names.
OfConstants(o) ==
  LET C(e) == IF e[1] = "r" THEN {} ELSE {e[2]}
  IN  CASE o.op = "LoadConstant" -> {o.constant}
        [] o.op \in {"GetTable", "GetUpTable", "Method"} -> C(o.key)
        [] o.op \in {"SetTable", "SetUpTable"} -> C(o.key) \cup C(o.value)
        [] o.op \in {"Eq", "Less", "LessEq", "Add", "Sub", "Mul"} -> C(o.left) \cup C(o.right)
        [] OTHER -> {}

OfUpValues(o) ==
  CASE o.op \in {"GetUpTable", "SetUpTable"} -> {o.table}
    [] o.op = "GetUpValue" -> {o.source}
    [] o.op = "SetUpValue" -> {o.dest}
    [] OTHER -> {}

\* The registers that become captured.
Captures(protos, p, o) ==
  IF o.op = "Closure"
  THEN {d[2] : d \in {e \in Range(protos[p.protos[o.proto]].ups) : e[1] = "local"}} ELSE {}

\* From which register on upvalues must be closed by now: values above it move.
Moves(o) ==
  CASE o.op = "Call" -> {o.func}
    [] o.op = "GenericForCall" -> {o.base + 3}
    [] o.op = "VarArgs" /\ o.count = Variable -> {o.dest}
    [] OTHER -> {}

\* The instructions that may be next, of the i-th.
Follow(o, i) ==
  CASE o.op \in {"Return", "TailCall"} -> {}
    [] o.op = "Jump" -> {i + 1 + o.offset}
    [] o.op = "LoadBool" -> {IF o.skip_next THEN i + 2 ELSE i + 1}
    [] o.op \in {"Test", "TestSet", "Eq", "Less", "LessEq"} -> {i + 1, i + 2}
    [] o.op = "NumericForPrep" -> {i + 1 + o.jump}
    [] o.op \in {"NumericForLoop", "GenericForLoop"} -> {i + 1, i + 1 + o.jump}
    [] OTHER -> {i + 1}

\* Of open upvalues, those that the instruction leaves open.
StaysOpen(o, open) ==
  IF o.op = "Jump" /\ o.close # NoClose THEN {r \in open : r < o.close} ELSE open

FromAfter(o) ==
  CASE o.op = "Call" /\ o.returns = Variable -> o.func
    [] o.op = "VarArgs" /\ o.count = Variable -> o.dest
    [] OTHER -> Fixed

\* m: the note of an instruction that may follow.
Leads(protos, p, o, n, m) ==
  /\ StaysOpen(o, n.open) \cup Captures(protos, p, o) \subseteq m.open
  /\ m.from = FromAfter(o)

\* The i-th instruction.
Checked(protos, p, notes, i) ==
  LET o == Decode(p.ops[i])
      n == notes[i]
  IN  /\ Touches(o) \subseteq 0 .. Room(p, n) - 1
      /\ Counts(o) \subseteq Nat /\ Jumps(o) \subseteq Int
      /\ n.from # Fixed <=> Takes(o) = Variable
      /\ o.op = "Return" => o.start \in 0 .. Room(p, n)
      /\ o.op = "VarArgs" => o.dest \in 0 .. p.size
      /\ OfConstants(o) \subseteq DOMAIN p.consts
      /\ OfUpValues(o) \subseteq DOMAIN p.ups
      /\ o.op = "Closure" => o.proto \in DOMAIN p.protos
      /\ \A r \in n.open, s \in Moves(o) : r < s
      /\ Follow(o, i) \subseteq DOMAIN notes
      /\ \A j \in Follow(o, i) : Leads(protos, p, o, n, notes[j])

\* What a closure of prototype q takes from a function of prototype p.
Takeable(p, q) ==
  \A k \in DOMAIN q.ups :
    \/ q.ups[k][1] = "local" /\ q.ups[k][2] \in 0 .. p.size - 1
    \/ q.ups[k][1] = "outer" /\ q.ups[k][2] \in DOMAIN p.ups

SoundPrototype(protos, p, notes) ==
  /\ p.size \in Nat /\ p.params \in Nat
  /\ p.ups \in Seq(Range(p.ups))
  /\ \A k \in DOMAIN p.consts : p.consts[k][1] \in {"nil", "bool", "int", "str"}
  /\ \A k \in DOMAIN p.protos : p.protos[k] \in DOMAIN protos /\ Takeable(p, protos[p.protos[k]])
  /\ DOMAIN notes \subseteq DOMAIN p.ops /\ DOMAIN p.ops = 1 .. Len(p.ops) /\ Len(p.ops) \in Nat
  /\ \A i \in DOMAIN notes :
       /\ notes[i].open \subseteq 0 .. Room(p, notes[i]) - 1
       /\ notes[i].from = Fixed \/ notes[i].from \in 0 .. p.size
       /\ Checked(protos, p, notes, i)
  /\ 1 \in DOMAIN notes /\ notes[1].from = Fixed

\* A chunk has one upvalue at most.
Sound(c) ==
  /\ 1 \in DOMAIN c.protos /\ DOMAIN c.notes = DOMAIN c.protos
  /\ DOMAIN c.protos[1].ups \subseteq {1}
  /\ \A k \in DOMAIN c.protos : SoundPrototype(c.protos, c.protos[k], c.notes[k])
================================================================================
