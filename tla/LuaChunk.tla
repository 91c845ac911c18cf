-------------------------------- MODULE LuaChunk --------------------------------
(***************************************************************************)
(* A chunk as the virtual machine loads it (piccolo/src/closure.rs), and   *)
(* the notes with which LuaCode can check it.                              *)
(***************************************************************************)
EXTENDS LuaParser, LuaCompiler, LuaCode

\* A prototype and those in it, as a list in which it is at place first.
RECURSIVE Listed(_, _)
Listed(p, first) ==
  LET Add(a, q) == [ids |-> Append(a.ids, first + 1 + Len(a.all)),
                    all |-> a.all \o Listed(q, first + 1 + Len(a.all))]
      inner == FoldLeft(Add, [ids |-> <<>>, all |-> <<>>], p.protos)
  IN  <<[p EXCEPT !.protos = inner.ids]>> \o inner.all

-----------------------------------------------------------------------------
(* The notes of a prototype: what is known to hold where control comes     *)
(* from, to the first notes that all instructions agree with.              *)

Arriving(protos, p, i, n, j) ==
  LET o == Decode(p.ops[i])
  IN  [at |-> j, note |-> Note(StaysOpen(o, n.open) \cup Captures(protos, p, o), FromAfter(o))]

RECURSIVE Spread(_, _, _, _)
Spread(protos, p, notes, todo) ==
  LET x == CHOOSE y \in todo : TRUE
      known == x.at \in DOMAIN notes
      note == IF known THEN [notes[x.at] EXCEPT !.open = @ \cup x.note.open] ELSE x.note
  IN  IF todo = {} THEN notes
      ELSE IF known /\ notes[x.at] = note THEN Spread(protos, p, notes, todo \ {x})
      ELSE Spread(protos, p, (x.at :> note) @@ notes,
                  (todo \ {x}) \cup {Arriving(protos, p, x.at, note, j) :
                                      j \in Follow(Decode(p.ops[x.at]), x.at)})

Notes(protos, p) == Spread(protos, p, <<>>, {[at |-> 1, note |-> Note({}, Fixed)]})

-----------------------------------------------------------------------------
\* What there is of a chunk that was compiled, or could not be.
Chunk(parsed, done) ==
  LET protos == Listed(done.proto, 1)
  IN  [parsed |-> parsed, err |-> done.err, protos |-> protos,
       notes |-> IF parsed = None /\ done.err = None
                 THEN SubSeq([k \in DOMAIN protos |-> Notes(protos, protos[k])], 1, Len(protos))
                 ELSE <<>>]

\* FunctionPrototype::compile: a chunk that cannot be parsed is not compiled.
Load(tokens) ==
  LET parsed == ParseChunk(tokens)
      tree == IF parsed.err = None THEN parsed.tree ELSE [stmts |-> <<>>, ret |-> <<>>]
  IN  Chunk(parsed.err, CompileChunk(tree))
================================================================================
