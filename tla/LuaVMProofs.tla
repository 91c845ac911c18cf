------------------------------ MODULE LuaVMProofs ------------------------------
(***************************************************************************)
(* FramesFit and UpvaluesOrdered hold of every state of LuaVM, for every   *)
(* program whose code is Sound (LoadedAssumption).                         *)
(*                                                                         *)
(* Neither is inductive.  IInv says of a thread (Good) what makes it so:   *)
(*   MemoryOK  the heap has what its references name, every closure is of  *)
(*             a prototype and has the upvalues of it, and the open        *)
(*             upvalues are places of the stack, in order (OpenOK);        *)
(*   WaitingOK a frame under another waits for a call or a metamethod, and *)
(*             its code can go on wherever the answer leaves it: the notes *)
(*             of Sound, at its next instruction, fit its registers;       *)
(*   TopOK     the last frame is where the note of its next instruction    *)
(*             says, or is a callback.                                     *)
(* An instruction reads and writes above the frames that wait, but for the *)
(* values of open upvalues.  Over says that of two memories, FrameKeeps    *)
(* and WaitingKeeps that a frame below does not notice, and there is one   *)
(* lemma an instruction (MoveKeeps and so on) that the thread it leaves is *)
(* Good.  Calls, callbacks and returns take the last frame off first: what *)
(* is left is Suspended, which is what the lemmas on them start from.      *)
(***************************************************************************)
EXTENDS LuaVM, FiniteSetTheorems, SequenceTheorems, WellFoundedInduction, TLAPS

\* A nonempty set of naturals has a least element: among the initial segments
\* of its elements, which are finite, one is minimal for inclusion.
LEMMA LeastElement ==
  ASSUME NEW S \in SUBSET Nat, S # {}
  PROVE  \E n \in S : \A m \in S : n <= m
<1> DEFINE T == {0..n : n \in S}
<1>1. T \subseteq FiniteSubsetsOf(Nat)
  <2>1. \A n \in S : IsFiniteSet(0..n) /\ 0..n \subseteq Nat
    BY FS_Interval
  <2> QED  BY <2>1 DEF FiniteSubsetsOf
<1>2. T # {}
  OBVIOUS
<1>3. IsWellFoundedOn(StrictSubsetOrdering(Nat), FiniteSubsetsOf(Nat))
  BY FS_StrictSubsetOrderingWellFounded
<1> HIDE DEF T
<1>4. PICK X \in T : \A Y \in T : <<Y, X>> \notin StrictSubsetOrdering(Nat)
  BY <1>1, <1>2, <1>3, WFMin
<1> USE DEF T
<1>5. PICK n \in S : X = 0..n
  BY <1>4
<1>6. ASSUME NEW m \in S  PROVE  n <= m
  <2>1. SUFFICES ASSUME m < n  PROVE  FALSE
    OBVIOUS
  <2>2. 0..m \subseteq 0..n /\ 0..m # 0..n
    <3>1. n \in 0..n /\ n \notin 0..m
      BY <2>1
    <3> QED  BY <2>1, <3>1
  <2>3. 0..m \in SUBSET Nat /\ 0..n \in SUBSET Nat
    OBVIOUS
  <2>4. <<0..m, 0..n>> \in StrictSubsetOrdering(Nat)
    BY <2>2, <2>3, Zenon DEF StrictSubsetOrdering
  <2> QED  BY <1>4, <1>5, <2>4
<1> QED  BY <1>6


\* Induction on naturals, of a set.
LEMMA SetInduction ==
  ASSUME NEW S, 0 \in S, \A n \in Nat : n \in S => n + 1 \in S
  PROVE  Nat \subseteq S
<1>1. SUFFICES ASSUME Nat \ S # {}  PROVE FALSE
  OBVIOUS
<1>2. PICK n \in Nat \ S : \A m \in Nat \ S : n <= m
  BY <1>1, LeastElement
<1>3. n # 0 /\ n - 1 \in Nat
  BY <1>2
<1>4. n - 1 \in S
  BY <1>2, <1>3
<1> QED  BY <1>2, <1>3, <1>4

IsSeq(s) == s \in Seq(Range(s))

\* A sequence over any set is one over its own range.
LEMMA OfSeq ==
  ASSUME NEW S, NEW s \in Seq(S)
  PROVE  IsSeq(s)
BY DEF IsSeq, Range

\* A sequence is a function on 1 .. its length.
LEMMA SeqFacts ==
  ASSUME NEW s, IsSeq(s)
  PROVE  Len(s) \in Nat /\ DOMAIN s = 1 .. Len(s) /\ s = [i \in 1 .. Len(s) |-> s[i]]
BY DEF IsSeq

\* A function on 1 .. n is a sequence of length n.
LEMMA OfFunction ==
  ASSUME NEW S, NEW n \in Nat, NEW s \in [1 .. n -> S]
  PROVE  IsSeq(s) /\ Len(s) = n /\ DOMAIN s = 1 .. n
BY DEF IsSeq, Range

\* EXCEPT changes one element of a sequence and nothing of its shape.
LEMMA ChangedSeq ==
  ASSUME NEW s, IsSeq(s), NEW i, NEW x
  PROVE  /\ IsSeq([s EXCEPT ![i] = x]) /\ Len([s EXCEPT ![i] = x]) = Len(s)
         /\ DOMAIN [s EXCEPT ![i] = x] = DOMAIN s
         /\ \A j \in 1 .. Len(s) : [s EXCEPT ![i] = x][j] = IF i = j THEN x ELSE s[j]
<1>1. [s EXCEPT ![i] = x] \in [1 .. Len(s) -> Range(s) \cup {x}]
  BY SeqFacts DEF Range
<1> QED  BY <1>1, OfFunction, SeqFacts

\* Append adds one element at the end.
LEMMA AppendedSeq ==
  ASSUME NEW s, IsSeq(s), NEW x
  PROVE  /\ IsSeq(Append(s, x)) /\ Len(Append(s, x)) = Len(s) + 1
         /\ DOMAIN Append(s, x) = 1 .. Len(s) + 1
         /\ \A j \in 1 .. Len(s) : Append(s, x)[j] = s[j]
         /\ Append(s, x)[Len(s) + 1] = x
<1>1. s \in Seq(Range(s) \cup {x}) /\ Len(s) \in Nat
  BY SeqFacts DEF IsSeq
<1>2. Append(s, x) \in Seq(Range(s) \cup {x})
  BY <1>1
<1>3. IsSeq(Append(s, x))
  BY <1>2, OfSeq
<1>4. Len(Append(s, x)) = Len(s) + 1
  BY <1>1
<1> QED  BY <1>1, <1>2, <1>3, <1>4

\* SubSeq takes the elements between two places.
LEMMA PartSeq ==
  ASSUME NEW s, IsSeq(s), NEW m, NEW n, m \in Nat \ {0}, n \in Int, n <= Len(s), m <= n + 1
  PROVE  /\ IsSeq(SubSeq(s, m, n)) /\ Len(SubSeq(s, m, n)) = n - m + 1
         /\ DOMAIN SubSeq(s, m, n) = 1 .. n - m + 1
         /\ \A j \in 1 .. n - m + 1 : SubSeq(s, m, n)[j] = s[m + j - 1] /\ m + j - 1 \in 1 .. Len(s)
<1>1. s \in Seq(Range(s)) /\ Len(s) \in Nat /\ m \in Nat /\ n \in Int
  BY SeqFacts DEF IsSeq
<1>2. \A j \in m .. n : s[j] \in Range(s)
  BY SeqFacts, <1>1 DEF Range
<1>3. SubSeq(s, m, n) \in Seq(Range(s))
  BY <1>1, <1>2, SubSeqProperties
<1>4. Len(SubSeq(s, m, n)) = n - m + 1
  BY <1>1, <1>2, SubSeqProperties
<1>5. DOMAIN SubSeq(s, m, n) = 1 .. n - m + 1
  BY <1>3, <1>4
<1>6. \A j \in 1 .. n - m + 1 : SubSeq(s, m, n)[j] = s[m + j - 1]
  BY <1>1, <1>2, <1>4, SubSeqProperties
<1>7. IsSeq(SubSeq(s, m, n))
  BY <1>3, OfSeq
<1> QED  BY <1>1, <1>4, <1>5, <1>6, <1>7

\* Between places the wrong way round there is nothing.
LEMMA EmptyPart ==
  ASSUME NEW s, NEW m \in Int, NEW n \in Int, n < m
  PROVE  IsSeq(SubSeq(s, m, n)) /\ Len(SubSeq(s, m, n)) = 0 /\ SubSeq(s, m, n) = <<>>
BY DEF IsSeq, Range

\* A concatenation has the elements of both, one after the other.
LEMMA JoinedSeq ==
  ASSUME NEW s, IsSeq(s), NEW t, IsSeq(t)
  PROVE  /\ IsSeq(s \o t) /\ Len(s \o t) = Len(s) + Len(t)
         /\ DOMAIN (s \o t) = 1 .. Len(s) + Len(t)
         /\ \A j \in 1 .. Len(s) + Len(t) :
              (s \o t)[j] = IF j <= Len(s) THEN s[j] ELSE t[j - Len(s)]
<1>1. s \in Seq(Range(s) \cup Range(t)) /\ t \in Seq(Range(s) \cup Range(t))
  BY SeqFacts DEF IsSeq
<1>2. s \o t \in Seq(Range(s) \cup Range(t)) /\ Len(s) \in Nat /\ Len(t) \in Nat
  BY <1>1
<1>3. IsSeq(s \o t)
  BY <1>2, OfSeq
<1>4. Len(s \o t) = Len(s) + Len(t)
  BY <1>1
<1> QED  BY <1>1, <1>2, <1>3, <1>4

\* Resize keeps what fits and fills up with nil (Vec::resize of thread.rs).
LEMMA ResizedSeq ==
  ASSUME NEW s, IsSeq(s), NEW n \in Nat
  PROVE  /\ IsSeq(Resize(s, n)) /\ Len(Resize(s, n)) = n /\ DOMAIN Resize(s, n) = 1 .. n
         /\ \A j \in 1 .. n : Resize(s, n)[j] = IF j <= Len(s) THEN s[j] ELSE NilValue
<1>1. \A i \in 1 .. n : i <= Len(s) => s[i] \in Range(s)
  BY SeqFacts DEF Range
<1>2. Resize(s, n) \in [1 .. n -> Range(s) \cup {NilValue}]
  BY <1>1 DEF Resize
<1> QED  BY <1>2, OfFunction DEF Resize

\* Front drops the last element and nothing else.
LEMMA FrontSeq ==
  ASSUME NEW s, IsSeq(s), s # <<>>
  PROVE  /\ IsSeq(Front(s)) /\ Len(Front(s)) = Len(s) - 1 /\ Last(s) = s[Len(s)] /\ Len(s) >= 1
         /\ \A j \in 1 .. Len(s) - 1 : Front(s)[j] = s[j]
<1>1. Len(s) \in Nat /\ Len(s) >= 1
  BY SeqFacts DEF IsSeq
<1>2. Front(s) = SubSeq(s, 1, Len(s) - 1) /\ Last(s) = s[Len(s)]
  BY DEF Front, Last
<1>3. IsSeq(SubSeq(s, 1, Len(s) - 1)) /\ Len(SubSeq(s, 1, Len(s) - 1)) = Len(s) - 1
  <2> DEFINE n == Len(s) - 1
  <2>1. n \in Int /\ n <= Len(s) /\ 1 <= n + 1 /\ n - 1 + 1 = Len(s) - 1
    BY <1>1
  <2> HIDE DEF n
  <2>2. IsSeq(SubSeq(s, 1, n)) /\ Len(SubSeq(s, 1, n)) = n - 1 + 1
    BY <2>1, PartSeq
  <2> QED  BY <2>1, <2>2 DEF n
<1>4. \A j \in 1 .. Len(s) - 1 : SubSeq(s, 1, Len(s) - 1)[j] = s[j]
  BY <1>1, PartSeq
<1> QED  BY <1>1, <1>2, <1>3, <1>4

\* Sequences of up to three elements, and how long they are.
LEMMA TinySeqs ==
  /\ IsSeq(<<>>) /\ Len(<<>>) = 0
  /\ \A x : IsSeq(<<x>>) /\ Len(<<x>>) = 1 /\ DOMAIN <<x>> = 1 .. 1
  /\ \A x, y : IsSeq(<<x, y>>) /\ Len(<<x, y>>) = 2 /\ DOMAIN <<x, y>> = 1 .. 2
  /\ \A x, y, z : IsSeq(<<x, y, z>>) /\ Len(<<x, y, z>>) = 3 /\ DOMAIN <<x, y, z>> = 1 .. 3
BY DEF IsSeq, Range

Thread(f, s, o) == [frames |-> f, stack |-> s, open |-> o]
Heap(cells, closures, tables) == [cells |-> cells, closures |-> closures, tables |-> tables]

(* Values, and what there is of them in the heap. *)
ValueOK(h, v) ==
  /\ v[1] # "bound"
  /\ v[1] = "native" => v[2] \notin {"index", "newindex"}
  /\ v[1] = "fn" => v[2] \in DOMAIN h.closures
  /\ v[1] = "table" => v[2] \in DOMAIN h.tables

ValuesOK(h, s) == IsSeq(s) /\ \A i \in 1 .. Len(s) : ValueOK(h, s[i])

CellOK(h, x) ==
  /\ x = [open |-> x.open, at |-> x.at, value |-> x.value]
  /\ x.open \in BOOLEAN /\ x.at \in Nat /\ ValueOK(h, x.value)

ClosureOK(c, h, x) ==
  /\ x.proto \in DOMAIN c.protos
  /\ \A i \in DOMAIN c.protos[x.proto].ups : i \in DOMAIN x.ups
  /\ \A i \in DOMAIN x.ups : x.ups[i] \in DOMAIN h.cells

TableOK(h, x) ==
  /\ x = [map |-> x.map, meta |-> x.meta]
  /\ \A k \in DOMAIN x.map : ValueOK(h, x.map[k])
  /\ x.meta # NilValue => x.meta[1] = "table" /\ x.meta[2] \in DOMAIN h.tables

HeapOK(c, h) ==
  /\ h = Heap(h.cells, h.closures, h.tables)
  /\ IsSeq(h.cells) /\ IsSeq(h.closures) /\ IsSeq(h.tables)
  /\ \A u \in DOMAIN h.cells : CellOK(h, h.cells[u])
  /\ \A k \in DOMAIN h.closures : ClosureOK(c, h, h.closures[k])
  /\ \A k \in DOMAIN h.tables : TableOK(h, h.tables[k])

OpenCells(h) == {u \in DOMAIN h.cells : h.cells[u].open}
Places(h) == {h.cells[u].at : u \in OpenCells(h)}

OpenOK(h, open) ==
  /\ IsSeq(open) /\ Range(open) = OpenCells(h)
  /\ \A i, j \in DOMAIN open : i < j => h.cells[open[i]].at < h.cells[open[j]].at

\* Of a frame: what its function is.
ClosureAt(h, s, g) == h.closures[s[g.bottom + 1][2]]
ProtoAt(c, h, s, g) == c.protos[ClosureAt(h, s, g).proto]
NotesAt(c, h, s, g) == c.notes[ClosureAt(h, s, g).proto]

FrameOK(c, h, s, g) ==
  /\ g = [is |-> "lua", bottom |-> g.bottom, base |-> g.base, size |-> g.size,
          variable |-> g.variable, pc |-> g.pc, ret |-> g.ret]
  /\ g.bottom \in Nat /\ g.base \in Nat /\ g.pc \in Nat /\ g.bottom < g.base /\ g.base <= Len(s)
  /\ s[g.bottom + 1][1] = "fn" /\ s[g.bottom + 1][2] \in DOMAIN h.closures
  /\ g.size = ProtoAt(c, h, s, g).size
  /\ g.pc + 1 \in DOMAIN NotesAt(c, h, s, g)
  /\ \A a \in Places(h) : a < g.bottom \/ g.base <= a
  /\ \A i \in DOMAIN ClosureAt(h, s, g).ups :
       LET x == h.cells[ClosureAt(h, s, g).ups[i]] IN x.open => x.at < g.bottom

\* It can go on at the j-th instruction when the one above it, at b, is gone.
Resumes(c, h, s, g, b, j, from) ==
  /\ j \in DOMAIN NotesAt(c, h, s, g)
  /\ NotesAt(c, h, s, g)[j].from = from
  /\ \A a \in Places(h) : a < g.bottom \/ b <= a \/ a - g.base \in NotesAt(c, h, s, g)[j].open

WaitsForCall(c, h, s, g, b) ==
  /\ g.ret = <<"normal", g.ret[2]>>
  /\ g.ret[2] = Variable \/ g.ret[2] \in Nat
  /\ Resumes(c, h, s, g, b, g.pc + 1, IF g.ret[2] = Variable THEN b - g.base ELSE Fixed)

WaitsForMeta(c, h, s, g, b) ==
  /\ g.ret # <<>> /\ g.ret[1] = "meta" /\ g.ret[2] \in {"none", "register", "skip_if"}
  /\ g.base + g.size <= b
  /\ Resumes(c, h, s, g, b, g.pc + 1, Fixed)
  /\ g.ret[2] = "register" => g.ret[3] \in 0 .. g.size - 1
  /\ g.ret[2] = "skip_if" => Resumes(c, h, s, g, b, g.pc + 2, Fixed)

WaitingOK(c, h, s, g, b) ==
  /\ FrameOK(c, h, s, g) /\ b \in Nat /\ g.base <= b
  /\ WaitsForCall(c, h, s, g, b) \/ WaitsForMeta(c, h, s, g, b)

RunningOK(c, h, s, g) ==
  LET n == NotesAt(c, h, s, g)[g.pc + 1]
  IN  /\ FrameOK(c, h, s, g) /\ g.ret = <<>>
      /\ g.variable = (n.from # Fixed)
      /\ IF n.from = Fixed THEN Len(s) = g.base + g.size ELSE g.base + n.from <= Len(s)
      /\ \A a \in Places(h) : a < g.bottom \/ a - g.base \in n.open

\* A function, and what it is called with.
CallOK(h, f, args) ==
  /\ ValuesOK(h, args)
  /\ \/ f[1] = "bound" /\ ValueOK(h, f[2]) /\ ValueOK(h, f[3])
     \/ f[1] = "native" /\ f[2] = "index" /\ Len(args) = 2
     \/ f[1] = "native" /\ f[2] = "newindex" /\ Len(args) = 3
     \/ f[1] \in {"fn", "native"} /\ ValueOK(h, f)

CallbackOK(h, s, g) ==
  /\ g = [is |-> "callback", bottom |-> g.bottom, func |-> g.func]
  /\ g.bottom \in 0 .. Len(s)
  /\ \A a \in Places(h) : a < g.bottom
  /\ CallOK(h, g.func, SubSeq(s, g.bottom + 1, Len(s)))

ResultOK(h, s, g) ==
  /\ g = [is |-> "result", bottom |-> g.bottom] /\ g.bottom \in 0 .. Len(s)
  /\ \A a \in Places(h) : a < g.bottom

TopOK(c, h, s, g) == RunningOK(c, h, s, g) \/ CallbackOK(h, s, g) \/ ResultOK(h, s, g)

MemoryOK(c, t, h) ==
  /\ t = Thread(t.frames, t.stack, t.open)
  /\ HeapOK(c, h) /\ ValuesOK(h, t.stack) /\ OpenOK(h, t.open) /\ IsSeq(t.frames)

\* b: where the top frame starts, if there is one on those that wait.
AllWait(c, h, s, f, b) ==
  \A k \in 1 .. Len(f) : WaitingOK(c, h, s, f[k], IF k < Len(f) THEN f[k + 1].bottom ELSE b)

Good(c, t, h) ==
  /\ MemoryOK(c, t, h) /\ t.frames # <<>>
  /\ AllWait(c, h, t.stack, Front(t.frames), Last(t.frames).bottom)
  /\ TopOK(c, h, t.stack, Last(t.frames))

Suspended(c, t, h, b) ==
  /\ MemoryOK(c, t, h) /\ b \in 0 .. Len(t.stack)
  /\ AllWait(c, h, t.stack, t.frames, b)
  /\ \A a \in Places(h) : a < b

\* h2 and s2 are like h and s up to place b, but for variables in open upvalues.
Over(h, s, h2, s2, b) ==
  /\ b \in Nat /\ b <= Len(s) /\ b <= Len(s2)
  /\ \A i \in 1 .. b : s2[i] = s[i] \/ i - 1 \in Places(h)
  /\ \A k \in DOMAIN h.closures : k \in DOMAIN h2.closures /\ h2.closures[k] = h.closures[k]
  /\ \A a \in Places(h2) : a \in Nat /\ (a \in Places(h) \/ b <= a)
  /\ \A u \in DOMAIN h.cells :
       h2.cells[u].open => h.cells[u].open /\ h2.cells[u].at = h.cells[u].at

\* A frame below the place that changes stays what it is.
LEMMA FrameKeeps ==
  ASSUME NEW c, NEW h, NEW s, NEW h2, NEW s2, NEW b, NEW g,
         HeapOK(c, h), Over(h, s, h2, s2, b), FrameOK(c, h, s, g), g.base <= b
  PROVE  FrameOK(c, h2, s2, g) /\ s2[g.bottom + 1] = s[g.bottom + 1] /\ ClosureAt(h2, s2, g) = ClosureAt(h, s, g)
<1>1. g.bottom \in Nat /\ g.base \in Nat /\ g.bottom < g.base /\ b \in Nat
  BY DEF FrameOK, Over
<1>2. g.bottom + 1 \in 1 .. b /\ g.bottom \notin Places(h) /\ (g.bottom + 1) - 1 = g.bottom
  BY <1>1, SMTT(30) DEF FrameOK
<1>3. s2[g.bottom + 1] = s[g.bottom + 1]
  BY <1>2 DEF Over
<1>4. ClosureAt(h2, s2, g) = ClosureAt(h, s, g) /\ s[g.bottom + 1][2] \in DOMAIN h2.closures
  BY <1>3, Zenon DEF Over, FrameOK, ClosureAt
<1>5. \A i \in DOMAIN ClosureAt(h, s, g).ups : ClosureAt(h, s, g).ups[i] \in DOMAIN h.cells
  BY Zenon DEF HeapOK, ClosureOK, FrameOK, ClosureAt
<1>6. \A i \in DOMAIN ClosureAt(h, s, g).ups :
        LET x == h2.cells[ClosureAt(h, s, g).ups[i]] IN x.open => x.at < g.bottom
  BY <1>5 DEF Over, FrameOK
<1>7. \A a \in Places(h2) : a < g.bottom \/ g.base <= a
  <2> TAKE a \in Places(h2)
  <2>1. CASE a \in Places(h)
    BY <2>1 DEF FrameOK
  <2>2. CASE b <= a
    <3>1. a \in Nat
      BY DEF Over
    <3> QED  BY <3>1, <2>2, <1>1
  <2> QED  BY <2>1, <2>2 DEF Over
<1>8. g.base <= Len(s2)
  BY <1>1 DEF Over
<1> QED  BY <1>1, <1>3, <1>4, <1>6, <1>7, <1>8 DEF FrameOK, ProtoAt, NotesAt

\* And where it may go on.
LEMMA ResumesKeeps ==
  ASSUME NEW c, NEW h, NEW s, NEW h2, NEW s2, NEW b, NEW b1, NEW g, NEW j, NEW from,
         HeapOK(c, h), Over(h, s, h2, s2, b), b1 \in Nat, b1 <= b,
         ClosureAt(h2, s2, g) = ClosureAt(h, s, g), Resumes(c, h, s, g, b1, j, from)
  PROVE  Resumes(c, h2, s2, g, b1, j, from)
<1>1. \A a \in Places(h2) : a \in Places(h) \/ b1 <= a
  BY DEF Over
<1> QED  BY <1>1 DEF Resumes, NotesAt

\* And that it waits.
LEMMA WaitingKeeps ==
  ASSUME NEW c, NEW h, NEW s, NEW h2, NEW s2, NEW b, NEW b1, NEW g,
         HeapOK(c, h), Over(h, s, h2, s2, b), WaitingOK(c, h, s, g, b1), b1 <= b
  PROVE  WaitingOK(c, h2, s2, g, b1)
<1>1. g.base <= b /\ b1 \in Nat /\ FrameOK(c, h, s, g)
  BY DEF WaitingOK, Over, FrameOK
<1>2. FrameOK(c, h2, s2, g) /\ ClosureAt(h2, s2, g) = ClosureAt(h, s, g)
  BY <1>1, FrameKeeps
<1>3. \A j, from : Resumes(c, h, s, g, b1, j, from) => Resumes(c, h2, s2, g, b1, j, from)
  BY <1>1, <1>2, ResumesKeeps
<1>4. WaitsForCall(c, h, s, g, b1) => WaitsForCall(c, h2, s2, g, b1)
  BY <1>3 DEF WaitsForCall
<1>5. WaitsForMeta(c, h, s, g, b1) => WaitsForMeta(c, h2, s2, g, b1)
  BY <1>3 DEF WaitsForMeta
<1> QED  BY <1>2, <1>4, <1>5 DEF WaitingOK

\* The frames that wait start one above the other.
LEMMA WaitingOrdered ==
  ASSUME NEW c, NEW h, NEW s, NEW f, NEW b, IsSeq(f), b \in Nat, AllWait(c, h, s, f, b)
  PROVE  \A k \in 1 .. Len(f) : (IF k < Len(f) THEN f[k + 1].bottom ELSE b) <= b
<1> DEFINE Above(k) == IF k < Len(f) THEN f[k + 1].bottom ELSE b
           S == {n \in Nat : \A k \in 1 .. Len(f) : k + n = Len(f) => Above(k) <= b /\ Above(k) \in Nat}
<1>0. Len(f) \in Nat
  BY SeqFacts
<1>1. 0 \in S
  BY <1>0
<1>2. ASSUME NEW n \in Nat, n \in S  PROVE  n + 1 \in S
  <2> HIDE DEF Above
  <2> SUFFICES ASSUME NEW k \in 1 .. Len(f), k + (n + 1) = Len(f)
               PROVE  Above(k) <= b /\ Above(k) \in Nat
    OBVIOUS
  <2>1. k + 1 \in 1 .. Len(f) /\ (k + 1) + n = Len(f) /\ k < Len(f)
    BY <1>0
  <2>2. Above(k + 1) <= b /\ Above(k + 1) \in Nat
    BY <1>2, <2>1
  <2>3. WaitingOK(c, h, s, f[k + 1], Above(k + 1))
    BY <2>1 DEF AllWait, Above
  <2>4. f[k + 1].bottom \in Nat /\ f[k + 1].base \in Nat /\ f[k + 1].bottom < f[k + 1].base
        /\ f[k + 1].base <= Above(k + 1)
    BY <2>3 DEF WaitingOK, FrameOK
  <2>5. f[k + 1].bottom <= b
    BY <2>2, <2>4, SMTT(30)
  <2> QED  BY <2>1, <2>4, <2>5 DEF Above
<1> HIDE DEF S
<1>3. Nat \subseteq S
  BY <1>1, <1>2, SetInduction
<1> QED
  <2> TAKE k \in 1 .. Len(f)
  <2>1. Len(f) - k \in Nat /\ k + (Len(f) - k) = Len(f)
    BY <1>0
  <2>2. Len(f) - k \in S
    BY <2>1, <1>3
  <2> QED  BY <2>1, <2>2 DEF S

\* So all frames that wait stay so when something above them changes.
LEMMA AllKeep ==
  ASSUME NEW c, NEW h, NEW s, NEW h2, NEW s2, NEW b, NEW f,
         HeapOK(c, h), Over(h, s, h2, s2, b), IsSeq(f), AllWait(c, h, s, f, b)
  PROVE  AllWait(c, h2, s2, f, b)
<1>1. b \in Nat
  BY DEF Over
<1>2. SUFFICES ASSUME NEW k \in 1 .. Len(f)
               PROVE  WaitingOK(c, h2, s2, f[k], IF k < Len(f) THEN f[k + 1].bottom ELSE b)
  BY DEF AllWait
<1>3. (IF k < Len(f) THEN f[k + 1].bottom ELSE b) <= b
  BY <1>1, WaitingOrdered
<1>4. WaitingOK(c, h, s, f[k], IF k < Len(f) THEN f[k + 1].bottom ELSE b)
  BY DEF AllWait
<1> QED  BY <1>3, <1>4, WaitingKeeps

\* The parts of a thread are what it is made of.
LEMMA ThreadFields ==
  ASSUME NEW f, NEW s, NEW o
  PROVE  Thread(f, s, o).frames = f /\ Thread(f, s, o).stack = s /\ Thread(f, s, o).open = o
BY DEF Thread

(* What the operations on sequences give, of sequences of values. *)
IsPart(h, r, s, m, n) ==
  /\ ValuesOK(h, r) /\ Len(r) = n - m + 1
  /\ \A j \in 1 .. n - m + 1 : r[j] = s[m + j - 1]

IsJoin(h, r, s, t) ==
  /\ ValuesOK(h, r) /\ Len(r) = Len(s) + Len(t)
  /\ \A j \in 1 .. Len(s) : r[j] = s[j]
  /\ \A j \in 1 .. Len(t) : r[Len(s) + j] = t[j]

IsResize(h, r, s, n) ==
  ValuesOK(h, r) /\ Len(r) = n /\ \A j \in 1 .. n : j <= Len(s) => r[j] = s[j]

IsChange(h, r, s, i, x) ==
  ValuesOK(h, r) /\ Len(r) = Len(s) /\ \A j \in 1 .. Len(s) : r[j] = IF i = j THEN x ELSE s[j]

IsTurn(h, r, s, n) ==
  ValuesOK(h, r) /\ Len(r) = Len(s) /\ \A j \in 1 .. n : r[j] = s[j]

\* A stack is a sequence of values.
LEMMA Lengths ==
  ASSUME NEW h, NEW s, ValuesOK(h, s)
  PROVE  IsSeq(s) /\ Len(s) \in Nat /\ \A i \in 1 .. Len(s) : ValueOK(h, s[i])
BY SeqFacts DEF ValuesOK

\* A part of a stack is one of values.
LEMMA PartValues ==
  ASSUME NEW h, NEW s, ValuesOK(h, s), NEW m, NEW n, m \in Nat \ {0}, n \in Int, n <= Len(s), m <= n + 1
  PROVE  IsPart(h, SubSeq(s, m, n), s, m, n)
<1>1. IsSeq(s)
  BY DEF ValuesOK
<1>2. /\ IsSeq(SubSeq(s, m, n)) /\ Len(SubSeq(s, m, n)) = n - m + 1
      /\ \A j \in 1 .. n - m + 1 : SubSeq(s, m, n)[j] = s[m + j - 1] /\ m + j - 1 \in 1 .. Len(s)
  BY <1>1, PartSeq
<1> QED  BY <1>2 DEF ValuesOK, IsPart

\* Two stacks one after the other are one of values.
LEMMA JoinedValues ==
  ASSUME NEW h, NEW s, ValuesOK(h, s), NEW t, ValuesOK(h, t)
  PROVE  IsJoin(h, s \o t, s, t)
<1>1. IsSeq(s) /\ IsSeq(t) /\ Len(s) \in Nat /\ Len(t) \in Nat
  BY SeqFacts DEF ValuesOK
<1>2. /\ IsSeq(s \o t) /\ Len(s \o t) = Len(s) + Len(t)
      /\ \A j \in 1 .. Len(s) + Len(t) : (s \o t)[j] = IF j <= Len(s) THEN s[j] ELSE t[j - Len(s)]
  BY <1>1, JoinedSeq
<1>3. \A j \in 1 .. Len(s) + Len(t) : ValueOK(h, (s \o t)[j])
  <2> TAKE j \in 1 .. Len(s) + Len(t)
  <2>1. CASE j <= Len(s)
    BY <2>1, <1>1, <1>2 DEF ValuesOK
  <2>2. CASE ~(j <= Len(s))
    <3>1. j - Len(s) \in 1 .. Len(t)
      BY <2>2, <1>1
    <3> QED  BY <3>1, <2>2, <1>2 DEF ValuesOK
  <2> QED  BY <2>1, <2>2
<1>4. \A j \in 1 .. Len(t) : (s \o t)[Len(s) + j] = t[j]
  BY <1>1, <1>2
<1>5. ValuesOK(h, s \o t)
  BY <1>2, <1>3 DEF ValuesOK
<1>6. \A j \in 1 .. Len(s) : (s \o t)[j] = s[j]
  BY <1>1, <1>2
<1> QED  BY <1>2, <1>4, <1>5, <1>6 DEF IsJoin

\* Nil is a value of any heap.
LEMMA NilOK == ASSUME NEW h PROVE ValueOK(h, NilValue)
BY DEF ValueOK, NilValue

\* A stack that is resized is one of values (thread.rs: stack.resize).
LEMMA ResizedValues ==
  ASSUME NEW h, NEW s, ValuesOK(h, s), NEW n \in Nat
  PROVE  IsResize(h, Resize(s, n), s, n)
<1>1. IsSeq(s) /\ Len(s) \in Nat
  BY SeqFacts DEF ValuesOK
<1>2. /\ IsSeq(Resize(s, n)) /\ Len(Resize(s, n)) = n
      /\ \A j \in 1 .. n : Resize(s, n)[j] = IF j <= Len(s) THEN s[j] ELSE NilValue
  BY <1>1, ResizedSeq
<1>3. \A j \in 1 .. n : ValueOK(h, Resize(s, n)[j])
  BY <1>1, <1>2, NilOK DEF ValuesOK
<1> QED  BY <1>2, <1>3 DEF ValuesOK, IsResize

\* A stack with one value set is one of values.
LEMMA ChangedValues ==
  ASSUME NEW h, NEW s, ValuesOK(h, s), NEW i, NEW x, ValueOK(h, x)
  PROVE  IsChange(h, [s EXCEPT ![i] = x], s, i, x)
<1> DEFINE s2 == [s EXCEPT ![i] = x]
<1>1. /\ IsSeq(s2) /\ Len(s2) = Len(s)
      /\ \A j \in 1 .. Len(s) : s2[j] = IF i = j THEN x ELSE s[j]
  <2>1. DOMAIN s = 1 .. Len(s) /\ Len(s) \in Nat /\ s = [k \in 1 .. Len(s) |-> s[k]]
    BY SeqFacts DEF ValuesOK
  <2>2. s2 \in [1 .. Len(s) -> Range(s) \cup {x}]
    BY <2>1 DEF Range
  <2>3. \A j \in 1 .. Len(s) : s2[j] = IF i = j THEN x ELSE s[j]
    BY <2>1
  <2> QED  BY <2>1, <2>2, <2>3, OfFunction
<1> HIDE DEF s2
<1>2. IsChange(h, s2, s, i, x)
  BY <1>1 DEF ValuesOK, IsChange
<1> QED  BY <1>2 DEF s2

\* One, two or three values are a stack.
LEMMA TinyValues ==
  ASSUME NEW h
  PROVE  /\ ValuesOK(h, <<>>) /\ Len(<<>>) = 0
         /\ \A x : ValueOK(h, x) => ValuesOK(h, <<x>>) /\ Len(<<x>>) = 1
         /\ \A x, y : ValueOK(h, x) /\ ValueOK(h, y) => ValuesOK(h, <<x, y>>) /\ Len(<<x, y>>) = 2
         /\ \A x, y, z : ValueOK(h, x) /\ ValueOK(h, y) /\ ValueOK(h, z)
                           => ValuesOK(h, <<x, y, z>>) /\ Len(<<x, y, z>>) = 3
<1>1. ValuesOK(h, <<>>) /\ Len(<<>>) = 0
  BY TinySeqs DEF ValuesOK
<1>2. \A x : ValueOK(h, x) => ValuesOK(h, <<x>>)
  BY TinySeqs DEF ValuesOK
<1>3. \A x, y : ValueOK(h, x) /\ ValueOK(h, y) => ValuesOK(h, <<x, y>>)
  BY TinySeqs DEF ValuesOK
<1>4. \A x, y, z : ValueOK(h, x) /\ ValueOK(h, y) /\ ValueOK(h, z) => ValuesOK(h, <<x, y, z>>)
  BY TinySeqs DEF ValuesOK
<1> QED  BY <1>1, <1>2, <1>3, <1>4, TinySeqs

\* Values of a heap are values of one that has as much.
LEMMA SameValues ==
  ASSUME NEW h, NEW h2, NEW s, ValuesOK(h, s), \A v : ValueOK(h, v) => ValueOK(h2, v)
  PROVE  ValuesOK(h2, s)
BY DEF ValuesOK

\* Turning the top of a stack moves values and adds none (rotate_left of call_function).
LEMMA TurnedValues ==
  ASSUME NEW h, NEW s, ValuesOK(h, s), NEW n \in Nat, NEW k \in Nat, n + k <= Len(s)
  PROVE  IsTurn(h, TurnLeft(s, n, k), s, n)
<1> DEFINE a == SubSeq(s, 1, n)
           b == SubSeq(s, n + k + 1, Len(s))
           d == SubSeq(s, n + 1, n + k)
           e == a \o b
           r == e \o d
<1>0. Len(s) \in Nat
  BY Lengths
<1>1. IsPart(h, a, s, 1, n)
  BY <1>0, PartValues
<1>2. IsPart(h, b, s, n + k + 1, Len(s))
  <2>1. n + k + 1 \in Nat \ {0} /\ Len(s) \in Int /\ Len(s) <= Len(s) /\ n + k + 1 <= Len(s) + 1
    BY <1>0
  <2> QED  BY <2>1, PartValues
<1>3. IsPart(h, d, s, n + 1, n + k)
  <2>1. n + 1 \in Nat \ {0} /\ n + k \in Int /\ n + k <= Len(s) /\ n + 1 <= n + k + 1
    BY <1>0
  <2> QED  BY <2>1, PartValues
<1>4. IsJoin(h, e, a, b)
  <2> HIDE DEF a, b
  <2> QED  BY <1>1, <1>2, JoinedValues DEF IsPart
<1>5. IsJoin(h, r, e, d)
  <2>1. ValuesOK(h, d)
    BY <1>3 DEF IsPart
  <2>2. ValuesOK(h, e)
    BY <1>4 DEF IsJoin
  <2> HIDE DEF e, d
  <2> QED  BY <2>1, <2>2, JoinedValues
<1>6. r = TurnLeft(s, n, k)
  BY DEF TurnLeft
<1> HIDE DEF a, b, d, e, r
<1>7. Len(a) = n /\ Len(b) = Len(s) - (n + k) /\ Len(d) = k
  BY <1>0, <1>1, <1>2, <1>3 DEF IsPart
<1>8. Len(r) = Len(s) /\ ValuesOK(h, r)
  BY <1>0, <1>4, <1>5, <1>7 DEF IsJoin
<1>9. \A j \in 1 .. n : r[j] = s[j]
  <2> TAKE j \in 1 .. n
  <2>1. Len(e) = n + Len(b) /\ Len(b) \in Nat
    BY <1>0, <1>4, <1>7 DEF IsJoin
  <2>2. j \in 1 .. Len(a) /\ j \in 1 .. Len(e)
    BY <2>1, <1>7
  <2>3. r[j] = e[j] /\ e[j] = a[j]
    BY <2>2, <1>4, <1>5 DEF IsJoin
  <2>4. a[j] = s[1 + j - 1] /\ 1 + j - 1 = j
    BY <1>1 DEF IsPart
  <2> QED  BY <2>3, <2>4
<1> QED  BY <1>6, <1>8, <1>9 DEF IsTurn

\* A stack that is the same up to a place is one that frames below it do not mind.
LEMMA SameOver ==
  ASSUME NEW c, NEW h, HeapOK(c, h), NEW s, NEW s2, NEW b \in Nat, b <= Len(s), b <= Len(s2),
         \A i \in 1 .. b : s2[i] = s[i]
  PROVE  Over(h, s, h, s2, b)
<1>1. \A a \in Places(h) : a \in Nat
  BY DEF Places, OpenCells, HeapOK, CellOK
<1> QED  BY <1>1 DEF Over

\* A good thread is one of frames that wait with a good one at the top.
LEMMA Topped ==
  ASSUME NEW c, NEW h, NEW f, NEW g, NEW s, NEW o,
         MemoryOK(c, Thread(f, s, o), h), AllWait(c, h, s, f, g.bottom), TopOK(c, h, s, g)
  PROVE  Good(c, Thread(Append(f, g), s, o), h)
<1>1. IsSeq(f)
  BY ThreadFields DEF MemoryOK
<1>2. /\ IsSeq(Append(f, g)) /\ Len(Append(f, g)) = Len(f) + 1
      /\ \A j \in 1 .. Len(f) : Append(f, g)[j] = f[j]
      /\ Append(f, g)[Len(f) + 1] = g
  BY <1>1, AppendedSeq
<1>3. Append(f, g) # <<>> /\ Len(f) \in Nat
  BY <1>1, <1>2, SeqFacts, TinySeqs, SMTT(30)
<1> DEFINE x == Append(f, g)
<1> HIDE DEF x
<1>4. /\ IsSeq(Front(x)) /\ Len(Front(x)) = Len(f)
      /\ \A j \in 1 .. Len(f) : Front(x)[j] = f[j]
      /\ Last(x) = g
  <2>1. IsSeq(x) /\ x # <<>> /\ Len(x) = Len(f) + 1
    BY <1>2, <1>3 DEF x
  <2>2. /\ IsSeq(Front(x)) /\ Len(Front(x)) = Len(x) - 1 /\ Last(x) = x[Len(x)]
        /\ \A j \in 1 .. Len(x) - 1 : Front(x)[j] = x[j]
    BY <2>1, FrontSeq
  <2>3. Len(x) - 1 = Len(f)
    BY <2>1, <1>3
  <2>4. x[Len(x)] = g /\ \A j \in 1 .. Len(f) : x[j] = f[j]
    BY <2>1, <1>2 DEF x
  <2> QED  BY <2>2, <2>3, <2>4
<1>5. Front(x) = f
  <2>1. f = [i \in 1 .. Len(f) |-> f[i]]
    BY <1>1, SeqFacts
  <2>2. Front(x) = [i \in 1 .. Len(f) |-> Front(x)[i]]
    BY <1>4, SeqFacts
  <2> QED  BY <2>1, <2>2, <1>4
<1>6. IsSeq(x) /\ x # <<>>
  BY <1>2, <1>3 DEF x
<1>7. MemoryOK(c, Thread(x, s, o), h)
  BY <1>6, ThreadFields DEF MemoryOK
<1> QED  
  <2>1. Good(c, Thread(x, s, o), h)
    BY <1>4, <1>5, <1>6, <1>7, ThreadFields DEF Good
  <2> QED  BY <2>1 DEF x

Top(f, g, s, o) == Thread(Append(f, g), s, o)
Put(s, i, v) == [s EXCEPT ![i] = v]
By(g, k) == [g EXCEPT !.pc = g.pc + k]

IsLua(g) ==
  /\ g = [is |-> "lua", bottom |-> g.bottom, base |-> g.base, size |-> g.size,
          variable |-> g.variable, pc |-> g.pc, ret |-> g.ret]
  /\ g.pc \in Nat

IsAppend(r, f, g) ==
  /\ IsSeq(r) /\ Len(r) = Len(f) + 1 /\ DOMAIN r = 1 .. Len(f) + 1
  /\ \A j \in 1 .. Len(f) : r[j] = f[j]
  /\ r[Len(f) + 1] = g

\* What Append makes of the frames.
LEMMA Appended ==
  ASSUME NEW f, IsSeq(f), NEW g
  PROVE  IsAppend(Append(f, g), f, g)
BY AppendedSeq DEF IsAppend

\* A frame that is pushed is the last, and popping it gives the frames there were.
LEMMA AtTop ==
  ASSUME NEW f, IsSeq(f), NEW g
  PROVE  /\ IsSeq(Append(f, g)) /\ Append(f, g) # <<>> /\ Len(Append(f, g)) = Len(f) + 1
         /\ Len(f) \in Nat /\ Append(f, g)[Len(f) + 1] = g
         /\ Front(Append(f, g)) = f /\ Last(Append(f, g)) = g
         /\ \A x : [Append(f, g) EXCEPT ![Len(f) + 1] = x] = Append(f, x)
<1> DEFINE x == Append(f, g)
<1>1. IsAppend(x, f, g)
  BY Appended
<1> HIDE DEF x
<1>2. x # <<>> /\ Len(f) \in Nat
  BY <1>1, SeqFacts, TinySeqs DEF IsAppend
<1>3. IsSeq(x) /\ x # <<>> /\ Len(x) = Len(f) + 1 /\ x[Len(x)] = g
      /\ \A j \in 1 .. Len(f) : x[j] = f[j]
  BY <1>1, <1>2 DEF IsAppend
<1>8. \A y : [x EXCEPT ![Len(f) + 1] = y] = Append(f, y)
  <2> TAKE y
  <2> DEFINE z == Append(f, y)
  <2>1. IsAppend(z, f, y)
    BY Appended
  <2> HIDE DEF z
  <2>2. IsSeq(z) /\ Len(z) = Len(f) + 1 /\ z[Len(f) + 1] = y /\ \A j \in 1 .. Len(f) : z[j] = f[j]
    BY <2>1 DEF IsAppend
  <2>3. z = [j \in 1 .. Len(f) + 1 |-> z[j]] /\ x = [j \in 1 .. Len(f) + 1 |-> x[j]]
    BY <1>3, <2>2, SeqFacts
  <2>4. [x EXCEPT ![Len(f) + 1] = y] = [j \in 1 .. Len(f) + 1 |-> IF j = Len(f) + 1 THEN y ELSE x[j]]
    BY <2>3
  <2>5. \A j \in 1 .. Len(f) + 1 : z[j] = IF j = Len(f) + 1 THEN y ELSE x[j]
    BY <1>2, <1>3, <2>2
  <2>6. [x EXCEPT ![Len(f) + 1] = y] = z
    BY <2>3, <2>4, <2>5
  <2> QED  BY <2>6 DEF z
<1>4. /\ IsSeq(Front(x)) /\ Len(Front(x)) = Len(x) - 1 /\ Last(x) = x[Len(x)]
      /\ \A j \in 1 .. Len(x) - 1 : Front(x)[j] = x[j]
  BY <1>3, FrontSeq
<1>5. Len(x) - 1 = Len(f)
  BY <1>2, <1>3
<1>6. Front(x) = f
  <2>1. f = [i \in 1 .. Len(f) |-> f[i]]
    BY SeqFacts
  <2>2. Front(x) = [i \in 1 .. Len(f) |-> Front(x)[i]]
    BY <1>4, <1>5, SeqFacts
  <2> QED  BY <2>1, <2>2, <1>3, <1>4, <1>5
<1>7. Front(x) = f /\ Last(x) = g /\ IsSeq(x) /\ x # <<>> /\ Len(x) = Len(f) + 1
  BY <1>3, <1>4, <1>6
<1> QED  BY <1>2, <1>3, <1>7, <1>8 DEF x

\* What the operations of the VM make of a thread with a known frame at the top.
LEMMA Rewrites ==
  ASSUME NEW f, IsSeq(f), NEW g, NEW s, NEW o
  PROVE  /\ \A x : WithStack(Top(f, g, s, o), x) = Top(f, g, x, o)
         /\ \A x : WithFrame(Top(f, g, s, o), x) = Top(f, x, s, o)
         /\ \A n : Skip(Top(f, g, s, o), n) = Top(f, By(g, n), s, o)
         /\ \A r, v : SetReg(Top(f, g, s, o), r, v) = Top(f, g, Put(s, g.base + r + 1, v), o)
         /\ Last(Top(f, g, s, o).frames) = g /\ Len(Top(f, g, s, o).frames) = Len(f) + 1
<1> DEFINE x == Append(f, g)
<1>0. Top(f, g, s, o) = [frames |-> x, stack |-> s, open |-> o]
  BY DEF Top, Thread
<1>1. Last(x) = g /\ Len(x) = Len(f) + 1 /\ x[Len(f) + 1] = g
      /\ \A y : [x EXCEPT ![Len(f) + 1] = y] = Append(f, y)
  BY AtTop
<1>2. \A y : Top(f, y, s, o) = [frames |-> Append(f, y), stack |-> s, open |-> o]
  BY DEF Top, Thread
<1>3. \A y : Top(f, g, y, o) = [frames |-> x, stack |-> y, open |-> o]
  BY DEF Top, Thread
<1> HIDE DEF x
<1>4. \A n : [x EXCEPT ![Len(f) + 1].pc = @ + n] = Append(f, [g EXCEPT !.pc = @ + n])
  BY <1>1
<1>5. \A n : Skip(Top(f, g, s, o), n) = Top(f, By(g, n), s, o)
  <2> TAKE n
  <2> DEFINE t == [frames |-> x, stack |-> s, open |-> o]
  <2>1. Skip(t, n) = [frames |-> [x EXCEPT ![Len(x)].pc = @ + n], stack |-> s, open |-> o]
    BY DEF Skip
  <2> DEFINE y == [g EXCEPT !.pc = @ + n]
             z == Append(f, y)
  <2>2. [x EXCEPT ![Len(x)].pc = @ + n] = z
    BY <1>1, <1>4
  <2>3. Top(f, y, s, o) = [frames |-> z, stack |-> s, open |-> o]
    BY <1>2
  <2>4. Top(f, g, s, o) = t
    BY <1>0
  <2> HIDE DEF y, z, t
  <2>5. Skip(t, n) = [frames |-> z, stack |-> s, open |-> o]
    BY <2>1, <2>2
  <2>6. Skip(t, n) = Top(f, y, s, o)
    BY <2>5, <2>3
  <2>7. y = By(g, n)
    BY DEF y, By
  <2> QED  BY <2>6, <2>4, <2>7
<1>6. \A y : WithFrame(Top(f, g, s, o), y) = Top(f, y, s, o)
  BY <1>0, <1>1, <1>2 DEF WithFrame
<1>7. \A y : WithStack(Top(f, g, s, o), y) = Top(f, g, y, o)
  BY <1>0, <1>3 DEF WithStack
<1>8. \A r, v : SetReg(Top(f, g, s, o), r, v) = Top(f, g, Put(s, g.base + r + 1, v), o)
  BY <1>0, <1>1, <1>3 DEF SetReg, Put
<1>9. Last(Top(f, g, s, o).frames) = g /\ Len(Top(f, g, s, o).frames) = Len(f) + 1
  BY <1>0, <1>1
<1> QED  BY <1>5, <1>6, <1>7, <1>8, <1>9

\* With a frame that has gone on by k instructions.
LEMMA RewritesBy ==
  ASSUME NEW f, IsSeq(f), NEW g, IsLua(g), NEW s, NEW o, NEW k \in Int
  PROVE  /\ \A x : WithStack(Top(f, By(g, k), s, o), x) = Top(f, By(g, k), x, o)
         /\ \A n \in Int : Skip(Top(f, By(g, k), s, o), n) = Top(f, By(g, k + n), s, o)
         /\ \A r, v : SetReg(Top(f, By(g, k), s, o), r, v)
                      = Top(f, By(g, k), Put(s, g.base + r + 1, v), o)
<1>0. \A m : By(g, m) = [is |-> "lua", bottom |-> g.bottom, base |-> g.base, size |-> g.size,
                         variable |-> g.variable, pc |-> g.pc + m, ret |-> g.ret]
  BY DEF By, IsLua
<1> DEFINE x == By(g, k)
<1>1. x.base = g.base
  BY <1>0
<1>2. \A n \in Int : By(x, n) = By(g, k + n)
  <2> TAKE n \in Int
  <2>1. (g.pc + k) + n = g.pc + (k + n)
    BY DEF IsLua
  <2>2. By(x, n)
        = [is |-> "lua", bottom |-> g.bottom, base |-> g.base, size |-> g.size,
           variable |-> g.variable, pc |-> (g.pc + k) + n, ret |-> g.ret]
    <3>1. By(x, n) = [x EXCEPT !.pc = x.pc + n]
      BY DEF By
    <3>2. x = [is |-> "lua", bottom |-> g.bottom, base |-> g.base, size |-> g.size,
               variable |-> g.variable, pc |-> g.pc + k, ret |-> g.ret]
      BY <1>0
    <3> HIDE DEF x
    <3> QED  BY <3>1, <3>2
  <2> QED  BY <2>1, <2>2, <1>0
<1> HIDE DEF x
<1>4. /\ \A y : WithStack(Top(f, x, s, o), y) = Top(f, x, y, o)
      /\ \A n : Skip(Top(f, x, s, o), n) = Top(f, By(x, n), s, o)
      /\ \A r, v : SetReg(Top(f, x, s, o), r, v) = Top(f, x, Put(s, x.base + r + 1, v), o)
  BY Rewrites
<1> QED  BY <1>1, <1>2, <1>4 DEF x

\* What holds up to a place holds up to one below it.
LEMMA OverLess ==
  ASSUME NEW h, NEW s, NEW h2, NEW s2, NEW b, Over(h, s, h2, s2, b), NEW d \in Nat, d <= b
  PROVE  Over(h, s, h2, s2, d)
BY DEF Over

\* A frame that waits, on others that wait.
LEMMA Pushed ==
  ASSUME NEW c, NEW h, NEW s, NEW f, NEW g, NEW b, IsSeq(f),
         AllWait(c, h, s, f, g.bottom), WaitingOK(c, h, s, g, b)
  PROVE  AllWait(c, h, s, Append(f, g), b)
<1>1. /\ Len(Append(f, g)) = Len(f) + 1 /\ Len(f) \in Nat
      /\ \A j \in 1 .. Len(f) : Append(f, g)[j] = f[j]
      /\ Append(f, g)[Len(f) + 1] = g
  BY AppendedSeq, AtTop
<1> DEFINE x == Append(f, g)
<1> HIDE DEF x
<1>2. /\ Len(x) = Len(f) + 1 /\ \A j \in 1 .. Len(f) : x[j] = f[j]
      /\ x[Len(f) + 1] = g
  BY <1>1 DEF x
<1>3. ASSUME NEW k \in 1 .. Len(x) 
      PROVE  WaitingOK(c, h, s, x[k], IF k < Len(x) THEN x[k + 1].bottom ELSE b)
  <2>1. CASE k = Len(f) + 1
    BY <2>1, <1>1, <1>2
  <2>2. CASE k = Len(f)
    <3>1. WaitingOK(c, h, s, f[k], g.bottom)
      BY <2>2, <1>1 DEF AllWait
    <3> QED  BY <3>1, <2>2, <1>1, <1>2
  <2>3. CASE k < Len(f)
    <3>1. WaitingOK(c, h, s, f[k], f[k + 1].bottom) /\ k + 1 \in 1 .. Len(f) /\ k \in 1 .. Len(f)
      BY <2>3, <1>1 DEF AllWait
    <3> QED  BY <3>1, <2>3, <1>1, <1>2
  <2> QED  BY <2>1, <2>2, <2>3, <1>1, <1>2
<1>4. AllWait(c, h, s, x, b)
  BY <1>3 DEF AllWait
<1> QED  BY <1>4 DEF x

\* And back: of frames that wait, all but the last wait for where it starts.
LEMMA Unpushed ==
  ASSUME NEW c, NEW h, NEW s, NEW f, NEW g, NEW b, IsSeq(f), AllWait(c, h, s, Append(f, g), b)
  PROVE  AllWait(c, h, s, f, g.bottom) /\ WaitingOK(c, h, s, g, b)
<1>1. /\ Len(Append(f, g)) = Len(f) + 1 /\ Len(f) \in Nat
      /\ \A j \in 1 .. Len(f) : Append(f, g)[j] = f[j]
      /\ Append(f, g)[Len(f) + 1] = g
  BY AppendedSeq, AtTop
<1> DEFINE x == Append(f, g)
<1> HIDE DEF x
<1>2. /\ Len(x) = Len(f) + 1 /\ \A j \in 1 .. Len(f) : x[j] = f[j]
      /\ x[Len(f) + 1] = g /\ AllWait(c, h, s, x, b)
  BY <1>1 DEF x
<1>3. ASSUME NEW k \in 1 .. Len(x) 
      PROVE  WaitingOK(c, h, s, x[k], IF k < Len(x) THEN x[k + 1].bottom ELSE b)
  BY <1>2 DEF AllWait
<1>4. WaitingOK(c, h, s, g, b)
  BY <1>1, <1>2, <1>3
<1>5. ASSUME NEW k \in 1 .. Len(f) 
      PROVE  WaitingOK(c, h, s, f[k], IF k < Len(f) THEN f[k + 1].bottom ELSE g.bottom)
  <2>1. WaitingOK(c, h, s, f[k], x[k + 1].bottom)
    BY <1>1, <1>2, <1>3
  <2>2. CASE k < Len(f)
    BY <2>1, <2>2, <1>1, <1>2
  <2>3. CASE k = Len(f)
    BY <2>1, <2>3, <1>1, <1>2
  <2> QED  BY <2>2, <2>3, <1>1
<1>6. AllWait(c, h, s, f, g.bottom)
  BY <1>5 DEF AllWait
<1> QED  BY <1>4, <1>6

\* The frame at the top goes on at instruction j.
LEMMA GoesOn ==
  ASSUME NEW c, NEW h, NEW s, NEW f, NEW g, NEW o, NEW h2, NEW s2, NEW j, NEW g2,
         HeapOK(c, h), HeapOK(c, h2), ValuesOK(h2, s2), OpenOK(h2, o),
         Over(h, s, h2, s2, g.base), IsSeq(f), AllWait(c, h, s, f, g.bottom), FrameOK(c, h, s, g),
         j \in DOMAIN NotesAt(c, h, s, g), j - 1 \in Nat, j \in Nat,
         g2 = [is |-> "lua", bottom |-> g.bottom, base |-> g.base, size |-> g.size,
               variable |-> NotesAt(c, h, s, g)[j].from # Fixed, pc |-> j - 1, ret |-> <<>>],
         IF NotesAt(c, h, s, g)[j].from = Fixed THEN Len(s2) = g.base + g.size
         ELSE g.base + NotesAt(c, h, s, g)[j].from <= Len(s2),
         \A a \in Places(h2) : a < g.bottom \/ a - g.base \in NotesAt(c, h, s, g)[j].open
  PROVE  Good(c, Top(f, g2, s2, o), h2)
<1>1. g.bottom \in Nat /\ g.base \in Nat /\ g.bottom < g.base
  BY DEF FrameOK
<1>2. Over(h, s, h2, s2, g.bottom)
  BY <1>1, OverLess
<1>3. AllWait(c, h2, s2, f, g.bottom)
  BY <1>2, AllKeep
<1>4. FrameOK(c, h2, s2, g) /\ s2[g.bottom + 1] = s[g.bottom + 1] /\ ClosureAt(h2, s2, g) = ClosureAt(h, s, g)
  BY <1>1, FrameKeeps
<1>5. /\ g2.is = "lua" /\ g2.bottom = g.bottom /\ g2.base = g.base /\ g2.size = g.size
      /\ g2.variable = (NotesAt(c, h, s, g)[j].from # Fixed) /\ g2.pc = j - 1 /\ g2.ret = <<>>
      /\ g2.pc + 1 = j
  OBVIOUS
<1>6. /\ ClosureAt(h2, s2, g2) = ClosureAt(h2, s2, g) /\ NotesAt(c, h2, s2, g2) = NotesAt(c, h, s, g)
      /\ ProtoAt(c, h2, s2, g2) = ProtoAt(c, h2, s2, g)
  BY <1>4, <1>5, Zenon DEF ClosureAt, NotesAt, ProtoAt
<1>7. g2 = [is |-> "lua", bottom |-> g2.bottom, base |-> g2.base, size |-> g2.size,
               variable |-> g2.variable, pc |-> g2.pc, ret |-> g2.ret]
  OBVIOUS
<1>8. FrameOK(c, h2, s2, g2)
  BY <1>4, <1>5, <1>6, <1>7, Zenon DEF FrameOK
<1>9. RunningOK(c, h2, s2, g2)
  BY <1>5, <1>6, <1>8 DEF RunningOK
<1>10. MemoryOK(c, Thread(f, s2, o), h2)
  BY ThreadFields DEF MemoryOK
<1> QED  BY <1>3, <1>5, <1>9, <1>10, Topped DEF Top, TopOK

Runs(c, f, g, s, o) ==
  /\ Sound(c) /\ code = c.protos
  /\ th = Top(f, g, s, o) /\ IsSeq(f)
  /\ HeapOK(c, heap) /\ ValuesOK(heap, s) /\ OpenOK(heap, o)
  /\ AllWait(c, heap, s, f, g.bottom) /\ RunningOK(c, heap, s, g)

NoteNow(c, s, g) == NotesAt(c, heap, s, g)[g.pc + 1]
ProtoNow(c, s, g) == ProtoAt(c, heap, s, g)

\* What run_vm reads of the thread when it fetches an instruction.
LEMMA RunFacts ==
  ASSUME NEW c, NEW f, NEW g, NEW s, NEW o, Runs(c, f, g, s, o)
  PROVE  /\ Frame = g /\ Current = s[g.bottom + 1] /\ Proto = ProtoNow(c, s, g)
         /\ \A r : Reg(r) = s[g.base + r + 1]
         /\ IsLua(g) /\ FrameOK(c, heap, s, g) /\ Ahead = Top(f, By(g, 1), s, o)
         /\ g.pc + 1 \in DOMAIN NotesAt(c, heap, s, g)
         /\ SoundPrototype(c.protos, ProtoNow(c, s, g), NotesAt(c, heap, s, g))
         /\ ClosureOK(c, heap, ClosureAt(heap, s, g))
<1>1. th.frames = Append(f, g) /\ th.stack = s
  <2> DEFINE x == Append(f, g)
  <2>1. th = Thread(x, s, o)
    BY DEF Runs, Top
  <2> HIDE DEF x
  <2>2. th.frames = x /\ th.stack = s
    BY <2>1, ThreadFields
  <2> QED  BY <2>2 DEF x
<1>2. Frame = g
  <2>1. IsSeq(f)
    BY DEF Runs
  <2>2. Last(Append(f, g)) = g
    BY <2>1, AtTop
  <2> DEFINE x == Append(f, g)
  <2>3. th.frames = x /\ Last(x) = g
    BY <2>2, <1>1
  <2> HIDE DEF x
  <2> QED  BY <2>3 DEF Frame
<1>3. Current = s[g.bottom + 1] /\ \A r : Reg(r) = s[g.base + r + 1]
  BY <1>1, <1>2 DEF Current, Reg
<1>4. FrameOK(c, heap, s, g) /\ IsLua(g)
  BY DEF Runs, RunningOK, FrameOK, IsLua
<1>5. ClosureOK(c, heap, ClosureAt(heap, s, g))
  BY <1>4, Zenon DEF Runs, HeapOK, FrameOK, ClosureAt
<1>6. Proto = ProtoNow(c, s, g)
  BY <1>3 DEF Proto, ProtoOf, ProtoNow, ProtoAt, ClosureAt, Runs
<1>7. SoundPrototype(c.protos, ProtoNow(c, s, g), NotesAt(c, heap, s, g))
  BY <1>5 DEF ClosureOK, Sound, Runs, ProtoNow, ProtoAt, NotesAt
<1>8. Ahead = Top(f, By(g, 1), s, o)
  <2>1. Skip(Top(f, g, s, o), 1) = Top(f, By(g, 1), s, o)
    BY Rewrites DEF Runs
  <2> QED  BY <2>1 DEF Ahead, Runs
<1>9. g.pc + 1 \in DOMAIN NotesAt(c, heap, s, g)
  BY <1>4 DEF FrameOK
<1> QED  BY <1>2, <1>3, <1>4, <1>5, <1>6, <1>7, <1>8, <1>9

\* What a verified instruction may rely on.
LEMMA InstructionFacts ==
  ASSUME NEW c, NEW f, NEW g, NEW s, NEW o, Runs(c, f, g, s, o), NEW n, n = NoteNow(c, s, g),
         NEW p, p = ProtoNow(c, s, g), NEW op, op = Operation
  PROVE  /\ p.size \in Nat /\ g.size = p.size /\ p.params \in Nat
         /\ g.bottom \in Nat /\ g.base \in Nat /\ g.pc \in Nat /\ g.bottom < g.base /\ g.base <= Len(s)
         /\ Len(s) \in Nat
         /\ Room(p, n) \in Nat /\ Room(p, n) <= g.size /\ g.base + Room(p, n) <= Len(s)
         /\ n.open \subseteq 0 .. Room(p, n) - 1
         /\ Touches(op) \subseteq 0 .. Room(p, n) - 1
         /\ Counts(op) \subseteq Nat /\ Jumps(op) \subseteq Int
         /\ n.from # Fixed <=> Takes(op) = Variable
         /\ op.op = "Return" => op.start \in 0 .. Room(p, n)
         /\ op.op = "VarArgs" => op.dest \in 0 .. p.size
         /\ OfConstants(op) \subseteq DOMAIN p.consts
         /\ OfUpValues(op) \subseteq DOMAIN p.ups
         /\ op.op = "Closure" => op.proto \in DOMAIN p.protos
         /\ \A r \in n.open, x \in Moves(op) : r < x
         /\ Follow(op, g.pc + 1) \subseteq DOMAIN NotesAt(c, heap, s, g)
         /\ \A j \in Follow(op, g.pc + 1) : Leads(c.protos, p, op, n, NotesAt(c, heap, s, g)[j])
         /\ \A j \in DOMAIN NotesAt(c, heap, s, g) : j \in Nat /\ j - 1 \in Nat
         /\ g.variable = (n.from # Fixed)
         /\ n.from = Fixed => Room(p, n) = p.size /\ Len(s) = g.base + g.size
         /\ n.from # Fixed => Room(p, n) = n.from
         /\ \A a \in Places(heap) : a < g.bottom \/ a - g.base \in n.open
<1> DEFINE notes == NotesAt(c, heap, s, g)
           i == g.pc + 1
<1>1. /\ FrameOK(c, heap, s, g) /\ i \in DOMAIN notes /\ SoundPrototype(c.protos, p, notes)
      /\ Proto = p /\ Frame = g
  BY RunFacts
<1>2. n = notes[i]
  BY DEF NoteNow
<1>3. op = Decode(p.ops[i])
  BY <1>1 DEF Operation
<1>4. /\ g.size = p.size /\ g.bottom \in Nat /\ g.base \in Nat /\ g.pc \in Nat /\ g.bottom < g.base
      /\ g.base <= Len(s)
  BY <1>1 DEF FrameOK, ProtoNow
<1>5. /\ g.variable = (n.from # Fixed)
      /\ IF n.from = Fixed THEN Len(s) = g.base + g.size ELSE g.base + n.from <= Len(s)
      /\ \A a \in Places(heap) : a < g.bottom \/ a - g.base \in n.open
  BY DEF Runs, RunningOK, NoteNow
<1> HIDE DEF notes, i
<1>6. Checked(c.protos, p, notes, i) /\ p.size \in Nat /\ p.params \in Nat
  BY <1>1 DEF SoundPrototype
<1>7. /\ n.open \subseteq 0 .. Room(p, n) - 1
      /\ n.from = Fixed \/ n.from \in 0 .. p.size
      /\ \A j \in DOMAIN notes : j \in Nat /\ j - 1 \in Nat
  BY <1>1, <1>2 DEF SoundPrototype
<1>8. /\ Touches(op) \subseteq 0 .. Room(p, n) - 1
      /\ Counts(op) \subseteq Nat /\ Jumps(op) \subseteq Int
      /\ n.from # Fixed <=> Takes(op) = Variable
      /\ op.op = "Return" => op.start \in 0 .. Room(p, n)
      /\ op.op = "VarArgs" => op.dest \in 0 .. p.size
      /\ OfConstants(op) \subseteq DOMAIN p.consts
      /\ OfUpValues(op) \subseteq DOMAIN p.ups
      /\ op.op = "Closure" => op.proto \in DOMAIN p.protos
      /\ \A r \in n.open, x \in Moves(op) : r < x
      /\ Follow(op, i) \subseteq DOMAIN notes
      /\ \A j \in Follow(op, i) : Leads(c.protos, p, op, n, notes[j])
  BY <1>2, <1>3, <1>6, Zenon DEF Checked
<1>9. Len(s) \in Nat
  BY Lengths DEF Runs
<1>10. /\ Room(p, n) \in Nat /\ Room(p, n) <= g.size /\ g.base + Room(p, n) <= Len(s)
       /\ n.from = Fixed => Room(p, n) = p.size /\ Len(s) = g.base + g.size
       /\ n.from # Fixed => Room(p, n) = n.from
  BY <1>4, <1>5, <1>6, <1>7, <1>9 DEF Room
<1> QED  BY <1>4, <1>5, <1>6, <1>7, <1>8, <1>9, <1>10 DEF notes, i

\* h2 has what h has, and its variables in the same places.
Like(c, h, h2) ==
  /\ HeapOK(c, h2)
  /\ DOMAIN h2.cells = DOMAIN h.cells
  /\ \A u \in DOMAIN h.cells : h2.cells[u].open = h.cells[u].open /\ h2.cells[u].at = h.cells[u].at
  /\ \A k \in DOMAIN h.closures : k \in DOMAIN h2.closures /\ h2.closures[k] = h.closures[k]
  /\ DOMAIN h.tables \subseteq DOMAIN h2.tables

\* Heaps that are alike have the same places and the same values.
LEMMA LikeFacts ==
  ASSUME NEW c, NEW h, NEW h2, HeapOK(c, h), Like(c, h, h2)
  PROVE  /\ Places(h2) = Places(h) /\ OpenCells(h2) = OpenCells(h)
         /\ \A v : ValueOK(h, v) => ValueOK(h2, v)
         /\ \A s : ValuesOK(h, s) => ValuesOK(h2, s)
         /\ \A o : OpenOK(h, o) => OpenOK(h2, o)
         /\ \A a \in Places(h) : a \in Nat
<1>1. OpenCells(h2) = OpenCells(h)
  BY DEF Like, OpenCells
<1>2. Places(h2) = Places(h)
  BY <1>1 DEF Like, Places, OpenCells
<1>3. \A v : ValueOK(h, v) => ValueOK(h2, v)
  BY DEF Like, ValueOK
<1>4. \A s : ValuesOK(h, s) => ValuesOK(h2, s)
  BY <1>3, SameValues
<1>5. \A o : OpenOK(h, o) => OpenOK(h2, o)
  <2> SUFFICES ASSUME NEW o, OpenOK(h, o)  PROVE OpenOK(h2, o)
    OBVIOUS
  <2>1. \A i \in DOMAIN o : o[i] \in DOMAIN h.cells
    BY DEF OpenOK, Range, OpenCells
  <2> QED  BY <1>1, <2>1 DEF OpenOK, Like
<1>6. \A a \in Places(h) : a \in Nat
  BY DEF Places, OpenCells, HeapOK, CellOK
<1> QED  BY <1>1, <1>2, <1>3, <1>4, <1>5, <1>6

\* A heap is like itself.
LEMMA LikeItself ==
  ASSUME NEW c, NEW h, HeapOK(c, h)
  PROVE  Like(c, h, h)
BY DEF Like

\* An instruction that leaves a fixed number of registers goes on to one that may follow.
LEMMA Stays ==
  ASSUME NEW c, NEW f, NEW g, NEW s, NEW o, Runs(c, f, g, s, o), NEW n, n = NoteNow(c, s, g),
         NEW p, p = ProtoNow(c, s, g), NEW op, op = Operation,
         FromAfter(op) = Fixed, NEW j \in Follow(op, g.pc + 1),
         NEW h2, NEW s2, NEW o2, HeapOK(c, h2), ValuesOK(h2, s2), OpenOK(h2, o2),
         Over(heap, s, h2, s2, g.base), Len(s2) = g.base + g.size,
         \A a \in Places(h2) :
           a < g.bottom \/ a - g.base \in StaysOpen(op, n.open) \cup Captures(c.protos, p, op),
         NEW g2, g2 = [is |-> "lua", bottom |-> g.bottom, base |-> g.base, size |-> g.size,
                       variable |-> FALSE, pc |-> j - 1, ret |-> <<>>]
  PROVE  Good(c, Top(f, g2, s2, o2), h2)
<1> DEFINE m == NotesAt(c, heap, s, g)[j]
<1>1. /\ j \in DOMAIN NotesAt(c, heap, s, g) /\ Leads(c.protos, p, op, n, m)
      /\ j \in Nat /\ j - 1 \in Nat
  BY InstructionFacts
<1>2. m.from = Fixed /\ StaysOpen(op, n.open) \cup Captures(c.protos, p, op) \subseteq m.open
  BY <1>1 DEF Leads
<1>3. /\ HeapOK(c, heap) /\ IsSeq(f) /\ AllWait(c, heap, s, f, g.bottom)
      /\ FrameOK(c, heap, s, g)
  BY DEF Runs, RunningOK
<1>4. g2 = [is |-> "lua", bottom |-> g.bottom, base |-> g.base, size |-> g.size,
            variable |-> m.from # Fixed, pc |-> j - 1, ret |-> <<>>]
  BY <1>2
<1>5. \A a \in Places(h2) : a < g.bottom \/ a - g.base \in m.open
  BY <1>2
<1>6. IF m.from = Fixed THEN Len(s2) = g.base + g.size ELSE g.base + m.from <= Len(s2)
  BY <1>2
<1> QED  BY <1>1, <1>3, <1>4, <1>5, <1>6, GoesOn

\* An instruction that takes and leaves no variable number of values, to one that may follow.
Plain(op) == Takes(op) # Variable /\ FromAfter(op) = Fixed /\ op.op # "Jump"

\* The frame after a plain instruction: only its pc is another.
LEMMA StepsByShape ==
  ASSUME NEW c, NEW f, NEW g, NEW s, NEW o, Runs(c, f, g, s, o), NEW op, op = Operation, Plain(op),
         NEW k \in Int, g.pc + 1 + k \in Follow(op, g.pc + 1)
  PROVE  /\ By(g, k) = [is |-> "lua", bottom |-> g.bottom, base |-> g.base, size |-> g.size,
                        variable |-> FALSE, pc |-> (g.pc + 1 + k) - 1, ret |-> <<>>]
         /\ Len(s) = g.base + g.size
<1>1. IsLua(g) /\ g.ret = <<>>
  BY RunFacts DEF Runs, RunningOK
<1> DEFINE n == NoteNow(c, s, g)
<1>4. /\ g.variable = (n.from # Fixed) /\ (n.from # Fixed <=> Takes(op) = Variable)
      /\ n.from = Fixed => Len(s) = g.base + g.size
  BY InstructionFacts
<1> HIDE DEF n
<1>5. n.from = Fixed
  BY <1>4 DEF Plain
<1>2. g.variable = FALSE /\ Len(s) = g.base + g.size
  BY <1>4, <1>5, Zenon
<1>3. g.pc + k = (g.pc + 1 + k) - 1
  BY <1>1 DEF IsLua
<1>6. By(g, k) = [is |-> "lua", bottom |-> g.bottom, base |-> g.base, size |-> g.size,
                   variable |-> g.variable, pc |-> g.pc + k, ret |-> g.ret]
  BY <1>1 DEF By, IsLua
<1> HIDE DEF Plain
<1> QED  BY <1>1, <1>2, <1>3, <1>6, Zenon

\* A plain instruction that changes registers and the heap leaves a good thread.
LEMMA Steps ==
  ASSUME NEW c, NEW f, NEW g, NEW s, NEW o, Runs(c, f, g, s, o), NEW op, op = Operation, Plain(op),
         NEW k \in Int, g.pc + 1 + k \in Follow(op, g.pc + 1),
         NEW h2, Like(c, heap, h2), NEW s2, ValuesOK(h2, s2), Len(s2) = Len(s),
         \A i \in 1 .. g.base : s2[i] = s[i] \/ i - 1 \in Places(heap)
  PROVE  Good(c, Top(f, By(g, k), s2, o), h2)
<1> DEFINE n == NoteNow(c, s, g)
           p == ProtoNow(c, s, g)
           j == g.pc + 1 + k
<1> HIDE DEF n, p, j
<1>1. /\ By(g, k) = [is |-> "lua", bottom |-> g.bottom, base |-> g.base, size |-> g.size,
                        variable |-> FALSE, pc |-> j - 1, ret |-> <<>>]
      /\ Len(s) = g.base + g.size
  BY StepsByShape DEF j
<1>2. /\ \A a \in Places(heap) : a < g.bottom \/ a - g.base \in n.open
      /\ g.base \in Nat /\ g.base <= Len(s)
  BY InstructionFacts DEF n, p
<1>3. StaysOpen(op, n.open) = n.open
  BY DEF StaysOpen, Plain
<1>4. HeapOK(c, heap) /\ OpenOK(heap, o)
  BY DEF Runs
<1>5. /\ Places(h2) = Places(heap) /\ OpenOK(h2, o) /\ HeapOK(c, h2)
      /\ \A a \in Places(heap) : a \in Nat
  BY <1>4, LikeFacts DEF Like
<1>6. Over(heap, s, h2, s2, g.base)
  BY <1>2, <1>5 DEF Over, Like
<1>7. \A a \in Places(h2) :
         a < g.bottom \/ a - g.base \in StaysOpen(op, n.open) \cup Captures(c.protos, p, op)
  BY <1>2, <1>3, <1>5
<1>8. FromAfter(op) = Fixed /\ Len(s2) = g.base + g.size /\ j \in Follow(op, g.pc + 1)
  BY <1>1 DEF Plain, j
<1>9. n = NoteNow(c, s, g) /\ p = ProtoNow(c, s, g)
  BY DEF n, p
<1> HIDE DEF Plain
<1> QED  BY <1>1, <1>5, <1>6, <1>7, <1>8, <1>9, Stays

\* One that changes neither does.
LEMMA JustSteps ==
  ASSUME NEW c, NEW f, NEW g, NEW s, NEW o, Runs(c, f, g, s, o), NEW op, op = Operation, Plain(op),
         NEW k \in Int, g.pc + 1 + k \in Follow(op, g.pc + 1)
  PROVE  Good(c, Top(f, By(g, k), s, o), heap)
<1>1. ValuesOK(heap, s) /\ Like(c, heap, heap)
  BY LikeItself DEF Runs
<1> QED  BY <1>1, Steps

\* One that sets a register does.
LEMMA StepsSetting ==
  ASSUME NEW c, NEW f, NEW g, NEW s, NEW o, Runs(c, f, g, s, o), NEW op, op = Operation, Plain(op),
         NEW k \in Int, g.pc + 1 + k \in Follow(op, g.pc + 1),
         NEW r \in Nat, NEW v, NEW h2, Like(c, heap, h2), ValueOK(h2, v)
  PROVE  Good(c, Top(f, By(g, k), Put(s, g.base + r + 1, v), o), h2)
<1> DEFINE s2 == Put(s, g.base + r + 1, v)
<1>1. ValuesOK(h2, s)
  BY LikeFacts DEF Runs
<1>2. IsChange(h2, s2, s, g.base + r + 1, v)
  BY <1>1, ChangedValues DEF Put
<1> HIDE DEF s2
<1>3. g.base \in Nat /\ g.base <= Len(s) /\ Len(s) \in Nat
  BY InstructionFacts
<1>4. ValuesOK(h2, s2) /\ Len(s2) = Len(s)
  BY <1>2 DEF IsChange
<1>5. \A i \in 1 .. g.base : s2[i] = s[i]
  BY <1>2, <1>3 DEF IsChange
<1>6. Good(c, Top(f, By(g, k), s2, o), h2)
  BY <1>4, <1>5, Steps
<1> QED  BY <1>6 DEF s2

\* What is kept.
Keeps(c) ==
  Good(c, th', heap') /\ status' \notin {"fault", "uncompiled"} /\ pgm' = pgm /\ code' = code

\* An instruction that goes on to a good thread keeps what is kept.
LEMMA GoesKeeps ==
  ASSUME NEW c, NEW t, NEW h, Goes(t, h), status = "running", Good(c, t, h)
  PROVE  Keeps(c)
BY DEF Goes, Keeps

\* So does one that ends with a Lua error.
LEMMA EndsKeeps ==
  ASSUME NEW c, NEW e, Ends(e), Good(c, th, heap), e \notin {"fault", "uncompiled"}
  PROVE  Keeps(c)
BY DEF Ends, Keeps

\* A thread that runs an instruction is a good one.
LEMMA RunsGood ==
  ASSUME NEW c, NEW f, NEW g, NEW s, NEW o, Runs(c, f, g, s, o)
  PROVE  Good(c, th, heap)
<1>1. MemoryOK(c, Thread(f, s, o), heap)
  BY ThreadFields DEF Runs, MemoryOK
<1>2. AllWait(c, heap, s, f, g.bottom) /\ TopOK(c, heap, s, g) /\ th = Thread(Append(f, g), s, o)
  BY DEF Runs, TopOK, Top
<1> QED  BY <1>1, <1>2, Topped

Step(c, f, g, s, o, op) == Runs(c, f, g, s, o) /\ op = Operation /\ status = "running"

\* What each instruction may use of the thread it starts from.
LEMMA StepFacts ==
  ASSUME NEW c, NEW f, NEW g, NEW s, NEW o, NEW op, Step(c, f, g, s, o, op)
  PROVE  /\ Runs(c, f, g, s, o) /\ op = Operation /\ status = "running" /\ IsSeq(f) /\ IsLua(g)
         /\ HeapOK(c, heap) /\ ValuesOK(heap, s) /\ Good(c, th, heap)
         /\ th = Top(f, g, s, o) /\ th.stack = s /\ Frame = g
         /\ g.base \in Nat /\ g.base <= Len(s) /\ Len(s) \in Nat /\ g.pc \in Nat /\ g.bottom \in Nat /\ g.bottom < g.base
         /\ Counts(op) \subseteq Nat /\ Jumps(op) \subseteq Int
         /\ OfConstants(op) \subseteq DOMAIN Proto.consts
         /\ OfUpValues(op) \subseteq DOMAIN Proto.ups
         /\ Ahead = Top(f, By(g, 1), s, o)
         /\ \A r : Reg(r) = s[g.base + r + 1]
<1>1. /\ Runs(c, f, g, s, o) /\ op = Operation /\ status = "running" /\ IsSeq(f)
      /\ HeapOK(c, heap) /\ ValuesOK(heap, s) /\ th = Top(f, g, s, o)
  BY DEF Step, Runs
<1>2. /\ Frame = g /\ Proto = ProtoNow(c, s, g) /\ IsLua(g) /\ Ahead = Top(f, By(g, 1), s, o)
      /\ \A r : Reg(r) = s[g.base + r + 1]
  BY <1>1, RunFacts
<1>3. Good(c, th, heap)
  BY <1>1, RunsGood
<1> DEFINE n == NoteNow(c, s, g)
           p == ProtoNow(c, s, g)
<1>4. /\ g.base \in Nat /\ g.base <= Len(s) /\ Len(s) \in Nat /\ g.pc \in Nat /\ g.bottom \in Nat /\ g.bottom < g.base
      /\ Counts(op) \subseteq Nat /\ Jumps(op) \subseteq Int
      /\ OfConstants(op) \subseteq DOMAIN p.consts
      /\ OfUpValues(op) \subseteq DOMAIN p.ups
  BY <1>1, InstructionFacts
<1>5. th.stack = s
  BY <1>1, ThreadFields DEF Top
<1> QED  BY <1>1, <1>2, <1>3, <1>4, <1>5

\* A register it touches, and a constant it names.
LEMMA Touched ==
  ASSUME NEW c, NEW f, NEW g, NEW s, NEW o, NEW op, Step(c, f, g, s, o, op), NEW r \in Touches(op)
  PROVE  r \in Nat /\ g.base + r + 1 \in 1 .. Len(s) /\ ValueOK(heap, Reg(r)) /\ r < g.size
<1> DEFINE n == NoteNow(c, s, g)
           p == ProtoNow(c, s, g)
<1>1. Runs(c, f, g, s, o) /\ op = Operation /\ ValuesOK(heap, s) /\ Reg(r) = s[g.base + r + 1]
  BY StepFacts
<1>2. /\ Touches(op) \subseteq 0 .. Room(p, n) - 1 /\ Room(p, n) \in Nat /\ g.base + Room(p, n) <= Len(s)
      /\ g.base \in Nat /\ Len(s) \in Nat /\ Room(p, n) <= g.size /\ p.size \in Nat /\ g.size = p.size
  BY <1>1, InstructionFacts
<1>3. r \in Nat /\ r < g.size /\ g.base + r + 1 \in 1 .. Len(s)
  BY <1>2, SMTT(30)
<1> QED  BY <1>1, <1>3, Lengths

\* A constant that is named is a value.
LEMMA ConstantOK ==
  ASSUME NEW c, NEW f, NEW g, NEW s, NEW o, NEW op, Step(c, f, g, s, o, op), NEW k \in OfConstants(op)
  PROVE  ValueOK(heap, Proto.consts[k])
<1>1. Runs(c, f, g, s, o) /\ k \in DOMAIN Proto.consts
  BY StepFacts
<1>2. SoundPrototype(c.protos, Proto, NotesAt(c, heap, s, g))
  BY <1>1, RunFacts
<1>3. Proto.consts[k][1] \in {"nil", "bool", "int", "str"}
  BY <1>1, <1>2 DEF SoundPrototype
<1> QED  BY <1>3 DEF ValueOK

\* A register or a constant that is named holds a value.
LEMMA EitherOK ==
  ASSUME NEW c, NEW f, NEW g, NEW s, NEW o, NEW op, Step(c, f, g, s, o, op), NEW e,
         OfEither(e) \subseteq Touches(op), e[1] # "r" => e[2] \in OfConstants(op)
  PROVE  ValueOK(heap, Rc(e))
<1>1. CASE e[1] = "r"
  BY <1>1, Touched DEF OfEither, Rc
<1>2. CASE e[1] # "r"
  BY <1>2, ConstantOK DEF Rc
<1> QED  BY <1>1, <1>2

\* A register is set and the next instruction follows.
LEMMA SetsKeeps ==
  ASSUME NEW c, NEW f, NEW g, NEW s, NEW o, NEW op, Step(c, f, g, s, o, op), Plain(op),
         g.pc + 1 + 1 \in Follow(op, g.pc + 1), NEW r \in Nat, NEW v, ValueOK(heap, v), Sets(r, v)
  PROVE  Keeps(c)
<1>1. Runs(c, f, g, s, o) /\ op = Operation /\ status = "running" /\ IsSeq(f) /\ IsLua(g)
      /\ Ahead = Top(f, By(g, 1), s, o) /\ Like(c, heap, heap)
  BY StepFacts, LikeItself
<1> DEFINE t == Top(f, By(g, 1), Put(s, g.base + r + 1, v), o)
<1>2. SetReg(Ahead, r, v) = t
  <2>1. 1 \in Int
    OBVIOUS
  <2>2. SetReg(Top(f, By(g, 1), s, o), r, v) = t
    BY <2>1, <1>1, RewritesBy
  <2> HIDE DEF t
  <2> QED  BY <2>2, <1>1
<1>3. Good(c, t, heap)
  BY <1>1, StepsSetting
<1> HIDE DEF t
<1>4. Goes(t, heap)
  BY <1>2 DEF Sets
<1> QED  BY <1>1, <1>3, <1>4, GoesKeeps

\* OpCode::Move.
LEMMA MoveKeeps ==
  ASSUME NEW c, NEW f, NEW g, NEW s, NEW o, NEW op, Step(c, f, g, s, o, op), Move(op)
  PROVE  Keeps(c)
<1>1. op.op = "Move" /\ Sets(op.dest, Reg(op.source))
  BY DEF Move
<1>2. Plain(op) /\ g.pc + 1 + 1 \in Follow(op, g.pc + 1) /\ op.dest \in Touches(op) /\ op.source \in Touches(op)
  BY <1>1 DEF Plain, Takes, Variable, FromAfter, Follow, Touches
<1>3. op.dest \in Nat /\ ValueOK(heap, Reg(op.source))
  BY <1>2, Touched
<1> QED  BY <1>1, <1>2, <1>3, SetsKeeps

\* OpCode::LoadConstant.
LEMMA LoadConstantKeeps ==
  ASSUME NEW c, NEW f, NEW g, NEW s, NEW o, NEW op, Step(c, f, g, s, o, op), LoadConstant(op)
  PROVE  Keeps(c)
<1>1. op.op = "LoadConstant" /\ Sets(op.dest, Proto.consts[op.constant])
  BY DEF LoadConstant
<1>2. Plain(op) /\ g.pc + 1 + 1 \in Follow(op, g.pc + 1) /\ op.dest \in Touches(op)
      /\ op.constant \in OfConstants(op)
  BY <1>1 DEF Plain, Takes, Variable, FromAfter, Follow, Touches, OfConstants
<1>3. op.dest \in Nat /\ ValueOK(heap, Proto.consts[op.constant])
  BY <1>2, Touched, ConstantOK
<1> QED  BY <1>1, <1>2, <1>3, SetsKeeps

\* OpCode::Not.
LEMMA NotKeeps ==
  ASSUME NEW c, NEW f, NEW g, NEW s, NEW o, NEW op, Step(c, f, g, s, o, op), Not(op)
  PROVE  Keeps(c)
<1> DEFINE v == <<"bool", ~IsTrue(Reg(op.source))>>
<1>1. op.op = "Not" /\ Sets(op.dest, v)
  BY DEF Not
<1>2. Plain(op) /\ g.pc + 1 + 1 \in Follow(op, g.pc + 1) /\ op.dest \in Touches(op)
  BY <1>1 DEF Plain, Takes, Variable, FromAfter, Follow, Touches
<1>3. v[1] = "bool"
  OBVIOUS
<1> HIDE DEF v
<1>4. op.dest \in Nat /\ ValueOK(heap, v)
  BY <1>2, <1>3, Touched DEF ValueOK
<1> QED  BY <1>1, <1>2, <1>4, SetsKeeps

\* OpCode::Minus.
LEMMA MinusKeeps ==
  ASSUME NEW c, NEW f, NEW g, NEW s, NEW o, NEW op, Step(c, f, g, s, o, op), Minus(op)
  PROVE  Keeps(c)
<1> DEFINE v == <<"int", -Reg(op.source)[2]>>
<1>1. op.op = "Minus" /\ (Ends("error") \/ Sets(op.dest, v))
  BY DEF Minus
<1>2. Plain(op) /\ g.pc + 1 + 1 \in Follow(op, g.pc + 1) /\ op.dest \in Touches(op)
  BY <1>1 DEF Plain, Takes, Variable, FromAfter, Follow, Touches
<1>3. v[1] = "int"
  OBVIOUS
<1> HIDE DEF v
<1>4. op.dest \in Nat /\ ValueOK(heap, v) /\ Good(c, th, heap)
  BY <1>2, <1>3, Touched, StepFacts DEF ValueOK
<1> QED  BY <1>1, <1>2, <1>4, SetsKeeps, EndsKeeps

\* OpCode::Add, Sub and Mul.
LEMMA ArithmeticKeeps ==
  ASSUME NEW c, NEW f, NEW g, NEW s, NEW o, NEW op, Step(c, f, g, s, o, op), Arithmetic(op)
  PROVE  Keeps(c)
<1> DEFINE sign == CASE op.op = "Add" -> "+" [] op.op = "Sub" -> "-" [] op.op = "Mul" -> "*"
           v == <<"int", ArithmeticOf(sign, Rc(op.left)[2], Rc(op.right)[2])>>
<1>1. op.op \in {"Add", "Sub", "Mul"} /\ (Ends("error") \/ Sets(op.dest, v))
  BY DEF Arithmetic
<1>2. Plain(op) /\ g.pc + 1 + 1 \in Follow(op, g.pc + 1) /\ op.dest \in Touches(op)
  BY <1>1 DEF Plain, Takes, Variable, FromAfter, Follow, Touches
<1>3. v[1] = "int"
  OBVIOUS
<1> HIDE DEF v
<1>4. op.dest \in Nat /\ ValueOK(heap, v) /\ Good(c, th, heap)
  BY <1>2, <1>3, Touched, StepFacts DEF ValueOK
<1> QED  BY <1>1, <1>2, <1>4, SetsKeeps, EndsKeeps

\* OpCode::Concat.
LEMMA ConcatKeeps ==
  ASSUME NEW c, NEW f, NEW g, NEW s, NEW o, NEW op, Step(c, f, g, s, o, op), Concat(op)
  PROVE  Keeps(c)
<1>1. op.op = "Concat" /\ (Ends("error") \/ \E x : Sets(op.dest, <<"str", x>>))
  BY Zenon DEF Concat
<1>2. Plain(op) /\ g.pc + 1 + 1 \in Follow(op, g.pc + 1) /\ op.dest \in Touches(op)
  BY <1>1 DEF Plain, Takes, Variable, FromAfter, Follow, Touches
<1>3. op.dest \in Nat /\ Good(c, th, heap)
  BY <1>2, Touched, StepFacts
<1>4. ASSUME NEW x, Sets(op.dest, <<"str", x>>)  PROVE Keeps(c)
  <2> DEFINE v == <<"str", x>>
  <2>1. v[1] = "str" /\ Sets(op.dest, v)
    BY <1>4
  <2> HIDE DEF v
  <2>2. ValueOK(heap, v)
    BY <2>1 DEF ValueOK
  <2> QED  BY <1>2, <1>3, <2>1, <2>2, SetsKeeps
<1> QED  BY <1>1, <1>3, <1>4, EndsKeeps

\* A plain instruction that skips to another that may follow.
LEMMA GoesBy ==
  ASSUME NEW c, NEW f, NEW g, NEW s, NEW o, NEW op, Step(c, f, g, s, o, op), Plain(op),
         NEW k \in Int, g.pc + 1 + k \in Follow(op, g.pc + 1), NEW t, Goes(t, heap),
         t = Top(f, By(g, k), s, o)
  PROVE  Keeps(c)
<1>1. Good(c, t, heap)
  BY StepFacts, JustSteps
<1> QED  BY <1>1, StepFacts, GoesKeeps

\* A plain instruction that sets a register and skips to another that may follow.
LEMMA GoesSetting ==
  ASSUME NEW c, NEW f, NEW g, NEW s, NEW o, NEW op, Step(c, f, g, s, o, op), Plain(op),
         NEW k \in Int, g.pc + 1 + k \in Follow(op, g.pc + 1), NEW t,
         NEW r \in Nat, NEW v, NEW h2, Like(c, heap, h2), ValueOK(h2, v),
         t = Top(f, By(g, k), Put(s, g.base + r + 1, v), o), Goes(t, h2)
  PROVE  Keeps(c)
<1>1. Good(c, t, h2)
  BY StepFacts, StepsSetting
<1> QED  BY <1>1, StepFacts, GoesKeeps

\* What an instruction makes of the thread whose pc is already after it.
LEMMA AheadBy ==
  ASSUME NEW c, NEW f, NEW g, NEW s, NEW o, NEW op, Step(c, f, g, s, o, op)
  PROVE  /\ Ahead = Top(f, By(g, 1), s, o)
         /\ \A k \in Int : Skip(Ahead, k) = Top(f, By(g, 1 + k), s, o)
         /\ \A r, v : SetReg(Ahead, r, v) = Top(f, By(g, 1), Put(s, g.base + r + 1, v), o)
         /\ \A r, v : \A k \in Int :
              Skip(SetReg(Ahead, r, v), k) = Top(f, By(g, 1 + k), Put(s, g.base + r + 1, v), o)
         /\ \A x : WithStack(Ahead, x) = Top(f, By(g, 1), x, o)
<1>1. IsSeq(f) /\ IsLua(g) /\ Ahead = Top(f, By(g, 1), s, o) /\ 1 \in Int
  BY StepFacts
<1>2. /\ \A x : WithStack(Ahead, x) = Top(f, By(g, 1), x, o)
      /\ \A k \in Int : Skip(Ahead, k) = Top(f, By(g, 1 + k), s, o)
      /\ \A r, v : SetReg(Ahead, r, v) = Top(f, By(g, 1), Put(s, g.base + r + 1, v), o)
  BY <1>1, RewritesBy
<1>3. \A r, v : \A k \in Int :
        Skip(Top(f, By(g, 1), Put(s, g.base + r + 1, v), o), k)
        = Top(f, By(g, 1 + k), Put(s, g.base + r + 1, v), o)
  BY <1>1, RewritesBy
<1> QED  BY <1>1, <1>2, <1>3, Zenon

\* OpCode::LoadBool.
LEMMA LoadBooleanKeeps ==
  ASSUME NEW c, NEW f, NEW g, NEW s, NEW o, NEW op, Step(c, f, g, s, o, op), LoadBoolean(op)
  PROVE  Keeps(c)
<1> DEFINE v == <<"bool", op.value>>
           k == IF op.skip_next THEN 1 ELSE 0
<1>1. op.op = "LoadBool" /\ Goes(Skip(SetReg(Ahead, op.dest, v), k), heap)
  BY DEF LoadBoolean
<1>2. Plain(op) /\ g.pc + 1 + (1 + k) \in Follow(op, g.pc + 1) /\ op.dest \in Touches(op) /\ k \in Int
  BY <1>1, StepFacts DEF Plain, Takes, Variable, FromAfter, Follow, Touches
<1>3. v[1] = "bool"
  OBVIOUS
<1> HIDE DEF v, k
<1>4. op.dest \in Nat /\ ValueOK(heap, v) /\ Like(c, heap, heap)
  BY <1>2, <1>3, Touched, StepFacts, LikeItself DEF ValueOK
<1>5. Skip(SetReg(Ahead, op.dest, v), k) = Top(f, By(g, 1 + k), Put(s, g.base + op.dest + 1, v), o)
  BY <1>2, AheadBy
<1>6. 1 + k \in Int
  BY <1>2
<1> QED  BY <1>1, <1>2, <1>4, <1>5, <1>6, GoesSetting

\* OpCode::LoadNil.
LEMMA LoadNilsKeeps ==
  ASSUME NEW c, NEW f, NEW g, NEW s, NEW o, NEW op, Step(c, f, g, s, o, op), LoadNils(op)
  PROVE  Keeps(c)
<1> DEFINE nils == Frame.base + op.dest + 1 .. Frame.base + op.dest + op.count
           s2 == [i \in DOMAIN th.stack |-> IF i \in nils THEN NilValue ELSE th.stack[i]]
<1>1. op.op = "LoadNil" /\ Goes(WithStack(Ahead, s2), heap)
  BY DEF LoadNils
<1>2. Plain(op) /\ g.pc + 1 + 1 \in Follow(op, g.pc + 1) /\ Counts(op) = {op.dest, op.count}
  BY <1>1 DEF Plain, Takes, Variable, FromAfter, Follow, Counts
<1>3. /\ op.dest \in Nat /\ op.count \in Nat /\ th.stack = s /\ Frame = g
      /\ g.base \in Nat /\ Len(s) \in Nat /\ g.base <= Len(s) /\ ValuesOK(heap, s) /\ HeapOK(c, heap)
      /\ Runs(c, f, g, s, o) /\ op = Operation /\ status = "running"
  BY <1>2, StepFacts
<1>4. DOMAIN s = 1 .. Len(s)
  BY <1>3, Lengths, SeqFacts
<1>5. s2 = [i \in 1 .. Len(s) |-> IF i \in nils THEN NilValue ELSE s[i]]
  BY <1>3, <1>4
<1>6. \A i \in nils : i > g.base
  BY <1>3
<1> HIDE DEF nils, s2
<1>7. IsSeq(s2) /\ Len(s2) = Len(s)
  <2>1. s2 \in [1 .. Len(s) -> Range(s2)]
    BY <1>5, Zenon DEF Range
  <2> QED  BY <2>1, <1>3, OfFunction
<1>8. ValuesOK(heap, s2)
  BY <1>3, <1>5, <1>7, NilOK DEF ValuesOK
<1>9. \A i \in 1 .. g.base : s2[i] = s[i]
  BY <1>3, <1>5, <1>6
<1>10. Good(c, Top(f, By(g, 1), s2, o), heap)
  BY <1>2, <1>3, <1>7, <1>8, <1>9, Steps, LikeItself
<1>11. WithStack(Ahead, s2) = Top(f, By(g, 1), s2, o)
  BY AheadBy
<1> QED  BY <1>1, <1>3, <1>10, <1>11, GoesKeeps

\* A heap with one more table is like the one before.
LEMMA NewTableLike ==
  ASSUME NEW c, NEW h, HeapOK(c, h)
  PROVE  LET h2 == [h EXCEPT !.tables = Append(@, EmptyTable)]
         IN  Like(c, h, h2) /\ ValueOK(h2, <<"table", Len(h.tables) + 1>>)
<1> DEFINE ts == Append(h.tables, EmptyTable)
           h2 == [h EXCEPT !.tables = Append(@, EmptyTable)]
<1>1. h2 = Heap(h.cells, h.closures, ts)
  BY SMTT(30) DEF HeapOK, Heap
<1>2. IsAppend(ts, h.tables, EmptyTable) /\ Len(h.tables) \in Nat /\ DOMAIN h.tables = 1 .. Len(h.tables)
  BY Appended, SeqFacts DEF HeapOK
<1>3. /\ EmptyTable = [map |-> EmptyTable.map, meta |-> EmptyTable.meta]
      /\ EmptyTable.meta = NilValue /\ DOMAIN EmptyTable.map = {}
  BY DEF EmptyTable
<1> HIDE DEF ts, h2
<1>4. h2.cells = h.cells /\ h2.closures = h.closures /\ h2.tables = ts
  BY <1>1 DEF Heap
<1>5. /\ DOMAIN ts = 1 .. Len(h.tables) + 1 /\ IsSeq(ts) /\ ts[Len(h.tables) + 1] = EmptyTable
      /\ \A k \in 1 .. Len(h.tables) : ts[k] = h.tables[k]
  BY <1>2 DEF IsAppend
<1>6. \A v : ValueOK(h, v) => ValueOK(h2, v)
  BY <1>2, <1>4, <1>5 DEF ValueOK
<1>7. \A k \in DOMAIN h2.tables : TableOK(h2, h2.tables[k])
  <2> TAKE k \in DOMAIN h2.tables
  <2>1. CASE k = Len(h.tables) + 1
    <3>1. h2.tables[k] = EmptyTable
      BY <2>1, <1>4, <1>5
    <3>2. TableOK(h2, EmptyTable)
      BY DEF TableOK, EmptyTable
    <3> QED  BY <3>1, <3>2
  <2>2. CASE k \in 1 .. Len(h.tables)
    <3>1. TableOK(h, h.tables[k])
      BY <2>2, <1>2 DEF HeapOK
    <3>2. TableOK(h2, h.tables[k])
      BY <3>1, <1>2, <1>4, <1>5, <1>6 DEF TableOK
    <3> QED  BY <3>2, <2>2, <1>4, <1>5
  <2> QED  BY <2>1, <2>2, <1>2, <1>4, <1>5
<1>8. \A u \in DOMAIN h2.cells : CellOK(h2, h2.cells[u])
  BY <1>4, <1>6 DEF HeapOK, CellOK
<1>9. \A k \in DOMAIN h2.closures : ClosureOK(c, h2, h2.closures[k])
  BY <1>4 DEF HeapOK, ClosureOK
<1>10. HeapOK(c, h2)
  <2>1. h2 = Heap(h2.cells, h2.closures, h2.tables)
    BY <1>1, <1>4
  <2>2. IsSeq(h2.cells) /\ IsSeq(h2.closures) /\ IsSeq(h2.tables)
    BY <1>4, <1>5 DEF HeapOK
  <2> QED  BY <2>1, <2>2, <1>7, <1>8, <1>9 DEF HeapOK
<1>11. Like(c, h, h2)
  BY <1>2, <1>4, <1>5, <1>10 DEF Like
<1> DEFINE v == <<"table", Len(h.tables) + 1>>
<1>12. v[1] = "table" /\ v[2] = Len(h.tables) + 1
  OBVIOUS
<1> HIDE DEF v
<1>13. ValueOK(h2, v)
  BY <1>2, <1>4, <1>5, <1>12 DEF ValueOK
<1> QED  BY <1>11, <1>13 DEF h2, v

\* OpCode::NewTable.
LEMMA NewTableKeeps ==
  ASSUME NEW c, NEW f, NEW g, NEW s, NEW o, NEW op, Step(c, f, g, s, o, op), NewTable(op)
  PROVE  Keeps(c)
<1> DEFINE v == <<"table", Len(heap.tables) + 1>>
           h2 == [heap EXCEPT !.tables = Append(@, EmptyTable)]
<1>1. op.op = "NewTable" /\ Goes(SetReg(Ahead, op.dest, v), h2)
  BY DEF NewTable
<1>2. Plain(op) /\ g.pc + 1 + 1 \in Follow(op, g.pc + 1) /\ op.dest \in Touches(op)
  BY <1>1 DEF Plain, Takes, Variable, FromAfter, Follow, Touches
<1>3. Like(c, heap, h2) /\ ValueOK(h2, v) /\ op.dest \in Nat
  BY <1>2, NewTableLike, StepFacts, Touched
<1> HIDE DEF v, h2
<1>4. SetReg(Ahead, op.dest, v) = Top(f, By(g, 1), Put(s, g.base + op.dest + 1, v), o)
  BY AheadBy
<1> QED  BY <1>1, <1>2, <1>3, <1>4, GoesSetting

\* OpCode::Test.
LEMMA TestKeeps ==
  ASSUME NEW c, NEW f, NEW g, NEW s, NEW o, NEW op, Step(c, f, g, s, o, op), TestInstruction(op)
  PROVE  Keeps(c)
<1>1. op.op = "Test" /\ (Goes(Skip(Ahead, 1), heap) \/ Goes(Ahead, heap))
  BY DEF TestInstruction
<1>2. Plain(op) /\ g.pc + 1 + 1 \in Follow(op, g.pc + 1) /\ g.pc + 1 + (1 + 1) \in Follow(op, g.pc + 1)
  BY <1>1, StepFacts DEF Plain, Takes, Variable, FromAfter, Follow
<1>3. Ahead = Top(f, By(g, 1), s, o) /\ Skip(Ahead, 1) = Top(f, By(g, 1 + 1), s, o)
  BY AheadBy
<1>4. 1 \in Int /\ 1 + 1 \in Int
  OBVIOUS
<1> QED  BY <1>1, <1>2, <1>3, <1>4, GoesBy

\* OpCode::TestSet.
LEMMA TestSetKeeps ==
  ASSUME NEW c, NEW f, NEW g, NEW s, NEW o, NEW op, Step(c, f, g, s, o, op), TestSet(op)
  PROVE  Keeps(c)
<1> DEFINE v == Reg(op.value)
<1>1. op.op = "TestSet" /\ (Goes(Skip(Ahead, 1), heap) \/ Goes(SetReg(Ahead, op.dest, v), heap))
  BY DEF TestSet
<1>2. /\ Plain(op) /\ g.pc + 1 + 1 \in Follow(op, g.pc + 1) /\ g.pc + 1 + (1 + 1) \in Follow(op, g.pc + 1)
      /\ op.dest \in Touches(op) /\ op.value \in Touches(op)
  BY <1>1, StepFacts DEF Plain, Takes, Variable, FromAfter, Follow, Touches
<1>3. op.dest \in Nat /\ ValueOK(heap, v) /\ Like(c, heap, heap)
  BY <1>2, Touched, StepFacts, LikeItself
<1> HIDE DEF v
<1>4. /\ Skip(Ahead, 1) = Top(f, By(g, 1 + 1), s, o)
      /\ SetReg(Ahead, op.dest, v) = Top(f, By(g, 1), Put(s, g.base + op.dest + 1, v), o)
  BY AheadBy
<1>5. 1 \in Int /\ 1 + 1 \in Int
  OBVIOUS
<1>6. CASE Goes(Skip(Ahead, 1), heap)
  BY <1>6, <1>2, <1>4, <1>5, GoesBy
<1>7. CASE Goes(SetReg(Ahead, op.dest, v), heap)
  BY <1>7, <1>2, <1>3, <1>4, <1>5, GoesSetting
<1> QED  BY <1>1, <1>6, <1>7

\* OpCode::NumericForPrep.
LEMMA NumericForPrepKeeps ==
  ASSUME NEW c, NEW f, NEW g, NEW s, NEW o, NEW op, Step(c, f, g, s, o, op), NumericForPrep(op)
  PROVE  Keeps(c)
<1> DEFINE v == <<"int", Reg(op.base)[2] - Reg(op.base + 2)[2]>>
<1>1. op.op = "NumericForPrep" /\ (Ends("error") \/ Goes(Skip(SetReg(Ahead, op.base, v), op.jump), heap))
  BY DEF NumericForPrep
<1>2. /\ Plain(op) /\ Follow(op, g.pc + 1) = {g.pc + 1 + 1 + op.jump}
      /\ Counts(op) = {op.base} /\ Jumps(op) = {op.jump}
  BY <1>1, StepFacts DEF Plain, Takes, Variable, FromAfter, Follow, Counts, Jumps
<1>3. v[1] = "int"
  OBVIOUS
<1> HIDE DEF v
<1>4. op.base \in Nat /\ op.jump \in Int /\ ValueOK(heap, v) /\ Like(c, heap, heap) /\ Good(c, th, heap) /\ g.pc \in Nat
  BY <1>2, <1>3, StepFacts, LikeItself DEF ValueOK
<1>5. Skip(SetReg(Ahead, op.base, v), op.jump) = Top(f, By(g, 1 + op.jump), Put(s, g.base + op.base + 1, v), o)
  BY <1>4, AheadBy
<1>6. 1 + op.jump \in Int /\ g.pc + 1 + (1 + op.jump) \in Follow(op, g.pc + 1)
  BY <1>2, <1>4
<1>7. CASE Goes(Skip(SetReg(Ahead, op.base, v), op.jump), heap)
  BY <1>2, <1>4, <1>5, <1>6, <1>7, GoesSetting
<1> QED  BY <1>1, <1>4, <1>7, EndsKeeps

\* OpCode::NumericForLoop.
LEMMA NumericForLoopKeeps ==
  ASSUME NEW c, NEW f, NEW g, NEW s, NEW o, NEW op, Step(c, f, g, s, o, op), NumericForLoop(op)
  PROVE  Keeps(c)
<1> DEFINE v == <<"int", Reg(op.base)[2] + Reg(op.base + 2)[2]>>
           t == SetReg(Ahead, op.base, v)
<1>1. op.op = "NumericForLoop"
      /\ (Ends("error") \/ Goes(t, heap) \/ Goes(Skip(SetReg(t, op.base + 3, v), op.jump), heap))
  BY DEF NumericForLoop
<1>2. /\ Plain(op) /\ Follow(op, g.pc + 1) = {g.pc + 1 + 1, g.pc + 1 + 1 + op.jump}
      /\ Counts(op) = {op.base} /\ Jumps(op) = {op.jump}
  BY <1>1, StepFacts DEF Plain, Takes, Variable, FromAfter, Follow, Counts, Jumps
<1>3. v[1] = "int"
  OBVIOUS
<1> HIDE DEF v
<1>4. /\ op.base \in Nat /\ op.jump \in Int /\ ValueOK(heap, v) /\ Like(c, heap, heap) /\ Good(c, th, heap)
      /\ g.pc \in Nat /\ IsSeq(f) /\ IsLua(g) /\ ValuesOK(heap, s) /\ g.base \in Nat /\ Len(s) \in Nat
      /\ g.base <= Len(s) /\ Runs(c, f, g, s, o) /\ op = Operation /\ status = "running"
  BY <1>2, <1>3, StepFacts, LikeItself DEF ValueOK
<1> DEFINE s1 == Put(s, g.base + op.base + 1, v)
           s2 == Put(s1, g.base + (op.base + 3) + 1, v)
<1>5. t = Top(f, By(g, 1), s1, o)
  BY <1>4, AheadBy
<1> HIDE DEF t
<1>6. 1 + op.jump \in Int /\ g.pc + 1 + (1 + op.jump) \in Follow(op, g.pc + 1) /\ 1 \in Int
      /\ g.pc + 1 + 1 \in Follow(op, g.pc + 1)
  BY <1>2, <1>4
<1>7. CASE Goes(t, heap)
  BY <1>2, <1>4, <1>5, <1>6, <1>7, GoesSetting
<1>8. CASE Goes(Skip(SetReg(t, op.base + 3, v), op.jump), heap)
  <2>0. \A x : /\ SetReg(Top(f, By(g, 1), x, o), op.base + 3, v)
                  = Top(f, By(g, 1), Put(x, g.base + (op.base + 3) + 1, v), o)
              /\ Skip(Top(f, By(g, 1), x, o), op.jump) = Top(f, By(g, 1 + op.jump), x, o)
    <3> TAKE x
    <3>1. /\ \A n \in Int : Skip(Top(f, By(g, 1), x, o), n) = Top(f, By(g, 1 + n), x, o)
          /\ \A r, w : SetReg(Top(f, By(g, 1), x, o), r, w)
                      = Top(f, By(g, 1), Put(x, g.base + r + 1, w), o)
      BY <1>4, <1>6, RewritesBy
    <3> QED  BY <3>1, <1>4
  <2>1. SetReg(t, op.base + 3, v) = Top(f, By(g, 1), s2, o)
    BY <2>0, <1>5
  <2>2. Skip(SetReg(t, op.base + 3, v), op.jump) = Top(f, By(g, 1 + op.jump), s2, o)
    BY <2>1, <2>0
  <2>3. IsChange(heap, s1, s, g.base + op.base + 1, v)
    BY <1>4, ChangedValues DEF Put
  <2>4. IsChange(heap, s2, s1, g.base + (op.base + 3) + 1, v)
    <3>1. ValuesOK(heap, s1)
      BY <2>3 DEF IsChange
    <3> HIDE DEF s1
    <3> QED  BY <3>1, <1>4, ChangedValues DEF Put
  <2> HIDE DEF s1, s2
  <2>5. ValuesOK(heap, s2) /\ Len(s2) = Len(s)
    BY <2>3, <2>4 DEF IsChange
  <2>6. \A i \in 1 .. g.base : s2[i] = s[i]
    BY <2>3, <2>4, <1>4 DEF IsChange
  <2>7. Good(c, Top(f, By(g, 1 + op.jump), s2, o), heap)
    BY <1>2, <1>4, <1>6, <2>5, <2>6, Steps
  <2> QED  BY <1>4, <1>8, <2>2, <2>7, GoesKeeps
<1> QED  BY <1>1, <1>4, <1>7, <1>8, EndsKeeps DEF t

\* OpCode::GenericForLoop.
LEMMA GenericForLoopKeeps ==
  ASSUME NEW c, NEW f, NEW g, NEW s, NEW o, NEW op, Step(c, f, g, s, o, op), GenericForLoop(op)
  PROVE  Keeps(c)
<1> DEFINE v == Reg(op.base + 1)
<1>1. op.op = "GenericForLoop"
      /\ (Goes(Skip(SetReg(Ahead, op.base, v), op.jump), heap) \/ Goes(Ahead, heap))
  BY DEF GenericForLoop
<1>2. /\ Plain(op) /\ Follow(op, g.pc + 1) = {g.pc + 1 + 1, g.pc + 1 + 1 + op.jump}
      /\ Counts(op) = {op.base} /\ Jumps(op) = {op.jump} /\ Touches(op) = op.base .. op.base + 2 - 1
  BY <1>1, StepFacts DEF Plain, Takes, Variable, FromAfter, Follow, Counts, Jumps, Touches, Span
<1>3. /\ op.base \in Nat /\ op.jump \in Int /\ Like(c, heap, heap) /\ g.pc \in Nat
  BY <1>2, StepFacts, LikeItself
<1>4. ValueOK(heap, v)
  <2>1. op.base + 1 \in Touches(op)
    BY <1>2, <1>3
  <2> QED  BY <2>1, Touched
<1> HIDE DEF v
<1>5. /\ Skip(SetReg(Ahead, op.base, v), op.jump) = Top(f, By(g, 1 + op.jump), Put(s, g.base + op.base + 1, v), o)
      /\ Ahead = Top(f, By(g, 1), s, o)
  BY <1>3, AheadBy
<1>6. 1 + op.jump \in Int /\ g.pc + 1 + (1 + op.jump) \in Follow(op, g.pc + 1) /\ 1 \in Int
      /\ g.pc + 1 + 1 \in Follow(op, g.pc + 1)
  BY <1>2, <1>3
<1>7. CASE Goes(Skip(SetReg(Ahead, op.base, v), op.jump), heap)
  BY <1>2, <1>3, <1>4, <1>5, <1>6, <1>7, GoesSetting
<1>8. CASE Goes(Ahead, heap)
  BY <1>2, <1>5, <1>6, <1>8, GoesBy
<1> QED  BY <1>1, <1>7, <1>8

\* OpCode::Less and LessEq.
LEMMA CompareOrderKeeps ==
  ASSUME NEW c, NEW f, NEW g, NEW s, NEW o, NEW op, Step(c, f, g, s, o, op), CompareOrder(op)
  PROVE  Keeps(c)
<1>1. op.op \in {"Less", "LessEq"} /\ (Ends("error") \/ Goes(Skip(Ahead, 1), heap) \/ Goes(Ahead, heap))
  BY DEF CompareOrder
<1>2. Plain(op) /\ g.pc + 1 + 1 \in Follow(op, g.pc + 1) /\ g.pc + 1 + (1 + 1) \in Follow(op, g.pc + 1)
  BY <1>1, StepFacts DEF Plain, Takes, Variable, FromAfter, Follow
<1>3. Ahead = Top(f, By(g, 1), s, o) /\ Skip(Ahead, 1) = Top(f, By(g, 1 + 1), s, o)
  BY AheadBy
<1>4. 1 \in Int /\ 1 + 1 \in Int /\ Good(c, th, heap)
  BY StepFacts
<1>5. CASE Goes(Skip(Ahead, 1), heap)
  BY <1>2, <1>3, <1>4, <1>5, GoesBy
<1>6. CASE Goes(Ahead, heap)
  BY <1>2, <1>3, <1>4, <1>6, GoesBy
<1> QED  BY <1>1, <1>4, <1>5, <1>6, EndsKeeps

\* An upvalue that an instruction names is there, below the frame if it is open, and has a
\* value: the assertions of get_upvalue and set_upvalue hold.
LEMMA UpFacts ==
  ASSUME NEW c, NEW f, NEW g, NEW s, NEW o, NEW op, Step(c, f, g, s, o, op), NEW i \in OfUpValues(op)
  PROVE  /\ ClosureOf(Current).ups[i] \in DOMAIN heap.cells
         /\ Cell(i) = heap.cells[ClosureOf(Current).ups[i]]
         /\ AboveFrame(i) /\ ValueOK(heap, CellValue(i)) /\ CellOK(heap, Cell(i))
         /\ Cell(i).open => Cell(i).at \in Places(heap) /\ Cell(i).at \in Nat /\ Cell(i).at < g.bottom
<1>1. /\ Runs(c, f, g, s, o) /\ i \in DOMAIN Proto.ups /\ HeapOK(c, heap) /\ ValuesOK(heap, s)
      /\ Frame = g /\ th.stack = s /\ g.bottom \in Nat /\ g.base \in Nat /\ g.bottom < g.base
      /\ g.base <= Len(s) /\ Len(s) \in Nat
  BY StepFacts
<1>2. /\ Current = s[g.bottom + 1] /\ Proto = ProtoNow(c, s, g) /\ FrameOK(c, heap, s, g)
      /\ ClosureOK(c, heap, ClosureAt(heap, s, g))
  BY <1>1, RunFacts
<1> DEFINE k == ClosureAt(heap, s, g)
           u == k.ups[i]
<1>3. ClosureOf(Current) = k
  BY <1>2 DEF ClosureOf, ClosureAt
<1>4. i \in DOMAIN k.ups
  BY <1>1, <1>2 DEF ClosureOK, ProtoNow, ProtoAt
<1>5. u \in DOMAIN heap.cells
  BY <1>2, <1>4 DEF ClosureOK
<1>6. Cell(i) = heap.cells[u]
  BY <1>3 DEF Cell
<1>7. CellOK(heap, heap.cells[u])
  BY <1>1, <1>5 DEF HeapOK
<1>8. heap.cells[u].open => heap.cells[u].at < g.bottom
  BY <1>2, <1>4 DEF FrameOK
<1> HIDE DEF u, k
<1>9. AboveFrame(i)
  BY <1>1, <1>6, <1>8 DEF AboveFrame
<1>10. heap.cells[u].open => heap.cells[u].at \in Places(heap) /\ heap.cells[u].at \in Nat
  BY <1>5, <1>7 DEF Places, OpenCells, CellOK
<1>11. heap.cells[u].open => ValueOK(heap, s[heap.cells[u].at + 1])
  <2>1. heap.cells[u].open => heap.cells[u].at + 1 \in 1 .. Len(s)
    BY <1>1, <1>8, <1>10, SMTT(30)
  <2> QED  BY <2>1, <1>1, Lengths
<1>12. ValueOK(heap, CellValue(i))
  BY <1>1, <1>6, <1>7, <1>11 DEF CellValue, CellOK
<1> QED  BY <1>3, <1>5, <1>6, <1>7, <1>8, <1>9, <1>10, <1>12 DEF u

\* OpCode::GetUpValue.
LEMMA GetUpValueKeeps ==
  ASSUME NEW c, NEW f, NEW g, NEW s, NEW o, NEW op, Step(c, f, g, s, o, op), GetUpValue(op)
  PROVE  Keeps(c)
<1>1. op.op = "GetUpValue" /\ (AboveFrame(op.source) => Sets(op.dest, CellValue(op.source)))
  BY DEF GetUpValue
<1>2. Plain(op) /\ g.pc + 1 + 1 \in Follow(op, g.pc + 1) /\ op.dest \in Touches(op) /\ op.source \in OfUpValues(op)
  BY <1>1 DEF Plain, Takes, Variable, FromAfter, Follow, Touches, OfUpValues
<1>3. op.dest \in Nat /\ ValueOK(heap, CellValue(op.source)) /\ AboveFrame(op.source)
  BY <1>2, Touched, UpFacts
<1> QED  BY <1>1, <1>2, <1>3, SetsKeeps

\* A closed upvalue is assigned.
LEMMA CellChanged ==
  ASSUME NEW c, NEW h, HeapOK(c, h), NEW u \in DOMAIN h.cells, NEW v, ValueOK(h, v)
  PROVE  Like(c, h, [h EXCEPT !.cells[u].value = v])
<1> DEFINE x == h.cells[u]
           y == [open |-> x.open, at |-> x.at, value |-> v]
           cs == [h.cells EXCEPT ![u] = y]
           h2 == [h EXCEPT !.cells[u].value = v]
<1>1. CellOK(h, x) /\ IsSeq(h.cells)
  BY DEF HeapOK
<1>2. [x EXCEPT !.value = v] = y
  BY <1>1 DEF CellOK
<1>3. h2 = Heap(cs, h.closures, h.tables)
  BY <1>2 DEF HeapOK, Heap
<1>4. IsSeq(cs) /\ DOMAIN cs = DOMAIN h.cells /\ \A k \in DOMAIN h.cells : cs[k] = IF k = u THEN y ELSE h.cells[k]
  <2>1. DOMAIN cs = DOMAIN h.cells /\ \A k \in DOMAIN h.cells : cs[k] = IF k = u THEN y ELSE h.cells[k]
    OBVIOUS
  <2>2. IsSeq(cs)
    <3>1. \A z, w : IsSeq(z) => IsSeq([z EXCEPT ![u] = w])
      BY ChangedSeq
    <3> HIDE DEF y
    <3> QED  BY <3>1, <1>1, Zenon
  <2> QED  BY <2>1, <2>2
<1>5. y.open = x.open /\ y.at = x.at /\ y.value = v /\ CellOK(h, y)
  BY <1>1 DEF CellOK
<1> HIDE DEF h2, cs, y, x
<1>6. h2.cells = cs /\ h2.closures = h.closures /\ h2.tables = h.tables
  BY <1>3 DEF Heap
<1>7. \A w : ValueOK(h, w) => ValueOK(h2, w)
  BY <1>6 DEF ValueOK
<1>8. \A k \in DOMAIN h2.cells : CellOK(h2, h2.cells[k])
  <2> TAKE k \in DOMAIN h2.cells
  <2>1. CellOK(h, h2.cells[k])
    BY <1>4, <1>5, <1>6 DEF HeapOK
  <2> QED  BY <2>1, <1>7 DEF CellOK
<1>9. \A k \in DOMAIN h2.closures : ClosureOK(c, h2, h2.closures[k])
  BY <1>4, <1>6 DEF HeapOK, ClosureOK
<1>10. \A k \in DOMAIN h2.tables : TableOK(h2, h2.tables[k])
  BY <1>6, <1>7 DEF HeapOK, TableOK
<1>11. h2 = Heap(h2.cells, h2.closures, h2.tables) /\ IsSeq(h2.cells) /\ IsSeq(h2.closures) /\ IsSeq(h2.tables)
  BY <1>3, <1>4, <1>6 DEF HeapOK
<1>12. HeapOK(c, h2)
  BY <1>8, <1>9, <1>10, <1>11 DEF HeapOK
<1>13. \A k \in DOMAIN h.cells : h2.cells[k].open = h.cells[k].open /\ h2.cells[k].at = h.cells[k].at
  BY <1>4, <1>5, <1>6 DEF x
<1>14. Like(c, h, h2)
  BY <1>4, <1>6, <1>12, <1>13 DEF Like
<1> QED  BY <1>14 DEF h2

\* OpCode::SetUpValue: of an open upvalue the stack is changed, of a closed one the heap.
LEMMA PutUpValueKeeps ==
  ASSUME NEW c, NEW f, NEW g, NEW s, NEW o, NEW op, Step(c, f, g, s, o, op), PutUpValue(op)
  PROVE  Keeps(c)
<1> DEFINE u == ClosureOf(Current).ups[op.dest]
           v == Reg(op.source)
           x == Cell(op.dest)
           t == [Ahead EXCEPT !.stack[x.at + 1] = v]
           h2 == [heap EXCEPT !.cells[u].value = v]
<1>1. op.op = "SetUpValue" /\ (AboveFrame(op.dest) => (x.open /\ Goes(t, heap)) \/ Goes(Ahead, h2))
  BY DEF PutUpValue
<1>2. Plain(op) /\ g.pc + 1 + 1 \in Follow(op, g.pc + 1) /\ op.source \in Touches(op) /\ op.dest \in OfUpValues(op)
  BY <1>1 DEF Plain, Takes, Variable, FromAfter, Follow, Touches, OfUpValues
<1>3. /\ ValueOK(heap, v) /\ AboveFrame(op.dest) /\ u \in DOMAIN heap.cells
      /\ x.open => x.at \in Places(heap) /\ x.at \in Nat
  BY <1>2, Touched, UpFacts
<1>4. /\ Runs(c, f, g, s, o) /\ op = Operation /\ status = "running" /\ HeapOK(c, heap)
      /\ ValuesOK(heap, s) /\ Ahead = Top(f, By(g, 1), s, o) /\ 1 \in Int /\ Len(s) \in Nat
      /\ g.base \in Nat /\ g.base <= Len(s)
  BY StepFacts
<1>5. Like(c, heap, h2)
  BY <1>3, <1>4, CellChanged
<1> HIDE DEF u, v, x, h2
<1>6. CASE Goes(Ahead, h2)
  <2>1. ValuesOK(h2, s)
    BY <1>4, <1>5, LikeFacts
  <2>2. Good(c, Top(f, By(g, 1), s, o), h2)
    BY <2>1, <1>2, <1>4, <1>5, Steps
  <2> QED  BY <2>2, <1>4, <1>6, GoesKeeps
<1>7. CASE x.open /\ Goes(t, heap)
  <2> DEFINE s2 == Put(s, x.at + 1, v)
  <2>1. t = Top(f, By(g, 1), s2, o)
    <3> DEFINE y == Append(f, By(g, 1))
    <3>1. Ahead = [frames |-> y, stack |-> s, open |-> o]
      BY <1>4 DEF Top, Thread
    <3> HIDE DEF y
    <3>2. t = [frames |-> y, stack |-> s2, open |-> o]
      BY <3>1 DEF Put
    <3> QED  BY <3>2 DEF y, Top, Thread
  <2> HIDE DEF t
  <2>2. IsChange(heap, s2, s, x.at + 1, v)
    BY <1>3, <1>4, ChangedValues DEF Put
  <2> HIDE DEF s2
  <2>3. ValuesOK(heap, s2) /\ Len(s2) = Len(s)
    BY <2>2 DEF IsChange
  <2>4. \A i \in 1 .. g.base : s2[i] = s[i] \/ i - 1 \in Places(heap)
    <3> TAKE i \in 1 .. g.base
    <3>1. i \in 1 .. Len(s)
      BY <1>4
    <3>2. CASE i = x.at + 1
      BY <3>2, <1>3, <1>7
    <3>3. CASE i # x.at + 1
      BY <3>1, <3>3, <2>2 DEF IsChange
    <3> QED  BY <3>2, <3>3
  <2>5. Good(c, Top(f, By(g, 1), s2, o), heap)
    BY <2>3, <2>4, <1>2, <1>4, Steps, LikeItself
  <2> QED  BY <2>1, <2>5, <1>4, <1>7, GoesKeeps
<1> QED  BY <1>1, <1>3, <1>6, <1>7

(* Open upvalues. *)
IsPlace(h, open, i, k) ==
  k \in 1 .. Len(open) + 1 /\ \A j \in DOMAIN open : j < k <=> h.cells[open[j]].at < i

\* The search by halves finds where a place is, or belongs, in the list of open upvalues.
LEMMA Placed ==
  ASSUME NEW c, NEW h, NEW t, HeapOK(c, h), OpenOK(h, t.open), NEW i \in Int
  PROVE  IsPlace(h, t.open, i, PlaceFor(t, h, i))
<1> DEFINE open == t.open
           n == Len(open)
           At(j) == h.cells[open[j]].at
           S == {k \in 1 .. n : At(k) >= i} \cup {n + 1}
<1>1. IsSeq(open) /\ n \in Nat /\ DOMAIN open = 1 .. n
  BY SeqFacts DEF OpenOK
<1>2. \A j \in 1 .. n : At(j) \in Nat
  BY <1>1 DEF OpenOK, Range, OpenCells, HeapOK, CellOK
<1>3. \A j, k \in 1 .. n : j < k => At(j) < At(k)
  BY <1>1 DEF OpenOK
<1> HIDE DEF open, At
<1>4. PICK k \in S : \A m \in S : k <= m
  <2>1. S \in SUBSET Nat /\ S # {}
    BY <1>1
  <2> QED  BY <2>1, LeastElement
<1>5. k \in 1 .. n + 1
  BY <1>1, <1>4
<1>6. \A j \in 1 .. n : j < k <=> At(j) < i
  <2> TAKE j \in 1 .. n
  <2>1. ASSUME j < k  PROVE At(j) < i
    BY <2>1, <1>1, <1>2, <1>4, <1>5
  <2>2. ASSUME At(j) < i, ~(j < k)  PROVE FALSE
    <3>1. k \in 1 .. n /\ At(k) >= i
      BY <2>2, <1>1, <1>4, <1>5
    <3>2. CASE j = k
      BY <3>1, <3>2, <2>2, <1>2
    <3>3. CASE k < j
      BY <3>1, <3>3, <2>2, <1>2, <1>3
    <3> QED  BY <3>2, <3>3, <2>2, <1>1, <1>5
  <2> QED  BY <2>1, <2>2
<1>7. k \in 1 .. Len(open) + 1 /\ \A j \in DOMAIN open : j < k <=> h.cells[open[j]].at < i
  BY <1>1, <1>5, <1>6 DEF At
<1> HIDE DEF n, S
<1>8. \E q \in 1 .. Len(t.open) + 1 : \A j \in DOMAIN t.open : j < q <=> h.cells[t.open[j]].at < i
  BY <1>7 DEF open
<1> QED  BY <1>8 DEF IsPlace, PlaceFor

\* The open upvalues from a place on, and those below it.
IsSplit(h, open, i, k, A, B) ==
  /\ IsSeq(A) /\ Len(A) = k - 1 /\ \A j \in 1 .. k - 1 : A[j] = open[j]
  /\ IsSeq(B) /\ Len(B) = Len(open) - k + 1 /\ \A j \in 1 .. Len(open) - k + 1 : B[j] = open[k + j - 1]
  /\ Range(A) = {u \in OpenCells(h) : h.cells[u].at < i}
  /\ Range(B) = {u \in OpenCells(h) : ~(h.cells[u].at < i)}

\* That splits the list into the open upvalues below the place and the others.
LEMMA OpenSplit ==
  ASSUME NEW c, NEW h, NEW open, HeapOK(c, h), OpenOK(h, open), NEW i \in Int, NEW k, IsPlace(h, open, i, k)
  PROVE  IsSplit(h, open, i, k, SubSeq(open, 1, k - 1), SubSeq(open, k, Len(open)))
<1> DEFINE n == Len(open)
           A == SubSeq(open, 1, k - 1)
           B == SubSeq(open, k, n)
<1>1. IsSeq(open) /\ n \in Nat /\ DOMAIN open = 1 .. n
  BY SeqFacts DEF OpenOK
<1>2. k \in 1 .. n + 1 /\ \A j \in 1 .. n : j < k <=> h.cells[open[j]].at < i
  BY <1>1 DEF IsPlace
<1>3. /\ IsSeq(A) /\ Len(A) = k - 1 - 1 + 1 /\ DOMAIN A = 1 .. k - 1 - 1 + 1
      /\ \A j \in 1 .. k - 1 - 1 + 1 : A[j] = open[1 + j - 1] /\ 1 + j - 1 \in 1 .. n
  <2>1. 1 \in Nat \ {0} /\ k - 1 \in Int /\ k - 1 <= n /\ 1 <= k - 1 + 1
    BY <1>1, <1>2
  <2> QED  BY <2>1, <1>1, PartSeq
<1>4. /\ IsSeq(B) /\ Len(B) = n - k + 1 /\ DOMAIN B = 1 .. n - k + 1
      /\ \A j \in 1 .. n - k + 1 : B[j] = open[k + j - 1] /\ k + j - 1 \in 1 .. n
  <2>1. k \in Nat \ {0} /\ n \in Int /\ n <= n /\ k <= n + 1
    BY <1>1, <1>2
  <2> QED  BY <2>1, <1>1, PartSeq
<1> HIDE DEF A, B
<1>5. k - 1 - 1 + 1 = k - 1 /\ \A j \in 1 .. k - 1 : 1 + j - 1 = j
  BY <1>2
<1>6. Len(A) = k - 1 /\ DOMAIN A = 1 .. k - 1 /\ \A j \in 1 .. k - 1 : A[j] = open[j]
  BY <1>3, <1>5
<1>7. \A u : u \in OpenCells(h) <=> \E j \in 1 .. n : u = open[j]
  BY <1>1 DEF OpenOK, Range
<1>8. Range(A) = {u \in OpenCells(h) : h.cells[u].at < i}
  <2>1. ASSUME NEW u, u \in Range(A)  PROVE u \in OpenCells(h) /\ h.cells[u].at < i
    <3>1. PICK j \in 1 .. k - 1 : u = A[j]
      BY <2>1, <1>6 DEF Range
    <3>2. u = open[j] /\ j \in 1 .. n /\ j < k
      BY <3>1, <1>1, <1>2, <1>6
    <3> QED  BY <3>2, <1>2, <1>7
  <2>2. ASSUME NEW u \in OpenCells(h), h.cells[u].at < i  PROVE u \in Range(A)
    <3>1. PICK j \in 1 .. n : u = open[j]
      BY <1>7
    <3>2. j \in 1 .. k - 1
      BY <3>1, <2>2, <1>2
    <3> QED  BY <3>1, <3>2, <1>6 DEF Range
  <2> QED  BY <2>1, <2>2
<1>9. Range(B) = {u \in OpenCells(h) : ~(h.cells[u].at < i)}
  <2>1. ASSUME NEW u, u \in Range(B)  PROVE u \in OpenCells(h) /\ ~(h.cells[u].at < i)
    <3>1. PICK j \in 1 .. n - k + 1 : u = B[j]
      BY <2>1, <1>4 DEF Range
    <3>2. u = open[k + j - 1] /\ k + j - 1 \in 1 .. n /\ ~(k + j - 1 < k)
      BY <3>1, <1>1, <1>2, <1>4
    <3> QED  BY <3>2, <1>2, <1>7
  <2>2. ASSUME NEW u \in OpenCells(h), ~(h.cells[u].at < i)  PROVE u \in Range(B)
    <3>1. PICK j \in 1 .. n : u = open[j]
      BY <1>7
    <3>2. ~(j < k)
      BY <3>1, <2>2, <1>2
    <3>3. j - k + 1 \in 1 .. n - k + 1 /\ k + (j - k + 1) - 1 = j
      BY <3>2, <1>1, <1>2
    <3>4. B[j - k + 1] = open[j]
      BY <3>3, <1>4
    <3> QED  BY <3>1, <3>3, <3>4, <1>4 DEF Range
  <2> QED  BY <2>1, <2>2
<1>10. IsSplit(h, open, i, k, A, B)
  BY <1>3, <1>4, <1>6, <1>8, <1>9 DEF IsSplit
<1> QED  BY <1>10 DEF A, B

WithOpen(t, x) == [t EXCEPT !.open = x]

\* A thread with another list of open upvalues.
LEMMA OpenChanged ==
  ASSUME NEW f, NEW s, NEW o, NEW x
  PROVE  WithOpen(Thread(f, s, o), x) = Thread(f, s, x)
BY DEF WithOpen, Thread

\* h2 has all closures and tables of h, and no variable of h in another place.
Later(h, h2) ==
  /\ DOMAIN h.cells \subseteq DOMAIN h2.cells
  /\ h2.closures = h.closures /\ h2.tables = h.tables
  /\ \A u \in DOMAIN h.cells : h2.cells[u].open => h.cells[u].open /\ h2.cells[u].at = h.cells[u].at

\* A later heap has the values of the one before.
LEMMA LaterValues ==
  ASSUME NEW h, NEW h2, Later(h, h2)
  PROVE  /\ \A v : ValueOK(h, v) => ValueOK(h2, v)
         /\ \A s : ValuesOK(h, s) => ValuesOK(h2, s)
<1>1. \A v : ValueOK(h, v) => ValueOK(h2, v)
  BY DEF Later, ValueOK
<1> QED  BY <1>1, SameValues

\* A heap with other upvalues is a good one when they are.
LEMMA LaterHeap ==
  ASSUME NEW c, NEW h, NEW cells, HeapOK(c, h), IsSeq(cells), Later(h, [h EXCEPT !.cells = cells]),
         \A u \in DOMAIN cells : CellOK(h, cells[u])
  PROVE  /\ HeapOK(c, [h EXCEPT !.cells = cells]) /\ [h EXCEPT !.cells = cells].cells = cells
         /\ [h EXCEPT !.cells = cells].closures = h.closures /\ [h EXCEPT !.cells = cells].tables = h.tables
<1> DEFINE h2 == [h EXCEPT !.cells = cells]
<1>1. h2 = Heap(cells, h.closures, h.tables)
  BY DEF HeapOK, Heap
<1> HIDE DEF h2
<1>2. h2.cells = cells /\ h2.closures = h.closures /\ h2.tables = h.tables
  BY <1>1 DEF Heap
<1>3. h2 = Heap(h2.cells, h2.closures, h2.tables) /\ IsSeq(h2.cells) /\ IsSeq(h2.closures) /\ IsSeq(h2.tables)
  BY <1>1, <1>2 DEF HeapOK
<1>4. Later(h, h2)
  BY DEF h2
<1>5. \A w : ValueOK(h, w) => ValueOK(h2, w)
  BY <1>4, LaterValues
<1>6. \A k \in DOMAIN h2.cells : CellOK(h2, h2.cells[k])
  BY <1>2, <1>5 DEF CellOK
<1>7. \A k \in DOMAIN h2.closures : ClosureOK(c, h2, h2.closures[k])
  BY <1>4 DEF HeapOK, ClosureOK, Later
<1>8. \A k \in DOMAIN h2.tables : TableOK(h2, h2.tables[k])
  BY <1>2, <1>5 DEF HeapOK, TableOK
<1>9. HeapOK(c, h2)
  BY <1>3, <1>6, <1>7, <1>8 DEF HeapOK
<1> QED  BY <1>2, <1>9 DEF h2

IsClosed(c, t, h, b, r) ==
  /\ r.t = Thread(t.frames, t.stack, r.t.open)
  /\ HeapOK(c, r.h) /\ OpenOK(r.h, r.t.open) /\ Later(h, r.h)
  /\ \A a \in Places(r.h) : a \in Places(h) /\ a < b /\ a \in Nat

\* close_upvalues closes those at a place and above, and leaves the list of the others.
LEMMA ClosedOK ==
  ASSUME NEW c, NEW t, NEW h, HeapOK(c, h), t = Thread(t.frames, t.stack, t.open),
         OpenOK(h, t.open), ValuesOK(h, t.stack), \A a \in Places(h) : a < Len(t.stack), NEW b \in Int
  PROVE  IsClosed(c, t, h, b, Closed(t, h, b))
<1> DEFINE k == PlaceFor(t, h, b)
           n == Len(t.open)
           A == SubSeq(t.open, 1, k - 1)
           B == SubSeq(t.open, k, n)
           gone == Range(B)
           Shut(u) == [open |-> FALSE, at |-> 0, value |-> t.stack[h.cells[u].at + 1]]
           cells == [u \in DOMAIN h.cells |-> IF u \in gone THEN Shut(u) ELSE h.cells[u]]
           h2 == [h EXCEPT !.cells = cells]
           r == Closed(t, h, b)
<1>1. r = [t |-> [t EXCEPT !.open = A], h |-> h2]
  BY DEF Closed
<1>2. [t EXCEPT !.open = A] = Thread(t.frames, t.stack, A)
  <2>1. WithOpen(t, A) = Thread(t.frames, t.stack, A)
    <3> HIDE DEF A
    <3> DEFINE F == t.frames
               S == t.stack
               O == t.open
    <3> HIDE DEF F, S, O
    <3>1. WithOpen(Thread(F, S, O), A) = Thread(F, S, A)
      BY OpenChanged
    <3>2. t = Thread(F, S, O)
      BY DEF F, S, O
    <3>3. WithOpen(t, A) = Thread(F, S, A)
      BY <3>1, <3>2
    <3> QED  BY <3>3 DEF F, S
  <2> QED  BY <2>1 DEF WithOpen
<1>3. IsPlace(h, t.open, b, k)
  BY Placed
<1> HIDE DEF k, r
<1>4. /\ IsSeq(A) /\ Len(A) = k - 1
      /\ \A j \in 1 .. k - 1 : A[j] = t.open[j]
      /\ Range(A) = {u \in OpenCells(h) : h.cells[u].at < b}
      /\ gone = {u \in OpenCells(h) : ~(h.cells[u].at < b)}
  <2>1. IsSplit(h, t.open, b, k, A, B)
    BY <1>3, OpenSplit
  <2> HIDE DEF A, B
  <2> QED  BY <2>1 DEF IsSplit
<1> HIDE DEF A, gone
<1>5. IsSeq(h.cells) /\ DOMAIN h.cells = 1 .. Len(h.cells) /\ Len(h.cells) \in Nat
  BY SeqFacts DEF HeapOK
<1>6. IsSeq(cells) /\ DOMAIN cells = DOMAIN h.cells
  <2>1. cells \in [1 .. Len(h.cells) -> Range(cells)]
    BY <1>5 DEF Range
  <2> HIDE DEF cells
  <2> QED  BY <2>1, <1>5, OfFunction
<1>7. \A u \in DOMAIN h.cells : /\ u \in gone => cells[u] = Shut(u)
                                /\ u \notin gone => cells[u] = h.cells[u]
  OBVIOUS
<1>8. \A u : Shut(u).open = FALSE /\ Shut(u).at = 0 /\ Shut(u).value = t.stack[h.cells[u].at + 1]
             /\ Shut(u) = [open |-> Shut(u).open, at |-> Shut(u).at, value |-> Shut(u).value]
  OBVIOUS
<1> HIDE DEF cells, Shut, h2
<1>9. \A u \in DOMAIN h.cells : CellOK(h, h.cells[u])
  BY DEF HeapOK
<1>10. \A u \in gone : CellOK(h, Shut(u))
  <2> TAKE u \in gone
  <2>1. u \in DOMAIN h.cells /\ u \in OpenCells(h) /\ h.cells[u].open
    BY <1>4 DEF OpenCells
  <2>2. h.cells[u].at \in Places(h) /\ h.cells[u].at \in Nat
    BY <2>1, <1>9 DEF Places, CellOK
  <2>3. Len(t.stack) \in Nat
    BY Lengths
  <2>4. h.cells[u].at + 1 \in 1 .. Len(t.stack)
    BY <2>2, <2>3
  <2>5. ValueOK(h, t.stack[h.cells[u].at + 1])
    BY <2>4, Lengths
  <2> DEFINE x == Shut(u)
  <2>6. /\ x.open = FALSE /\ x.at = 0 /\ x.value = t.stack[h.cells[u].at + 1]
        /\ x = [open |-> x.open, at |-> x.at, value |-> x.value]
    BY <1>8
  <2> HIDE DEF x
  <2>7. CellOK(h, x)
    <3>1. x.open \in BOOLEAN
      BY <2>6, Zenon
    <3>2. x.at \in Nat
      BY <2>6
    <3>3. ValueOK(h, x.value)
      BY <2>5, <2>6
    <3>4. x = [open |-> x.open, at |-> x.at, value |-> x.value]
      BY <2>6
    <3> QED  BY <3>1, <3>2, <3>3, <3>4, Zenon DEF CellOK
  <2> QED  BY <2>7 DEF x
<1>11. \A u \in DOMAIN cells : CellOK(h, cells[u])
  <2> TAKE u \in DOMAIN cells
  <2>1. CASE u \in gone
    BY <2>1, <1>6, <1>7, <1>10
  <2>2. CASE u \notin gone
    BY <2>2, <1>6, <1>7, <1>9
  <2> QED  BY <2>1, <2>2
<1>12. h2.cells = cells /\ h2.closures = h.closures /\ h2.tables = h.tables
  BY DEF h2, HeapOK, Heap
<1>13. \A u \in DOMAIN h.cells : cells[u].open => h.cells[u].open /\ cells[u].at = h.cells[u].at /\ u \notin gone
  BY <1>7, <1>8
<1>14. Later(h, h2)
  BY <1>6, <1>12, <1>13 DEF Later
<1>15. HeapOK(c, h2)
  BY <1>6, <1>11, <1>14, LaterHeap DEF h2
<1>16. OpenCells(h2) = {u \in OpenCells(h) : h.cells[u].at < b}
  <2>1. ASSUME NEW u \in OpenCells(h2)  PROVE u \in OpenCells(h) /\ h.cells[u].at < b
    BY <1>4, <1>6, <1>12, <1>13 DEF OpenCells
  <2>2. ASSUME NEW u \in OpenCells(h), h.cells[u].at < b  PROVE u \in OpenCells(h2)
    <3>1. u \notin gone /\ u \in DOMAIN h.cells /\ h.cells[u].open
      BY <2>2, <1>4 DEF OpenCells
    <3> QED  BY <3>1, <1>6, <1>7, <1>12 DEF OpenCells
  <2> QED  BY <2>1, <2>2
<1>17. \A u \in OpenCells(h2) : h2.cells[u] = h.cells[u] /\ u \in OpenCells(h)
  BY <1>4, <1>6, <1>7, <1>12, <1>16 DEF OpenCells
<1>18. \A a \in Places(h2) : a \in Places(h) /\ a < b /\ a \in Nat
  <2>1. ASSUME NEW u \in OpenCells(h2)
        PROVE  h2.cells[u].at \in Places(h) /\ h2.cells[u].at < b /\ h2.cells[u].at \in Nat
    BY <1>9, <1>16, <1>17 DEF Places, CellOK, OpenCells
  <2> QED  BY <2>1 DEF Places
<1>19. OpenOK(h2, A)
  <2>1. Range(A) = OpenCells(h2)
    BY <1>4, <1>16
  <2>2. DOMAIN A = 1 .. k - 1
    BY <1>4, SeqFacts
  <2>3. \A j \in DOMAIN A : A[j] = t.open[j] /\ j \in DOMAIN t.open /\ A[j] \in OpenCells(h2)
    <3>1. IsSeq(t.open)
      BY DEF OpenOK
    <3>2. DOMAIN t.open = 1 .. Len(t.open) /\ Len(t.open) \in Nat
      BY <3>1, SeqFacts
    <3>3. k \in 1 .. Len(t.open) + 1
      BY <1>3 DEF IsPlace
    <3> QED  BY <2>1, <2>2, <3>2, <3>3, <1>4 DEF Range
  <2>4. \A i, j \in DOMAIN A : i < j => h2.cells[A[i]].at < h2.cells[A[j]].at
    BY <2>3, <1>17 DEF OpenOK
  <2> QED  BY <1>4, <2>1, <2>4 DEF OpenOK
<1>20. r.t = Thread(t.frames, t.stack, A) /\ r.h = h2
  BY <1>1, <1>2
<1>21. r.t.open = A
  BY <1>20 DEF Thread
<1> QED  BY <1>14, <1>15, <1>18, <1>19, <1>20, <1>21 DEF IsClosed, r

IsOpened(c, t, h, i, r) ==
  /\ r.t = Thread(t.frames, t.stack, r.t.open)
  /\ HeapOK(c, r.h) /\ OpenOK(r.h, r.t.open) /\ Later(h, r.h)
  /\ r.u \in DOMAIN r.h.cells
  /\ \A a \in Places(r.h) : a \in Places(h) \/ a = i

WithCells(h, x) == [h EXCEPT !.cells = x]

\* A new upvalue goes into the list where its place belongs.
LEMMA OpeningOK ==
  ASSUME NEW c, NEW t, NEW h, HeapOK(c, h), t = Thread(t.frames, t.stack, t.open),
         OpenOK(h, t.open), NEW i \in Nat, NEW k, IsPlace(h, t.open, i, k),
         ~(k <= Len(t.open) /\ h.cells[t.open[k]].at = i)
  PROVE  IsOpened(c, t, h, i, Opening(t, h, i, k))
<1> DEFINE n == Len(t.open)
           new == Len(h.cells) + 1
           A == SubSeq(t.open, 1, k - 1)
           B == SubSeq(t.open, k, n)
           N == <<new>>
           A2 == A \o N
           O2 == A2 \o B
           x == OpenCell(i)
           cells == Append(h.cells, x)
           h2 == [h EXCEPT !.cells = cells]
           r == Opening(t, h, i, k)
<1>1. r.u = new /\ r.t = [t EXCEPT !.open = O2] /\ r.h = h2
  <2>1. r = [u |-> new, t |-> [t EXCEPT !.open = O2], h |-> [h EXCEPT !.cells = cells]]
    BY DEF Opening
  <2> QED  BY <2>1
<1>2. [t EXCEPT !.open = O2] = Thread(t.frames, t.stack, O2)
  <2> DEFINE F == t.frames
             S == t.stack
             O == t.open
             W == O2
  <2> HIDE DEF F, S, O, W
  <2>1. WithOpen(Thread(F, S, O), W) = Thread(F, S, W)
    BY OpenChanged
  <2>2. t = Thread(F, S, O)
    BY DEF F, S, O
  <2>3. WithOpen(t, W) = Thread(F, S, W)
    BY <2>1, <2>2
  <2> QED  BY <2>3 DEF F, S, W, WithOpen
<1>3. IsSplit(h, t.open, i, k, A, B)
  BY OpenSplit
<1>4. IsSeq(t.open) /\ n \in Nat /\ DOMAIN t.open = 1 .. n /\ k \in 1 .. n + 1
  BY SeqFacts DEF OpenOK, IsPlace
<1>5. IsSeq(N) /\ Len(N) = 1 /\ N[1] = new
  BY TinySeqs
<1> HIDE DEF A, B, N, r
<1>6. IsSeq(A) /\ IsSeq(B) /\ Len(A) = k - 1 /\ Len(B) = n - k + 1
      /\ (\A j \in 1 .. k - 1 : A[j] = t.open[j]) /\ (\A j \in 1 .. n - k + 1 : B[j] = t.open[k + j - 1])
  BY <1>3 DEF IsSplit
<1>7. /\ IsSeq(A2) /\ Len(A2) = Len(A) + Len(N)
      /\ \A j \in 1 .. Len(A) + Len(N) : A2[j] = IF j <= Len(A) THEN A[j] ELSE N[j - Len(A)]
  BY <1>5, <1>6, JoinedSeq
<1> HIDE DEF A2
<1>8. /\ IsSeq(O2) /\ Len(O2) = Len(A2) + Len(B)
      /\ \A j \in 1 .. Len(A2) + Len(B) : O2[j] = IF j <= Len(A2) THEN A2[j] ELSE B[j - Len(A2)]
  BY <1>6, <1>7, JoinedSeq
<1> HIDE DEF O2
<1>9. Len(A2) = k /\ A2[k] = new /\ \A j \in 1 .. k - 1 : A2[j] = t.open[j]
  BY <1>4, <1>5, <1>6, <1>7
<1>10. /\ Len(O2) = n + 1 /\ O2[k] = new /\ DOMAIN O2 = 1 .. n + 1
       /\ \A j \in 1 .. k - 1 : O2[j] = t.open[j]
       /\ \A j \in k + 1 .. n + 1 : O2[j] = t.open[j - 1]
  <2>1. Len(O2) = n + 1 /\ DOMAIN O2 = 1 .. Len(O2)
    BY <1>4, <1>6, <1>8, <1>9, SeqFacts
  <2>2. \A j \in 1 .. k : O2[j] = A2[j]
    BY <1>4, <1>6, <1>8, <1>9
  <2>3. \A j \in k + 1 .. n + 1 : O2[j] = t.open[j - 1]
    <3> TAKE j \in k + 1 .. n + 1
    <3>1. j - k \in 1 .. n - k + 1 /\ k + (j - k) - 1 = j - 1 /\ ~(j <= k)
      <4>1. n \in Nat /\ k \in 1 .. n + 1
        BY <1>4
      <4> HIDE DEF n
      <4> QED  BY <4>1
    <3>2. Len(A2) = k /\ Len(B) = n - k + 1
      BY <1>6, <1>9
    <3>3. j \in 1 .. Len(A2) + Len(B)
      BY <3>2, <1>4
    <3>4. O2[j] = B[j - k]
      BY <3>1, <3>2, <3>3, <1>8
    <3> QED  BY <3>1, <3>4, <1>6
  <2> QED  BY <2>1, <2>2, <2>3, <1>4, <1>9
<1>11. /\ x.open = TRUE /\ x.at = i /\ x.value = NilValue /\ CellOK(h, x)
  <2>1. x = [open |-> TRUE, at |-> i, value |-> NilValue]
    BY DEF OpenCell
  <2>2. x.open = TRUE /\ x.at = i /\ x.value = NilValue /\ x = [open |-> x.open, at |-> x.at, value |-> x.value]
    BY <2>1
  <2> HIDE DEF x
  <2>3. x.open \in BOOLEAN
    BY <2>2, Zenon
  <2>4. x.at \in Nat /\ ValueOK(h, x.value)
    BY <2>2, NilOK
  <2> QED  BY <2>2, <2>3, <2>4, Zenon DEF CellOK
<1> HIDE DEF x
<1>12. IsAppend(cells, h.cells, x) /\ DOMAIN h.cells = 1 .. Len(h.cells) /\ Len(h.cells) \in Nat
  BY Appended, SeqFacts DEF HeapOK
<1> HIDE DEF cells
<1>13. /\ IsSeq(cells) /\ DOMAIN cells = DOMAIN h.cells \cup {new} /\ cells[new] = x
       /\ \A u \in DOMAIN h.cells : cells[u] = h.cells[u]
       /\ new \notin DOMAIN h.cells
  BY <1>12 DEF IsAppend
<1> HIDE DEF new
<1>14. h2.cells = cells /\ h2.closures = h.closures /\ h2.tables = h.tables
  BY DEF HeapOK, Heap
<1> HIDE DEF h2
<1>15. Later(h, h2)
  BY <1>13, <1>14 DEF Later
<1>16. \A u \in DOMAIN cells : CellOK(h, cells[u])
  BY <1>11, <1>13 DEF HeapOK
<1>17. HeapOK(c, h2)
  BY <1>13, <1>15, <1>16, LaterHeap DEF h2
<1>18. OpenCells(h2) = OpenCells(h) \cup {new}
  <2>1. ASSUME NEW u \in OpenCells(h2)  PROVE u \in OpenCells(h) \cup {new}
    BY <1>13, <1>14 DEF OpenCells
  <2>2. ASSUME NEW u \in OpenCells(h) \cup {new}  PROVE u \in OpenCells(h2)
    BY <1>11, <1>13, <1>14 DEF OpenCells
  <2> QED  BY <2>1, <2>2
<1>19. \A u \in OpenCells(h) : h2.cells[u] = h.cells[u]
  BY <1>13, <1>14 DEF OpenCells
<1>20. h2.cells[new].at = i
  BY <1>11, <1>13, <1>14
<1>21. \A a \in Places(h2) : a \in Places(h) \/ a = i
  BY <1>18, <1>19, <1>20 DEF Places
<1>22. Range(O2) = OpenCells(h2)
  <2>1. \A u : u \in OpenCells(h) <=> \E j \in 1 .. n : u = t.open[j]
    BY <1>4 DEF OpenOK, Range
  <2>2. ASSUME NEW u \in OpenCells(h2)  PROVE \E j \in 1 .. n + 1 : u = O2[j]
    <3>1. CASE u = new
      BY <3>1, <1>4, <1>10
    <3>2. CASE u # new
      <4>1. PICK j \in 1 .. n : u = t.open[j]
        BY <3>2, <1>18, <2>1
      <4>2. CASE j < k
        <5>1. j \in 1 .. k - 1 /\ j \in 1 .. n + 1
          BY <4>2, <1>4
        <5> QED  BY <5>1, <4>1, <1>10
      <4>3. CASE ~(j < k)
        <5>1. j + 1 \in k + 1 .. n + 1 /\ j + 1 \in 1 .. n + 1 /\ (j + 1) - 1 = j
          BY <4>3, <1>4
        <5> QED  BY <5>1, <4>1, <1>10
      <4> QED  BY <4>2, <4>3
    <3> QED  BY <3>1, <3>2
  <2>3. ASSUME NEW j \in 1 .. n + 1  PROVE O2[j] \in OpenCells(h2)
    <3>1. CASE j = k
      BY <3>1, <1>10, <1>18
    <3>2. CASE j < k
      <4>1. j \in 1 .. k - 1 /\ j \in 1 .. n
        BY <3>2, <1>4
      <4> QED  BY <4>1, <1>10, <1>18, <2>1
    <3>3. CASE k < j
      <4>1. j \in k + 1 .. n + 1 /\ j - 1 \in 1 .. n
        BY <3>3, <1>4
      <4> QED  BY <4>1, <1>10, <1>18, <2>1
    <3> QED  BY <3>1, <3>2, <3>3, <1>4
  <2> QED  BY <2>2, <2>3, <1>10 DEF Range
<1>23. \A p, q \in 1 .. n + 1 : p < q => h2.cells[O2[p]].at < h2.cells[O2[q]].at
  <2> DEFINE At(u) == h2.cells[u].at
  <2>1. \A j \in 1 .. n : t.open[j] \in OpenCells(h) /\ At(t.open[j]) = h.cells[t.open[j]].at
    BY <1>4, <1>19 DEF OpenOK, Range
  <2>2. \A j \in 1 .. n : At(t.open[j]) \in Nat
    BY <2>1 DEF OpenCells, HeapOK, CellOK
  <2>3. \A p, q \in 1 .. n : p < q => At(t.open[p]) < At(t.open[q])
    BY <2>1, <1>4 DEF OpenOK
  <2>4. \A j \in 1 .. n : j < k <=> At(t.open[j]) < i
    BY <2>1, <1>4 DEF IsPlace
  <2>5. k <= n => At(t.open[k]) # i
    BY <2>1, <1>4
  <2>6. At(new) = i
    BY <1>20
  <2> HIDE DEF At
  <2>7. \A j \in 1 .. n : j >= k => At(t.open[j]) > i
    <3> TAKE j \in 1 .. n
    <3>1. CASE j = k
      BY <3>1, <2>2, <2>4, <2>5, <1>4
    <3>2. CASE k < j
      BY <3>2, <2>2, <2>3, <2>4, <2>5, <1>4
    <3> QED  BY <3>1, <3>2, <1>4
  <2>8. ASSUME NEW p \in 1 .. n + 1, NEW q \in 1 .. n + 1, p < q  PROVE At(O2[p]) < At(O2[q])
    <3>1. CASE q < k
      <4>1. p \in 1 .. k - 1 /\ q \in 1 .. k - 1 /\ p \in 1 .. n /\ q \in 1 .. n
        BY <3>1, <2>8, <1>4
      <4> QED  BY <4>1, <2>3, <2>8, <1>10
    <3>2. CASE q = k
      <4>1. p \in 1 .. k - 1 /\ p \in 1 .. n /\ p < k
        BY <3>2, <2>8, <1>4
      <4> QED  BY <4>1, <3>2, <2>4, <2>6, <1>10
    <3>3. CASE k < q
      <4>1. q \in k + 1 .. n + 1 /\ q - 1 \in 1 .. n /\ q - 1 >= k
        BY <3>3, <1>4
      <4>2. O2[q] = t.open[q - 1] /\ At(t.open[q - 1]) > i /\ At(t.open[q - 1]) \in Nat
        BY <4>1, <2>2, <2>7, <1>10
      <4>3. CASE p = k
        BY <4>2, <4>3, <2>6, <1>10
      <4>4. CASE p < k
        <5>1. p \in 1 .. k - 1 /\ p \in 1 .. n
          BY <4>4, <1>4
        <5>2. O2[p] = t.open[p] /\ At(t.open[p]) < i /\ At(t.open[p]) \in Nat
          BY <5>1, <4>4, <2>2, <2>4, <1>10
        <5> QED  BY <5>2, <4>2
      <4>5. CASE k < p
        <5>1. p \in k + 1 .. n + 1 /\ p - 1 \in 1 .. n /\ p - 1 < q - 1
          BY <4>5, <2>8, <1>4
        <5>2. O2[p] = t.open[p - 1]
          BY <5>1, <1>10
        <5> QED  BY <5>1, <5>2, <4>1, <4>2, <2>3
      <4> QED  BY <4>3, <4>4, <4>5, <1>4
    <3> QED  BY <3>1, <3>2, <3>3, <1>4
  <2> QED  BY <2>8 DEF At
<1>24. OpenOK(h2, O2)
  BY <1>8, <1>10, <1>22, <1>23 DEF OpenOK
<1>25. r.t = Thread(t.frames, t.stack, O2) /\ r.t.open = O2
  BY <1>1, <1>2 DEF Thread
<1>26. r.u \in DOMAIN r.h.cells
  BY <1>1, <1>13, <1>14
<1> QED  BY <1>1, <1>15, <1>17, <1>21, <1>24, <1>25, <1>26 DEF IsOpened, r

\* open_upvalue finds or makes the upvalue of a place, and keeps the list in order.
LEMMA OpenedOK ==
  ASSUME NEW c, NEW t, NEW h, HeapOK(c, h), t = Thread(t.frames, t.stack, t.open),
         OpenOK(h, t.open), NEW i \in Nat
  PROVE  IsOpened(c, t, h, i, Opened(t, h, i))
<1> DEFINE k == PlaceFor(t, h, i)
           r == Opened(t, h, i)
<1>1. IsPlace(h, t.open, i, k)
  BY Placed
<1>2. CASE k <= Len(t.open) /\ h.cells[t.open[k]].at = i
  <2>1. r = [u |-> t.open[k], t |-> t, h |-> h]
    BY <1>2 DEF Opened
  <2>2. r.u = t.open[k] /\ r.t = t /\ r.h = h
    BY <2>1
  <2> HIDE DEF r, k
  <2>3. k \in DOMAIN t.open
    BY <1>1, <1>2, SeqFacts DEF IsPlace, OpenOK
  <2>4. r.u \in DOMAIN h.cells
    BY <2>2, <2>3 DEF OpenOK, Range, OpenCells
  <2>5. Later(h, h)
    BY DEF Later
  <2> QED  BY <2>2, <2>4, <2>5 DEF IsOpened, r
<1>3. CASE ~(k <= Len(t.open) /\ h.cells[t.open[k]].at = i)
  <2>1. r = Opening(t, h, i, k)
    BY <1>3 DEF Opened
  <2> HIDE DEF r, k
  <2>2. IsOpened(c, t, h, i, Opening(t, h, i, k))
    BY <1>1, <1>3, OpeningOK
  <2> QED  BY <2>1, <2>2 DEF r
<1> QED  BY <1>2, <1>3

\* What is later than a later heap is later.
LEMMA LaterTwice ==
  ASSUME NEW h, NEW h2, NEW h3, Later(h, h2), Later(h2, h3)
  PROVE  Later(h, h3)
BY DEF Later

\* What capturing the first k variables of descs has made.
TakenOK(c, f, g, s, a, descs, k) ==
  /\ a = [t |-> a.t, h |-> a.h, ups |-> a.ups] /\ a.t = Top(f, By(g, 1), s, a.t.open)
  /\ HeapOK(c, a.h) /\ OpenOK(a.h, a.t.open) /\ Later(heap, a.h)
  /\ IsSeq(a.ups) /\ Len(a.ups) = k
  /\ \A j \in 1 .. k : a.ups[j] \in DOMAIN a.h.cells
  /\ \A x \in Places(a.h) :
       x \in Places(heap) \/ \E j \in 1 .. k : descs[j][1] = "local" /\ x = g.base + descs[j][2]

\* A closure captures one more variable.
LEMMA CaptureOK ==
  ASSUME NEW c, NEW f, NEW g, NEW s, NEW o, NEW op, Step(c, f, g, s, o, op),
         NEW a, NEW descs, NEW k \in Nat, TakenOK(c, f, g, s, a, descs, k),
         NEW d, d = descs[k + 1],
         d[1] = "local" => d[2] \in Nat,
         d[1] # "local" => ClosureOf(Current).ups[d[2]] \in DOMAIN heap.cells
  PROVE  TakenOK(c, f, g, s, Capture(a, d), descs, k + 1)
<1> DEFINE r == Capture(a, d)
<1>1. /\ a = [t |-> a.t, h |-> a.h, ups |-> a.ups] /\ a.t = Top(f, By(g, 1), s, a.t.open)
      /\ HeapOK(c, a.h) /\ OpenOK(a.h, a.t.open) /\ Later(heap, a.h)
      /\ IsSeq(a.ups) /\ Len(a.ups) = k
      /\ \A j \in 1 .. k : a.ups[j] \in DOMAIN a.h.cells
      /\ \A x \in Places(a.h) :
           x \in Places(heap) \/ \E j \in 1 .. k : descs[j][1] = "local" /\ x = g.base + descs[j][2]
  BY DEF TakenOK
<1>2. Frame = g /\ g.base \in Nat /\ HeapOK(c, heap)
  BY StepFacts
<1>3. ASSUME NEW u, u \in DOMAIN r.h.cells, r.ups = Append(a.ups, u), r = [t |-> r.t, h |-> r.h, ups |-> r.ups],
             r.t = Top(f, By(g, 1), s, r.t.open), HeapOK(c, r.h), OpenOK(r.h, r.t.open), Later(a.h, r.h),
             \A x \in Places(r.h) : x \in Places(a.h) \/ (d[1] = "local" /\ x = g.base + d[2])
      PROVE  TakenOK(c, f, g, s, r, descs, k + 1)
  <2> HIDE DEF r
  <2>1. IsAppend(r.ups, a.ups, u)
    BY <1>1, <1>3, Appended
  <2>2. IsSeq(r.ups) /\ Len(r.ups) = k + 1
    BY <1>1, <2>1 DEF IsAppend
  <2>3. \A j \in 1 .. k + 1 : r.ups[j] \in DOMAIN r.h.cells
    <3> TAKE j \in 1 .. k + 1
    <3>1. CASE j = k + 1
      BY <3>1, <1>1, <1>3, <2>1 DEF IsAppend
    <3>2. CASE j # k + 1
      <4>1. j \in 1 .. k
        BY <3>2
      <4>2. r.ups[j] = a.ups[j] /\ a.ups[j] \in DOMAIN a.h.cells
        BY <4>1, <1>1, <2>1 DEF IsAppend
      <4> QED  BY <4>2, <1>3 DEF Later
    <3> QED  BY <3>1, <3>2
  <2>4. Later(heap, r.h)
    BY <1>1, <1>3, LaterTwice
  <2>5. \A x \in Places(r.h) :
          x \in Places(heap) \/ \E j \in 1 .. k + 1 : descs[j][1] = "local" /\ x = g.base + descs[j][2]
    <3> TAKE x \in Places(r.h)
    <3>1. CASE d[1] = "local" /\ x = g.base + d[2]
      <4>1. k + 1 \in 1 .. k + 1
        OBVIOUS
      <4> QED  BY <4>1, <3>1
    <3>2. CASE x \in Places(a.h)
      <4>1. \A j \in 1 .. k : j \in 1 .. k + 1
        OBVIOUS
      <4> QED  BY <4>1, <3>2, <1>1
    <3> QED  BY <3>1, <3>2, <1>3
  <2> QED  BY <1>3, <2>2, <2>3, <2>4, <2>5 DEF TakenOK
<1>4. CASE d[1] = "local"
  <2> DEFINE u == Opened(a.t, a.h, Frame.base + d[2])
             ups == Append(a.ups, u.u)
  <2>1. r = [t |-> u.t, h |-> u.h, ups |-> ups]
    BY <1>4 DEF Capture
  <2>2. r.t = u.t /\ r.h = u.h /\ r.ups = ups /\ r = [t |-> r.t, h |-> r.h, ups |-> r.ups]
    BY <2>1
  <2>3. a.t = Thread(a.t.frames, a.t.stack, a.t.open) /\ a.t.frames = Append(f, By(g, 1)) /\ a.t.stack = s
    <3> DEFINE F == Append(f, By(g, 1))
               O == a.t.open
    <3> HIDE DEF F, O
    <3>1. a.t = Thread(F, s, O)
      BY <1>1 DEF Top, F, O
    <3>2. a.t.frames = F /\ a.t.stack = s
      BY <3>1, ThreadFields
    <3> QED  BY <3>1, <3>2 DEF F, O
  <2>4. Frame.base + d[2] \in Nat
    BY <1>2, <1>4
  <2>5. IsOpened(c, a.t, a.h, Frame.base + d[2], u)
    BY <1>1, <2>3, <2>4, OpenedOK
  <2> HIDE DEF u, r
  <2>6. r.t = Top(f, By(g, 1), s, r.t.open)
    BY <2>2, <2>3, <2>5 DEF IsOpened, Top
  <2>7. /\ u.u \in DOMAIN r.h.cells /\ HeapOK(c, r.h) /\ OpenOK(r.h, r.t.open) /\ Later(a.h, r.h)
        /\ \A x \in Places(r.h) : x \in Places(a.h) \/ (d[1] = "local" /\ x = g.base + d[2])
    BY <2>2, <2>5, <1>2, <1>4 DEF IsOpened
  <2>8. TakenOK(c, f, g, s, r, descs, k + 1)
    BY <2>2, <2>6, <2>7, <1>3
  <2> QED  BY <2>8 DEF r
<1>5. CASE d[1] # "local"
  <2> DEFINE u == ClosureOf(Current).ups[d[2]]
             ups == Append(a.ups, u)
             x == [a EXCEPT !.ups = Append(@, u)]
  <2>1. r = x
    BY <1>5 DEF Capture
  <2>2. x = [t |-> a.t, h |-> a.h, ups |-> ups]
    BY <1>1, SMTT(30)
  <2>3. r.t = a.t /\ r.h = a.h /\ r.ups = ups /\ r = [t |-> r.t, h |-> r.h, ups |-> r.ups]
    BY <2>1, <2>2
  <2> HIDE DEF x, r, u
  <2>4. u \in DOMAIN r.h.cells
    <3>1. u \in DOMAIN heap.cells
      BY <1>5 DEF u
    <3> QED  BY <3>1, <2>3, <1>1 DEF Later
  <2>5. Later(a.h, a.h)
    BY DEF Later
  <2>6. r.t = Top(f, By(g, 1), s, r.t.open) /\ HeapOK(c, r.h) /\ OpenOK(r.h, r.t.open) /\ Later(a.h, r.h)
    BY <2>3, <2>5, <1>1
  <2>7. \A y \in Places(r.h) : y \in Places(a.h)
    BY <2>3
  <2>8. TakenOK(c, f, g, s, r, descs, k + 1)
    BY <2>3, <2>4, <2>6, <2>7, <1>3
  <2> QED  BY <2>8 DEF r
<1> QED  BY <1>4, <1>5

\* A closure captures all its variables.
LEMMA TakenInOK ==
  ASSUME NEW c, NEW f, NEW g, NEW s, NEW o, NEW op, Step(c, f, g, s, o, op),
         NEW descs, IsSeq(descs),
         \A j \in 1 .. Len(descs) :
           /\ descs[j][1] = "local" => descs[j][2] \in Nat
           /\ descs[j][1] # "local" => ClosureOf(Current).ups[descs[j][2]] \in DOMAIN heap.cells
  PROVE  TakenOK(c, f, g, s, TakenIn(descs), descs, Len(descs))
<1> DEFINE n == Len(descs)
           x == [t |-> Ahead, h |-> heap, ups |-> <<>>]
           Body(F, k) == IF k = 0 THEN x ELSE Capture(F[k - 1], descs[k])
           S == {m \in Nat : \E F : F = [k \in 0 .. m |-> Body(F, k)]}
<1>0. n \in Nat
  BY SeqFacts
<1>1. 0 \in S
  <2> DEFINE F == [k \in 0 .. 0 |-> x]
  <2>1. F = [k \in 0 .. 0 |-> Body(F, k)]
    OBVIOUS
  <2> QED  BY <2>1
<1>2. ASSUME NEW m \in Nat, m \in S  PROVE m + 1 \in S
  <2>1. PICK F : F = [k \in 0 .. m |-> Body(F, k)]
    BY <1>2
  <2> DEFINE G == [k \in 0 .. m + 1 |-> IF k <= m THEN F[k] ELSE Capture(F[m], descs[m + 1])]
  <2>2. \A k \in 0 .. m : G[k] = F[k]
    OBVIOUS
  <2>3. G[m + 1] = Capture(F[m], descs[m + 1])
    OBVIOUS
  <2>4. \A k \in 0 .. m + 1 : G[k] = Body(G, k)
    <3> TAKE k \in 0 .. m + 1
    <3> HIDE DEF G, x
    <3>1. CASE k = 0
      BY <3>1, <2>1, <2>2
    <3>2. CASE k \in 1 .. m
      <4>1. k - 1 \in 0 .. m /\ k \in 0 .. m /\ k # 0
        BY <3>2
      <4> QED  BY <4>1, <2>1, <2>2
    <3>3. CASE k = m + 1
      <4>1. (m + 1) - 1 = m /\ m \in 0 .. m /\ m + 1 # 0
        OBVIOUS
      <4> QED  BY <4>1, <3>3, <2>2, <2>3
    <3> QED  BY <3>1, <3>2, <3>3
  <2>5. G = [k \in 0 .. m + 1 |-> G[k]]
    OBVIOUS
  <2> HIDE DEF G, x
  <2>6. G = [k \in 0 .. m + 1 |-> Body(G, k)]
    BY <2>4, <2>5
  <2> HIDE DEF Body
  <2>7. \E H : H = [k \in 0 .. m + 1 |-> Body(H, k)]
    BY <2>6, Zenon
  <2> QED  BY <2>7
<1> HIDE DEF S
<1>3. n \in S
  BY <1>0, <1>1, <1>2, SetInduction
<1> DEFINE after == CHOOSE F : F = [k \in 0 .. n |-> Body(F, k)]
<1>4. after = [k \in 0 .. n |-> Body(after, k)]
  BY <1>3, Zenon DEF S
<1>5. TakenIn(descs) = after[n]
  BY Zenon DEF TakenIn
<1> HIDE DEF after
<1> DEFINE U == {m \in Nat : m <= n => TakenOK(c, f, g, s, after[m], descs, m)}
<1>6. 0 \in U
  <2>1. after[0] = x
    BY <1>0, <1>4
  <2>2. x.t = Ahead /\ x.h = heap /\ x.ups = <<>> /\ x = [t |-> x.t, h |-> x.h, ups |-> x.ups]
    OBVIOUS
  <2> HIDE DEF x
  <2>3. Ahead = Top(f, By(g, 1), s, o) /\ HeapOK(c, heap) /\ OpenOK(heap, o)
    BY StepFacts DEF Runs
  <2>4. Ahead.open = o
    BY <2>3, ThreadFields DEF Top
  <2>5. Later(heap, heap)
    BY DEF Later
  <2>6. IsSeq(x.ups) /\ Len(x.ups) = 0
    BY <2>2, TinySeqs
  <2>7. TakenOK(c, f, g, s, x, descs, 0)
    BY <2>2, <2>3, <2>4, <2>5, <2>6 DEF TakenOK
  <2> QED  BY <2>1, <2>7
<1>7. ASSUME NEW m \in Nat, m \in U  PROVE m + 1 \in U
  <2> SUFFICES ASSUME m + 1 <= n  PROVE TakenOK(c, f, g, s, after[m + 1], descs, m + 1)
    OBVIOUS
  <2>1. TakenOK(c, f, g, s, after[m], descs, m)
    BY <1>0, <1>7
  <2>2. after[m + 1] = Capture(after[m], descs[m + 1])
    <3>1. m + 1 \in 0 .. n /\ m + 1 # 0 /\ (m + 1) - 1 = m
      BY <1>0
    <3> HIDE DEF x
    <3> QED  BY <3>1, <1>4
  <2>3. m + 1 \in 1 .. Len(descs)
    BY <1>0
  <2> QED  BY <2>1, <2>2, <2>3, CaptureOK
<1> HIDE DEF U
<1>8. n \in U
  BY <1>0, <1>6, <1>7, SetInduction
<1> QED  BY <1>0, <1>5, <1>8 DEF U

WithClosures(h, x) == [h EXCEPT !.closures = x]

\* A new closure in the heap.
LEMMA ClosureAdded ==
  ASSUME NEW c, NEW h, HeapOK(c, h), NEW q, ClosureOK(c, h, q)
  PROVE  LET h2 == WithClosures(h, Append(h.closures, q))
         IN  /\ HeapOK(c, h2) /\ h2.cells = h.cells /\ h2.tables = h.tables
             /\ \A k \in DOMAIN h.closures : k \in DOMAIN h2.closures /\ h2.closures[k] = h.closures[k]
             /\ Len(h.closures) + 1 \in DOMAIN h2.closures
<1> DEFINE cs == Append(h.closures, q)
           h2 == WithClosures(h, cs)
<1>1. h2 = Heap(h.cells, cs, h.tables)
  BY SMTT(30) DEF HeapOK, Heap, WithClosures
<1>2. IsAppend(cs, h.closures, q) /\ Len(h.closures) \in Nat /\ DOMAIN h.closures = 1 .. Len(h.closures)
  BY Appended, SeqFacts DEF HeapOK
<1> HIDE DEF cs, h2
<1>3. h2.cells = h.cells /\ h2.closures = cs /\ h2.tables = h.tables
  BY <1>1 DEF Heap
<1>4. /\ IsSeq(cs) /\ DOMAIN cs = 1 .. Len(h.closures) + 1 /\ cs[Len(h.closures) + 1] = q
      /\ \A k \in DOMAIN h.closures : k \in DOMAIN cs /\ cs[k] = h.closures[k]
  BY <1>2 DEF IsAppend
<1>5. \A v : ValueOK(h, v) => ValueOK(h2, v)
  BY <1>3, <1>4 DEF ValueOK
<1>6. \A k \in DOMAIN h2.closures : ClosureOK(c, h2, h2.closures[k])
  <2> TAKE k \in DOMAIN h2.closures
  <2>1. k \in DOMAIN h.closures \/ k = Len(h.closures) + 1
    BY <1>2, <1>3, <1>4
  <2>2. ClosureOK(c, h, h2.closures[k])
    <3>1. CASE k \in DOMAIN h.closures
      BY <3>1, <1>3, <1>4 DEF HeapOK
    <3>2. CASE k = Len(h.closures) + 1
      BY <3>2, <1>3, <1>4
    <3> QED  BY <3>1, <3>2, <2>1
  <2> QED  BY <2>2, <1>3 DEF ClosureOK
<1>7. \A u \in DOMAIN h2.cells : CellOK(h2, h2.cells[u])
  BY <1>3, <1>5 DEF HeapOK, CellOK
<1>8. \A k \in DOMAIN h2.tables : TableOK(h2, h2.tables[k])
  BY <1>3, <1>5 DEF HeapOK, TableOK
<1>9. h2 = Heap(h2.cells, h2.closures, h2.tables) /\ IsSeq(h2.cells) /\ IsSeq(h2.closures) /\ IsSeq(h2.tables)
  BY <1>1, <1>3, <1>4 DEF HeapOK
<1>10. HeapOK(c, h2)
  BY <1>6, <1>7, <1>8, <1>9 DEF HeapOK
<1>11. Len(h.closures) + 1 \in DOMAIN h2.closures
  BY <1>2, <1>3, <1>4
<1> QED  BY <1>3, <1>4, <1>10, <1>11 DEF h2, cs

\* The captured variables of a running thread are in its stack.
LEMMA PlacesIn ==
  ASSUME NEW c, NEW f, NEW g, NEW s, NEW o, Runs(c, f, g, s, o)
  PROVE  \A a \in Places(heap) : a \in Nat /\ a < Len(s)
<1> DEFINE n == NoteNow(c, s, g)
           p == ProtoNow(c, s, g)
<1>1. /\ \A a \in Places(heap) : a < g.bottom \/ a - g.base \in n.open
      /\ n.open \subseteq 0 .. Room(p, n) - 1 /\ Room(p, n) \in Nat /\ g.base + Room(p, n) <= Len(s)
      /\ g.bottom \in Nat /\ g.base \in Nat /\ g.bottom < g.base /\ g.base <= Len(s) /\ Len(s) \in Nat
  BY InstructionFacts
<1>2. \A a \in Places(heap) : a \in Nat
  BY LikeFacts, LikeItself DEF Runs
<1> HIDE DEF n, p
<1>3. ASSUME NEW a \in Places(heap)  PROVE a < Len(s)
  <2>1. CASE a < g.bottom
    BY <2>1, <1>1, <1>2
  <2>2. CASE a - g.base \in n.open
    BY <2>2, <1>1, <1>2, SMTT(30)
  <2> QED  BY <2>1, <2>2, <1>1
<1> QED  BY <1>2, <1>3

\* Opening and closing upvalues is nothing that frames below mind.
LEMMA LaterOver ==
  ASSUME NEW c, NEW h, NEW h2, NEW s, NEW s2, NEW b, Later(h, h2), HeapOK(c, h2), b \in Nat, b <= Len(s),
         b <= Len(s2), \A i \in 1 .. b : s2[i] = s[i],
         \A a \in Places(h2) : a \in Places(h) \/ b <= a
  PROVE  Over(h, s, h2, s2, b)
<1>1. \A a \in Places(h2) : a \in Nat
  BY LikeFacts, LikeItself
<1> QED  BY <1>1 DEF Over, Later

\* OpCode::Jump, which may close the upvalues of a block.
LEMMA JumpKeeps ==
  ASSUME NEW c, NEW f, NEW g, NEW s, NEW o, NEW op, Step(c, f, g, s, o, op), JumpInstruction(op)
  PROVE  Keeps(c)
<1> DEFINE t == Skip(Ahead, op.offset)
           b == Frame.base + op.close
           r == Closed(t, heap, b)
           j == g.pc + 1 + 1 + op.offset
           k == 1 + op.offset
           n == NoteNow(c, s, g)
           p == ProtoNow(c, s, g)
<1>1. /\ op.op = "Jump" /\ (op.close = NoClose => Goes(t, heap))
      /\ op.close # NoClose => Goes(r.t, r.h)
  BY DEF JumpInstruction
<1>2. /\ Follow(op, g.pc + 1) = {j} /\ FromAfter(op) = Fixed /\ Takes(op) = 0 /\ Jumps(op) = {op.offset, op.close}
  BY <1>1, StepFacts DEF Follow, FromAfter, Takes, Jumps, NoClose
<1>3. /\ Runs(c, f, g, s, o) /\ op = Operation /\ status = "running" /\ IsSeq(f) /\ IsLua(g)
      /\ HeapOK(c, heap) /\ ValuesOK(heap, s) /\ OpenOK(heap, o) /\ Frame = g
      /\ g.base \in Nat /\ g.base <= Len(s) /\ Len(s) \in Nat /\ g.pc \in Nat
      /\ g.bottom \in Nat /\ g.bottom < g.base
      /\ op.offset \in Int /\ op.close \in Int
  BY <1>2, StepFacts DEF Runs
<1>4. t = Top(f, By(g, k), s, o) /\ k \in Int
  <2>1. op.offset \in Int
    BY <1>3
  <2>2. \A m \in Int : Skip(Ahead, m) = Top(f, By(g, 1 + m), s, o)
    BY AheadBy
  <2>3. k \in Int
    BY <2>1
  <2> QED  BY <2>1, <2>2, <2>3
<1>5. /\ g.variable = (n.from # Fixed) /\ (n.from # Fixed <=> Takes(op) = Variable)
      /\ n.from = Fixed => Len(s) = g.base + g.size
      /\ \A a \in Places(heap) : a < g.bottom \/ a - g.base \in n.open
  <2>1. Runs(c, f, g, s, o) /\ op = Operation
    BY <1>3
  <2>2. \A a \in Places(heap) : a < g.bottom \/ a - g.base \in n.open
    BY <2>1, InstructionFacts
  <2>3. n.from = Fixed => Len(s) = g.base + g.size
    BY <2>1, InstructionFacts
  <2>4. g.variable = (n.from # Fixed)
    BY <2>1, InstructionFacts
  <2>5. n.from # Fixed <=> Takes(op) = Variable
    BY <2>1, InstructionFacts
  <2> HIDE DEF n
  <2> QED  BY <2>2, <2>3, <2>4, <2>5, Zenon
<1>6. n.from = Fixed /\ Len(s) = g.base + g.size
  <2> HIDE DEF n
  <2>1. Takes(op) # Variable
    BY <1>2 DEF Variable
  <2> QED  BY <2>1, <1>5
<1>7. g.ret = <<>> /\ g.variable = FALSE
  <2>1. g.ret = <<>>
    BY <1>3 DEF Runs, RunningOK
  <2> HIDE DEF n
  <2>2. g.variable = FALSE
    BY <1>5, <1>6, Zenon
  <2> QED  BY <2>1, <2>2
<1>8. By(g, k) = [is |-> "lua", bottom |-> g.bottom, base |-> g.base, size |-> g.size,
                  variable |-> FALSE, pc |-> j - 1, ret |-> <<>>]
  <2>0. g.pc \in Nat /\ op.offset \in Int /\ IsLua(g)
    BY <1>3
  <2>1. g.pc + k = j - 1
    BY <2>0
  <2> HIDE DEF k
  <2>2. By(g, k) = [is |-> "lua", bottom |-> g.bottom, base |-> g.base, size |-> g.size,
                   variable |-> g.variable, pc |-> g.pc + k, ret |-> g.ret]
    BY <2>0 DEF By, IsLua
  <2> QED  BY <2>1, <2>2, <1>7
<1>9. Captures(c.protos, p, op) = {}
  BY <1>1 DEF Captures
<1> HIDE DEF j
<1>10. CASE op.close = NoClose
  <2>1. StaysOpen(op, n.open) = n.open
    BY <1>10 DEF StaysOpen
  <2>2. Over(heap, s, heap, s, g.base)
    BY <1>3, SameOver
  <2>3. j \in Follow(op, g.pc + 1)
    BY <1>2
  <2>4. \A a \in Places(heap) :
          a < g.bottom \/ a - g.base \in StaysOpen(op, n.open) \cup Captures(c.protos, p, op)
    BY <2>1, <1>5
  <2> HIDE DEF t
  <2> HIDE DEF k
  <2>5. Good(c, Top(f, By(g, k), s, o), heap)
    BY <2>2, <2>3, <2>4, <1>2, <1>3, <1>6, <1>8, Stays
  <2> QED  BY <2>5, <1>1, <1>3, <1>4, <1>10, GoesKeeps
<1>11. CASE op.close # NoClose
  <2>1. StaysOpen(op, n.open) = {x \in n.open : x < op.close}
    BY <1>1, <1>11 DEF StaysOpen
  <2> HIDE DEF r, k
  <2>2. t.frames = Append(f, By(g, k)) /\ t.stack = s /\ t.open = o /\ t = Thread(t.frames, t.stack, t.open)
    <3> DEFINE F == Append(f, By(g, k))
    <3> HIDE DEF F, t
    <3>1. t = Thread(F, s, o)
      BY <1>4 DEF Top, F
    <3>2. t.frames = F /\ t.stack = s /\ t.open = o
      BY <3>1, ThreadFields
    <3> QED  BY <3>1, <3>2 DEF F
  <2>3. \A a \in Places(heap) : a \in Nat /\ a < Len(s)
    BY <1>3, PlacesIn
  <2>4. IsClosed(c, t, heap, b, r)
    <3> HIDE DEF t
    <3>1. b \in Int
      BY <1>3
    <3> QED  BY <3>1, <2>2, <2>3, <1>3, ClosedOK DEF r
  <2> HIDE DEF t
  <2>5. /\ r.t = Top(f, By(g, k), s, r.t.open)
        /\ HeapOK(c, r.h) /\ OpenOK(r.h, r.t.open) /\ Later(heap, r.h)
        /\ \A a \in Places(r.h) : a \in Places(heap) /\ a < b /\ a \in Nat
    BY <2>2, <2>4 DEF IsClosed, Top
  <2>6. ValuesOK(r.h, s)
    BY <2>5, <1>3, LaterValues
  <2>7. Over(heap, s, r.h, s, g.base)
    BY <2>5, <1>3, LaterOver
  <2>8. \A a \in Places(r.h) :
          a < g.bottom \/ a - g.base \in StaysOpen(op, n.open) \cup Captures(c.protos, p, op)
    <3> TAKE a \in Places(r.h)
    <3>1. CASE a - g.base \in n.open
      <4>1. a - g.base < op.close
        BY <2>5, <1>3
      <4> QED  BY <4>1, <3>1, <2>1
    <3> QED  BY <3>1, <2>5, <1>5
  <2>9. j \in Follow(op, g.pc + 1)
    BY <1>2
  <2> DEFINE o2 == r.t.open
             h2 == r.h
  <2>10. Good(c, Top(f, By(g, k), s, o2), h2)
    <3> HIDE DEF o2, h2
    <3>1. HeapOK(c, h2) /\ OpenOK(h2, o2) /\ ValuesOK(h2, s) /\ Over(heap, s, h2, s, g.base)
      BY <2>5, <2>6, <2>7 DEF o2, h2
    <3>2. \A a \in Places(h2) :
            a < g.bottom \/ a - g.base \in StaysOpen(op, n.open) \cup Captures(c.protos, p, op)
      BY <2>8 DEF h2
    <3> QED  BY <3>1, <3>2, <2>9, <1>2, <1>3, <1>6, <1>8, Stays
  <2> QED  BY <2>5, <2>10, <1>1, <1>3, <1>11, GoesKeeps
<1> QED  BY <1>10, <1>11

\* What the descriptors of the upvalues of a new closure name is there.
DescsFit(c, s, g, op, id, descs) ==
  /\ IsSeq(descs) /\ id \in DOMAIN c.protos /\ descs = c.protos[id].ups
  /\ \A j \in 1 .. Len(descs) :
       /\ descs[j][1] = "local" => descs[j][2] \in Nat
       /\ descs[j][1] # "local" => ClosureOf(Current).ups[descs[j][2]] \in DOMAIN heap.cells
  /\ descs = c.protos[ProtoNow(c, s, g).protos[op.proto]].ups

\* What the closure instruction captures is there to be captured.
LEMMA DescsOK ==
  ASSUME NEW c, NEW f, NEW g, NEW s, NEW o, NEW op, Step(c, f, g, s, o, op), op.op = "Closure",
         NEW id, id = Proto.protos[op.proto], NEW descs, descs = code[id].ups
  PROVE  DescsFit(c, s, g, op, id, descs)
<1> DEFINE p == ProtoNow(c, s, g)
           q == ClosureAt(heap, s, g)
<1>1. Runs(c, f, g, s, o) /\ op = Operation
  BY StepFacts
<1>2. /\ Proto = p /\ Current = s[g.bottom + 1] /\ SoundPrototype(c.protos, p, NotesAt(c, heap, s, g))
      /\ ClosureOK(c, heap, q)
  BY <1>1, RunFacts
<1>3. op.proto \in DOMAIN p.protos
  <2>1. op.op = "Closure" => op.proto \in DOMAIN p.protos
    BY <1>1, InstructionFacts
  <2> QED  BY <2>1
<1>4. ClosureOf(Current) = q /\ p = c.protos[q.proto] /\ code = c.protos /\ Sound(c)
  BY <1>1, <1>2, Zenon DEF ClosureOf, ClosureAt, ProtoNow, ProtoAt, Runs
<1> HIDE DEF p, q
<1>5. id \in DOMAIN c.protos /\ Takeable(p, c.protos[id]) /\ descs = c.protos[id].ups
      /\ id = p.protos[op.proto]
  BY <1>2, <1>3, <1>4 DEF SoundPrototype
<1>6. IsSeq(descs)
  BY <1>4, <1>5, Zenon DEF Sound, SoundPrototype, IsSeq
<1>7. ASSUME NEW j \in 1 .. Len(descs)
      PROVE  /\ descs[j][1] = "local" => descs[j][2] \in Nat
             /\ descs[j][1] # "local" => ClosureOf(Current).ups[descs[j][2]] \in DOMAIN heap.cells
  <2>1. j \in DOMAIN descs
    BY <1>6, SeqFacts
  <2>2. \/ descs[j][1] = "local" /\ descs[j][2] \in 0 .. p.size - 1
        \/ descs[j][1] = "outer" /\ descs[j][2] \in DOMAIN p.ups
    BY <2>1, <1>5, Zenon DEF Takeable
  <2>3. descs[j][1] # "local" => descs[j][2] \in DOMAIN q.ups
    BY <2>2, <1>2, <1>4, Zenon DEF ClosureOK
  <2>4. descs[j][1] # "local" => q.ups[descs[j][2]] \in DOMAIN heap.cells
    BY <2>3, <1>2 DEF ClosureOK
  <2>5. p.size \in Nat
    BY <1>2 DEF SoundPrototype
  <2>6. descs[j][1] = "local" => descs[j][2] \in Nat
    BY <2>2, <2>5
  <2>7. descs[j][1] # "local" => ClosureOf(Current).ups[descs[j][2]] \in DOMAIN heap.cells
    BY <2>4, <1>4, Zenon
  <2> QED  BY <2>6, <2>7, Zenon
<1> QED  BY <1>5, <1>6, <1>7, Zenon DEF p, DescsFit

\* OpCode::Closure.
LEMMA NewClosureKeeps ==
  ASSUME NEW c, NEW f, NEW g, NEW s, NEW o, NEW op, Step(c, f, g, s, o, op), NewClosure(op)
  PROVE  Keeps(c)
<1> DEFINE id == Proto.protos[op.proto]
           descs == code[id].ups
           all == TakenIn(descs)
           q == [proto |-> id, ups |-> all.ups]
           cs == Append(all.h.closures, q)
           h2 == WithClosures(all.h, cs)
           v == <<"fn", Len(heap.closures) + 1>>
           s2 == Put(s, g.base + op.dest + 1, v)
           n == NoteNow(c, s, g)
           p == ProtoNow(c, s, g)
<1>1. op.op = "Closure" /\ Goes(SetReg(all.t, op.dest, v), h2)
  BY Zenon DEF NewClosure, WithClosures
<1>2. Plain(op) /\ g.pc + 1 + 1 \in Follow(op, g.pc + 1) /\ op.dest \in Touches(op)
      /\ FromAfter(op) = Fixed
  BY <1>1 DEF Plain, Takes, Variable, FromAfter, Follow, Touches
<1>3. /\ Runs(c, f, g, s, o) /\ op = Operation /\ status = "running" /\ IsSeq(f) /\ IsLua(g)
      /\ HeapOK(c, heap) /\ ValuesOK(heap, s) /\ g.base \in Nat /\ g.base <= Len(s) /\ Len(s) \in Nat
      /\ g.pc \in Nat
  BY StepFacts
<1>4. op.dest \in Nat
  BY <1>2, Touched
<1>5. /\ IsSeq(descs) /\ id \in DOMAIN c.protos /\ descs = c.protos[id].ups
      /\ \A j \in 1 .. Len(descs) :
           /\ descs[j][1] = "local" => descs[j][2] \in Nat
           /\ descs[j][1] # "local" => ClosureOf(Current).ups[descs[j][2]] \in DOMAIN heap.cells
      /\ descs = c.protos[p.protos[op.proto]].ups
  <2>1. op.op = "Closure" /\ id = Proto.protos[op.proto] /\ descs = code[id].ups
    BY <1>1
  <2> HIDE DEF id, descs
  <2>2. DescsFit(c, s, g, op, id, descs)
    BY <2>1, DescsOK
  <2> QED  BY <2>2, Zenon DEF DescsFit
<1> HIDE DEF id, descs, p
<1>6. TakenOK(c, f, g, s, all, descs, Len(descs))
  BY <1>5, TakenInOK, Zenon
<1> HIDE DEF all
<1> DEFINE o2 == all.t.open
<1>7. /\ all.t = Top(f, By(g, 1), s, o2)
      /\ HeapOK(c, all.h) /\ OpenOK(all.h, o2) /\ Later(heap, all.h)
      /\ IsSeq(all.ups) /\ Len(all.ups) = Len(descs)
      /\ \A j \in 1 .. Len(descs) : all.ups[j] \in DOMAIN all.h.cells
      /\ \A x \in Places(all.h) :
           x \in Places(heap) \/ \E j \in 1 .. Len(descs) : descs[j][1] = "local" /\ x = g.base + descs[j][2]
  BY <1>6 DEF TakenOK
<1>8. q.proto = id /\ q.ups = all.ups
  OBVIOUS
<1> HIDE DEF q
<1>9. ClosureOK(c, all.h, q)
  <2>1. DOMAIN descs = 1 .. Len(descs) /\ DOMAIN all.ups = 1 .. Len(descs)
    BY <1>5, <1>7, SeqFacts, Zenon
  <2> QED  BY <2>1, <1>5, <1>7, <1>8, Zenon DEF ClosureOK
<1>10. /\ HeapOK(c, h2) /\ h2.cells = all.h.cells /\ h2.tables = all.h.tables
       /\ \A k \in DOMAIN all.h.closures : k \in DOMAIN h2.closures /\ h2.closures[k] = all.h.closures[k]
       /\ Len(all.h.closures) + 1 \in DOMAIN h2.closures
  BY <1>7, <1>9, ClosureAdded
<1> HIDE DEF h2, o2
<1>11. /\ \A k \in DOMAIN heap.closures : k \in DOMAIN h2.closures /\ h2.closures[k] = heap.closures[k]
       /\ Len(heap.closures) + 1 \in DOMAIN h2.closures /\ h2.tables = heap.tables
  BY <1>7, <1>10 DEF Later
<1>12. \A w : ValueOK(heap, w) => ValueOK(h2, w)
  BY <1>11 DEF ValueOK
<1>13. v[1] = "fn" /\ v[2] = Len(heap.closures) + 1
  OBVIOUS
<1> HIDE DEF v
<1>14. ValueOK(h2, v) /\ ValuesOK(h2, s)
  BY <1>3, <1>11, <1>12, <1>13, SameValues DEF ValueOK
<1>15. IsChange(h2, s2, s, g.base + op.dest + 1, v)
  BY <1>14, ChangedValues DEF Put
<1>16. SetReg(all.t, op.dest, v) = Top(f, By(g, 1), s2, o2)
  <2>1. 1 \in Int /\ IsSeq(f) /\ IsLua(g)
    BY <1>3
  <2>3. \A r, w : SetReg(Top(f, By(g, 1), s, o2), r, w) = Top(f, By(g, 1), Put(s, g.base + r + 1, w), o2)
    BY <2>1, RewritesBy
  <2>2. SetReg(Top(f, By(g, 1), s, o2), op.dest, v) = Top(f, By(g, 1), s2, o2)
    BY <2>3
  <2> QED  BY <2>2, <1>7
<1> HIDE DEF s2
<1>17. ValuesOK(h2, s2) /\ Len(s2) = Len(s) /\ \A i \in 1 .. g.base : s2[i] = s[i]
  BY <1>3, <1>4, <1>15 DEF IsChange
<1>18. Places(h2) = Places(all.h) /\ OpenOK(h2, o2)
  BY <1>7, <1>10 DEF Places, OpenCells, OpenOK
<1>19. \A a \in Places(heap) : a < g.bottom \/ a - g.base \in n.open
  BY <1>3, InstructionFacts
<1>20. StaysOpen(op, n.open) = n.open
  BY <1>1 DEF StaysOpen
<1>21. Captures(c.protos, p, op) = {d[2] : d \in {e \in Range(descs) : e[1] = "local"}}
  BY <1>1, <1>5, Zenon DEF Captures
<1> HIDE DEF n
<1>22. ASSUME NEW a \in Places(h2)
       PROVE  /\ a < g.bottom \/ a - g.base \in StaysOpen(op, n.open) \cup Captures(c.protos, p, op)
              /\ a \in Nat /\ (a \in Places(heap) \/ g.base <= a)
  <2>0. \A x \in Places(heap) : x \in Nat
    BY <1>3, PlacesIn
  <2>1. CASE a \in Places(heap)
    BY <2>0, <2>1, <1>19, <1>20
  <2>2. CASE \E j \in 1 .. Len(descs) : descs[j][1] = "local" /\ a = g.base + descs[j][2]
    <3>1. PICK j \in 1 .. Len(descs) : descs[j][1] = "local" /\ a = g.base + descs[j][2]
      BY <2>2
    <3>2. descs[j] \in Range(descs) /\ descs[j][2] \in Nat
      BY <3>1, <1>5, SeqFacts, Zenon DEF Range
    <3>3. descs[j][2] \in Captures(c.protos, p, op)
      BY <3>1, <3>2, <1>21
    <3>4. a - g.base = descs[j][2] /\ a \in Nat /\ g.base <= a
      BY <3>1, <3>2, <1>3, SMTT(30)
    <3> QED  BY <3>3, <3>4
  <2> QED  BY <2>1, <2>2, <1>7, <1>18
<1>23. Over(heap, s, h2, s2, g.base)
  BY <1>3, <1>7, <1>10, <1>11, <1>17, <1>22 DEF Over, Later
<1>24. /\ By(g, 1) = [is |-> "lua", bottom |-> g.bottom, base |-> g.base, size |-> g.size,
                     variable |-> FALSE, pc |-> (g.pc + 1 + 1) - 1, ret |-> <<>>]
       /\ Len(s) = g.base + g.size
  <2>1. 1 \in Int
    OBVIOUS
  <2> QED  BY <2>1, <1>2, <1>3, StepsByShape
<1>25. n = NoteNow(c, s, g) /\ p = ProtoNow(c, s, g)
  BY DEF n, p
<1> DEFINE j == g.pc + 1 + 1
<1>26. j \in Follow(op, g.pc + 1)
  BY <1>2
<1>27. /\ By(g, 1) = [is |-> "lua", bottom |-> g.bottom, base |-> g.base, size |-> g.size,
                     variable |-> FALSE, pc |-> j - 1, ret |-> <<>>]
  BY <1>24
<1> HIDE DEF j
<1>28. Len(s2) = g.base + g.size
  BY <1>17, <1>24
<1>29. Good(c, Top(f, By(g, 1), s2, o2), h2)
  BY <1>2, <1>3, <1>10, <1>17, <1>18, <1>22, <1>23, <1>25, <1>26, <1>27, <1>28, Stays
<1> QED  BY <1>1, <1>3, <1>16, <1>29, GoesKeeps

\* A table in the heap is changed.
LEMMA TableChanged ==
  ASSUME NEW c, NEW h, HeapOK(c, h), NEW i \in DOMAIN h.tables, NEW y, TableOK(h, y)
  PROVE  Like(c, h, Heap(h.cells, h.closures, [h.tables EXCEPT ![i] = y]))
<1> DEFINE ts == [h.tables EXCEPT ![i] = y]
           h2 == Heap(h.cells, h.closures, ts)
<1>1. IsSeq(h.tables)
  BY DEF HeapOK
<1>2. h2.cells = h.cells /\ h2.closures = h.closures /\ h2.tables = ts
      /\ h2 = Heap(h2.cells, h2.closures, h2.tables)
  <2> HIDE DEF ts
  <2> QED  BY DEF Heap
<1>3. /\ IsSeq(ts) /\ DOMAIN ts = DOMAIN h.tables
      /\ \A k \in DOMAIN h.tables : ts[k] = IF k = i THEN y ELSE h.tables[k]
  <2>1. IsSeq(ts)
    BY <1>1, ChangedSeq
  <2> QED  BY <2>1
<1> HIDE DEF ts, h2
<1>4. \A v : ValueOK(h, v) => ValueOK(h2, v)
  BY <1>2, <1>3 DEF ValueOK
<1>5. \A k \in DOMAIN h2.tables : TableOK(h2, h2.tables[k])
  <2> TAKE k \in DOMAIN h2.tables
  <2>1. TableOK(h, h2.tables[k])
    BY <1>2, <1>3 DEF HeapOK
  <2> QED  BY <2>1, <1>2, <1>3, <1>4 DEF TableOK
<1>6. \A u \in DOMAIN h2.cells : CellOK(h2, h2.cells[u])
  BY <1>2, <1>4 DEF HeapOK, CellOK
<1>7. \A k \in DOMAIN h2.closures : ClosureOK(c, h2, h2.closures[k])
  BY <1>2 DEF HeapOK, ClosureOK
<1>8. HeapOK(c, h2)
  <2>1. IsSeq(h2.cells) /\ IsSeq(h2.closures) /\ IsSeq(h2.tables)
    BY <1>2, <1>3 DEF HeapOK
  <2> QED  BY <2>1, <1>2, <1>5, <1>6, <1>7 DEF HeapOK
<1>9. Like(c, h, h2)
  BY <1>2, <1>3, <1>8 DEF Like
<1> QED  BY <1>9 DEF h2, ts

WithMap(h, i, m) == [h EXCEPT !.tables[i].map = m]
WithMeta(h, i, m) == [h EXCEPT !.tables[i].meta = m]

\* A table gets other fields.
LEMMA MapChanged ==
  ASSUME NEW c, NEW h, HeapOK(c, h), NEW i \in DOMAIN h.tables, NEW m, \A k \in DOMAIN m : ValueOK(h, m[k])
  PROVE  Like(c, h, WithMap(h, i, m))
<1> DEFINE x == h.tables[i]
           y == [map |-> m, meta |-> x.meta]
<1>1. TableOK(h, x)
  BY DEF HeapOK
<1>2. y.map = m /\ y.meta = x.meta /\ y = [map |-> y.map, meta |-> y.meta]
  OBVIOUS
<1>3. [x EXCEPT !.map = m] = y
  BY <1>1 DEF TableOK
<1>4. WithMap(h, i, m) = Heap(h.cells, h.closures, [h.tables EXCEPT ![i] = y])
  <2>1. h = [cells |-> h.cells, closures |-> h.closures, tables |-> h.tables]
    BY DEF HeapOK, Heap
  <2>2. WithMap(h, i, m) = [h EXCEPT !.tables = [h.tables EXCEPT ![i] = y]]
    BY <1>3 DEF WithMap
  <2> DEFINE ts == [h.tables EXCEPT ![i] = y]
  <2> HIDE DEF ts
  <2>3. [h EXCEPT !.tables = ts] = Heap(h.cells, h.closures, ts)
    BY <2>1 DEF Heap
  <2> QED  BY <2>2, <2>3 DEF ts
<1> HIDE DEF x, y
<1>5. TableOK(h, y)
  BY <1>1, <1>2 DEF TableOK
<1> QED  BY <1>4, <1>5, TableChanged

\* A table gets another metatable.
LEMMA MetaChanged ==
  ASSUME NEW c, NEW h, HeapOK(c, h), NEW i \in DOMAIN h.tables, NEW m, ValueOK(h, m),
         m = NilValue \/ m[1] = "table"
  PROVE  Like(c, h, WithMeta(h, i, m))
<1> DEFINE x == h.tables[i]
           y == [map |-> x.map, meta |-> m]
<1>1. TableOK(h, x)
  BY DEF HeapOK
<1>2. y.map = x.map /\ y.meta = m /\ y = [map |-> y.map, meta |-> y.meta]
  OBVIOUS
<1>3. [x EXCEPT !.meta = m] = y
  BY <1>1 DEF TableOK
<1>4. WithMeta(h, i, m) = Heap(h.cells, h.closures, [h.tables EXCEPT ![i] = y])
  <2>1. h = [cells |-> h.cells, closures |-> h.closures, tables |-> h.tables]
    BY DEF HeapOK, Heap
  <2>2. WithMeta(h, i, m) = [h EXCEPT !.tables = [h.tables EXCEPT ![i] = y]]
    BY <1>3 DEF WithMeta
  <2> DEFINE ts == [h.tables EXCEPT ![i] = y]
  <2> HIDE DEF ts
  <2>3. [h EXCEPT !.tables = ts] = Heap(h.cells, h.closures, ts)
    BY <2>1 DEF Heap
  <2> QED  BY <2>2, <2>3 DEF ts
<1> HIDE DEF x, y
<1>5. TableOK(h, y)
  BY <1>1, <1>2 DEF TableOK, ValueOK
<1> QED  BY <1>4, <1>5, TableChanged

\* Setting a field of a table.
LEMMA RawSetOK ==
  ASSUME NEW c, NEW h, HeapOK(c, h), NEW t, ValueOK(h, t), IsTable(t), NEW k, NEW v, ValueOK(h, v)
  PROVE  Like(c, h, RawSet(h, t, k, v))
<1> DEFINE m == h.tables[t[2]].map
           keys == IF v = NilValue THEN DOMAIN m \ {k} ELSE DOMAIN m \cup {k}
           new == [x \in keys |-> IF x = k THEN v ELSE m[x]]
<1>1. t[2] \in DOMAIN h.tables
  BY DEF ValueOK, IsTable
<1>2. \A x \in DOMAIN m : ValueOK(h, m[x])
  BY <1>1 DEF HeapOK, TableOK
<1>3. \A x \in DOMAIN new : ValueOK(h, new[x])
  <2> HIDE DEF m
  <2> TAKE x \in DOMAIN new
  <2>1. x \in keys /\ new[x] = IF x = k THEN v ELSE m[x]
    OBVIOUS
  <2>2. x = k \/ x \in DOMAIN m
    BY <2>1
  <2> QED  BY <2>1, <2>2, <1>2
<1>4. RawSet(h, t, k, v) = WithMap(h, t[2], new)
  BY DEF RawSet, WithMap
<1> HIDE DEF new
<1> QED  BY <1>1, <1>3, <1>4, MapChanged

\* Setting a list of fields of a table.
LEMMA RawSetListOK ==
  ASSUME NEW c, NEW h, HeapOK(c, h), NEW t, ValueOK(h, t), IsTable(t), NEW start, NEW values, ValuesOK(h, values)
  PROVE  Like(c, h, RawSetList(h, t, start, values))
<1> DEFINE m == h.tables[t[2]].map
           keys == {<<"int", start + i>> : i \in DOMAIN values}
           new(k) == IF k \in keys
                     THEN values[CHOOSE i \in DOMAIN values : k = <<"int", start + i>>] ELSE m[k]
           y == [k \in {x \in DOMAIN m \cup keys : new(x) # NilValue} |-> new(k)]
<1>1. t[2] \in DOMAIN h.tables
  BY DEF ValueOK, IsTable
<1>2. \A x \in DOMAIN m : ValueOK(h, m[x])
  BY <1>1 DEF HeapOK, TableOK
<1>3. \A k \in keys : ValueOK(h, new(k))
  <2> TAKE k \in keys
  <2> DEFINE i == CHOOSE j \in DOMAIN values : k = <<"int", start + j>>
  <2>1. \E j \in DOMAIN values : k = <<"int", start + j>>
    OBVIOUS
  <2>2. i \in DOMAIN values
    BY <2>1
  <2>3. new(k) = values[i]
    OBVIOUS
  <2> HIDE DEF i, new
  <2>4. ValueOK(h, values[i])
    BY <2>2, Lengths, SeqFacts
  <2> QED  BY <2>3, <2>4
<1>4. \A k \in DOMAIN y : ValueOK(h, y[k])
  <2> TAKE k \in DOMAIN y
  <2>1. k \in DOMAIN m \cup keys /\ y[k] = new(k)
    OBVIOUS
  <2>2. CASE k \in keys
    <3> HIDE DEF new, keys, y
    <3> QED  BY <2>1, <2>2, <1>3
  <2>3. CASE k \notin keys
    <3>1. new(k) = m[k]
      BY <2>3
    <3> HIDE DEF new, keys, y, m
    <3> QED  BY <3>1, <2>1, <2>3, <1>2
  <2> QED  BY <2>2, <2>3
<1>5. RawSetList(h, t, start, values) = WithMap(h, t[2], y)
  BY DEF RawSetList, WithMap
<1> HIDE DEF y
<1> QED  BY <1>1, <1>4, <1>5, MapChanged

\* A field of a table is a value.
LEMMA RawGetOK ==
  ASSUME NEW c, NEW h, HeapOK(c, h), NEW t, ValueOK(h, t), IsTable(t), NEW k
  PROVE  ValueOK(h, RawGet(h, t, k))
<1>1. TableOK(h, h.tables[t[2]])
  BY DEF HeapOK, ValueOK, IsTable
<1> QED  BY <1>1, NilOK DEF RawGet, TableOK

\* A metamethod is a value.
LEMMA MetaFieldOK ==
  ASSUME NEW c, NEW h, HeapOK(c, h), NEW v, ValueOK(h, v), NEW name
  PROVE  ValueOK(h, MetaField(h, v, name))
<1> DEFINE m == h.tables[v[2]].meta
<1>1. ASSUME IsTable(v), m # NilValue  PROVE ValueOK(h, m) /\ IsTable(m)
  <2>1. TableOK(h, h.tables[v[2]])
    BY <1>1 DEF HeapOK, ValueOK, IsTable
  <2> QED  BY <1>1, <2>1 DEF TableOK, ValueOK, IsTable
<1> HIDE DEF m
<1>2. MetaField(h, v, name) = IF IsTable(v) /\ m # NilValue THEN RawGet(h, m, Str(name)) ELSE NilValue
  BY DEF MetaField, m
<1>3. CASE IsTable(v) /\ m # NilValue
  BY <1>1, <1>2, <1>3, RawGetOK
<1>4. CASE ~(IsTable(v) /\ m # NilValue)
  BY <1>2, <1>4, NilOK
<1> QED  BY <1>3, <1>4

\* A function that may be called with any arguments.
CallableOK(h, f) ==
  \/ f[1] = "bound" /\ ValueOK(h, f[2]) /\ ValueOK(h, f[3])
  \/ f[1] \in {"fn", "native"} /\ ValueOK(h, f)

\* What meta_ops::call gives is a function that takes any arguments.
LEMMA CallableForOK ==
  ASSUME NEW c, NEW h, HeapOK(c, h), NEW v, ValueOK(h, v), CallableFor(h, v) # NilValue
  PROVE  CallableOK(h, CallableFor(h, v))
<1> DEFINE f == MetaField(h, v, "__call")
           x == <<"bound", v, f>>
<1>1. ValueOK(h, f)
  BY MetaFieldOK
<1> HIDE DEF f
<1>2. x[1] = "bound" /\ x[2] = v /\ x[3] = f
  OBVIOUS
<1> HIDE DEF x
<1>3. CallableOK(h, x)
  BY <1>1, <1>2 DEF CallableOK
<1>4. CallableFor(h, v) = IF IsFunction(v) THEN v ELSE IF IsFunction(f) \/ IsTable(f) THEN x ELSE NilValue
  BY DEF CallableFor, f, x
<1>5. IsFunction(v) => CallableOK(h, v)
  BY DEF IsFunction, CallableOK, ValueOK
<1> QED  BY <1>3, <1>4, <1>5

\* What a meta operation comes to.
IsMeta(c, h, m) ==
  \/ m.is = "error"
  \/ m.is = "value" /\ ValueOK(h, m.value)
  \/ m.is = "set" /\ Like(c, h, m.heap)
  \/ m.is = "call" /\ CallOK(h, m.func, m.args)

IsAnswer(c, h, m) == IsMeta(c, h, m) /\ m.is # "set"

\* A meta operation may be an error.
LEMMA ErrorOK ==
  ASSUME NEW c, NEW h  PROVE IsAnswer(c, h, Error)
BY DEF IsAnswer, IsMeta, Error

\* Or a value.
LEMMA ValueIsOK ==
  ASSUME NEW c, NEW h, NEW v, ValueOK(h, v)  PROVE IsAnswer(c, h, Value(v))
<1> DEFINE m == Value(v)
<1>1. m.is = "value" /\ m.value = v
  BY DEF Value
<1> HIDE DEF m
<1>2. IsAnswer(c, h, m)
  BY <1>1 DEF IsAnswer, IsMeta
<1> QED  BY <1>2 DEF m

\* Or a call.
LEMMA CallsOK ==
  ASSUME NEW c, NEW h, NEW f, NEW args, CallOK(h, f, args)
  PROVE  IsAnswer(c, h, [is |-> "call", func |-> f, args |-> args])
<1> DEFINE m == [is |-> "call", func |-> f, args |-> args]
<1>1. m.is = "call" /\ m.func = f /\ m.args = args
  OBVIOUS
<1> HIDE DEF m
<1>2. IsAnswer(c, h, m)
  BY <1>1 DEF IsAnswer, IsMeta
<1> QED  BY <1>2 DEF m

\* A call of a metamethod.
LEMMA CallForOK ==
  ASSUME NEW c, NEW h, HeapOK(c, h), NEW v, ValueOK(h, v), NEW args, ValuesOK(h, args)
  PROVE  IsAnswer(c, h, CallFor(h, v, args))
<1> DEFINE f == CallableFor(h, v)
<1>1. CASE f = NilValue
  <2>1. CallFor(h, v, args) = Error
    BY <1>1 DEF CallFor
  <2> QED  BY <2>1, ErrorOK
<1>2. CASE f # NilValue
  <2>1. CallFor(h, v, args) = [is |-> "call", func |-> f, args |-> args]
    BY <1>2 DEF CallFor
  <2>2. CallableOK(h, f)
    BY <1>2, CallableForOK
  <2> HIDE DEF f
  <2>3. CallOK(h, f, args)
    BY <2>2 DEF CallableOK, CallOK
  <2> QED  BY <2>1, <2>3, CallsOK
<1> QED  BY <1>1, <1>2

\* The callbacks that carry on an index or an assignment get as many arguments as they take.
LEMMA NativesOK ==
  ASSUME NEW h, NEW args, ValuesOK(h, args)
  PROVE  /\ Len(args) = 2 => CallOK(h, <<"native", "index">>, args)
         /\ Len(args) = 3 => CallOK(h, <<"native", "newindex">>, args)
<1> DEFINE x == <<"native", "index">>
           y == <<"native", "newindex">>
<1>1. x[1] = "native" /\ x[2] = "index" /\ y[1] = "native" /\ y[2] = "newindex"
  OBVIOUS
<1> HIDE DEF x, y
<1>2. Len(args) = 2 => CallOK(h, x, args)
  BY <1>1 DEF CallOK
<1>3. Len(args) = 3 => CallOK(h, y, args)
  BY <1>1 DEF CallOK
<1> QED  BY <1>2, <1>3 DEF x, y

\* meta_ops::index.
LEMMA IndexOK ==
  ASSUME NEW c, NEW h, HeapOK(c, h), NEW t, ValueOK(h, t), NEW k, ValueOK(h, k)
  PROVE  IsAnswer(c, h, Index(h, t, k))
<1> DEFINE raw == RawGet(h, t, k)
           idx == MetaField(h, t, "__index")
           a2 == <<idx, k>>
           a == <<t, k>>
           call == [is |-> "call", func |-> <<"native", "index">>, args |-> a2]
<1>1. ValueOK(h, idx)
  BY MetaFieldOK
<1>2. IsTable(t) => ValueOK(h, raw)
  BY RawGetOK
<1>3. Index(h, t, k) =
        IF ~IsTable(t) THEN Error
        ELSE IF raw # NilValue \/ idx = NilValue THEN Value(raw)
        ELSE IF IsTable(idx) THEN call ELSE CallFor(h, idx, a)
  BY DEF Index
<1> HIDE DEF raw, idx
<1>4. ValuesOK(h, a) /\ ValuesOK(h, a2) /\ Len(a2) = 2
  BY <1>1, TinyValues
<1> HIDE DEF a, a2
<1>5. IsAnswer(c, h, call)
  BY <1>4, NativesOK, CallsOK
<1> HIDE DEF call
<1>6. IsAnswer(c, h, CallFor(h, idx, a))
  BY <1>1, <1>4, CallForOK
<1>7. IsTable(t) => IsAnswer(c, h, Value(raw))
  BY <1>2, ValueIsOK
<1> QED  BY <1>3, <1>5, <1>6, <1>7, ErrorOK

\* meta_ops::new_index.
LEMMA NewIndexOK ==
  ASSUME NEW c, NEW h, HeapOK(c, h), NEW t, ValueOK(h, t), NEW k, ValueOK(h, k), NEW v, ValueOK(h, v)
  PROVE  IsMeta(c, h, NewIndex(h, t, k, v))
<1> DEFINE raw == RawGet(h, t, k)
           idx == MetaField(h, t, "__newindex")
           a2 == <<idx, k, v>>
           a == <<t, k, v>>
           call == [is |-> "call", func |-> <<"native", "newindex">>, args |-> a2]
           set == [is |-> "set", heap |-> RawSet(h, t, k, v)]
<1>1. ValueOK(h, idx)
  BY MetaFieldOK
<1>3. NewIndex(h, t, k, v) =
        IF ~IsTable(t) THEN Error
        ELSE IF raw # NilValue \/ idx = NilValue THEN IF k = NilValue THEN Error ELSE set
        ELSE IF IsTable(idx) THEN call ELSE CallFor(h, idx, a)
  BY DEF NewIndex
<1>2. set.is = "set" /\ set.heap = RawSet(h, t, k, v)
  OBVIOUS
<1> HIDE DEF raw, idx, set
<1>4. ValuesOK(h, a) /\ ValuesOK(h, a2) /\ Len(a2) = 3
  BY <1>1, TinyValues
<1> HIDE DEF a, a2
<1>5. IsAnswer(c, h, call)
  BY <1>4, NativesOK, CallsOK
<1> HIDE DEF call
<1>6. IsAnswer(c, h, CallFor(h, idx, a))
  BY <1>1, <1>4, CallForOK
<1>7. IsTable(t) => IsMeta(c, h, set)
  BY <1>2, RawSetOK DEF IsMeta
<1> QED  BY <1>3, <1>5, <1>6, <1>7, ErrorOK DEF IsAnswer

\* meta_ops::len.
LEMMA LengthOfOK ==
  ASSUME NEW c, NEW h, HeapOK(c, h), NEW t, ValueOK(h, t)
  PROVE  IsAnswer(c, h, LengthOf(h, t))
<1> DEFINE len == MetaField(h, t, "__len")
           v == <<"int", Border(h, t)>>
           a == <<t>>
<1>1. ValueOK(h, len) /\ ValuesOK(h, a)
  BY MetaFieldOK, TinyValues
<1>2. LengthOf(h, t) = IF ~IsTable(t) THEN Error ELSE IF len # NilValue THEN CallFor(h, len, a) ELSE Value(v)
  BY DEF LengthOf
<1>3. v[1] = "int"
  OBVIOUS
<1> HIDE DEF len, v, a
<1>4. ValueOK(h, v)
  BY <1>3 DEF ValueOK
<1>5. IsAnswer(c, h, CallFor(h, len, a)) /\ IsAnswer(c, h, Value(v))
  BY <1>1, <1>4, CallForOK, ValueIsOK
<1> QED  BY <1>2, <1>5, ErrorOK

\* meta_ops::equal.
LEMMA EqualsOK ==
  ASSUME NEW c, NEW h, HeapOK(c, h), NEW a, ValueOK(h, a), NEW b, ValueOK(h, b)
  PROVE  IsAnswer(c, h, Equals(h, a, b))
<1> DEFINE eq == IF MetaField(h, a, "__eq") # NilValue THEN MetaField(h, a, "__eq")
                 ELSE MetaField(h, b, "__eq")
           v == <<"bool", a = b>>
           args == <<a, b>>
           known == a = b \/ ~IsTable(a) \/ ~IsTable(b) \/ eq = NilValue
<1>1. ValueOK(h, eq) /\ ValuesOK(h, args)
  BY MetaFieldOK, TinyValues
<1>2. Equals(h, a, b) = IF known THEN Value(v) ELSE CallFor(h, eq, args)
  BY Zenon DEF Equals
<1>3. v[1] = "bool"
  OBVIOUS
<1> HIDE DEF eq, v, args, known
<1>4. ValueOK(h, v)
  BY <1>3 DEF ValueOK
<1>5. IsAnswer(c, h, CallFor(h, eq, args)) /\ IsAnswer(c, h, Value(v))
  BY <1>1, <1>4, CallForOK, ValueIsOK
<1> QED  BY <1>2, <1>5

\* The stack a function is entered with.
IsEntered(h, r, s, b, m, f) ==
  /\ ValuesOK(h, r) /\ Len(r) = m
  /\ \A j \in 1 .. b : r[j] = s[j]
  /\ r[b + 1] = f

\* A function that is entered finds itself below its registers, and all of them.
LEMMA EnteredStack ==
  ASSUME NEW h, NEW s, ValuesOK(h, s), NEW b \in Nat, NEW n \in Nat, b + 1 + n <= Len(s),
         NEW f, ValueOK(h, f), NEW params \in Nat, NEW size \in Nat, NEW extra,
         extra = IF n > params THEN n - params ELSE 0
  PROVE  LET args == IF extra = 0 THEN s ELSE TurnLeft(Truncate(s, b + 1 + n), b + 1, params)
         IN  IsEntered(h, Resize([args EXCEPT ![b + 1] = f], b + 1 + extra + size), s, b,
                       b + 1 + extra + size, f)
<1> DEFINE cut == Truncate(s, b + 1 + n)
           turned == TurnLeft(cut, b + 1, params)
           args == IF extra = 0 THEN s ELSE turned
           x == [args EXCEPT ![b + 1] = f]
           m == b + 1 + extra + size
           r == Resize(x, m)
<1>0. Len(s) \in Nat /\ extra \in Nat /\ m \in Nat /\ b + 1 <= m
  BY Lengths
<1>1. IsPart(h, cut, s, 1, b + 1 + n)
  <2> DEFINE q == IF b + 1 + n < Len(s) THEN b + 1 + n ELSE Len(s)
  <2>1. q = b + 1 + n
    BY <1>0
  <2>2. cut = SubSeq(s, 1, b + 1 + n)
    BY <2>1 DEF Truncate
  <2>3. b + 1 + n \in Int /\ 1 \in Nat \ {0} /\ 1 <= b + 1 + n + 1
    OBVIOUS
  <2> HIDE DEF cut
  <2> QED  BY <2>2, <2>3, PartValues
<1> HIDE DEF cut
<1>2. ValuesOK(h, cut) /\ Len(cut) = b + 1 + n /\ \A j \in 1 .. b + 1 : cut[j] = s[j]
  BY <1>1 DEF IsPart
<1>3. extra # 0 => IsTurn(h, turned, cut, b + 1)
  <2> SUFFICES ASSUME extra # 0  PROVE IsTurn(h, turned, cut, b + 1)
    OBVIOUS
  <2>1. b + 1 \in Nat /\ b + 1 + params <= Len(cut)
    BY <1>2
  <2> QED  BY <2>1, <1>2, TurnedValues
<1> HIDE DEF turned
<1>4. ValuesOK(h, args) /\ b + 1 <= Len(args) /\ \A j \in 1 .. b + 1 : args[j] = s[j]
  <2>1. CASE extra = 0
    BY <2>1, <1>0
  <2>2. CASE extra # 0
    BY <2>2, <1>2, <1>3 DEF IsTurn
  <2> QED  BY <2>1, <2>2
<1> HIDE DEF args
<1>5. IsChange(h, x, args, b + 1, f)
  BY <1>4, ChangedValues
<1> HIDE DEF x
<1>6. ValuesOK(h, x) /\ b + 1 <= Len(x) /\ x[b + 1] = f /\ \A j \in 1 .. b : x[j] = s[j]
  <2>1. Len(args) \in Nat
    BY <1>4, Lengths
  <2> QED  BY <2>1, <1>4, <1>5 DEF IsChange
<1>7. IsResize(h, r, x, m)
  BY <1>0, <1>6, ResizedValues
<1> HIDE DEF r, m
<1>8. ValuesOK(h, r) /\ Len(r) = m /\ r[b + 1] = f /\ \A j \in 1 .. b : r[j] = s[j]
  <2>1. Len(x) \in Nat
    BY <1>6, Lengths
  <2> QED  BY <2>1, <1>0, <1>6, <1>7, SMTT(30) DEF IsResize
<1>9. IsEntered(h, r, s, b, m, f)
  BY <1>8 DEF IsEntered
<1> QED  BY <1>9 DEF r, m, x, args, turned, cut

\* Every captured variable that is open is at one of the places.
LEMMA OpenPlaces ==
  ASSUME NEW c, NEW h, HeapOK(c, h), NEW u \in DOMAIN h.cells, h.cells[u].open
  PROVE  h.cells[u].at \in Places(h) /\ h.cells[u].at \in Nat
BY DEF Places, OpenCells, HeapOK, CellOK

WithFrames(t, x) == [t EXCEPT !.frames = x]
WithBoth(t, x, y) == [t EXCEPT !.stack = x, !.frames = y]

\* A thread with another stack, other frames, or both.
LEMMA Rebuilt ==
  ASSUME NEW t, t = Thread(t.frames, t.stack, t.open)
  PROVE  /\ \A x, y : WithBoth(t, x, y) = Thread(y, x, t.open)
         /\ \A x : WithStack(t, x) = Thread(t.frames, x, t.open)
         /\ \A y : WithFrames(t, y) = Thread(y, t.stack, t.open)
<1> DEFINE F == t.frames
           S == t.stack
           O == t.open
<1>1. t = Thread(F, S, O)
  OBVIOUS
<1> HIDE DEF F, S, O
<1>2. \A f, x, o, y : WithFrames(Thread(f, x, o), y) = Thread(y, x, o)
  BY DEF WithFrames, Thread
<1>3. \A f, s, o, x : WithStack(Thread(f, s, o), x) = Thread(f, x, o)
  BY DEF WithStack, Thread
<1>4. \A x : WithStack(t, x) = Thread(F, x, O)
  BY <1>1, <1>3
<1>5. \A y : WithFrames(t, y) = Thread(y, S, O)
  BY <1>1, <1>2
<1>6. \A x, y : WithFrames(WithStack(t, x), y) = Thread(y, x, O)
  BY <1>2, <1>4
<1>7. ASSUME NEW x, NEW y  PROVE WithBoth(t, x, y) = Thread(y, x, O)
  <2>1. WithFrames(WithStack(t, x), y) = WithBoth(t, x, y)
    BY DEF WithFrames, WithStack, WithBoth
  <2> QED  BY <2>1, <1>6
<1> QED  BY <1>4, <1>5, <1>7 DEF F, S, O

\* A Lua function is entered: its frame starts at its first instruction.
LEMMA EnterGood ==
  ASSUME NEW c, NEW t, NEW h, NEW b, NEW n \in Nat, NEW f, Sound(c), code = c.protos,
         Suspended(c, t, h, b), b + 1 + n <= Len(t.stack), f[1] = "fn", ValueOK(h, f)
  PROVE  Good(c, Enter(t, h, b, n, f), h)
<1> DEFINE s == t.stack
           q == h.closures[f[2]]
           p == c.protos[q.proto]
           notes == c.notes[q.proto]
           extra == IF n > p.params THEN n - p.params ELSE 0
           args == IF extra = 0 THEN s ELSE TurnLeft(Truncate(s, b + 1 + n), b + 1, p.params)
           base == b + 1 + extra
           s2 == Resize([args EXCEPT ![b + 1] = f], base + p.size)
           g == LuaFrame(b, base, p.size)
<1>1. /\ t = Thread(t.frames, s, t.open) /\ HeapOK(c, h) /\ ValuesOK(h, s) /\ OpenOK(h, t.open)
      /\ IsSeq(t.frames) /\ b \in Nat /\ b <= Len(s) /\ AllWait(c, h, s, t.frames, b)
      /\ \A a \in Places(h) : a < b
      /\ Len(s) \in Nat
  BY Lengths DEF Suspended, MemoryOK
<1>2. f[2] \in DOMAIN h.closures
  BY DEF ValueOK
<1>3. ClosureOK(c, h, q)
  BY <1>1, <1>2 DEF HeapOK
<1>4. ProtoOf(h, f) = p
  BY DEF ProtoOf
<1>5. SoundPrototype(c.protos, p, notes)
  BY <1>3 DEF Sound, ClosureOK
<1>6. p.params \in Nat /\ p.size \in Nat /\ 1 \in DOMAIN notes /\ notes[1].from = Fixed
  BY <1>5, Zenon DEF SoundPrototype
<1>7. Enter(t, h, b, n, f) = [t EXCEPT !.stack = s2, !.frames = Append(@, g)]
  <2> HIDE DEF p
  <2> QED  BY <1>4 DEF Enter
<1>8. IsEntered(h, s2, s, b, base + p.size, f)
  <2> HIDE DEF q, p
  <2>1. b + 1 + extra + p.size = base + p.size
    OBVIOUS
  <2>2. IsEntered(h, Resize([args EXCEPT ![b + 1] = f], b + 1 + extra + p.size), s, b,
                  b + 1 + extra + p.size, f)
    <3> DEFINE params == p.params
               size == p.size
               ex == IF n > params THEN n - params ELSE 0
    <3>1. ex = (IF n > params THEN n - params ELSE 0)
      OBVIOUS
    <3>2. params \in Nat /\ size \in Nat
      BY <1>6
    <3>3. extra = ex
      OBVIOUS
    <3> HIDE DEF params, size, ex
    <3>4. LET aa == IF ex = 0 THEN s ELSE TurnLeft(Truncate(s, b + 1 + n), b + 1, params)
          IN IsEntered(h, Resize([aa EXCEPT ![b + 1] = f], b + 1 + ex + size), s, b, b + 1 + ex + size, f)
      BY <1>1, <3>1, <3>2, EnteredStack
    <3> QED  BY <3>3, <3>4 DEF params, size
  <2> QED  BY <2>1, <2>2
<1>9. [t EXCEPT !.stack = s2, !.frames = Append(@, g)] = Thread(Append(t.frames, g), s2, t.open)
  <2> DEFINE F2 == Append(t.frames, g)
  <2> HIDE DEF F2, s2, g, s
  <2>1. [t EXCEPT !.stack = s2, !.frames = F2] = Thread(F2, s2, t.open)
    <3>1. t = Thread(t.frames, t.stack, t.open)
      BY <1>1 DEF s
    <3>2. WithBoth(t, s2, F2) = Thread(F2, s2, t.open)
      BY <3>1, Rebuilt
    <3> QED  BY <3>2 DEF WithBoth
  <2> QED  BY <2>1 DEF F2
<1>10. /\ extra \in Nat /\ base \in Nat /\ b < base
  <2>1. p.params \in Nat /\ b \in Nat
    BY <1>1, <1>6
  <2> HIDE DEF p
  <2>2. extra \in Nat
    BY <2>1
  <2> HIDE DEF extra
  <2> QED  BY <2>1, <2>2
<1>11. /\ g = [is |-> "lua", bottom |-> g.bottom, base |-> g.base, size |-> g.size,
               variable |-> g.variable, pc |-> g.pc, ret |-> g.ret]
       /\ g.bottom = b /\ g.base = base /\ g.size = p.size /\ g.variable = FALSE /\ g.pc = 0 /\ g.ret = <<>>
  BY DEF LuaFrame
<1> HIDE DEF s2, g, base, args, extra, notes, p
<1>12. /\ ValuesOK(h, s2) /\ Len(s2) = base + p.size /\ s2[b + 1] = f
       /\ \A j \in 1 .. b : s2[j] = s[j]
  BY <1>8 DEF IsEntered
<1>13. b <= Len(s2) /\ base <= Len(s2)
  BY <1>1, <1>6, <1>10, <1>12
<1>14. AllWait(c, h, s2, t.frames, b)
  <2>1. Over(h, s, h, s2, b)
    BY <1>1, <1>12, <1>13, SameOver
  <2> QED  BY <2>1, <1>1, AllKeep
<1>15. ClosureAt(h, s2, g) = q /\ ProtoAt(c, h, s2, g) = p /\ NotesAt(c, h, s2, g) = notes
  BY <1>11, <1>12 DEF ClosureAt, ProtoAt, NotesAt, p, notes
<1>16. \A i \in DOMAIN q.ups : LET x == h.cells[q.ups[i]] IN x.open => x.at < b
  BY <1>1, <1>3, OpenPlaces DEF ClosureOK
<1>17. FrameOK(c, h, s2, g)
  <2>1. g.pc \in Nat /\ g.pc + 1 \in DOMAIN notes
    BY <1>6, <1>11
  <2> HIDE DEF q
  <2> QED  BY <2>1, <1>1, <1>2, <1>10, <1>11, <1>12, <1>13, <1>15, <1>16, Zenon DEF FrameOK, q
<1>18. RunningOK(c, h, s2, g)
  <2>1. g.pc + 1 = 1
    BY <1>11
  <2>2. NotesAt(c, h, s2, g)[g.pc + 1].from = Fixed
    BY <2>1, <1>6, <1>15
  <2>3. g.variable = (NotesAt(c, h, s2, g)[g.pc + 1].from # Fixed)
    BY <2>2, <1>11, Zenon
  <2>4. Len(s2) = g.base + g.size /\ g.ret = <<>> /\ \A a \in Places(h) : a < g.bottom
    BY <1>1, <1>11, <1>12
  <2> QED  BY <2>2, <2>3, <2>4, <1>17 DEF RunningOK
<1>19. MemoryOK(c, Thread(t.frames, s2, t.open), h)
  BY <1>1, <1>12, ThreadFields DEF MemoryOK
<1>20. Good(c, Thread(Append(t.frames, g), s2, t.open), h)
  BY <1>11, <1>14, <1>18, <1>19, Topped DEF TopOK
<1> QED  BY <1>7, <1>9, <1>20, Zenon DEF s2, g, args, base, extra, p, q, s

\* What is known of a thread that waits.
LEMMA SuspendedFacts ==
  ASSUME NEW c, NEW t, NEW h, NEW b, Suspended(c, t, h, b)
  PROVE  /\ t = Thread(t.frames, t.stack, t.open) /\ HeapOK(c, h) /\ ValuesOK(h, t.stack)
         /\ OpenOK(h, t.open) /\ IsSeq(t.frames) /\ AllWait(c, h, t.stack, t.frames, b)
         /\ b \in Nat /\ b <= Len(t.stack) /\ Len(t.stack) \in Nat
         /\ \A a \in Places(h) : a < b
BY Lengths DEF Suspended, MemoryOK

\* Threads that wait do not mind what is above the place they wait for.
LEMMA SuspendedStack ==
  ASSUME NEW c, NEW t, NEW h, NEW b, Suspended(c, t, h, b), NEW s, ValuesOK(h, s), b <= Len(s),
         \A j \in 1 .. b : s[j] = t.stack[j]
  PROVE  /\ Suspended(c, Thread(t.frames, s, t.open), h, b)
         /\ WithStack(t, s) = Thread(t.frames, s, t.open)
<1>1. /\ t = Thread(t.frames, t.stack, t.open) /\ HeapOK(c, h) /\ ValuesOK(h, t.stack)
      /\ OpenOK(h, t.open) /\ IsSeq(t.frames) /\ AllWait(c, h, t.stack, t.frames, b)
      /\ b \in Nat /\ b <= Len(t.stack) /\ Len(t.stack) \in Nat
      /\ \A a \in Places(h) : a < b
  BY SuspendedFacts
<1>2. Over(h, t.stack, h, s, b)
  BY <1>1, SameOver
<1>3. AllWait(c, h, s, t.frames, b)
  BY <1>1, <1>2, AllKeep
<1>4. WithStack(t, s) = Thread(t.frames, s, t.open)
  BY <1>1, Rebuilt
<1>5. Len(s) \in Nat
  BY Lengths
<1> DEFINE F == t.frames
           O == t.open
           t2 == Thread(F, s, O)
<1>6. t2.frames = F /\ t2.stack = s /\ t2.open = O /\ t2 = Thread(t2.frames, t2.stack, t2.open)
  BY ThreadFields
<1> HIDE DEF F, O, t2
<1>7. MemoryOK(c, t2, h)
  BY <1>1, <1>6 DEF MemoryOK, F, O
<1>8. Suspended(c, t2, h, b)
  BY <1>1, <1>3, <1>5, <1>6, <1>7 DEF Suspended, F, O
<1> QED  BY <1>4, <1>8 DEF t2, F, O

\* ThreadState::push_call, on a thread that waits at that place.
LEMMA PushCallGood ==
  ASSUME NEW c, NEW t, NEW h, NEW b, NEW f, Sound(c), code = c.protos, Suspended(c, t, h, b),
         CallOK(h, f, SubSeq(t.stack, b + 1, Len(t.stack)))
  PROVE  Good(c, PushCall(t, h, b, f), h)
<1> DEFINE n == Len(t.stack) - b
           A == SubSeq(t.stack, 1, b)
           N == <<f>>
           B == SubSeq(t.stack, b + 1, Len(t.stack))
           A2 == A \o N
           s == A2 \o B
           g == CallbackFrame(b, f)
<1>1. /\ t = Thread(t.frames, t.stack, t.open) /\ HeapOK(c, h) /\ ValuesOK(h, t.stack)
      /\ OpenOK(h, t.open) /\ IsSeq(t.frames) /\ AllWait(c, h, t.stack, t.frames, b)
      /\ b \in Nat /\ b <= Len(t.stack) /\ Len(t.stack) \in Nat
      /\ \A a \in Places(h) : a < b
  BY SuspendedFacts
<1>2. CASE f[1] = "fn"
  <2>1. PushCall(t, h, b, f) = Enter(WithStack(t, s), h, b, n, f)
    BY <1>2 DEF PushCall
  <2>2. ValueOK(h, f)
    BY <1>2 DEF CallOK
  <2>3. IsPart(h, A, t.stack, 1, b)
    BY <1>1, PartValues
  <2>4. IsPart(h, B, t.stack, b + 1, Len(t.stack))
    <3>1. b + 1 \in Nat \ {0} /\ Len(t.stack) \in Int /\ Len(t.stack) <= Len(t.stack) /\ b + 1 <= Len(t.stack) + 1
      BY <1>1
    <3> QED  BY <3>1, <1>1, PartValues
  <2>5. ValuesOK(h, N) /\ Len(N) = 1
    BY <2>2, TinyValues
  <2> HIDE DEF A, B, N
  <2>6. IsJoin(h, A2, A, N)
    BY <2>3, <2>5, JoinedValues DEF IsPart
  <2> HIDE DEF A2
  <2>7. IsJoin(h, s, A2, B)
    <3>1. ValuesOK(h, A2) /\ ValuesOK(h, B)
      BY <2>4, <2>6 DEF IsPart, IsJoin
    <3> QED  BY <3>1, JoinedValues
  <2> HIDE DEF s
  <2>8. Len(A) = b /\ Len(B) = n /\ n \in Nat /\ Len(A2) = b + 1 /\ Len(s) = b + 1 + n
    BY <1>1, <2>3, <2>4, <2>5, <2>6, <2>7 DEF IsPart, IsJoin
  <2>9. \A j \in 1 .. b : s[j] = t.stack[j]
    <3> TAKE j \in 1 .. b
    <3>1. j \in 1 .. Len(A) /\ j \in 1 .. Len(A2) /\ j \in 1 .. b - 1 + 1 /\ 1 + j - 1 = j
      BY <1>1, <2>8
    <3>2. s[j] = A2[j] /\ A2[j] = A[j]
      BY <3>1, <2>6, <2>7 DEF IsJoin
    <3>3. A[j] = t.stack[1 + j - 1]
      BY <3>1, <2>3 DEF IsPart
    <3> QED  BY <3>1, <3>2, <3>3
  <2>10. ValuesOK(h, s) /\ b <= Len(s) /\ b + 1 + n <= Len(s)
    <3>1. ValuesOK(h, s)
      BY <2>7 DEF IsJoin
    <3> HIDE DEF n
    <3> QED  BY <3>1, <1>1, <2>8
  <2> DEFINE t2 == WithStack(t, s)
  <2>11. Suspended(c, t2, h, b) /\ t2.stack = s
    <3>1. /\ Suspended(c, Thread(t.frames, s, t.open), h, b)
          /\ WithStack(t, s) = Thread(t.frames, s, t.open)
      BY <2>9, <2>10, SuspendedStack
    <3> QED  BY <3>1, ThreadFields
  <2> HIDE DEF t2, n
  <2>12. Good(c, Enter(t2, h, b, n, f), h)
    BY <2>2, <2>8, <2>10, <2>11, <1>2, EnterGood
  <2> QED  BY <2>1, <2>12 DEF t2
<1>3. CASE f[1] # "fn"
  <2>1. PushCall(t, h, b, f) = [t EXCEPT !.frames = Append(@, g)]
    BY <1>3 DEF PushCall
  <2>2. /\ g = [is |-> "callback", bottom |-> g.bottom, func |-> g.func] /\ g.bottom = b /\ g.func = f
    BY DEF CallbackFrame
  <2> DEFINE F2 == Append(t.frames, g)
  <2>3. PushCall(t, h, b, f) = WithFrames(t, F2)
    BY <2>1 DEF WithFrames
  <2>4. WithFrames(t, F2) = Thread(F2, t.stack, t.open)
    <3> HIDE DEF F2
    <3> QED  BY <1>1, Rebuilt
  <2> HIDE DEF g
  <2>5. CallbackOK(h, t.stack, g)
    BY <2>2, <1>1 DEF CallbackOK
  <2>6. MemoryOK(c, Thread(t.frames, t.stack, t.open), h)
    BY <1>1 DEF MemoryOK
  <2>7. Good(c, Thread(F2, t.stack, t.open), h)
    BY <2>2, <2>5, <2>6, <1>1, Topped DEF TopOK
  <2> QED  BY <2>3, <2>4, <2>7
<1> QED  BY <1>2, <1>3

\* What is put above a place is what is found there.
LEMMA JoinedTail ==
  ASSUME NEW h, NEW s, ValuesOK(h, s), NEW b \in Nat, b <= Len(s), NEW args, ValuesOK(h, args)
  PROVE  LET r == SubSeq(s, 1, b) \o args
         IN  /\ ValuesOK(h, r) /\ Len(r) = b + Len(args) /\ Len(args) \in Nat
             /\ \A j \in 1 .. b : r[j] = s[j]
             /\ SubSeq(r, b + 1, Len(r)) = args
<1> DEFINE A == SubSeq(s, 1, b)
           r == A \o args
           B == SubSeq(r, b + 1, Len(r))
<1>1. IsPart(h, A, s, 1, b)
  BY Lengths, PartValues
<1> HIDE DEF A
<1>2. IsJoin(h, r, A, args)
  BY <1>1, JoinedValues DEF IsPart
<1>3. Len(args) \in Nat /\ Len(A) = b /\ \A j \in 1 .. b : A[j] = s[j]
  BY <1>1, Lengths DEF IsPart
<1> HIDE DEF r
<1>4. ValuesOK(h, r) /\ Len(r) = b + Len(args) /\ \A j \in 1 .. b : r[j] = s[j]
  BY <1>2, <1>3 DEF IsJoin
<1>5. IsPart(h, B, r, b + 1, Len(r))
  <2>1. b + 1 \in Nat \ {0} /\ Len(r) \in Int /\ Len(r) <= Len(r) /\ b + 1 <= Len(r) + 1
    BY <1>3, <1>4
  <2> QED  BY <2>1, <1>4, PartValues
<1> HIDE DEF B
<1>6. Len(B) = Len(args) /\ IsSeq(B) /\ IsSeq(args)
  BY <1>3, <1>4, <1>5 DEF IsPart, ValuesOK
<1>7. \A j \in 1 .. Len(args) : B[j] = args[j]
  <2> TAKE j \in 1 .. Len(args)
  <2>1. j \in 1 .. Len(r) - (b + 1) + 1 /\ b + 1 + j - 1 = Len(A) + j
    BY <1>3, <1>4
  <2>2. B[j] = r[b + 1 + j - 1] /\ r[Len(A) + j] = args[j]
    BY <2>1, <1>2, <1>5 DEF IsPart, IsJoin
  <2> QED  BY <2>1, <2>2
<1>8. B = args
  <2>1. B = [j \in 1 .. Len(args) |-> B[j]] /\ args = [j \in 1 .. Len(args) |-> args[j]]
    BY <1>6, SeqFacts
  <2> QED  BY <2>1, <1>7
<1> QED  BY <1>3, <1>4, <1>8 DEF A, r, B

\* The same, with arguments that are put there.
LEMMA CallsGood ==
  ASSUME NEW c, NEW t, NEW h, NEW b, NEW f, NEW args, Sound(c), code = c.protos, Suspended(c, t, h, b),
         CallOK(h, f, args), NEW t2, t2 = WithStack(t, SubSeq(t.stack, 1, b) \o args)
  PROVE  Good(c, PushCall(t2, h, b, f), h)
<1> DEFINE r == SubSeq(t.stack, 1, b) \o args
<1>1. ValuesOK(h, t.stack) /\ b \in Nat /\ b <= Len(t.stack) /\ ValuesOK(h, args)
  BY SuspendedFacts DEF CallOK
<1>2. /\ ValuesOK(h, r) /\ Len(r) = b + Len(args) /\ Len(args) \in Nat
      /\ \A j \in 1 .. b : r[j] = t.stack[j]
      /\ SubSeq(r, b + 1, Len(r)) = args
  BY <1>1, JoinedTail
<1>3. t2 = WithStack(t, r)
  OBVIOUS
<1> HIDE DEF r
<1>4. b <= Len(r)
  BY <1>1, <1>2
<1>5. Suspended(c, t2, h, b) /\ t2.stack = r
  <2>1. /\ Suspended(c, Thread(t.frames, r, t.open), h, b)
        /\ WithStack(t, r) = Thread(t.frames, r, t.open)
    BY <1>2, <1>4, SuspendedStack
  <2> QED  BY <2>1, <1>3, ThreadFields
<1> QED  BY <1>2, <1>5, PushCallGood

\* A frame that waits goes on where it may.
LEMMA ResumesGood ==
  ASSUME NEW c, NEW h, NEW s, NEW F, NEW g, NEW O, NEW b, NEW j, NEW from, NEW s2, NEW g2,
         HeapOK(c, h), OpenOK(h, O), IsSeq(F), ValuesOK(h, s), AllWait(c, h, s, F, g.bottom),
         FrameOK(c, h, s, g), b \in Nat, g.base <= b, b <= Len(s), \A a \in Places(h) : a < b,
         Resumes(c, h, s, g, b, j, from), j \in Nat, j - 1 \in Nat,
         ValuesOK(h, s2), g.base <= Len(s2), \A i \in 1 .. g.base : s2[i] = s[i],
         IF from = Fixed THEN Len(s2) = g.base + g.size ELSE g.base + from <= Len(s2),
         g2 = [is |-> "lua", bottom |-> g.bottom, base |-> g.base, size |-> g.size,
               variable |-> from # Fixed, pc |-> j - 1, ret |-> <<>>]
  PROVE  Good(c, Top(F, g2, s2, O), h)
<1>1. /\ j \in DOMAIN NotesAt(c, h, s, g) /\ NotesAt(c, h, s, g)[j].from = from
      /\ \A a \in Places(h) : a < g.bottom \/ b <= a \/ a - g.base \in NotesAt(c, h, s, g)[j].open
  BY DEF Resumes
<1>2. \A a \in Places(h) : a \in Nat
  BY LikeFacts, LikeItself
<1>3. \A a \in Places(h) : a < g.bottom \/ a - g.base \in NotesAt(c, h, s, g)[j].open
  BY <1>1, <1>2
<1>4. g.base \in Nat /\ g.base <= Len(s)
  BY DEF FrameOK
<1>5. Over(h, s, h, s2, g.base)
  BY <1>4, SameOver
<1> QED  BY <1>1, <1>3, <1>5, GoesOn

LuaOf(bottom, base, size, variable, pc, ret) ==
  [is |-> "lua", bottom |-> bottom, base |-> base, size |-> size, variable |-> variable,
   pc |-> pc, ret |-> ret]
AtFixed(g, pc) == LuaOf(g.bottom, g.base, g.size, FALSE, pc, <<>>)
AtVariable(g, pc) == LuaOf(g.bottom, g.base, g.size, TRUE, pc, <<>>)
WithRet(g, x) == [g EXCEPT !.ret = x]
WithVariable(g, x) == [g EXCEPT !.variable = x]
Ready(g) == [g EXCEPT !.ret = <<>>, !.variable = FALSE]

\* A Lua frame with one field changed.
LEMMA LuaChanged ==
  ASSUME NEW bo, NEW ba, NEW si, NEW va, NEW pc, NEW re
  PROVE  /\ \A x : WithRet(LuaOf(bo, ba, si, va, pc, re), x) = LuaOf(bo, ba, si, va, pc, x)
         /\ \A x : WithVariable(LuaOf(bo, ba, si, va, pc, re), x) = LuaOf(bo, ba, si, x, pc, re)
         /\ \A k : By(LuaOf(bo, ba, si, va, pc, re), k) = LuaOf(bo, ba, si, va, pc + k, re)
         /\ LuaOf(bo, ba, si, va, pc, re).base = ba /\ LuaOf(bo, ba, si, va, pc, re).size = si
         /\ LuaOf(bo, ba, si, va, pc, re).bottom = bo
<1>1. \A x : WithRet(LuaOf(bo, ba, si, va, pc, re), x) = LuaOf(bo, ba, si, va, pc, x)
  BY DEF WithRet, LuaOf
<1>2. \A x : WithVariable(LuaOf(bo, ba, si, va, pc, re), x) = LuaOf(bo, ba, si, x, pc, re)
  BY DEF WithVariable, LuaOf
<1>3. \A k : By(LuaOf(bo, ba, si, va, pc, re), k) = LuaOf(bo, ba, si, va, pc + k, re)
  BY DEF By, LuaOf
<1>4. LuaOf(bo, ba, si, va, pc, re).base = ba /\ LuaOf(bo, ba, si, va, pc, re).size = si
      /\ LuaOf(bo, ba, si, va, pc, re).bottom = bo
  BY DEF LuaOf
<1> QED  BY <1>1, <1>2, <1>3, <1>4

\* A frame that has got what it waited for.
LEMMA ReadyFrame ==
  ASSUME NEW g, IsLua(g)
  PROVE  /\ Ready(g) = AtFixed(g, g.pc) /\ By(AtFixed(g, g.pc), 1) = AtFixed(g, g.pc + 1)
         /\ WithVariable(AtFixed(g, g.pc), TRUE) = AtVariable(g, g.pc)
         /\ AtFixed(g, g.pc).base = g.base /\ AtFixed(g, g.pc).size = g.size
         /\ \A x : WithRet(g, x) = LuaOf(g.bottom, g.base, g.size, g.variable, g.pc, x)
<1> DEFINE bo == g.bottom
           ba == g.base
           si == g.size
           va == g.variable
           pc == g.pc
           re == g.ret
<1>1. g = LuaOf(bo, ba, si, va, pc, re)
  BY DEF IsLua, LuaOf
<1> HIDE DEF bo, ba, si, va, pc, re
<1>2. Ready(g) = WithVariable(WithRet(g, <<>>), FALSE)
  BY DEF Ready, WithVariable, WithRet
<1>3. \A x : WithRet(g, x) = LuaOf(bo, ba, si, va, pc, x)
  BY <1>1, LuaChanged
<1>4. WithVariable(LuaOf(bo, ba, si, va, pc, <<>>), FALSE) = LuaOf(bo, ba, si, FALSE, pc, <<>>)
  <2>1. \A x : WithVariable(LuaOf(bo, ba, si, va, pc, <<>>), x) = LuaOf(bo, ba, si, x, pc, <<>>)
    BY LuaChanged
  <2> QED  BY <2>1, Zenon
<1>5. Ready(g) = LuaOf(bo, ba, si, FALSE, pc, <<>>)
  BY <1>2, <1>3, <1>4, Zenon
<1>6. By(LuaOf(bo, ba, si, FALSE, pc, <<>>), 1) = LuaOf(bo, ba, si, FALSE, pc + 1, <<>>)
  <2>1. \A x : \A k : By(LuaOf(bo, ba, si, x, pc, <<>>), k) = LuaOf(bo, ba, si, x, pc + k, <<>>)
    BY LuaChanged
  <2> QED  BY <2>1, Zenon
<1>7. WithVariable(LuaOf(bo, ba, si, FALSE, pc, <<>>), TRUE) = LuaOf(bo, ba, si, TRUE, pc, <<>>)
  <2>1. \A x, y : WithVariable(LuaOf(bo, ba, si, y, pc, <<>>), x) = LuaOf(bo, ba, si, x, pc, <<>>)
    BY LuaChanged
  <2> QED  BY <2>1, Zenon
<1>8. LuaOf(bo, ba, si, FALSE, pc, <<>>).base = ba /\ LuaOf(bo, ba, si, FALSE, pc, <<>>).size = si
  <2>1. \A x : LuaOf(bo, ba, si, x, pc, <<>>).base = ba /\ LuaOf(bo, ba, si, x, pc, <<>>).size = si
    BY LuaChanged
  <2> QED  BY <2>1, Zenon
<1> QED  BY <1>3, <1>5, <1>6, <1>7, <1>8, Zenon DEF AtFixed, AtVariable, bo, ba, si, pc, va

\* The registers of a frame, and the frame with its registers.
LEMMA FullTop ==
  ASSUME NEW F, IsSeq(F), NEW g, NEW s, NEW o
  PROVE  /\ Top(F, g, s, o).stack = s /\ Full(Top(F, g, s, o)) = Resize(s, g.base + g.size)
         /\ WithStack(Top(F, g, s, o), Full(Top(F, g, s, o))) = Top(F, g, Resize(s, g.base + g.size), o)
<1>1. Top(F, g, s, o).stack = s /\ Last(Top(F, g, s, o).frames) = g
  BY ThreadFields, Rewrites DEF Top
<1>2. Full(Top(F, g, s, o)) = Resize(s, g.base + g.size)
  BY <1>1 DEF Full
<1>3. \A x : WithStack(Top(F, g, s, o), x) = Top(F, g, x, o)
  BY Rewrites
<1> QED  BY <1>1, <1>2, <1>3

\* A frame of a sound chunk: its size.
LEMMA FrameSize ==
  ASSUME NEW c, NEW h, NEW s, NEW g, Sound(c), HeapOK(c, h), FrameOK(c, h, s, g)
  PROVE  g.size \in Nat /\ IsLua(g) /\ \A j \in DOMAIN NotesAt(c, h, s, g) : j \in Nat /\ j - 1 \in Nat
<1> DEFINE k == ClosureAt(h, s, g).proto
<1>1. g.size = c.protos[k].size /\ IsLua(g) /\ k \in DOMAIN c.protos
  BY Zenon DEF FrameOK, ProtoAt, IsLua, HeapOK, ClosureOK, ClosureAt
<1>2. SoundPrototype(c.protos, c.protos[k], c.notes[k])
  BY <1>1 DEF Sound
<1> HIDE DEF k
<1>3. c.protos[k].size \in Nat /\ DOMAIN c.notes[k] \subseteq DOMAIN c.protos[k].ops
      /\ DOMAIN c.protos[k].ops = 1 .. Len(c.protos[k].ops) /\ Len(c.protos[k].ops) \in Nat
  BY <1>2 DEF SoundPrototype
<1>4. \A j \in DOMAIN c.notes[k] : j \in Nat /\ j - 1 \in Nat
  BY <1>3
<1> QED  BY <1>1, <1>3, <1>4 DEF NotesAt, k

\* A register of the frame at the top is set.
LEMMA SetTop ==
  ASSUME NEW F, IsSeq(F), NEW g, NEW s, NEW o, NEW i, NEW v, NEW k, k = g.base + i + 1
  PROVE  SetReg(Top(F, g, s, o), i, v) = Top(F, g, Put(s, k, v), o)
<1>1. \A x : SetReg(Top(F, g, s, o), x, v) = Top(F, g, Put(s, g.base + x + 1, v), o)
  BY Rewrites
<1> QED  BY <1>1

\* A metamethod that was called returns.
LEMMA MetaReturnGood ==
  ASSUME NEW c, NEW h, NEW s, NEW F, NEW g, NEW O, NEW b, NEW v,
         Sound(c), HeapOK(c, h), OpenOK(h, O), IsSeq(F), ValuesOK(h, s), AllWait(c, h, s, F, g.bottom),
         FrameOK(c, h, s, g), b \in Nat, g.base <= b, b <= Len(s), \A a \in Places(h) : a < b,
         WaitsForMeta(c, h, s, g, b), ValueOK(h, v), NEW g2, g2 = AtFixed(g, g.pc),
         NEW s2, s2 = Resize(s, g.base + g.size)
  PROVE  Good(c, MetaReturn(Top(F, g2, s2, O), g.ret, v), h)
<1> DEFINE r == g.ret
           t == Top(F, g2, s2, O)
<1>1. /\ g.base \in Nat /\ g.pc \in Nat /\ g.bottom \in Nat
      /\ g.base + g.size <= b /\ r[2] \in {"none", "register", "skip_if"}
      /\ Resumes(c, h, s, g, b, g.pc + 1, Fixed)
      /\ r[2] = "register" => r[3] \in 0 .. g.size - 1
      /\ r[2] = "skip_if" => Resumes(c, h, s, g, b, g.pc + 2, Fixed)
  BY DEF WaitsForMeta, FrameOK
<1>2. g.size \in Nat /\ IsLua(g)
  BY FrameSize
<1>3. g2.base = g.base /\ By(g2, 1) = AtFixed(g, g.pc + 1)
  BY <1>2, ReadyFrame
<1>4. IsResize(h, s2, s, g.base + g.size)
  BY <1>1, <1>2, ResizedValues
<1>5. ValuesOK(h, s2) /\ Len(s2) = g.base + g.size /\ \A i \in 1 .. g.base : s2[i] = s[i]
  <2>1. ValuesOK(h, s2) /\ Len(s2) = g.base + g.size
    BY <1>4 DEF IsResize
  <2>2. \A i \in 1 .. g.base : i \in 1 .. g.base + g.size /\ i <= Len(s)
    BY <1>1, <1>2, Lengths, SMTT(30)
  <2>3. \A i \in 1 .. g.base + g.size : i <= Len(s) => s2[i] = s[i]
    BY <1>4 DEF IsResize
  <2> QED  BY <2>1, <2>2, <2>3
<1>12. \A G, S, n : Skip(Top(F, G, S, O), n) = Top(F, By(G, n), S, O)
  BY Rewrites
<1>6. ASSUME NEW j, j \in Nat, j - 1 \in Nat, Resumes(c, h, s, g, b, j, Fixed), NEW z, ValuesOK(h, z),
             Len(z) = g.base + g.size, \A i \in 1 .. g.base : z[i] = s[i],
             NEW x, x = AtFixed(g, j - 1)
      PROVE  Good(c, Top(F, x, z, O), h)
  <2>1. x = [is |-> "lua", bottom |-> g.bottom, base |-> g.base, size |-> g.size,
             variable |-> Fixed # Fixed, pc |-> j - 1, ret |-> <<>>]
    BY <1>6, Zenon DEF AtFixed, LuaOf
  <2>2. g.base <= Len(z)
    BY <1>6, <1>1, <1>2, SMTT(30)
  <2> HIDE DEF r, t
  <2> QED  BY <1>6, <2>1, <2>2, ResumesGood
<1>7. (g.pc + 1) - 1 = g.pc /\ (g.pc + 2) - 1 = g.pc + 1 /\ g.pc + 1 \in Nat /\ g.pc + 2 \in Nat
  BY <1>1, SMTT(30)
<1>8. Good(c, t, h)
  <2>1. g2 = AtFixed(g, (g.pc + 1) - 1)
    BY <1>7
  <2> HIDE DEF r
  <2> QED  BY <2>1, <1>1, <1>5, <1>6, <1>7
<1>9. CASE r[2] = "none"
  BY <1>8, <1>9 DEF MetaReturn
<1>10. CASE r[2] = "register"
  <2> DEFINE z == Put(s2, g.base + r[3] + 1, v)
  <2>1. MetaReturn(t, r, v) = SetReg(t, r[3], v)
    BY <1>10 DEF MetaReturn
  <2>2. SetReg(t, r[3], v) = Top(F, g2, z, O)
    <3> DEFINE i == r[3]
               k == g.base + r[3] + 1
    <3>1. k = g2.base + i + 1
      BY <1>3
    <3> HIDE DEF i, k, r
    <3>2. SetReg(t, i, v) = Top(F, g2, Put(s2, k, v), O)
      BY <3>1, SetTop
    <3> QED  BY <3>2 DEF i, k
  <2>3. IsChange(h, z, s2, g.base + r[3] + 1, v)
    BY <1>5, ChangedValues DEF Put
  <2>4. r[3] \in Nat
    BY <1>1, <1>2, <1>10
  <2> HIDE DEF z
  <2>5. ValuesOK(h, z) /\ Len(z) = g.base + g.size /\ \A i \in 1 .. g.base : z[i] = s[i]
    <3>0. \A n \in Nat : \A i \in 1 .. g.base : g.base + n + 1 # i /\ i \in 1 .. g.base + g.size
      BY <1>1, <1>2, SMTT(30)
    <3>1. \A i \in 1 .. g.base : g.base + r[3] + 1 # i /\ i \in 1 .. Len(s2)
      BY <3>0, <1>5, <2>4
    <3> QED  BY <2>3, <3>1, <1>5 DEF IsChange
  <2>6. g2 = AtFixed(g, (g.pc + 1) - 1)
    BY <1>7
  <2>7. Good(c, Top(F, g2, z, O), h)
    <3> HIDE DEF r
    <3> QED  BY <2>5, <2>6, <1>1, <1>6, <1>7
  <2> QED  BY <2>1, <2>2, <2>7
<1>11. CASE r[2] = "skip_if"
  <2>1. MetaReturn(t, r, v) = IF IsTrue(v) = r[3] THEN Skip(t, 1) ELSE t
    BY <1>11 DEF MetaReturn
  <2>2. Skip(t, 1) = Top(F, By(g2, 1), s2, O)
    BY <1>12
  <2>3. By(g2, 1) = AtFixed(g, (g.pc + 2) - 1)
    BY <1>3, <1>7
  <2>4. Good(c, Top(F, By(g2, 1), s2, O), h)
    <3>1. Resumes(c, h, s, g, b, g.pc + 2, Fixed)
      BY <1>1, <1>11
    <3> HIDE DEF r
    <3> QED  BY <2>3, <3>1, <1>5, <1>6, <1>7
  <2> QED  BY <1>8, <2>1, <2>2, <2>4
<1> HIDE DEF t
<1> QED  BY <1>1, <1>9, <1>10, <1>11 DEF t

\* Frames are those below and the one at the top.
LEMMA FrontLast ==
  ASSUME NEW f, IsSeq(f), f # <<>>
  PROVE  IsSeq(Front(f)) /\ f = Append(Front(f), Last(f))
<1>1. /\ IsSeq(Front(f)) /\ Len(Front(f)) = Len(f) - 1 /\ Last(f) = f[Len(f)] /\ Len(f) >= 1
      /\ \A j \in 1 .. Len(f) - 1 : Front(f)[j] = f[j]
  BY FrontSeq
<1> DEFINE F == Front(f)
           x == Last(f)
<1> HIDE DEF F, x
<1>2. IsAppend(Append(F, x), F, x)
  BY <1>1, Appended DEF F
<1>3. Len(f) \in Nat /\ DOMAIN f = 1 .. Len(f) /\ f = [i \in 1 .. Len(f) |-> f[i]]
  BY SeqFacts
<1>4. Append(F, x) \in Seq(Range(Append(F, x)))
  BY <1>2 DEF IsAppend, IsSeq
<1> DEFINE A == Append(F, x)
<1> HIDE DEF A
<1>5. IsSeq(A) /\ Len(A) = Len(f) /\ \A j \in 1 .. Len(f) : A[j] = f[j]
  BY <1>1, <1>2, <1>3 DEF IsAppend, A, F, x
<1>6. A = [i \in 1 .. Len(A) |-> A[i]]
  BY <1>5, SeqFacts
<1>7. A = f
  BY <1>3, <1>5, <1>6
<1> QED  BY <1>1, <1>7 DEF A, F, x

\* What is left to whoever takes the results.
LEMMA ResultGood ==
  ASSUME NEW c, NEW t, NEW h, NEW b, NEW values, Suspended(c, t, h, b), ValuesOK(h, values), t.frames = <<>>
  PROVE  Good(c, ReturnTo(t, b, values), h)
<1>1. /\ t = Thread(t.frames, t.stack, t.open) /\ HeapOK(c, h) /\ ValuesOK(h, t.stack)
      /\ OpenOK(h, t.open) /\ b \in Nat /\ b <= Len(t.stack) /\ \A a \in Places(h) : a < b
  BY SuspendedFacts
<1> DEFINE g == [is |-> "result", bottom |-> b]
           s == SubSeq(t.stack, 1, b) \o values
           o == t.open
<1>2. ReturnTo(t, b, values) = WithBoth(t, s, <<g>>)
  BY DEF ReturnTo, WithBoth
<1>3. /\ ValuesOK(h, s) /\ Len(s) = b + Len(values) /\ Len(values) \in Nat
  BY <1>1, JoinedTail
<1> HIDE DEF s, o
<1>4. WithBoth(t, s, <<g>>) = Thread(<<g>>, s, o)
  BY <1>1, Rebuilt DEF o
<1>5. ResultOK(h, s, g)
  BY <1>1, <1>3 DEF ResultOK
<1> HIDE DEF g
<1>6. TopOK(c, h, s, g)
  BY <1>5 DEF TopOK
<1>7. IsSeq(<<>>) /\ Len(<<>>) = 0
  BY TinySeqs
<1>8. AllWait(c, h, s, <<>>, g.bottom)
  BY <1>7 DEF AllWait
<1>9. MemoryOK(c, Thread(<<>>, s, o), h)
  BY <1>1, <1>3, <1>7, ThreadFields DEF MemoryOK, o
<1>10. Good(c, Thread(Append(<<>>, g), s, o), h)
  BY <1>6, <1>8, <1>9, Topped
<1>11. Append(<<>>, g) = <<g>>
  OBVIOUS
<1> QED  BY <1>2, <1>4, <1>10, <1>11

\* The stack with the results of a call.
IsReturned(h, r, s, b, n) == ValuesOK(h, r) /\ Len(r) = b + n /\ \A i \in 1 .. b : r[i] = s[i]

\* The stack with results from a place on.
LEMMA ReturnedStack ==
  ASSUME NEW h, NEW s, ValuesOK(h, s), NEW b \in Nat, b <= Len(s), NEW values, ValuesOK(h, values),
         NEW n \in Nat
  PROVE  IsReturned(h, SubSeq(s, 1, b) \o Resize(values, n), s, b, n)
<1> DEFINE z == Resize(values, n)
<1>1. IsResize(h, z, values, n)
  BY ResizedValues
<1> HIDE DEF z
<1>2. ValuesOK(h, z) /\ Len(z) = n
  BY <1>1 DEF IsResize
<1>3. IsPart(h, SubSeq(s, 1, b), s, 1, b)
  <2>1. 1 \in Nat \ {0} /\ b \in Int /\ 1 <= b + 1
    OBVIOUS
  <2> QED  BY <2>1, PartValues
<1> DEFINE x == SubSeq(s, 1, b)
<1> HIDE DEF x
<1>4. ValuesOK(h, x) /\ Len(x) = b /\ \A i \in 1 .. b : x[i] = s[i]
  BY <1>3 DEF IsPart, x
<1>5. IsJoin(h, x \o z, x, z)
  BY <1>2, <1>4, JoinedValues
<1> DEFINE r == x \o z
<1> HIDE DEF r
<1>6. ValuesOK(h, r) /\ Len(r) = b + n /\ \A i \in 1 .. b : r[i] = s[i]
  BY <1>2, <1>4, <1>5 DEF IsJoin, r
<1>7. IsReturned(h, r, s, b, n)
  BY <1>6 DEF IsReturned
<1> QED  BY <1>7 DEF z, r, x

Filled(g) == [g EXCEPT !.ret = <<>>, !.variable = TRUE]

\* A frame that has got a variable number of values.
LEMMA FilledFrame ==
  ASSUME NEW g, IsLua(g)
  PROVE  Filled(g) = AtVariable(g, g.pc)
<1> DEFINE bo == g.bottom
           ba == g.base
           si == g.size
           va == g.variable
           pc == g.pc
           re == g.ret
<1>1. g = LuaOf(bo, ba, si, va, pc, re)
  BY DEF IsLua, LuaOf
<1> HIDE DEF bo, ba, si, va, pc, re
<1>2. Filled(g) = WithVariable(WithRet(g, <<>>), TRUE)
  BY DEF Filled, WithVariable, WithRet
<1>3. \A x : WithRet(g, x) = LuaOf(bo, ba, si, va, pc, x)
  BY <1>1, LuaChanged
<1>4. WithVariable(LuaOf(bo, ba, si, va, pc, <<>>), TRUE) = LuaOf(bo, ba, si, TRUE, pc, <<>>)
  <2>1. \A x : WithVariable(LuaOf(bo, ba, si, va, pc, <<>>), x) = LuaOf(bo, ba, si, x, pc, <<>>)
    BY LuaChanged
  <2> QED  BY <2>1, Zenon
<1> QED  BY <1>2, <1>3, <1>4, Zenon DEF AtVariable, bo, ba, si, pc

\* What returning to a frame comes to.
LEMMA ReturnedForms ==
  ASSUME NEW F, IsSeq(F), NEW g, IsLua(g), NEW s, NEW O, NEW b, NEW values,
         NEW first, first = IF values = <<>> THEN NilValue ELSE values[1],
         NEW r, r = Returned(Top(F, g, s, O), b, values)
  PROVE  /\ g.ret[1] = "meta" =>
              r = MetaReturn(Top(F, AtFixed(g, g.pc), Resize(s, g.base + g.size), O), g.ret, first)
         /\ g.ret[1] # "meta" /\ g.ret[2] = Variable =>
              r = Top(F, AtVariable(g, g.pc), SubSeq(s, 1, b) \o Resize(values, Len(values)), O)
         /\ g.ret[1] # "meta" /\ g.ret[2] # Variable =>
              r = Top(F, AtFixed(g, g.pc),
                      Resize(SubSeq(s, 1, b) \o Resize(values, g.ret[2]), g.base + g.size), O)
<1> DEFINE t == Top(F, g, s, O)
           done == WithFrame(t, Ready(g))
           g2 == AtFixed(g, g.pc)
           g3 == AtVariable(g, g.pc)
           n == IF g.ret[2] = Variable THEN Len(values) ELSE g.ret[2]
           x == SubSeq(s, 1, b) \o Resize(values, n)
<1>1. Last(t.frames) = g /\ t.stack = s
  BY Rewrites, FullTop
<1>2. r = IF g.ret[1] = "meta" THEN MetaReturn(WithStack(done, Full(done)), g.ret, first)
          ELSE IF g.ret[2] = Variable THEN WithFrame(WithStack(done, x), Filled(g))
          ELSE WithStack(done, Resize(x, g.base + g.size))
  <2> HIDE DEF t
  <2> QED  BY <1>1, Zenon DEF Returned, Ready, Filled, t
<1>3. Ready(g) = g2 /\ Filled(g) = g3 /\ g2.base = g.base /\ g2.size = g.size
  BY ReadyFrame, FilledFrame
<1> HIDE DEF g2, g3
<1>4. done = Top(F, g2, s, O)
  <2>1. \A y : WithFrame(Top(F, g, s, O), y) = Top(F, y, s, O)
    BY Rewrites
  <2> QED  BY <1>3, <2>1
<1>5. \A y : WithStack(Top(F, g2, s, O), y) = Top(F, g2, y, O)
  BY Rewrites
<1>6. \A y : WithFrame(Top(F, g2, y, O), g3) = Top(F, g3, y, O)
  BY Rewrites
<1>7. WithStack(Top(F, g2, s, O), Full(Top(F, g2, s, O))) = Top(F, g2, Resize(s, g.base + g.size), O)
  BY <1>3, FullTop
<1> HIDE DEF done, x
<1>8. CASE g.ret[1] = "meta"
  BY <1>2, <1>4, <1>7, <1>8 DEF g2
<1>9. CASE g.ret[1] # "meta" /\ g.ret[2] = Variable
  <2>1. r = Top(F, g3, x, O)
    BY <1>2, <1>3, <1>4, <1>5, <1>6, <1>9
  <2>2. x = SubSeq(s, 1, b) \o Resize(values, Len(values))
    BY <1>9 DEF x
  <2> QED  BY <1>9, <2>1, <2>2 DEF g3
<1>10. CASE g.ret[1] # "meta" /\ g.ret[2] # Variable
  <2>1. r = Top(F, g2, Resize(x, g.base + g.size), O)
    BY <1>2, <1>3, <1>4, <1>5, <1>10
  <2>2. x = SubSeq(s, 1, b) \o Resize(values, g.ret[2])
    BY <1>10 DEF x
  <2> QED  BY <1>10, <2>1, <2>2 DEF g2
<1> QED  BY <1>8, <1>9, <1>10

\* What is returned to is a frame that waits.
LEMMA ReturnedGood ==
  ASSUME NEW c, NEW t, NEW h, NEW b, NEW values, Sound(c), Suspended(c, t, h, b), ValuesOK(h, values),
         t.frames # <<>>
  PROVE  Good(c, ReturnTo(t, b, values), h)
<1> DEFINE F == Front(t.frames)
           g == Last(t.frames)
           s == t.stack
           O == t.open
           r == ReturnTo(t, b, values)
           first == IF values = <<>> THEN NilValue ELSE values[1]
<1>1. /\ t = Thread(t.frames, s, O) /\ HeapOK(c, h) /\ ValuesOK(h, s)
      /\ OpenOK(h, O) /\ b \in Nat /\ b <= Len(s) /\ \A a \in Places(h) : a < b
      /\ AllWait(c, h, s, t.frames, b) /\ IsSeq(t.frames)
  BY SuspendedFacts
<1>2. IsSeq(F) /\ t.frames = Append(F, g)
  BY <1>1, FrontLast
<1>3. ReturnTo(t, b, values) = Returned(t, b, values)
  BY DEF ReturnTo
<1> HIDE DEF F, g, s, O, r, first
<1>4. t = Top(F, g, s, O)
  BY <1>1, <1>2 DEF Top
<1>5. AllWait(c, h, s, F, g.bottom) /\ WaitingOK(c, h, s, g, b)
  BY <1>1, <1>2, Unpushed
<1>6. FrameOK(c, h, s, g) /\ g.base <= b /\ (WaitsForCall(c, h, s, g, b) \/ WaitsForMeta(c, h, s, g, b))
  BY <1>5 DEF WaitingOK
<1>7. IsLua(g) /\ g.size \in Nat /\ \A j \in DOMAIN NotesAt(c, h, s, g) : j \in Nat /\ j - 1 \in Nat
  BY <1>1, <1>6, FrameSize
<1>8. ValueOK(h, first)
  <2>1. CASE values = <<>>
    BY <2>1, NilOK DEF first
  <2>2. CASE values # <<>>
    <3>1. IsSeq(values) /\ Len(values) \in Nat /\ \A i \in 1 .. Len(values) : ValueOK(h, values[i])
      BY Lengths
    <3>2. Len(values) # 0
      BY <2>2, <3>1, EmptySeq DEF IsSeq
    <3> QED  BY <2>2, <3>1, <3>2 DEF first
  <2> QED  BY <2>1, <2>2
<1>9. r = Returned(Top(F, g, s, O), b, values)
  BY <1>3, <1>4 DEF r
<1>10. CASE g.ret[1] = "meta"
  <2>1. r = MetaReturn(Top(F, AtFixed(g, g.pc), Resize(s, g.base + g.size), O), g.ret, first)
    BY <1>2, <1>7, <1>9, <1>10, ReturnedForms DEF first
  <2>2. WaitsForMeta(c, h, s, g, b)
    BY <1>6, <1>10 DEF WaitsForCall
  <2> QED  BY <1>1, <1>2, <1>5, <1>6, <1>8, <2>1, <2>2, MetaReturnGood DEF r
<1>11. CASE g.ret[1] # "meta" /\ g.ret[2] = Variable
  <2> DEFINE x == SubSeq(s, 1, b) \o Resize(values, Len(values))
             g2 == AtVariable(g, g.pc)
  <2>1. r = Top(F, g2, x, O)
    BY <1>2, <1>7, <1>9, <1>11, ReturnedForms DEF first
  <2> HIDE DEF x, g2
  <2>2. Resumes(c, h, s, g, b, g.pc + 1, b - g.base)
    BY <1>6, <1>11 DEF WaitsForMeta, WaitsForCall
  <2>3. Len(values) \in Nat
    BY Lengths
  <2>4. ValuesOK(h, x) /\ Len(x) = b + Len(values) /\ \A i \in 1 .. b : x[i] = s[i]
    <3>1. IsReturned(h, x, s, b, Len(values))
      BY <1>1, <2>3, ReturnedStack DEF x
    <3> QED  BY <3>1 DEF IsReturned
  <2>5. g.base \in Nat /\ g.pc \in Nat
    BY <1>6 DEF FrameOK
  <2>6. g.base <= Len(x) /\ (\A i \in 1 .. g.base : x[i] = s[i]) /\ g.base + (b - g.base) <= Len(x)
    BY <1>1, <1>6, <2>3, <2>4, <2>5
  <2>7. g2 = [is |-> "lua", bottom |-> g.bottom, base |-> g.base, size |-> g.size,
              variable |-> b - g.base # Fixed, pc |-> (g.pc + 1) - 1, ret |-> <<>>]
    <3>1. (g.pc + 1) - 1 = g.pc /\ b - g.base # Fixed
      BY <1>1, <1>6, <2>5 DEF Fixed
    <3>2. (b - g.base # Fixed) = TRUE
      BY <3>1, Zenon
    <3> QED  BY <3>1, <3>2, Zenon DEF g2, AtVariable, LuaOf
  <2>8. IF b - g.base = Fixed THEN Len(x) = g.base + g.size ELSE g.base + (b - g.base) <= Len(x)
    BY <1>1, <1>6, <2>5, <2>6 DEF Fixed
  <2>9. g.pc + 1 \in Nat /\ (g.pc + 1) - 1 \in Nat
    BY <2>5
  <2>10. Good(c, Top(F, g2, x, O), h)
    BY <1>1, <1>2, <1>5, <1>6, <2>2, <2>4, <2>6, <2>7, <2>8, <2>9, ResumesGood
  <2> QED  BY <2>1, <2>10 DEF r
<1>12. CASE g.ret[1] # "meta" /\ g.ret[2] # Variable
  <2> DEFINE y == SubSeq(s, 1, b) \o Resize(values, g.ret[2])
             x == Resize(y, g.base + g.size)
             g2 == AtFixed(g, g.pc)
  <2>1. r = Top(F, g2, x, O)
    BY <1>2, <1>7, <1>9, <1>12, ReturnedForms DEF first
  <2> HIDE DEF x, y, g2
  <2>2. Resumes(c, h, s, g, b, g.pc + 1, Fixed) /\ g.ret[2] \in Nat
    BY <1>6, <1>12 DEF WaitsForMeta, WaitsForCall
  <2>3. Len(s) \in Nat
    BY <1>1, Lengths
  <2>4. ValuesOK(h, y) /\ Len(y) = b + g.ret[2] /\ \A i \in 1 .. b : y[i] = s[i]
    <3>1. IsReturned(h, y, s, b, g.ret[2])
      BY <1>1, <2>2, ReturnedStack DEF y
    <3> QED  BY <3>1 DEF IsReturned
  <2>5. g.base \in Nat /\ g.pc \in Nat
    BY <1>6 DEF FrameOK
  <2>6. g.base + g.size \in Nat
    BY <1>7, <2>5
  <2>7. IsResize(h, x, y, g.base + g.size)
    BY <2>4, <2>6, ResizedValues DEF x
  <2>8. ValuesOK(h, x) /\ Len(x) = g.base + g.size
    BY <2>7 DEF IsResize
  <2>9. \A i \in 1 .. g.base : x[i] = s[i]
    <3>1. \A i \in 1 .. g.base : i \in 1 .. b /\ i \in 1 .. g.base + g.size /\ i <= b + g.ret[2]
      BY <1>1, <1>6, <1>7, <2>2, <2>5, SMTT(30)
    <3>2. \A i \in 1 .. g.base + g.size : i <= Len(y) => x[i] = y[i]
      BY <2>7 DEF IsResize
    <3> QED  BY <2>4, <3>1, <3>2
  <2>10. g2 = [is |-> "lua", bottom |-> g.bottom, base |-> g.base, size |-> g.size,
               variable |-> Fixed # Fixed, pc |-> (g.pc + 1) - 1, ret |-> <<>>]
    <3>1. (g.pc + 1) - 1 = g.pc
      BY <2>5
    <3> QED  BY <3>1, Zenon DEF g2, AtFixed, LuaOf
  <2>11. g.pc + 1 \in Nat /\ (g.pc + 1) - 1 \in Nat /\ g.base <= Len(x)
    BY <2>5, <2>8, <1>7, SMTT(30)
  <2>12. Good(c, Top(F, g2, x, O), h)
    BY <1>1, <1>2, <1>5, <1>6, <2>2, <2>8, <2>9, <2>10, <2>11, ResumesGood
  <2> QED  BY <2>1, <2>12 DEF r
<1> QED  BY <1>10, <1>11, <1>12 DEF r

\* Whatever waits for values can take them.
LEMMA ReturnToGood ==
  ASSUME NEW c, NEW t, NEW h, NEW b, NEW values, Sound(c), Suspended(c, t, h, b), ValuesOK(h, values)
  PROVE  Good(c, ReturnTo(t, b, values), h)
BY ReturnedGood, ResultGood

\* One value and one or two more are two or three.
LEMMA JoinedTuples == 
  ASSUME NEW a PROVE (\A b : <<a>> \o <<b>> = <<a,b>>) /\ (\A b, d : <<a>> \o <<b, d>> = <<a, b, d>>)
<1>1. ASSUME NEW b PROVE <<a>> \o <<b>> = <<a,b>>
  <2> DEFINE x == <<a>> 
             y == <<b>>
             r == x \o y
             z == <<a, b>>
  <2>0. IsSeq(x) /\ IsSeq(y) /\ Len(x) = 1 /\ Len(y) = 1 /\ x[1] = a /\ y[1] = b
    BY TinySeqs
  <2>1. IsSeq(z) /\ Len(z) = 2 /\ z[1] = a /\ z[2] = b
    BY TinySeqs
  <2> HIDE DEF x, y, z
  <2>2. IsSeq(r) /\ Len(r) = Len(x) + Len(y)
     /\ \A j \in 1 .. Len(x) + Len(y) : r[j] = IF j <= Len(x) THEN x[j] ELSE y[j - Len(x)]
    BY <2>0, JoinedSeq
  <2> HIDE DEF r
  <2>3. Len(r) = 2 /\ r[1] = a /\ r[2] = b
    BY <2>0, <2>2
  <2>4. r = z
    <3>1. r = [j \in 1 .. 2 |-> r[j]] /\ z = [j \in 1 .. 2 |-> z[j]]
      BY <2>1, <2>2, <2>3, SeqFacts
    <3>2. \A j \in 1 .. 2 : r[j] = z[j]
      BY <2>1, <2>3
    <3> QED  BY <3>1, <3>2
  <2> QED  BY <2>4 DEF r, x, y, z
<1>2. ASSUME NEW b, NEW d PROVE <<a>> \o <<b, d>> = <<a, b, d>>
  <2> DEFINE x == <<a>> 
             y == <<b, d>>
             r == x \o y
             z == <<a, b, d>>
  <2>0. IsSeq(x) /\ IsSeq(y) /\ Len(x) = 1 /\ Len(y) = 2 /\ x[1] = a /\ y[1] = b /\ y[2] = d
    BY TinySeqs
  <2>1. IsSeq(z) /\ Len(z) = 3 /\ z[1] = a /\ z[2] = b /\ z[3] = d
    BY TinySeqs
  <2> HIDE DEF x, y, z
  <2>2. IsSeq(r) /\ Len(r) = Len(x) + Len(y)
     /\ \A j \in 1 .. Len(x) + Len(y) : r[j] = IF j <= Len(x) THEN x[j] ELSE y[j - Len(x)]
    BY <2>0, JoinedSeq
  <2> HIDE DEF r
  <2>3. Len(r) = 3 /\ r[1] = a /\ r[2] = b /\ r[3] = d
    BY <2>0, <2>2
  <2>4. r = z
    <3>1. r = [j \in 1 .. 3 |-> r[j]] /\ z = [j \in 1 .. 3 |-> z[j]]
      BY <2>1, <2>2, <2>3, SeqFacts
    <3>2. \A j \in 1 .. 3 : r[j] = z[j]
      BY <2>1, <2>3
    <3> QED  BY <3>1, <3>2
  <2> QED  BY <2>4 DEF r, x, y, z
<1> QED  BY <1>1, <1>2

\* A frame that has called, and waits at the next instruction.
Waiting(g, ret) == LuaOf(g.bottom, g.base, g.size, g.variable, g.pc + 1, ret)
SameFunction(x, g) == x.bottom = g.bottom /\ x.base = g.base /\ x.size = g.size

\* A frame that has called is the one there was, at the next instruction.
LEMMA WaitingShape ==
  ASSUME NEW g, IsLua(g), NEW ret
  PROVE  /\ WithRet(By(g, 1), ret) = Waiting(g, ret)
         /\ SameFunction(Waiting(g, ret), g) /\ Waiting(g, ret).pc = g.pc + 1 /\ Waiting(g, ret).ret = ret
<1> DEFINE bo == g.bottom
           ba == g.base
           si == g.size
           va == g.variable
           pc == g.pc
           re == g.ret
<1>1. g = LuaOf(bo, ba, si, va, pc, re)
  BY DEF IsLua, LuaOf
<1> HIDE DEF bo, ba, si, va, pc, re
<1>2. By(g, 1) = LuaOf(bo, ba, si, va, pc + 1, re)
  <2>1. \A k : By(LuaOf(bo, ba, si, va, pc, re), k) = LuaOf(bo, ba, si, va, pc + k, re)
    BY LuaChanged
  <2> QED  BY <1>1, <2>1
<1>3. WithRet(LuaOf(bo, ba, si, va, pc + 1, re), ret) = LuaOf(bo, ba, si, va, pc + 1, ret)
  BY LuaChanged
<1>4. WithRet(By(g, 1), ret) = Waiting(g, ret)
  BY <1>2, <1>3 DEF Waiting, bo, ba, si, va, pc
<1>5. SameFunction(Waiting(g, ret), g) /\ Waiting(g, ret).pc = g.pc + 1 /\ Waiting(g, ret).ret = ret
  BY DEF Waiting, LuaOf, SameFunction
<1> QED  BY <1>4, <1>5

\* And a good one.
LEMMA WaitingFrame ==
  ASSUME NEW c, NEW f, NEW g, NEW s, NEW o, Runs(c, f, g, s, o), NEW op, op = Operation,
         g.pc + 1 + 1 \in Follow(op, g.pc + 1), NEW ret, NEW x, x = Waiting(g, ret)
  PROVE  FrameOK(c, heap, s, x) /\ NotesAt(c, heap, s, x) = NotesAt(c, heap, s, g)
<1>1. IsLua(g) /\ FrameOK(c, heap, s, g)
  BY RunFacts
<1>2. SameFunction(x, g) /\ x.pc = g.pc + 1 /\ x.ret = ret
  BY <1>1, WaitingShape
<1>3. x = LuaOf(x.bottom, x.base, x.size, x.variable, x.pc, x.ret)
  BY DEF Waiting, LuaOf
<1>4. g.pc + 1 + 1 \in DOMAIN NotesAt(c, heap, s, g) /\ g.pc \in Nat
  <2>1. Follow(op, g.pc + 1) \subseteq DOMAIN NotesAt(c, heap, s, g) /\ g.pc \in Nat
    BY InstructionFacts
  <2> QED  BY <2>1
<1>5. ClosureAt(heap, s, x) = ClosureAt(heap, s, g)
  BY <1>2 DEF ClosureAt, SameFunction
<1>6. NotesAt(c, heap, s, x) = NotesAt(c, heap, s, g) /\ ProtoAt(c, heap, s, x) = ProtoAt(c, heap, s, g)
  BY <1>5 DEF NotesAt, ProtoAt
<1>7. /\ x = [is |-> "lua", bottom |-> x.bottom, base |-> x.base, size |-> x.size,
              variable |-> x.variable, pc |-> x.pc, ret |-> x.ret]
      /\ x.bottom \in Nat /\ x.base \in Nat /\ x.bottom < x.base /\ x.base <= Len(s)
      /\ s[x.bottom + 1][1] = "fn" /\ s[x.bottom + 1][2] \in DOMAIN heap.closures
      /\ x.size = ProtoAt(c, heap, s, x).size
      /\ \A a \in Places(heap) : a < x.bottom \/ x.base <= a
      /\ \A i \in DOMAIN ClosureAt(heap, s, x).ups :
           LET y == heap.cells[ClosureAt(heap, s, x).ups[i]] IN y.open => y.at < x.bottom
  <2>1. x = [is |-> "lua", bottom |-> x.bottom, base |-> x.base, size |-> x.size,
             variable |-> x.variable, pc |-> x.pc, ret |-> x.ret]
    BY <1>3 DEF LuaOf
  <2> HIDE DEF SameFunction
  <2>2. /\ x.bottom \in Nat /\ x.base \in Nat /\ x.bottom < x.base /\ x.base <= Len(s)
        /\ s[x.bottom + 1][1] = "fn" /\ s[x.bottom + 1][2] \in DOMAIN heap.closures
        /\ x.size = ProtoAt(c, heap, s, x).size
    BY <1>1, <1>2, <1>6 DEF FrameOK, SameFunction
  <2>3. \A a \in Places(heap) : a < x.bottom \/ x.base <= a
    BY <1>1, <1>2 DEF FrameOK, SameFunction
  <2>4. \A i \in DOMAIN ClosureAt(heap, s, x).ups :
           LET y == heap.cells[ClosureAt(heap, s, x).ups[i]] IN y.open => y.at < x.bottom
    BY <1>1, <1>2, <1>5 DEF FrameOK, SameFunction
  <2> QED  BY <2>1, <2>2, <2>3, <2>4
<1>8. x.pc \in Nat /\ x.pc + 1 \in DOMAIN NotesAt(c, heap, s, x)
  <2>1. x.pc + 1 = g.pc + 1 + 1
    BY <1>2
  <2> QED  BY <1>2, <1>4, <1>6, <2>1
<1> QED  BY <1>6, <1>7, <1>8 DEF FrameOK

\* It can go on at any instruction that may follow.
LEMMA ResumesAfter ==
  ASSUME NEW c, NEW f, NEW g, NEW s, NEW o, Runs(c, f, g, s, o), NEW op, op = Operation, op.op # "Jump",
         g.pc + 1 + 1 \in Follow(op, g.pc + 1), NEW ret, NEW x, x = Waiting(g, ret), NEW b,
         NEW j \in Follow(op, g.pc + 1)
  PROVE  Resumes(c, heap, s, x, b, j, FromAfter(op))
<1> DEFINE n == NoteNow(c, s, g)
           p == ProtoNow(c, s, g)
           m == NotesAt(c, heap, s, g)[j]
<1>1. /\ Follow(op, g.pc + 1) \subseteq DOMAIN NotesAt(c, heap, s, g) /\ Leads(c.protos, p, op, n, m)
      /\ \A a \in Places(heap) : a < g.bottom \/ a - g.base \in n.open
  BY InstructionFacts
<1>2. SameFunction(x, g)
  BY RunFacts, WaitingShape
<1>3. NotesAt(c, heap, s, x) = NotesAt(c, heap, s, g)
  BY WaitingFrame
<1> HIDE DEF n, p, m
<1>4. m.from = FromAfter(op) /\ n.open \subseteq m.open
  BY <1>1 DEF Leads, StaysOpen
<1>5. \A a \in Places(heap) : a < x.bottom \/ b <= a \/ a - x.base \in m.open
  BY <1>1, <1>2, <1>4 DEF SameFunction
<1>6. j \in DOMAIN NotesAt(c, heap, s, x) /\ NotesAt(c, heap, s, x)[j] = m
  BY <1>1, <1>3 DEF m
<1> QED  BY <1>4, <1>5, <1>6 DEF Resumes

\* A thread whose top frame waits for the one that it calls at b.
LEMMA WaitsSuspended ==
  ASSUME NEW c, NEW f, NEW g, NEW s, NEW o, Runs(c, f, g, s, o), NEW op, op = Operation,
         g.pc + 1 + 1 \in Follow(op, g.pc + 1), NEW ret, NEW x, x = Waiting(g, ret),
         NEW b \in Nat, g.base <= b, b <= Len(s), \A a \in Places(heap) : a < b,
         WaitsForCall(c, heap, s, x, b) \/ WaitsForMeta(c, heap, s, x, b)
  PROVE  Suspended(c, Top(f, x, s, o), heap, b)
<1>1. /\ HeapOK(c, heap) /\ ValuesOK(heap, s) /\ OpenOK(heap, o) /\ IsSeq(f)
      /\ AllWait(c, heap, s, f, g.bottom) /\ IsLua(g)
  BY RunFacts DEF Runs
<1>2. FrameOK(c, heap, s, x)
  BY WaitingFrame
<1>3. SameFunction(x, g)
  BY <1>1, WaitingShape
<1>4. WaitingOK(c, heap, s, x, b) /\ AllWait(c, heap, s, f, x.bottom)
  BY <1>1, <1>2, <1>3 DEF WaitingOK, SameFunction
<1>5. AllWait(c, heap, s, Append(f, x), b)
  BY <1>1, <1>4, Pushed
<1>6. IsSeq(Append(f, x))
  BY <1>1, AtTop
<1> DEFINE F == Append(f, x)
           t == Thread(F, s, o)
<1> HIDE DEF F
<1>7. t.frames = F /\ t.stack = s /\ t.open = o
  BY ThreadFields
<1> HIDE DEF t
<1>8. MemoryOK(c, t, heap)
  BY <1>1, <1>6, <1>7 DEF MemoryOK, F, t
<1>9. b \in 0 .. Len(s)
  BY <1>1, Lengths
<1>10. Suspended(c, t, heap, b)
  BY <1>5, <1>7, <1>8, <1>9 DEF Suspended, F
<1> QED  BY <1>10 DEF t, F, Top

\* What an instruction asks of the result of a metamethod.
IsRet(g, op, ret) ==
  \/ ret = <<"none">>
  \/ ret = <<"register", ret[2]>> /\ ret[2] \in Nat /\ ret[2] < g.size
  \/ ret = <<"skip_if", ret[2]>> /\ g.pc + 1 + 2 \in Follow(op, g.pc + 1)

\* What a frame remembers that waits for a metamethod.
LEMMA RetFields ==
  ASSUME NEW g, NEW op, NEW ret, IsRet(g, op, ret), NEW r, r = <<"meta">> \o ret
  PROVE  /\ r # <<>> /\ r[1] = "meta" /\ r[2] \in {"none", "register", "skip_if"}
         /\ r[2] = "register" => r[3] = ret[2] /\ r[3] \in Nat /\ r[3] < g.size
         /\ r[2] = "skip_if" => g.pc + 1 + 2 \in Follow(op, g.pc + 1)
<1>0. (\A b : <<"meta">> \o <<b>> = <<"meta", b>>) /\ (\A b, d : <<"meta">> \o <<b, d>> = <<"meta", b, d>>)
  BY JoinedTuples
<1>1. CASE ret = <<"none">>
  <2>1. r = <<"meta", "none">>
    BY <1>0, <1>1
  <2>2. r # <<>>
    <3>1. Len(<<"meta", "none">>) = 2 /\ Len(<<>>) = 0
      BY TinySeqs
    <3> QED  BY <2>1, <3>1
  <2> QED  BY <2>1, <2>2
<1>2. CASE ret = <<"register", ret[2]>> /\ ret[2] \in Nat /\ ret[2] < g.size
  <2> DEFINE k == ret[2]
  <2>0. ret = <<"register", k>> /\ k \in Nat /\ k < g.size
    BY <1>2
  <2> HIDE DEF k
  <2>1. r = <<"meta", "register", k>>
    BY <1>0, <2>0
  <2>2. r # <<>>
    <3>1. Len(<<"meta", "register", k>>) = 3 /\ Len(<<>>) = 0
      BY TinySeqs
    <3> QED  BY <2>1, <3>1
  <2>3. r[1] = "meta" /\ r[2] = "register" /\ r[3] = k
    BY <2>1, SMTT(30)
  <2> QED  BY <2>0, <2>2, <2>3 DEF k
<1>3. CASE ret = <<"skip_if", ret[2]>> /\ g.pc + 1 + 2 \in Follow(op, g.pc + 1)
  <2> DEFINE k == ret[2]
  <2>0. ret = <<"skip_if", k>> /\ g.pc + 1 + 2 \in Follow(op, g.pc + 1)
    BY <1>3
  <2> HIDE DEF k
  <2>1. r = <<"meta", "skip_if", k>>
    BY <1>0, <2>0
  <2>2. r # <<>>
    <3>1. Len(<<"meta", "skip_if", k>>) = 3 /\ Len(<<>>) = 0
      BY TinySeqs
    <3> QED  BY <2>1, <3>1
  <2>3. r[1] = "meta" /\ r[2] = "skip_if"
    BY <2>1
  <2> QED  BY <2>0, <2>2, <2>3
<1> QED  BY <1>1, <1>2, <1>3 DEF IsRet

\* An instruction that takes no variable number of values finds none.
LEMMA NothingVariable ==
  ASSUME NEW c, NEW f, NEW g, NEW s, NEW o, Runs(c, f, g, s, o), NEW op, op = Operation, Takes(op) # Variable
  PROVE  g.variable = FALSE /\ Len(s) = g.base + g.size
<1> DEFINE n == NoteNow(c, s, g)
<1>1. /\ g.variable = (n.from # Fixed) /\ (n.from # Fixed <=> Takes(op) = Variable)
      /\ n.from = Fixed => Len(s) = g.base + g.size
  BY InstructionFacts
<1> HIDE DEF n
<1>2. n.from = Fixed
  BY <1>1
<1> QED  BY <1>1, <1>2, Zenon

\* A thread that waits does not mind what its top frame has in its registers.
LEMMA SuspendedChanged ==
  ASSUME NEW c, NEW f, NEW x, NEW s, NEW o, NEW h, NEW b, IsSeq(f), Suspended(c, Top(f, x, s, o), h, b),
         NEW s2, ValuesOK(h, s2), b <= Len(s2), \A i \in 1 .. x.base : s2[i] = s[i]
  PROVE  Suspended(c, Top(f, x, s2, o), h, b)
<1> DEFINE F == Append(f, x)
<1>0. Top(f, x, s, o) = Thread(F, s, o) /\ Top(f, x, s2, o) = Thread(F, s2, o)
  BY DEF Top
<1> HIDE DEF F
<1>1. /\ HeapOK(c, h) /\ ValuesOK(h, s) /\ OpenOK(h, o) /\ IsSeq(F) /\ AllWait(c, h, s, F, b)
      /\ b \in Nat /\ b <= Len(s) /\ \A a \in Places(h) : a < b
  BY <1>0, SuspendedFacts, ThreadFields
<1>2. AllWait(c, h, s, f, x.bottom) /\ WaitingOK(c, h, s, x, b)
  BY <1>1, Unpushed DEF F
<1>3. FrameOK(c, h, s, x) /\ x.base <= b
  BY <1>2 DEF WaitingOK
<1>4. x.base \in Nat /\ x.bottom \in Nat /\ x.bottom <= x.base /\ Len(s) \in Nat /\ Len(s2) \in Nat
  BY <1>1, <1>3, Lengths DEF FrameOK
<1>5. x.base <= Len(s) /\ x.base <= Len(s2)
  BY <1>1, <1>3, <1>4
<1>6. Over(h, s, h, s2, x.base)
  BY <1>1, <1>4, <1>5, SameOver
<1>7. Over(h, s, h, s2, x.bottom)
  BY <1>4, <1>6, OverLess
<1>8. AllWait(c, h, s2, f, x.bottom)
  BY <1>1, <1>2, <1>7, AllKeep
<1>9. FrameOK(c, h, s2, x) /\ ClosureAt(h, s2, x) = ClosureAt(h, s, x)
  BY <1>1, <1>3, <1>6, <1>4, FrameKeeps
<1>10. WaitingOK(c, h, s2, x, b)
  <2>1. NotesAt(c, h, s2, x) = NotesAt(c, h, s, x)
    BY <1>9 DEF NotesAt
  <2>2. \A j, from : Resumes(c, h, s, x, b, j, from) => Resumes(c, h, s2, x, b, j, from)
    BY <2>1 DEF Resumes
  <2>3. WaitsForCall(c, h, s, x, b) => WaitsForCall(c, h, s2, x, b)
    BY <2>2 DEF WaitsForCall
  <2>4. WaitsForMeta(c, h, s, x, b) => WaitsForMeta(c, h, s2, x, b)
    BY <2>2 DEF WaitsForMeta
  <2> QED  BY <1>2, <1>9, <2>3, <2>4 DEF WaitingOK
<1>11. AllWait(c, h, s2, F, b)
  BY <1>8, <1>10, Pushed DEF F
<1> DEFINE t == Thread(F, s2, o)
<1>12. t.frames = F /\ t.stack = s2 /\ t.open = o
  BY ThreadFields
<1> HIDE DEF t
<1>13. MemoryOK(c, t, h)
  BY <1>1, <1>12 DEF MemoryOK, t
<1>14. Suspended(c, t, h, b)
  BY <1>1, <1>4, <1>11, <1>12, <1>13 DEF Suspended
<1> QED  BY <1>0, <1>14 DEF t

\* A metamethod is called.
LEMMA CallMetaGood ==
  ASSUME NEW c, NEW f, NEW g, NEW s, NEW o, NEW op, Step(c, f, g, s, o, op), Plain(op),
         g.pc + 1 + 1 \in Follow(op, g.pc + 1), NEW ret, IsRet(g, op, ret),
         NEW func, NEW args, CallOK(heap, func, args),
         NEW s2, ValuesOK(heap, s2), Len(s2) = Len(s), \A i \in 1 .. g.base : s2[i] = s[i],
         NEW t, t = Top(f, By(g, 1), s2, o)
  PROVE  Good(c, CallMeta(t, func, args, ret), heap)
<1> DEFINE b == Len(s)
           r == <<"meta">> \o ret
           x == Waiting(g, r)
           t2 == Top(f, x, s2, o)
           z == SubSeq(s2, 1, b) \o args
<1>1. /\ Runs(c, f, g, s, o) /\ op = Operation /\ IsSeq(f) /\ IsLua(g) /\ HeapOK(c, heap)
      /\ g.base \in Nat /\ g.base <= Len(s) /\ Len(s) \in Nat /\ g.pc \in Nat
  BY StepFacts
<1>2. Len(s) = g.base + g.size /\ Sound(c) /\ code = c.protos
  BY <1>1, NothingVariable DEF Plain, Runs
<1>3. /\ r # <<>> /\ r[1] = "meta" /\ r[2] \in {"none", "register", "skip_if"}
      /\ r[2] = "register" => r[3] = ret[2] /\ r[3] \in Nat /\ r[3] < g.size
      /\ r[2] = "skip_if" => g.pc + 1 + 2 \in Follow(op, g.pc + 1)
  BY RetFields
<1> HIDE DEF r, b
<1>4. /\ WithRet(By(g, 1), r) = x /\ SameFunction(x, g) /\ x.pc = g.pc + 1 /\ x.ret = r
  BY <1>1, WaitingShape
<1> HIDE DEF x, z
<1>5. \A j \in Follow(op, g.pc + 1) : Resumes(c, heap, s, x, b, j, Fixed)
  <2>1. \A j \in Follow(op, g.pc + 1) : Resumes(c, heap, s, x, b, j, FromAfter(op))
    BY <1>1, ResumesAfter DEF x, Plain
  <2> QED  BY <2>1 DEF Plain
<1>6. WaitsForMeta(c, heap, s, x, b)
  <2>1. x.pc + 1 = g.pc + 1 + 1 /\ x.pc + 2 = g.pc + 1 + 2
    BY <1>1, <1>4
  <2>2. x.base + x.size <= b
    BY <1>1, <1>2, <1>4 DEF SameFunction, b
  <2>3. Resumes(c, heap, s, x, b, x.pc + 1, Fixed)
    BY <1>5, <2>1
  <2>4. r[2] = "skip_if" => Resumes(c, heap, s, x, b, x.pc + 2, Fixed)
    BY <1>3, <1>5, <2>1
  <2>5. r[2] = "register" => r[3] \in 0 .. x.size - 1
    <3>1. g.size \in Nat
      BY <1>1, <1>2, RunFacts, FrameSize
    <3> QED  BY <1>3, <1>4, <3>1 DEF SameFunction
  <2> QED  BY <1>3, <1>4, <2>2, <2>3, <2>4, <2>5 DEF WaitsForMeta
<1>7. Suspended(c, Top(f, x, s, o), heap, b)
  <2>1. \A a \in Places(heap) : a < b
    BY <1>1, PlacesIn DEF b
  <2>2. b \in Nat /\ g.base <= b /\ b <= Len(s)
    BY <1>1 DEF b
  <2> QED  BY <1>1, <1>6, <2>1, <2>2, WaitsSuspended DEF x
<1>8. Suspended(c, t2, heap, b)
  <2>1. b <= Len(s2)
    BY <1>1 DEF b
  <2>2. \A i \in 1 .. x.base : s2[i] = s[i]
    BY <1>4 DEF SameFunction
  <2> QED  BY <1>1, <1>7, <2>1, <2>2, SuspendedChanged
<1>9. CallMeta(t, func, args, ret) = PushCall(WithStack(t2, z), heap, b, func)
  <2>1. Last(t.frames) = By(g, 1) /\ t.stack = s2
    BY <1>1, Rewrites, FullTop
  <2>2. By(g, 1).base = g.base /\ By(g, 1).size = g.size
    BY <1>1 DEF By, IsLua
  <2>3. CallMeta(t, func, args, ret)
        = PushCall(WithStack(WithFrame(t, WithRet(By(g, 1), r)), SubSeq(s2, 1, b) \o args), heap, b, func)
    <3> DEFINE y == By(g, 1)
    <3> HIDE DEF y
    <3>1. Last(t.frames) = y /\ t.stack = s2 /\ y.base = g.base /\ y.size = g.size
      BY <2>1, <2>2 DEF y
    <3>2. y.base + y.size = b
      BY <1>2, <3>1 DEF b
    <3> QED  BY <3>1, <3>2, Zenon DEF CallMeta, WithRet, r, y
  <2>4. WithFrame(t, WithRet(By(g, 1), r)) = t2
    <3>1. \A y : WithFrame(Top(f, By(g, 1), s2, o), y) = Top(f, y, s2, o)
      BY <1>1, Rewrites
    <3> QED  BY <3>1, <1>4
  <2> QED  BY <2>3, <2>4 DEF z
<1>10. t2.stack = s2
  BY <1>1, FullTop
<1> HIDE DEF t2
<1>11. WithStack(t2, z) = WithStack(t2, SubSeq(t2.stack, 1, b) \o args)
  BY <1>10 DEF z
<1> QED  BY <1>2, <1>8, <1>9, <1>11, CallsGood

\* Whatever a meta operation comes to.
LEMMA AnswersKeeps ==
  ASSUME NEW c, NEW f, NEW g, NEW s, NEW o, NEW op, Step(c, f, g, s, o, op), Plain(op),
         g.pc + 1 + 1 \in Follow(op, g.pc + 1), NEW ret, IsRet(g, op, ret),
         NEW m, IsMeta(c, heap, m), Answers(m, ret)
  PROVE  Keeps(c)
<1> DEFINE r == <<"meta">> \o ret
<1>1. /\ Runs(c, f, g, s, o) /\ op = Operation /\ status = "running" /\ IsSeq(f) /\ IsLua(g)
      /\ HeapOK(c, heap) /\ ValuesOK(heap, s) /\ Good(c, th, heap) /\ Frame = g
      /\ g.base \in Nat /\ g.base <= Len(s) /\ Len(s) \in Nat /\ g.pc \in Nat
  BY StepFacts
<1>2. /\ Ahead = Top(f, By(g, 1), s, o)
      /\ \A k \in Int : Skip(Ahead, k) = Top(f, By(g, 1 + k), s, o)
      /\ \A i, v : SetReg(Ahead, i, v) = Top(f, By(g, 1), Put(s, g.base + i + 1, v), o)
  BY AheadBy
<1>3. /\ r # <<>> /\ r[1] = "meta" /\ r[2] \in {"none", "register", "skip_if"}
      /\ r[2] = "register" => r[3] = ret[2] /\ r[3] \in Nat /\ r[3] < g.size
      /\ r[2] = "skip_if" => g.pc + 1 + 2 \in Follow(op, g.pc + 1)
  BY RetFields
<1>4. m.is \in {"error", "value", "set", "call"}
  BY DEF IsMeta
<1> HIDE DEF r
<1>5. CASE m.is = "error"
  <2>1. Ends("error")
    BY <1>5 DEF Answers
  <2> QED  BY <1>1, <2>1, EndsKeeps
<1>6. CASE m.is = "value"
  <2> DEFINE v == m.value
             t == MetaReturn(Ahead, r, v)
  <2>1. Goes(t, heap)
    BY <1>6 DEF Answers, r
  <2>2. ValueOK(heap, v)
    BY <1>6 DEF IsMeta
  <2> HIDE DEF v
  <2>3. CASE r[2] = "none"
    <3>1. t = Top(f, By(g, 1), s, o)
      BY <1>2, <2>3 DEF MetaReturn
    <3> HIDE DEF t
    <3> QED  BY <2>1, <3>1, GoesBy
  <2>4. CASE r[2] = "register"
    <3> DEFINE i == r[3]
    <3>1. t = SetReg(Ahead, i, v) /\ i \in Nat
      BY <1>3, <2>4 DEF MetaReturn
    <3> HIDE DEF t, i
    <3>2. t = Top(f, By(g, 1), Put(s, g.base + i + 1, v), o)
      BY <1>2, <3>1
    <3>3. Like(c, heap, heap)
      BY <1>1, LikeItself
    <3> QED  BY <2>1, <2>2, <3>1, <3>2, <3>3, GoesSetting
  <2>5. CASE r[2] = "skip_if"
    <3>1. t = IF IsTrue(v) = r[3] THEN Skip(Ahead, 1) ELSE Ahead
      BY <2>5 DEF MetaReturn
    <3>2. t = Ahead \/ t = Skip(Ahead, 1)
      BY <3>1
    <3>3. Skip(Ahead, 1) = Top(f, By(g, 2), s, o)
      BY <1>2
    <3> HIDE DEF t
    <3>4. CASE t = Ahead
      <4>1. t = Top(f, By(g, 1), s, o)
        BY <1>2, <3>4
      <4> QED  BY <2>1, <4>1, GoesBy
    <3>5. CASE t = Skip(Ahead, 1)
      <4>1. t = Top(f, By(g, 2), s, o)
        BY <3>3, <3>5
      <4>2. 2 \in Int /\ g.pc + 1 + 2 \in Follow(op, g.pc + 1)
        BY <1>3, <2>5
      <4> QED  BY <2>1, <4>1, <4>2, GoesBy
    <3> QED  BY <3>2, <3>4, <3>5
  <2> QED  BY <1>3, <2>3, <2>4, <2>5
<1>7. CASE m.is = "set"
  <2> DEFINE h2 == m.heap
  <2>1. Goes(Ahead, h2) /\ Like(c, heap, h2)
    BY <1>7 DEF Answers, IsMeta
  <2> HIDE DEF h2
  <2>2. ValuesOK(h2, s)
    BY <1>1, <2>1, LikeFacts
  <2>3. Good(c, Top(f, By(g, 1), s, o), h2)
    BY <1>1, <2>1, <2>2, Steps
  <2> QED  BY <1>1, <1>2, <2>1, <2>3, GoesKeeps
<1>8. CASE m.is = "call"
  <2> DEFINE func == m.func
             args == m.args
             t == CallMeta(Ahead, func, args, ret)
  <2>1. g.variable = FALSE
    BY <1>1, NothingVariable DEF Plain
  <2>2. IF g.variable THEN Ends("fault") ELSE Goes(t, heap)
    BY <1>1, <1>8, Zenon DEF Answers
  <2>3. Goes(t, heap)
    BY <2>1, <2>2, Zenon
  <2>4. CallOK(heap, func, args)
    BY <1>8 DEF IsMeta
  <2> HIDE DEF func, args
  <2>5. Good(c, t, heap)
    BY <1>1, <1>2, <2>4, CallMetaGood
  <2> HIDE DEF t
  <2> QED  BY <1>1, <2>3, <2>5, GoesKeeps
<1> QED  BY <1>4, <1>5, <1>6, <1>7, <1>8

\* A register that is touched may be set to the answer.
LEMMA ToRegisterOK ==
  ASSUME NEW c, NEW f, NEW g, NEW s, NEW o, NEW op, Step(c, f, g, s, o, op), NEW r \in Touches(op)
  PROVE  IsRet(g, op, ToRegister(r))
<1>1. r \in Nat /\ r < g.size
  BY Touched
<1> DEFINE ret == <<"register", r>>
<1>2. ret[2] = r
  OBVIOUS
<1>3. ret = <<"register", ret[2]>>
  BY <1>2
<1> HIDE DEF ret
<1>4. IsRet(g, op, ret)
  BY <1>1, <1>2, <1>3 DEF IsRet
<1> QED  BY <1>4 DEF ret, ToRegister

\* A result that nobody wants.
LEMMA NoRegisterOK ==
  ASSUME NEW g, NEW op
  PROVE  IsRet(g, op, <<"none">>)
BY DEF IsRet

\* OpCode::GetTable.
LEMMA GetTableKeeps ==
  ASSUME NEW c, NEW f, NEW g, NEW s, NEW o, NEW op, Step(c, f, g, s, o, op), GetTable(op)
  PROVE  Keeps(c)
<1> DEFINE m == Index(heap, Reg(op.table), Rc(op.key))
<1>1. op.op = "GetTable" /\ Answers(m, ToRegister(op.dest))
  BY DEF GetTable
<1>2. /\ Plain(op) /\ g.pc + 1 + 1 \in Follow(op, g.pc + 1)
      /\ op.dest \in Touches(op) /\ op.table \in Touches(op)
      /\ OfEither(op.key) \subseteq Touches(op) /\ (op.key[1] # "r" => op.key[2] \in OfConstants(op))
  BY <1>1 DEF Plain, Takes, Variable, FromAfter, Follow, Touches, OfConstants
<1>3. ValueOK(heap, Reg(op.table)) /\ ValueOK(heap, Rc(op.key)) /\ HeapOK(c, heap)
  BY <1>2, Touched, EitherOK, StepFacts
<1>4. IsMeta(c, heap, m)
  BY <1>3, IndexOK DEF IsAnswer
<1> HIDE DEF m
<1>5. IsRet(g, op, ToRegister(op.dest))
  BY <1>2, ToRegisterOK
<1> QED  BY <1>1, <1>2, <1>4, <1>5, AnswersKeeps

\* OpCode::SetTable.
LEMMA PutTableKeeps ==
  ASSUME NEW c, NEW f, NEW g, NEW s, NEW o, NEW op, Step(c, f, g, s, o, op), PutTable(op)
  PROVE  Keeps(c)
<1> DEFINE m == NewIndex(heap, Reg(op.table), Rc(op.key), Rc(op.value))
<1>1. op.op = "SetTable" /\ Answers(m, <<"none">>)
  BY DEF PutTable
<1>2. /\ Plain(op) /\ g.pc + 1 + 1 \in Follow(op, g.pc + 1) /\ op.table \in Touches(op)
      /\ OfEither(op.key) \subseteq Touches(op) /\ (op.key[1] # "r" => op.key[2] \in OfConstants(op))
      /\ OfEither(op.value) \subseteq Touches(op) /\ (op.value[1] # "r" => op.value[2] \in OfConstants(op))
  BY <1>1 DEF Plain, Takes, Variable, FromAfter, Follow, Touches, OfConstants
<1>3. /\ ValueOK(heap, Reg(op.table)) /\ ValueOK(heap, Rc(op.key)) /\ ValueOK(heap, Rc(op.value))
      /\ HeapOK(c, heap)
  BY <1>2, Touched, EitherOK, StepFacts
<1>4. IsMeta(c, heap, m)
  BY <1>3, NewIndexOK
<1> HIDE DEF m
<1>5. IsRet(g, op, <<"none">>)
  BY NoRegisterOK
<1> QED  BY <1>1, <1>2, <1>4, <1>5, AnswersKeeps

\* OpCode::GetUpTable.
LEMMA GetUpTableKeeps ==
  ASSUME NEW c, NEW f, NEW g, NEW s, NEW o, NEW op, Step(c, f, g, s, o, op), GetUpTable(op)
  PROVE  Keeps(c)
<1> DEFINE m == Index(heap, CellValue(op.table), Rc(op.key))
<1>1. op.op = "GetUpTable" /\ (AboveFrame(op.table) => Answers(m, ToRegister(op.dest)))
  BY DEF GetUpTable
<1>2. /\ Plain(op) /\ g.pc + 1 + 1 \in Follow(op, g.pc + 1)
      /\ op.dest \in Touches(op) /\ op.table \in OfUpValues(op)
      /\ OfEither(op.key) \subseteq Touches(op) /\ (op.key[1] # "r" => op.key[2] \in OfConstants(op))
  BY <1>1 DEF Plain, Takes, Variable, FromAfter, Follow, Touches, OfConstants, OfUpValues
<1>3. /\ AboveFrame(op.table) /\ ValueOK(heap, CellValue(op.table)) /\ ValueOK(heap, Rc(op.key))
      /\ HeapOK(c, heap)
  BY <1>2, UpFacts, EitherOK, StepFacts
<1>4. IsMeta(c, heap, m)
  BY <1>3, IndexOK DEF IsAnswer
<1> HIDE DEF m
<1>5. IsRet(g, op, ToRegister(op.dest))
  BY <1>2, ToRegisterOK
<1> QED  BY <1>1, <1>2, <1>3, <1>4, <1>5, AnswersKeeps

\* OpCode::SetUpTable.
LEMMA PutUpTableKeeps ==
  ASSUME NEW c, NEW f, NEW g, NEW s, NEW o, NEW op, Step(c, f, g, s, o, op), PutUpTable(op)
  PROVE  Keeps(c)
<1> DEFINE m == NewIndex(heap, CellValue(op.table), Rc(op.key), Rc(op.value))
<1>1. op.op = "SetUpTable" /\ (AboveFrame(op.table) => Answers(m, <<"none">>))
  BY DEF PutUpTable
<1>2. /\ Plain(op) /\ g.pc + 1 + 1 \in Follow(op, g.pc + 1) /\ op.table \in OfUpValues(op)
      /\ OfEither(op.key) \subseteq Touches(op) /\ (op.key[1] # "r" => op.key[2] \in OfConstants(op))
      /\ OfEither(op.value) \subseteq Touches(op) /\ (op.value[1] # "r" => op.value[2] \in OfConstants(op))
  BY <1>1 DEF Plain, Takes, Variable, FromAfter, Follow, Touches, OfConstants, OfUpValues
<1>3. /\ AboveFrame(op.table) /\ ValueOK(heap, CellValue(op.table)) /\ ValueOK(heap, Rc(op.key))
      /\ ValueOK(heap, Rc(op.value)) /\ HeapOK(c, heap)
  BY <1>2, UpFacts, EitherOK, StepFacts
<1>4. IsMeta(c, heap, m)
  BY <1>3, NewIndexOK
<1> HIDE DEF m
<1>5. IsRet(g, op, <<"none">>)
  BY NoRegisterOK
<1> QED  BY <1>1, <1>2, <1>3, <1>4, <1>5, AnswersKeeps

\* OpCode::Length.
LEMMA LengthKeeps ==
  ASSUME NEW c, NEW f, NEW g, NEW s, NEW o, NEW op, Step(c, f, g, s, o, op), Length(op)
  PROVE  Keeps(c)
<1> DEFINE m == LengthOf(heap, Reg(op.source))
<1>1. op.op = "Length" /\ Answers(m, ToRegister(op.dest))
  BY DEF Length
<1>2. /\ Plain(op) /\ g.pc + 1 + 1 \in Follow(op, g.pc + 1)
      /\ op.dest \in Touches(op) /\ op.source \in Touches(op)
  BY <1>1 DEF Plain, Takes, Variable, FromAfter, Follow, Touches
<1>3. ValueOK(heap, Reg(op.source)) /\ HeapOK(c, heap)
  BY <1>2, Touched, StepFacts
<1>4. IsMeta(c, heap, m)
  BY <1>3, LengthOfOK DEF IsAnswer
<1> HIDE DEF m
<1>5. IsRet(g, op, ToRegister(op.dest))
  BY <1>2, ToRegisterOK
<1> QED  BY <1>1, <1>2, <1>4, <1>5, AnswersKeeps

\* OpCode::Eq.
LEMMA CompareEqualKeeps ==
  ASSUME NEW c, NEW f, NEW g, NEW s, NEW o, NEW op, Step(c, f, g, s, o, op), CompareEqual(op)
  PROVE  Keeps(c)
<1> DEFINE m == Equals(heap, Rc(op.left), Rc(op.right))
           ret == <<"skip_if", op.skip_if>>
<1>1. op.op = "Eq" /\ Answers(m, ret)
  BY DEF CompareEqual
<1>2. /\ Plain(op) /\ g.pc + 1 + 1 \in Follow(op, g.pc + 1) /\ g.pc + 1 + 2 \in Follow(op, g.pc + 1)
      /\ OfEither(op.left) \subseteq Touches(op) /\ (op.left[1] # "r" => op.left[2] \in OfConstants(op))
      /\ OfEither(op.right) \subseteq Touches(op) /\ (op.right[1] # "r" => op.right[2] \in OfConstants(op))
  BY <1>1 DEF Plain, Takes, Variable, FromAfter, Follow, Touches, OfConstants
<1>3. ValueOK(heap, Rc(op.left)) /\ ValueOK(heap, Rc(op.right)) /\ HeapOK(c, heap)
  BY <1>2, EitherOK, StepFacts
<1>4. IsMeta(c, heap, m)
  BY <1>3, EqualsOK DEF IsAnswer
<1>5. ret = <<"skip_if", ret[2]>>
  <2>1. ret[2] = op.skip_if
    OBVIOUS
  <2> QED  BY <2>1
<1> HIDE DEF m, ret
<1>6. IsRet(g, op, ret)
  BY <1>2, <1>5 DEF IsRet
<1> QED  BY <1>1, <1>2, <1>4, <1>6, AnswersKeeps

\* Operation::Method, with its name in a register or a constant.
LEMMA MethodKeeps ==
  ASSUME NEW c, NEW f, NEW g, NEW s, NEW o, NEW op, Step(c, f, g, s, o, op), MethodInstruction(op)
  PROVE  Keeps(c)
<1> DEFINE m == Index(heap, Reg(op.table), Rc(op.key))
           v == Reg(op.table)
           t == SetReg(Ahead, op.base + 1, v)
           s2 == Put(s, g.base + (op.base + 1) + 1, v)
<1>1. op.op = "Method" /\ m.is \in {"error", "value", "call", "set"} \cup {m.is}
  BY DEF MethodInstruction
<1>2. /\ Plain(op) /\ g.pc + 1 + 1 \in Follow(op, g.pc + 1) /\ op.table \in Touches(op)
      /\ OfEither(op.key) \subseteq Touches(op) /\ (op.key[1] # "r" => op.key[2] \in OfConstants(op))
      /\ Span(op.base, 2) \subseteq Touches(op) /\ op.base \in Counts(op)
  BY <1>1 DEF Plain, Takes, Variable, FromAfter, Follow, Touches, OfConstants, Counts
<1>3. /\ Runs(c, f, g, s, o) /\ status = "running" /\ IsSeq(f) /\ IsLua(g) /\ HeapOK(c, heap)
      /\ ValuesOK(heap, s) /\ Good(c, th, heap) /\ g.base \in Nat /\ Len(s) \in Nat /\ op.base \in Nat
  BY <1>2, StepFacts
<1>4. op.base \in Touches(op) /\ op.base + 1 \in Touches(op)
  BY <1>2, <1>3 DEF Span
<1>5. ValueOK(heap, v) /\ ValueOK(heap, Rc(op.key))
  BY <1>2, Touched, EitherOK
<1>6. IsAnswer(c, heap, m)
  BY <1>3, <1>5, IndexOK
<1> HIDE DEF m, v
<1>7. t = Top(f, By(g, 1), s2, o)
  BY AheadBy
<1>8. IsChange(heap, s2, s, g.base + (op.base + 1) + 1, v)
  BY <1>3, <1>5, ChangedValues DEF Put
<1> HIDE DEF s2, t
<1>9. ValuesOK(heap, s2) /\ Len(s2) = Len(s) /\ \A i \in 1 .. g.base : i <= Len(s) => s2[i] = s[i]
  BY <1>3, <1>8 DEF IsChange
<1>10. \A i \in 1 .. g.base : s2[i] = s[i]
  <2>1. g.base <= Len(s)
    BY StepFacts
  <2> QED  BY <1>3, <1>9, <2>1
<1>11. m.is \in {"error", "value", "call"}
  BY <1>6 DEF IsAnswer, IsMeta
<1>12. CASE m.is = "error"
  <2>1. Ends("error")
    BY <1>12 DEF MethodInstruction, m
  <2> QED  BY <1>3, <2>1, EndsKeeps
<1>13. CASE m.is = "value"
  <2> DEFINE w == m.value
             t3 == SetReg(t, op.base, w)
             s3 == Put(s2, g.base + op.base + 1, w)
  <2>1. Goes(t3, heap)
    BY <1>13, Zenon DEF MethodInstruction, m, t, v
  <2>2. ValueOK(heap, w)
    BY <1>6, <1>13 DEF IsAnswer, IsMeta
  <2> HIDE DEF w
  <2>3. t3 = Top(f, By(g, 1), s3, o)
    <3> DEFINE y == By(g, 1)
               i == op.base
               k == g.base + op.base + 1
    <3>1. y.base = g.base
      BY <1>3 DEF By, IsLua
    <3>2. k = y.base + i + 1
      BY <3>1
    <3> HIDE DEF y, i, k
    <3>3. SetReg(Top(f, y, s2, o), i, w) = Top(f, y, Put(s2, k, w), o)
      BY <1>3, <3>2, SetTop
    <3> QED  BY <1>7, <3>3 DEF y, i, k
  <2>4. IsChange(heap, s3, s2, g.base + op.base + 1, w)
    BY <1>9, <2>2, ChangedValues DEF Put
  <2> HIDE DEF t3, s3
  <2>5. ValuesOK(heap, s3) /\ Len(s3) = Len(s)
    BY <1>9, <2>4 DEF IsChange
  <2>6. \A i \in 1 .. g.base : s3[i] = s[i]
    <3>1. \A i \in 1 .. g.base : i # g.base + op.base + 1 /\ i \in 1 .. Len(s2)
      BY <1>3, <1>9, StepFacts
    <3> QED  BY <1>10, <2>4, <3>1 DEF IsChange
  <2>7. Like(c, heap, heap)
    BY <1>3, LikeItself
  <2>8. Good(c, Top(f, By(g, 1), s3, o), heap)
    BY <1>2, <1>3, <2>5, <2>6, <2>7, Steps, StepFacts
  <2> QED  BY <1>3, <2>1, <2>3, <2>8, GoesKeeps
<1>14. CASE m.is = "call"
  <2> DEFINE func == m.func
             args == m.args
             ret == ToRegister(op.base)
             t3 == CallMeta(t, func, args, ret)
  <2>1. Goes(t3, heap)
    BY <1>14, Zenon DEF MethodInstruction, m, t, v
  <2>2. CallOK(heap, func, args)
    BY <1>6, <1>14 DEF IsAnswer, IsMeta
  <2>3. IsRet(g, op, ret)
    BY <1>4, ToRegisterOK
  <2> HIDE DEF func, args, ret
  <2>4. Good(c, t3, heap)
    BY <1>2, <1>7, <1>9, <1>10, <2>2, <2>3, CallMetaGood
  <2> HIDE DEF t3
  <2> QED  BY <1>3, <2>1, <2>4, GoesKeeps
<1> QED  BY <1>11, <1>12, <1>13, <1>14

\* A step that takes a variable number of values and leaves none.
LEMMA Settles ==
  ASSUME NEW c, NEW f, NEW g, NEW s, NEW o, Runs(c, f, g, s, o), NEW op, op = Operation,
         op.op # "Jump", FromAfter(op) = Fixed, g.pc + 1 + 1 \in Follow(op, g.pc + 1),
         NEW h2, Like(c, heap, h2), NEW s2, ValuesOK(h2, s2), Len(s2) = g.base + g.size,
         \A i \in 1 .. g.base : s2[i] = s[i], NEW x, x = AtFixed(g, g.pc + 1)
  PROVE  Good(c, Top(f, x, s2, o), h2)
<1> DEFINE n == NoteNow(c, s, g)
           p == ProtoNow(c, s, g)
           j == g.pc + 1 + 1
<1> HIDE DEF n, p, j
<1>1. /\ \A a \in Places(heap) : a < g.bottom \/ a - g.base \in n.open
      /\ g.base \in Nat /\ g.base <= Len(s) /\ g.pc \in Nat /\ g.size \in Nat
  <2>1. /\ \A a \in Places(heap) : a < g.bottom \/ a - g.base \in n.open
        /\ g.base \in Nat /\ g.base <= Len(s) /\ g.pc \in Nat
    BY InstructionFacts DEF n, p
  <2>2. g.size \in Nat
    BY RunFacts, FrameSize DEF Runs
  <2> QED  BY <2>1, <2>2
<1>2. StaysOpen(op, n.open) = n.open
  BY DEF StaysOpen
<1>3. HeapOK(c, heap) /\ OpenOK(heap, o)
  BY DEF Runs
<1>4. /\ Places(h2) = Places(heap) /\ OpenOK(h2, o) /\ HeapOK(c, h2)
      /\ \A a \in Places(heap) : a \in Nat
  BY <1>3, LikeFacts DEF Like
<1>5. g.base <= Len(s2)
  BY <1>1
<1>6. Over(heap, s, h2, s2, g.base)
  BY <1>1, <1>4, <1>5 DEF Over, Like
<1>7. \A a \in Places(h2) :
         a < g.bottom \/ a - g.base \in StaysOpen(op, n.open) \cup Captures(c.protos, p, op)
  BY <1>1, <1>2, <1>4
<1>8. n = NoteNow(c, s, g) /\ p = ProtoNow(c, s, g) /\ j \in Follow(op, g.pc + 1)
  BY DEF n, p, j
<1>9. x = [is |-> "lua", bottom |-> g.bottom, base |-> g.base, size |-> g.size,
           variable |-> FALSE, pc |-> j - 1, ret |-> <<>>]
  <2>1. j - 1 = g.pc + 1
    BY <1>1 DEF j
  <2> QED  BY <2>1, Zenon DEF AtFixed, LuaOf
<1> QED  BY <1>4, <1>6, <1>7, <1>8, <1>9, Stays

\* A step that leaves a variable number of values.
LEMMA Fills ==
  ASSUME NEW c, NEW f, NEW g, NEW s, NEW o, Runs(c, f, g, s, o), NEW op, op = Operation,
         op.op # "Jump", FromAfter(op) \in Nat, g.pc + 1 + 1 \in Follow(op, g.pc + 1),
         NEW s2, ValuesOK(heap, s2), g.base + FromAfter(op) <= Len(s2),
         \A i \in 1 .. g.base : s2[i] = s[i], NEW x, x = AtVariable(g, g.pc + 1)
  PROVE  Good(c, Top(f, x, s2, o), heap)
<1> DEFINE n == NoteNow(c, s, g)
           p == ProtoNow(c, s, g)
           j == g.pc + 1 + 1
           m == NotesAt(c, heap, s, g)[j]
<1>1. /\ \A a \in Places(heap) : a < g.bottom \/ a - g.base \in n.open
      /\ g.base \in Nat /\ g.base <= Len(s) /\ g.pc \in Nat /\ Len(s) \in Nat
      /\ j \in DOMAIN NotesAt(c, heap, s, g) /\ Leads(c.protos, p, op, n, m)
  BY InstructionFacts
<1> HIDE DEF n, p, j, m
<1>2. m.from = FromAfter(op) /\ n.open \subseteq m.open
  BY <1>1 DEF Leads, StaysOpen
<1>3. /\ HeapOK(c, heap) /\ OpenOK(heap, o) /\ IsSeq(f) /\ AllWait(c, heap, s, f, g.bottom)
      /\ FrameOK(c, heap, s, g)
  BY DEF Runs, RunningOK
<1>4. Len(s2) \in Nat /\ g.base <= Len(s2)
  <2>1. Len(s2) \in Nat
    BY Lengths
  <2>2. g.base <= g.base + FromAfter(op)
    BY <1>1
  <2> QED  BY <1>1, <2>1, <2>2
<1>5. Over(heap, s, heap, s2, g.base)
  BY <1>1, <1>3, <1>4, SameOver
<1>6. x = [is |-> "lua", bottom |-> g.bottom, base |-> g.base, size |-> g.size,
           variable |-> m.from # Fixed, pc |-> j - 1, ret |-> <<>>]
  <2>1. j - 1 = g.pc + 1
    BY <1>1 DEF j
  <2>2. m.from # Fixed
    BY <1>2 DEF Fixed
  <2>3. (m.from # Fixed) = TRUE
    BY <2>2, Zenon
  <2> QED  BY <2>1, <2>3, Zenon DEF AtVariable, LuaOf
<1>7. IF m.from = Fixed THEN Len(s2) = g.base + g.size ELSE g.base + m.from <= Len(s2)
  <2>1. m.from # Fixed
    BY <1>2 DEF Fixed
  <2> QED  BY <1>2, <2>1
<1>8. \A a \in Places(heap) : a < g.bottom \/ a - g.base \in m.open
  BY <1>1, <1>2
<1>9. j \in Nat /\ j - 1 \in Nat
  BY <1>1, SMTT(30) DEF j
<1> QED  BY <1>1, <1>3, <1>5, <1>6, <1>7, <1>8, <1>9, GoesOn DEF m

\* The frame that has gone on, with the mark of a variable number of values.
LEMMA MarkedFrame ==
  ASSUME NEW g, IsLua(g), g.ret = <<>>
  PROVE  /\ WithVariable(By(g, 1), FALSE) = AtFixed(g, g.pc + 1)
         /\ WithVariable(By(g, 1), TRUE) = AtVariable(g, g.pc + 1)
<1> DEFINE bo == g.bottom
           ba == g.base
           si == g.size
           va == g.variable
           pc == g.pc
<1>1. g = LuaOf(bo, ba, si, va, pc, <<>>)
  BY DEF IsLua, LuaOf
<1> HIDE DEF bo, ba, si, va, pc
<1>2. By(g, 1) = LuaOf(bo, ba, si, va, pc + 1, <<>>)
  <2>1. \A k : By(LuaOf(bo, ba, si, va, pc, <<>>), k) = LuaOf(bo, ba, si, va, pc + k, <<>>)
    BY LuaChanged
  <2> QED  BY <1>1, <2>1
<1>3. \A x : WithVariable(LuaOf(bo, ba, si, va, pc + 1, <<>>), x) = LuaOf(bo, ba, si, x, pc + 1, <<>>)
  BY LuaChanged
<1> QED  BY <1>2, <1>3, Zenon DEF AtFixed, AtVariable, bo, ba, si, pc

\* OpCode::SetList.
LEMMA SetListKeeps ==
  ASSUME NEW c, NEW f, NEW g, NEW s, NEW o, NEW op, Step(c, f, g, s, o, op), SetList(op)
  PROVE  Keeps(c)
<1> DEFINE at == op.base
           n == IF op.count = Variable THEN Len(s) - g.base - at - 2 ELSE op.count
           start == Reg(at + 1)[2]
           v == <<"int", start + n>>
           k == g.base + (at + 1) + 1
           s2 == Put(s, k, v)
           done == SetReg(Ahead, at + 1, v)
           rest == WithFrame(done, [Last(done.frames) EXCEPT !.variable = FALSE])
           values == SubSeq(s, g.base + at + 3, g.base + at + 2 + n)
           h2 == RawSetList(heap, Reg(at), start, values)
           t == IF op.count = Variable THEN WithStack(rest, Full(rest)) ELSE done
<1>1. /\ Runs(c, f, g, s, o) /\ op = Operation /\ status = "running" /\ IsSeq(f) /\ IsLua(g)
      /\ HeapOK(c, heap) /\ ValuesOK(heap, s) /\ Good(c, th, heap) /\ Frame = g /\ th.stack = s
      /\ g.base \in Nat /\ g.base <= Len(s) /\ Len(s) \in Nat /\ g.pc \in Nat
      /\ Counts(op) \subseteq Nat
  BY StepFacts
<1>2. op.op = "SetList"
  BY DEF SetList
<1>3. /\ Takes(op) = op.count /\ FromAfter(op) = Fixed /\ g.pc + 1 + 1 \in Follow(op, g.pc + 1)
      /\ at \in Counts(op) /\ (op.count # Variable => op.count \in Counts(op))
      /\ Touches(op) = Span(at, 2 + (IF op.count = Variable THEN 0 ELSE op.count))
  BY <1>2 DEF Takes, FromAfter, Follow, Counts, Touches
<1>4. at \in Nat /\ (op.count # Variable => op.count \in Nat)
  BY <1>1, <1>3
<1>5. /\ at \in Touches(op) /\ at + 1 \in Touches(op)
      /\ op.count # Variable => at + 1 + op.count \in Touches(op)
  <2>1. CASE op.count = Variable
    BY <1>3, <1>4, <2>1 DEF Span
  <2>2. CASE op.count # Variable
    BY <1>3, <1>4, <2>2, SMTT(30) DEF Span
  <2> QED  BY <2>1, <2>2
<1>6. ValueOK(heap, Reg(at)) /\ g.base + (at + 1) + 1 <= Len(s) /\ at + 1 < g.size
      /\ (op.count # Variable => g.base + (at + 1 + op.count) + 1 <= Len(s))
  <2>1. \A r \in Touches(op) : g.base + r + 1 \in 1 .. Len(s) /\ ValueOK(heap, Reg(r)) /\ r < g.size
    BY Touched
  <2> QED  BY <1>5, <2>1
<1>7. (g.variable = TRUE) <=> (op.count = Variable)
  <2> DEFINE m == NoteNow(c, s, g)
  <2>1. g.variable = (m.from # Fixed) /\ (m.from # Fixed <=> Takes(op) = Variable)
    BY <1>1, InstructionFacts
  <2> HIDE DEF m
  <2> QED  BY <1>3, <2>1, Zenon
<1>8. g.variable \in BOOLEAN
  <2> DEFINE m == NoteNow(c, s, g)
  <2>1. g.variable = (m.from # Fixed)
    BY <1>1, InstructionFacts
  <2> HIDE DEF m
  <2> QED  BY <2>1, Zenon
<1>9. \/ Ends("error")
      \/ IsTable(Reg(at)) /\ Goes(t, h2)
  <2>1. (op.count = Variable) = g.variable
    BY <1>7, <1>8, Zenon
  <2>2. Frame = g /\ th.stack = s
    BY <1>1
  <2> HIDE DEF v
  <2>3. IF (op.count = Variable) # g.variable THEN Ends("fault")
        ELSE IF ~IsTable(Reg(at)) \/ Reg(at + 1)[1] # "int" THEN Ends("error")
        ELSE Goes(t, h2)
    BY <2>2, Zenon DEF SetList, v
  <2> QED  BY <2>1, <2>3, Zenon
<1>10. n \in Nat /\ g.base + at + 2 + n <= Len(s)
  <2>1. CASE op.count = Variable
    <3>1. \A L, B, a \in Nat : B + (a + 1) + 1 <= L => L - B - a - 2 \in Nat /\ B + a + 2 + (L - B - a - 2) <= L
      OBVIOUS
    <3>2. n = Len(s) - g.base - at - 2
      BY <2>1
    <3> HIDE DEF n, at
    <3>3. g.base \in Nat /\ at \in Nat /\ Len(s) \in Nat /\ g.base + (at + 1) + 1 <= Len(s)
      BY <1>1, <1>4, <1>6
    <3> QED  BY <3>1, <3>2, <3>3
  <2>2. CASE op.count # Variable
    <3>1. \A L, B, a, m \in Nat : B + (a + 1 + m) + 1 <= L => B + a + 2 + m <= L
      OBVIOUS
    <3>2. n = op.count
      BY <2>2
    <3> HIDE DEF n, at
    <3>3. g.base \in Nat /\ at \in Nat /\ Len(s) \in Nat /\ n \in Nat /\ g.base + (at + 1 + n) + 1 <= Len(s)
      BY <1>1, <1>4, <1>6, <2>2, <3>2
    <3> QED  BY <3>1, <3>3
  <2> QED  BY <2>1, <2>2
<1>11. ValueOK(heap, v)
  BY DEF ValueOK
<1> HIDE DEF n, v
<1>12. done = Top(f, By(g, 1), s2, o)
  BY AheadBy
<1>13. IsChange(heap, s2, s, k, v)
  BY <1>1, <1>11, ChangedValues DEF Put
<1>14. k > g.base
  BY <1>1, <1>4
<1> HIDE DEF done, s2, k
<1>15. ValuesOK(heap, s2) /\ Len(s2) = Len(s) /\ \A i \in 1 .. g.base : s2[i] = s[i]
  <2>1. \A i \in 1 .. g.base : i # k /\ i \in 1 .. Len(s)
    BY <1>1, <1>14
  <2> QED  BY <1>13, <2>1 DEF IsChange
<1>16. IsTable(Reg(at)) => Like(c, heap, h2)
  <2>1. g.base + at + 3 \in Nat \ {0} /\ g.base + at + 2 + n \in Int
        /\ g.base + at + 3 <= (g.base + at + 2 + n) + 1
    <3>1. \A B, a, m \in Nat : /\ B + a + 3 \in Nat \ {0} /\ B + a + 2 + m \in Int
                               /\ B + a + 3 <= (B + a + 2 + m) + 1
      OBVIOUS
    <3> HIDE DEF at
    <3>2. g.base \in Nat /\ at \in Nat /\ n \in Nat
      BY <1>1, <1>4, <1>10
    <3> QED  BY <3>1, <3>2
  <2>2. IsPart(heap, values, s, g.base + at + 3, g.base + at + 2 + n)
    BY <1>1, <1>10, <2>1, PartValues
  <2> HIDE DEF values
  <2>3. ValuesOK(heap, values)
    BY <2>2 DEF IsPart
  <2> QED  BY <1>1, <1>6, <2>3, RawSetListOK
<1> HIDE DEF h2
<1>17. ASSUME IsTable(Reg(at)), Goes(t, h2)  PROVE Keeps(c)
  <2>0. Like(c, heap, h2)
    BY <1>16, <1>17
  <2>1. ValuesOK(h2, s2)
    BY <1>1, <1>15, <2>0, LikeFacts
  <2>2. CASE op.count # Variable
    <3>1. t = Top(f, By(g, 1), s2, o)
      BY <1>12, <2>2
    <3> HIDE DEF t
    <3>2. Plain(op)
      BY <1>2, <1>3, <2>2 DEF Plain
    <3>3. Good(c, Top(f, By(g, 1), s2, o), h2)
      BY <1>1, <1>3, <1>15, <2>0, <2>1, <3>2, Steps
    <3> QED  BY <1>1, <1>17, <3>1, <3>3, GoesKeeps
  <2>3. CASE op.count = Variable
    <3> DEFINE x == AtFixed(g, g.pc + 1)
               s3 == Resize(s2, g.base + g.size)
    <3>1. g.ret = <<>> /\ g.size \in Nat
      BY <1>1, RunFacts, FrameSize DEF Runs, RunningOK
    <3>2. WithVariable(By(g, 1), FALSE) = x
      BY <1>1, <3>1, MarkedFrame
    <3>3. Last(done.frames) = By(g, 1) /\ \A y : WithFrame(done, y) = Top(f, y, s2, o)
      BY <1>1, <1>12, Rewrites
    <3>4. x.base = g.base /\ x.size = g.size
      BY DEF AtFixed, LuaOf
    <3> HIDE DEF x
    <3>5. rest = Top(f, x, s2, o)
      <4>1. rest = WithFrame(done, WithVariable(Last(done.frames), FALSE))
        BY DEF WithVariable
      <4> HIDE DEF rest
      <4> QED  BY <3>2, <3>3, <4>1, Zenon
    <3> HIDE DEF rest
    <3>6. t = Top(f, x, s3, o)
      <4>1. WithStack(Top(f, x, s2, o), Full(Top(f, x, s2, o))) = Top(f, x, Resize(s2, x.base + x.size), o)
        BY <1>1, FullTop
      <4> QED  BY <2>3, <3>4, <3>5, <4>1
    <3>7. IsResize(h2, s3, s2, g.base + g.size)
      BY <1>1, <2>1, <3>1, ResizedValues
    <3> HIDE DEF s3, t
    <3>8. ValuesOK(h2, s3) /\ Len(s3) = g.base + g.size
      BY <3>7 DEF IsResize
    <3>9. \A i \in 1 .. g.base : s3[i] = s[i]
      <4>1. \A i \in 1 .. g.base : i \in 1 .. g.base + g.size /\ i <= Len(s2)
        BY <1>1, <1>15, <3>1
      <4>2. \A i \in 1 .. g.base + g.size : i <= Len(s2) => s3[i] = s2[i]
        BY <3>7 DEF IsResize
      <4> QED  BY <1>15, <4>1, <4>2
    <3>10. Good(c, Top(f, x, s3, o), h2)
      BY <1>1, <1>2, <1>3, <2>0, <3>8, <3>9, Settles DEF x
    <3> QED  BY <1>1, <1>17, <3>6, <3>10, GoesKeeps
  <2> QED  BY <2>2, <2>3
<1> QED  BY <1>1, <1>9, <1>17, EndsKeeps

\* Some of a sequence of values are others.
AreSome(r, s, z, at) ==
  r = [i \in DOMAIN s |-> IF i \in at + 1 .. at + Len(z) THEN z[i - at] ELSE s[i]]

\* A stack with some registers set to values.
LEMMA SomeChanged ==
  ASSUME NEW h, NEW s, ValuesOK(h, s), NEW z, ValuesOK(h, z), NEW at \in Nat, NEW r, AreSome(r, s, z, at)
  PROVE  ValuesOK(h, r) /\ Len(r) = Len(s) /\ \A i \in 1 .. Len(s) : i <= at => r[i] = s[i]
<1>1. /\ Len(s) \in Nat /\ DOMAIN s = 1 .. Len(s) /\ Len(z) \in Nat
      /\ \A i \in 1 .. Len(s) : ValueOK(h, s[i])
      /\ \A i \in 1 .. Len(z) : ValueOK(h, z[i])
  BY Lengths, SeqFacts
<1>2. r = [i \in 1 .. Len(s) |-> IF i \in at + 1 .. at + Len(z) THEN z[i - at] ELSE s[i]]
  BY <1>1 DEF AreSome
<1>3. IsSeq(r) /\ Len(r) = Len(s)
  <2>1. r \in [1 .. Len(s) -> Range(r)]
    BY <1>2 DEF Range
  <2> QED  BY <2>1, <1>1, OfFunction
<1>4. \A i \in 1 .. Len(s) : r[i] = IF i \in at + 1 .. at + Len(z) THEN z[i - at] ELSE s[i]
  BY <1>2
<1>5. \A i \in at + 1 .. at + Len(z) : i - at \in 1 .. Len(z)
  BY <1>1
<1>6. \A i \in 1 .. Len(s) : ValueOK(h, r[i])
  BY <1>1, <1>4, <1>5
<1>7. \A i \in 1 .. Len(s) : i <= at => r[i] = s[i]
  <2>1. \A i \in 1 .. Len(s) : i <= at => i \notin at + 1 .. at + Len(z)
    BY <1>1
  <2> QED  BY <1>4, <2>1
<1> QED  BY <1>3, <1>6, <1>7 DEF ValuesOK

\* OpCode::VarArgs.
LEMMA VarArgsKeeps ==
  ASSUME NEW c, NEW f, NEW g, NEW s, NEW o, NEW op, Step(c, f, g, s, o, op), VarArgs(op)
  PROVE  Keeps(c)
<1> DEFINE given == SubSeq(s, g.bottom + 2, g.base)
           at == g.base + op.dest
           n == op.count
           z == Resize(given, n)
           some == [i \in DOMAIN s |-> IF i \in at + 1 .. at + n THEN z[i - at] ELSE s[i]]
           all == Resize(s, at) \o given
           marked == WithFrame(WithStack(Ahead, all), [Last(Ahead.frames) EXCEPT !.variable = TRUE])
<1>1. /\ Runs(c, f, g, s, o) /\ op = Operation /\ status = "running" /\ IsSeq(f) /\ IsLua(g)
      /\ HeapOK(c, heap) /\ ValuesOK(heap, s) /\ Good(c, th, heap) /\ Frame = g /\ th.stack = s
      /\ g.base \in Nat /\ g.base <= Len(s) /\ Len(s) \in Nat /\ g.pc \in Nat
      /\ g.bottom \in Nat /\ g.bottom < g.base /\ Counts(op) \subseteq Nat
  BY StepFacts
<1>2. op.op = "VarArgs"
  BY DEF VarArgs
<1>3. /\ Takes(op) # Variable /\ g.pc + 1 + 1 \in Follow(op, g.pc + 1)
      /\ FromAfter(op) = IF n = Variable THEN op.dest ELSE Fixed
      /\ (n # Variable => n \in Counts(op))
  BY <1>2 DEF Takes, Variable, FromAfter, Follow, Counts
<1>4. op.dest \in Nat
  <2>1. ProtoNow(c, s, g).size \in Nat /\ op.dest \in 0 .. ProtoNow(c, s, g).size
    BY <1>1, <1>2, InstructionFacts
  <2> QED  BY <2>1
<1>5. g.variable = FALSE
  BY <1>1, <1>3, NothingVariable
<1>6. /\ n # Variable => Goes(WithStack(Ahead, some), heap)
      /\ n = Variable => Goes(marked, heap)
  <2>1. IF g.variable THEN Ends("fault")
        ELSE IF n # Variable THEN Goes(WithStack(Ahead, some), heap) ELSE Goes(marked, heap)
    <3>1. Frame = g /\ th.stack = s
      BY <1>1
    <3> QED  BY <3>1, Zenon DEF VarArgs
  <2> QED  BY <1>5, <2>1, Zenon
<1>7. ValuesOK(heap, given)
  <2>1. g.bottom + 2 \in Nat \ {0} /\ g.base \in Int /\ g.bottom + 2 <= g.base + 1
    BY <1>1
  <2>2. IsPart(heap, given, s, g.bottom + 2, g.base)
    BY <1>1, <2>1, PartValues
  <2> HIDE DEF given
  <2> QED  BY <2>2 DEF IsPart
<1> HIDE DEF given
<1>8. at \in Nat /\ g.base <= at
  BY <1>1, <1>4
<1>9. \A y : WithStack(Ahead, y) = Top(f, By(g, 1), y, o)
  BY AheadBy
<1>10. CASE n # Variable
  <2>1. n \in Nat
    BY <1>1, <1>3, <1>10
  <2>2. IsResize(heap, z, given, n)
    BY <1>7, <2>1, ResizedValues
  <2> HIDE DEF z
  <2>3. ValuesOK(heap, z) /\ Len(z) = n
    BY <2>2 DEF IsResize
  <2> HIDE DEF at
  <2>4. AreSome(some, s, z, at)
    BY <2>3 DEF AreSome
  <2> HIDE DEF some
  <2>5. ValuesOK(heap, some) /\ Len(some) = Len(s) /\ \A i \in 1 .. Len(s) : i <= at => some[i] = s[i]
    BY <1>1, <1>8, <2>3, <2>4, SomeChanged
  <2>6. \A i \in 1 .. g.base : some[i] = s[i]
    <3>1. \A i \in 1 .. g.base : i \in 1 .. Len(s) /\ i <= at
      BY <1>1, <1>8
    <3> QED  BY <2>5, <3>1
  <2>7. Plain(op)
    BY <1>2, <1>3, <1>10 DEF Plain
  <2>8. Good(c, Top(f, By(g, 1), some, o), heap)
    BY <1>1, <1>3, <2>5, <2>6, <2>7, Steps, LikeItself
  <2> QED  BY <1>1, <1>6, <1>9, <1>10, <2>8, GoesKeeps
<1>11. CASE n = Variable
  <2> DEFINE x == AtVariable(g, g.pc + 1)
             w == Resize(s, at)
  <2>1. g.ret = <<>>
    BY <1>1 DEF Runs, RunningOK
  <2>2. WithVariable(By(g, 1), TRUE) = x
    BY <1>1, <2>1, MarkedFrame
  <2> HIDE DEF x
  <2>3. marked = Top(f, x, all, o)
    <3>1. Last(Ahead.frames) = By(g, 1) /\ \A y, y2 : WithFrame(Top(f, By(g, 1), y, o), y2) = Top(f, y2, y, o)
      <4>1. Ahead = Top(f, By(g, 1), s, o)
        BY AheadBy
      <4> QED  BY <1>1, <4>1, Rewrites
    <3>2. marked = WithFrame(WithStack(Ahead, all), WithVariable(Last(Ahead.frames), TRUE))
      BY DEF WithVariable
    <3> HIDE DEF marked, all
    <3> QED  BY <1>9, <2>2, <3>1, <3>2, Zenon
  <2>4. IsResize(heap, w, s, at)
    BY <1>1, <1>8, ResizedValues
  <2> HIDE DEF w, at
  <2>5. ValuesOK(heap, w) /\ Len(w) = at /\ \A i \in 1 .. at : i <= Len(s) => w[i] = s[i]
    BY <2>4 DEF IsResize
  <2>6. IsJoin(heap, all, w, given)
    BY <1>7, <2>5, JoinedValues DEF w
  <2> HIDE DEF all
  <2>7. ValuesOK(heap, all) /\ Len(all) = at + Len(given) /\ Len(given) \in Nat /\ \A i \in 1 .. at : all[i] = w[i]
    BY <1>7, <2>5, <2>6, Lengths DEF IsJoin
  <2>8. \A i \in 1 .. g.base : all[i] = s[i]
    <3>1. \A i \in 1 .. g.base : i \in 1 .. at /\ i <= Len(s)
      BY <1>1, <1>8
    <3> QED  BY <2>5, <2>7, <3>1
  <2>9. FromAfter(op) = op.dest /\ g.base + op.dest <= Len(all)
    <3>1. at = g.base + op.dest
      BY DEF at
    <3>2. at <= Len(all)
      BY <1>8, <2>7
    <3> QED  BY <1>3, <1>11, <3>1, <3>2
  <2>10. op.op # "Jump" /\ FromAfter(op) \in Nat /\ g.base + FromAfter(op) <= Len(all)
    BY <1>2, <1>4, <2>9
  <2>11. Good(c, Top(f, x, all, o), heap)
    BY <1>1, <1>3, <2>7, <2>8, <2>10, Fills DEF x
  <2> QED  BY <1>1, <1>6, <1>11, <2>3, <2>11, GoesKeeps
<1> QED  BY <1>10, <1>11

\* The frame that calls, at place b, and waits for values.
Calling(returns) == WithFrame(Ahead, [Last(Ahead.frames) EXCEPT !.ret = <<"normal", returns>>])

\* A frame that calls at b waits there, as all below it do.
LEMMA CallingSuspended ==
  ASSUME NEW c, NEW f, NEW g, NEW s, NEW o, NEW op, Step(c, f, g, s, o, op), op.op # "Jump",
         g.pc + 1 + 1 \in Follow(op, g.pc + 1), NEW returns, returns = Variable \/ returns \in Nat,
         NEW b \in Nat, g.base <= b, b <= Len(s), \A a \in Places(heap) : a < b,
         FromAfter(op) = IF returns = Variable THEN b - g.base ELSE Fixed
  PROVE  Suspended(c, Calling(returns), heap, b) /\ Calling(returns).stack = s
<1> DEFINE ret == <<"normal", returns>>
           x == Waiting(g, ret)
           t == Calling(returns)
<1>1. /\ Runs(c, f, g, s, o) /\ op = Operation /\ IsSeq(f) /\ IsLua(g)
      /\ Ahead = Top(f, By(g, 1), s, o)
  BY StepFacts
<1>2. ret[2] = returns
  OBVIOUS
<1>3. ret = <<"normal", ret[2]>>
  BY <1>2
<1>4. t = WithFrame(Ahead, WithRet(Last(Ahead.frames), ret))
  BY DEF Calling, WithRet
<1> HIDE DEF ret, t
<1>5. WithRet(By(g, 1), ret) = x /\ SameFunction(x, g) /\ x.pc = g.pc + 1 /\ x.ret = ret
  BY <1>1, WaitingShape
<1> HIDE DEF x
<1>6. t = Top(f, x, s, o)
  <2>1. Last(Ahead.frames) = By(g, 1) /\ \A y : WithFrame(Ahead, y) = Top(f, y, s, o)
    BY <1>1, Rewrites
  <2> QED  BY <1>4, <1>5, <2>1
<1>7. Resumes(c, heap, s, x, b, g.pc + 1 + 1, FromAfter(op))
  BY <1>1, ResumesAfter DEF x
<1>8. WaitsForCall(c, heap, s, x, b)
  <2>1. Resumes(c, heap, s, x, b, x.pc + 1, IF ret[2] = Variable THEN b - x.base ELSE Fixed)
    BY <1>2, <1>5, <1>7 DEF SameFunction
  <2> QED  BY <1>2, <1>3, <1>5, <2>1 DEF WaitsForCall
<1>9. Suspended(c, Top(f, x, s, o), heap, b)
  BY <1>1, <1>8, WaitsSuspended DEF x
<1>10. t.stack = s
  BY <1>1, <1>6, FullTop
<1> QED  BY <1>6, <1>9, <1>10 DEF t

\* What a call finds: the function and its arguments.
CallPlace(g, op) == g.base + op.func
CallCount(g, s, op) == IF op.args = Variable THEN Len(s) - CallPlace(g, op) - 1 ELSE op.args
CallArgs(g, s, op) ==
  SubSeq(s, CallPlace(g, op) + 2, CallPlace(g, op) + 1 + CallCount(g, s, op))

\* The function is on the stack, and so are its arguments; a variable number of them only if
\* the frame holds one.
LEMMA CallFacts ==
  ASSUME NEW c, NEW f, NEW g, NEW s, NEW o, NEW op, Step(c, f, g, s, o, op), op.op \in {"Call", "TailCall"}
  PROVE  /\ CallPlace(g, op) \in Nat /\ g.base <= CallPlace(g, op) /\ CallCount(g, s, op) \in Nat
         /\ CallPlace(g, op) + 1 + CallCount(g, s, op) <= Len(s)
         /\ ValueOK(heap, s[CallPlace(g, op) + 1])
         /\ IsPart(heap, CallArgs(g, s, op), s, CallPlace(g, op) + 2, CallPlace(g, op) + 1 + CallCount(g, s, op))
         /\ (op.args = Variable) = g.variable
<1> DEFINE at == CallPlace(g, op)
           n == CallCount(g, s, op)
<1>1. /\ Runs(c, f, g, s, o) /\ op = Operation /\ ValuesOK(heap, s)
      /\ g.base \in Nat /\ g.base <= Len(s) /\ Len(s) \in Nat /\ Counts(op) \subseteq Nat
  BY StepFacts
<1>2. /\ Takes(op) = op.args /\ op.func \in Counts(op) /\ (op.args # Variable => op.args \in Counts(op))
      /\ Touches(op) = Span(op.func, 1 + (IF op.args = Variable THEN 0 ELSE op.args))
  BY DEF Takes, Counts, Touches
<1>3. op.func \in Nat /\ (op.args # Variable => op.args \in Nat)
  BY <1>1, <1>2
<1>4. op.func \in Touches(op) /\ (op.args # Variable => op.func + op.args \in Touches(op))
  <2>1. CASE op.args = Variable
    BY <1>2, <1>3, <2>1 DEF Span
  <2>2. CASE op.args # Variable
    BY <1>2, <1>3, <2>2 DEF Span
  <2> QED  BY <2>1, <2>2
<1>5. \A r \in Touches(op) : g.base + r + 1 \in 1 .. Len(s) /\ ValueOK(heap, Reg(r)) /\ Reg(r) = s[g.base + r + 1]
  BY Touched, StepFacts
<1>6. /\ g.base + op.func + 1 <= Len(s) /\ ValueOK(heap, s[g.base + op.func + 1])
      /\ op.args # Variable => g.base + (op.func + op.args) + 1 <= Len(s)
  BY <1>4, <1>5
<1>7. at \in Nat /\ g.base <= at
  BY <1>1, <1>3 DEF CallPlace
<1>8. n \in Nat /\ at + 1 + n <= Len(s)
  <2>1. CASE op.args = Variable
    <3>1. \A L, A \in Nat : A + 1 <= L => L - A - 1 \in Nat /\ A + 1 + (L - A - 1) <= L
      OBVIOUS
    <3>2. n = Len(s) - at - 1 /\ at + 1 <= Len(s)
      BY <1>6, <2>1 DEF CallCount, CallPlace
    <3> HIDE DEF n, at
    <3> QED  BY <1>1, <1>7, <3>1, <3>2
  <2>2. CASE op.args # Variable
    <3>1. \A L, B, a, m \in Nat : B + (a + m) + 1 <= L => B + a + 1 + m <= L
      OBVIOUS
    <3>2. n = op.args /\ at = g.base + op.func
      BY <2>2 DEF CallCount, CallPlace
    <3> HIDE DEF n, at
    <3> QED  BY <1>1, <1>3, <1>6, <2>2, <3>1, <3>2
  <2> QED  BY <2>1, <2>2
<1>9. IsPart(heap, CallArgs(g, s, op), s, at + 2, at + 1 + n)
  <2> HIDE DEF at, n
  <2>1. at + 2 \in Nat \ {0} /\ at + 1 + n \in Int /\ at + 2 <= (at + 1 + n) + 1
    BY <1>7, <1>8
  <2>2. IsPart(heap, SubSeq(s, at + 2, at + 1 + n), s, at + 2, at + 1 + n)
    BY <1>1, <1>8, <2>1, PartValues
  <2> QED  BY <2>2 DEF CallArgs, at, n
<1>10. (op.args = Variable) = g.variable
  <2> DEFINE m == NoteNow(c, s, g)
  <2>1. g.variable = (m.from # Fixed) /\ (m.from # Fixed <=> Takes(op) = Variable)
    BY <1>1, InstructionFacts
  <2> HIDE DEF m
  <2> QED  BY <1>2, <2>1, Zenon
<1>11. ValueOK(heap, s[at + 1])
  BY <1>6 DEF CallPlace
<1> QED  BY <1>7, <1>8, <1>9, <1>10, <1>11, Zenon

\* A function that takes any arguments takes these.
LEMMA CallableArgs ==
  ASSUME NEW h, NEW f, CallableOK(h, f), NEW args, ValuesOK(h, args)
  PROVE  CallOK(h, f, args)
BY DEF CallableOK, CallOK

\* OpCode::Call.
LEMMA CallKeeps ==
  ASSUME NEW c, NEW f, NEW g, NEW s, NEW o, NEW op, Step(c, f, g, s, o, op), CallInstruction(op)
  PROVE  Keeps(c)
<1> DEFINE at == CallPlace(g, op)
           n == CallCount(g, s, op)
           fn == CallableFor(heap, s[at + 1])
           w == Calling(op.returns)
           args == CallArgs(g, s, op)
           t2 == WithStack(w, SubSeq(s, 1, at) \o args)
           t == IF fn[1] = "fn" THEN Enter(w, heap, at, n, fn) ELSE PushCall(t2, heap, at, fn)
<1>1. /\ Runs(c, f, g, s, o) /\ op = Operation /\ status = "running" /\ IsSeq(f) /\ IsLua(g)
      /\ HeapOK(c, heap) /\ ValuesOK(heap, s) /\ Good(c, th, heap) /\ Frame = g /\ th.stack = s
      /\ g.base \in Nat /\ g.base <= Len(s) /\ Len(s) \in Nat /\ Counts(op) \subseteq Nat
  BY StepFacts
<1>2. op.op = "Call"
  BY DEF CallInstruction
<1>3. /\ at \in Nat /\ g.base <= at /\ n \in Nat /\ at + 1 + n <= Len(s) /\ ValueOK(heap, s[at + 1])
      /\ IsPart(heap, args, s, at + 2, at + 1 + n) /\ (op.args = Variable) = g.variable
  BY <1>2, CallFacts
<1>4. Ends("error") \/ (fn # NilValue /\ Goes(t, heap))
  <2>1. th.stack = s /\ Frame = g
    BY <1>1
  <2>2. IF (op.args = Variable) # g.variable THEN Ends("fault")
        ELSE IF fn = NilValue THEN Ends("error") ELSE Goes(t, heap)
    BY <2>1, Zenon DEF CallInstruction, CallPlace, CallCount, CallArgs, Calling
  <2> QED  BY <1>3, <2>2, Zenon
<1>5. /\ op.returns = Variable \/ op.returns \in Counts(op)
      /\ FromAfter(op) = IF op.returns = Variable THEN op.func ELSE Fixed
      /\ g.pc + 1 + 1 \in Follow(op, g.pc + 1) /\ Moves(op) = {op.func} /\ op.func \in Counts(op)
  BY <1>2 DEF Counts, FromAfter, Follow, Moves
<1> HIDE DEF args, n
<1>6. ASSUME fn # NilValue, Goes(t, heap)  PROVE Keeps(c)
  <2>1. CallableOK(heap, fn)
    BY <1>1, <1>3, <1>6, CallableForOK
  <2> HIDE DEF fn, w, at
  <2>2. \A a \in Places(heap) : a < at
    <3> DEFINE m == NoteNow(c, s, g)
    <3>1. /\ \A a \in Places(heap) : a < g.bottom \/ a - g.base \in m.open
          /\ \A r \in m.open, x \in Moves(op) : r < x
          /\ g.bottom \in Nat /\ g.bottom < g.base
          /\ m.open \subseteq 0 .. Room(ProtoNow(c, s, g), m) - 1
      BY <1>1, InstructionFacts
    <3>2. \A a \in Places(heap) : a \in Nat
      BY <1>1, PlacesIn
    <3>3. op.func \in Nat /\ at = g.base + op.func
      BY <1>1, <1>5 DEF at, CallPlace
    <3> HIDE DEF m
    <3>4. ASSUME NEW a \in Places(heap)  PROVE a < at
      <4>1. CASE a < g.bottom
        BY <1>1, <1>3, <3>1, <3>2, <4>1, SMTT(30)
      <4>2. CASE a - g.base \in m.open
        <5>1. a - g.base < op.func
          BY <1>5, <3>1, <4>2
        <5> QED  BY <1>1, <3>2, <3>3, <5>1
      <4> QED  BY <3>1, <4>1, <4>2
    <3> QED  BY <3>4
  <2>3. FromAfter(op) = IF op.returns = Variable THEN at - g.base ELSE Fixed
    <3>1. op.func \in Nat /\ at = g.base + op.func
      BY <1>1, <1>5 DEF at, CallPlace
    <3> QED  BY <1>1, <1>5, <3>1
  <2>4. at <= Len(s) /\ op.op # "Jump" /\ (op.returns = Variable \/ op.returns \in Nat)
    BY <1>1, <1>2, <1>3, <1>5
  <2>5. Suspended(c, w, heap, at) /\ w.stack = s
    BY <1>3, <1>5, <2>2, <2>3, <2>4, CallingSuspended DEF w
  <2>6. Sound(c) /\ code = c.protos
    BY <1>1 DEF Runs
  <2>7. CASE fn[1] = "fn"
    <3>1. t = Enter(w, heap, at, n, fn)
      BY <2>7
    <3>2. ValueOK(heap, fn)
      BY <2>1, <2>7 DEF CallableOK
    <3>3. Good(c, Enter(w, heap, at, n, fn), heap)
      BY <1>3, <2>5, <2>6, <2>7, <3>2, EnterGood
    <3> HIDE DEF t
    <3> QED  BY <1>1, <1>6, <3>1, <3>3, GoesKeeps
  <2>8. CASE fn[1] # "fn"
    <3>1. t = PushCall(t2, heap, at, fn)
      BY <2>8
    <3>2. ValuesOK(heap, args)
      BY <1>3 DEF IsPart
    <3>3. CallOK(heap, fn, args)
      BY <2>1, <3>2, CallableArgs
    <3>4. t2 = WithStack(w, SubSeq(w.stack, 1, at) \o args)
      BY <2>5
    <3> HIDE DEF t2
    <3>5. Good(c, PushCall(t2, heap, at, fn), heap)
      BY <2>5, <2>6, <3>3, <3>4, CallsGood
    <3> HIDE DEF t
    <3> QED  BY <1>1, <1>6, <3>1, <3>5, GoesKeeps
  <2> QED  BY <2>7, <2>8
<1> QED  BY <1>1, <1>4, <1>6, EndsKeeps

\* OpCode::GenericForCall.
LEMMA GenericForCallKeeps ==
  ASSUME NEW c, NEW f, NEW g, NEW s, NEW o, NEW op, Step(c, f, g, s, o, op), GenericForCall(op)
  PROVE  Keeps(c)
<1> DEFINE at == g.base + op.base
           top == at + 3
           fn == CallableFor(heap, s[at + 1])
           w == Calling(op.var_count)
           args == SubSeq(s, at + 2, at + 3)
           t == PushCall(WithStack(w, SubSeq(s, 1, top) \o args), heap, top, fn)
<1>1. /\ Runs(c, f, g, s, o) /\ op = Operation /\ status = "running" /\ IsSeq(f) /\ IsLua(g)
      /\ HeapOK(c, heap) /\ ValuesOK(heap, s) /\ Good(c, th, heap) /\ Frame = g /\ th.stack = s
      /\ g.base \in Nat /\ g.base <= Len(s) /\ Len(s) \in Nat /\ Counts(op) \subseteq Nat
  BY StepFacts
<1>2. op.op = "GenericForCall"
  BY DEF GenericForCall
<1>3. /\ Takes(op) # Variable /\ Counts(op) = {op.base, op.var_count} /\ Touches(op) = Span(op.base, 3)
      /\ FromAfter(op) = Fixed /\ Moves(op) = {op.base + 3} /\ g.pc + 1 + 1 \in Follow(op, g.pc + 1)
  BY <1>2 DEF Takes, Counts, Touches, FromAfter, Moves, Follow, Variable
<1>4. op.base \in Nat /\ op.var_count \in Nat /\ op.var_count # Variable
  BY <1>1, <1>3 DEF Variable
<1>5. op.base \in Touches(op) /\ op.base + 2 \in Touches(op)
  BY <1>3, <1>4 DEF Span
<1>6. /\ g.base + op.base + 1 \in 1 .. Len(s) /\ g.base + (op.base + 2) + 1 \in 1 .. Len(s)
      /\ ValueOK(heap, s[g.base + op.base + 1])
  <2>1. \A r \in Touches(op) : g.base + r + 1 \in 1 .. Len(s) /\ ValueOK(heap, Reg(r)) /\ Reg(r) = s[g.base + r + 1]
    BY Touched, StepFacts
  <2> QED  BY <1>5, <2>1
<1>7. at \in Nat /\ g.base <= top /\ top \in Nat /\ top <= Len(s) /\ ValueOK(heap, s[at + 1])
  <2> DEFINE n == Len(s)
             m == g.base
             r == op.base
  <2>1. m \in Nat /\ n \in Nat /\ r \in Nat /\ m + (r + 2) + 1 \in 1 .. n
    BY <1>1, <1>4, <1>6
  <2> HIDE DEF n, m, r
  <2>2. m + r \in Nat /\ m <= m + r + 3 /\ m + r + 3 \in Nat /\ m + r + 3 <= n
    BY <2>1
  <2> QED  BY <1>6, <2>2 DEF n, m, r
<1>8. g.variable = FALSE
  <2>1. Runs(c, f, g, s, o) /\ op = Operation /\ Takes(op) # Variable
    BY <1>1, <1>3
  <2> QED  BY <2>1, NothingVariable, Zenon
<1>9. Ends("error") \/ (fn # NilValue /\ Goes(t, heap))
  <2>1. th.stack = s /\ Frame = g
    BY <1>1
  <2>2. IF g.variable THEN Ends("fault")
        ELSE IF fn = NilValue THEN Ends("error") ELSE Goes(t, heap)
    BY <2>1, Zenon DEF GenericForCall, Calling
  <2> QED  BY <1>8, <2>2, Zenon
<1>10. ValuesOK(heap, args)
  <2>1. at + 2 \in Nat \ {0} /\ at + 3 \in Int /\ at + 3 <= Len(s) /\ at + 2 <= (at + 3) + 1
    BY <1>7
  <2> HIDE DEF at
  <2>2. IsPart(heap, args, s, at + 2, at + 3)
    BY <1>1, <2>1, PartValues
  <2> QED  BY <2>2 DEF IsPart
<1> HIDE DEF args
<1>11. ASSUME fn # NilValue, Goes(t, heap)  PROVE Keeps(c)
  <2>1. CallableOK(heap, fn)
    BY <1>1, <1>7, <1>11, CallableForOK
  <2> HIDE DEF fn, w
  <2>2. \A a \in Places(heap) : a < top
    <3> DEFINE m == NoteNow(c, s, g)
    <3>1. /\ \A a \in Places(heap) : a < g.bottom \/ a - g.base \in m.open
          /\ \A r \in m.open, x \in Moves(op) : r < x
          /\ g.bottom \in Nat /\ g.bottom < g.base
          /\ m.open \subseteq 0 .. Room(ProtoNow(c, s, g), m) - 1
      BY <1>1, InstructionFacts
    <3>2. \A a \in Places(heap) : a \in Nat
      BY <1>1, PlacesIn
    <3> HIDE DEF m
    <3>4. ASSUME NEW a \in Places(heap)  PROVE a < top
      <4>1. CASE a < g.bottom
        BY <1>1, <1>7, <3>1, <3>2, <4>1
      <4>2. CASE a - g.base \in m.open
        <5>1. a - g.base < op.base + 3
          BY <1>3, <3>1, <4>2
        <5> QED  BY <1>1, <1>4, <3>2, <5>1, SMTT(30)
      <4> QED  BY <3>1, <4>1, <4>2
    <3> QED  BY <3>4
  <2> HIDE DEF top
  <2>3. FromAfter(op) = IF op.var_count = Variable THEN top - g.base ELSE Fixed
    BY <1>3, <1>4
  <2>4. op.op # "Jump" /\ (op.var_count = Variable \/ op.var_count \in Nat)
    BY <1>2, <1>4
  <2>5. Suspended(c, w, heap, top) /\ w.stack = s
    BY <1>3, <1>7, <2>2, <2>3, <2>4, CallingSuspended DEF w
  <2>6. Sound(c) /\ code = c.protos
    BY <1>1 DEF Runs
  <2>7. CallOK(heap, fn, args)
    BY <2>1, <1>10, CallableArgs
  <2> DEFINE t2 == WithStack(w, SubSeq(s, 1, top) \o args)
  <2>8. t2 = WithStack(w, SubSeq(w.stack, 1, top) \o args)
    BY <2>5
  <2> HIDE DEF t2
  <2>9. Good(c, PushCall(t2, heap, top, fn), heap)
    BY <2>5, <2>6, <2>7, <2>8, CallsGood
  <2>10. t = PushCall(t2, heap, top, fn)
    BY DEF t2
  <2> HIDE DEF t
  <2> QED  BY <1>1, <1>11, <2>9, <2>10, GoesKeeps
<1> QED  BY <1>1, <1>9, <1>11, EndsKeeps

\* The thread without its top frame.
Without(t) == [t EXCEPT !.frames = Front(@)]

\* A frame closes its upvalues and goes: the rest waits.
LEMMA LeavingSuspended ==
  ASSUME NEW c, NEW f, NEW g, NEW s, NEW o, NEW op, Step(c, f, g, s, o, op),
         NEW r, r = Closed(th, heap, g.bottom)
  PROVE  Suspended(c, Without(r.t), r.h, g.bottom) /\ Without(r.t).stack = s /\ Later(heap, r.h)
<1> DEFINE O == r.t.open
           h2 == r.h
<1>1. /\ Runs(c, f, g, s, o) /\ IsSeq(f) /\ HeapOK(c, heap) /\ ValuesOK(heap, s) /\ th = Top(f, g, s, o)
      /\ g.bottom \in Nat /\ g.base \in Nat /\ g.bottom < g.base /\ g.base <= Len(s) /\ Len(s) \in Nat
  BY StepFacts
<1>2. OpenOK(heap, o) /\ AllWait(c, heap, s, f, g.bottom)
  BY <1>1 DEF Runs
<1>3. th = Thread(th.frames, th.stack, th.open) /\ th.frames = Append(f, g) /\ th.stack = s /\ th.open = o
  <2> DEFINE F == Append(f, g)
  <2>1. th = Thread(F, s, o)
    BY <1>1 DEF Top
  <2> HIDE DEF F
  <2>2. th.frames = F /\ th.stack = s /\ th.open = o
    BY <2>1, ThreadFields
  <2> QED  BY <2>1, <2>2 DEF F
<1>4. \A a \in Places(heap) : a \in Nat /\ a < Len(s)
  BY <1>1, PlacesIn
<1>5. IsClosed(c, th, heap, g.bottom, r)
  <2>1. g.bottom \in Int
    BY <1>1
  <2> QED  BY <2>1, <1>1, <1>2, <1>3, <1>4, ClosedOK
<1>6. /\ r.t = Thread(Append(f, g), s, O) /\ HeapOK(c, h2) /\ OpenOK(h2, O) /\ Later(heap, h2)
      /\ \A a \in Places(h2) : a \in Places(heap) /\ a < g.bottom /\ a \in Nat
  BY <1>3, <1>5 DEF IsClosed
<1>7. Without(r.t) = Thread(f, s, O)
  <2> DEFINE F == Append(f, g)
             u == r.t
  <2>1. Front(F) = f
    BY <1>1, AtTop
  <2>2. u = Thread(F, s, O) /\ Without(u) = WithFrames(u, Front(u.frames))
    BY <1>6 DEF Without, WithFrames
  <2> HIDE DEF F, u, O
  <2>3. u.frames = F /\ u.stack = s /\ u.open = O
    BY <2>2, ThreadFields
  <2>4. WithFrames(u, Front(u.frames)) = Thread(Front(u.frames), u.stack, u.open)
    BY <2>2, <2>3, Rebuilt
  <2>5. Without(u) = Thread(f, s, O)
    BY <2>1, <2>2, <2>3, <2>4
  <2> QED  BY <2>5 DEF u
<1>8. ValuesOK(h2, s)
  BY <1>1, <1>6, LaterValues
<1> HIDE DEF O, h2
<1>9. Over(heap, s, h2, s, g.bottom)
  <2>1. g.bottom <= Len(s)
    BY <1>1
  <2> QED  BY <2>1, <1>1, <1>6, LaterOver
<1>10. AllWait(c, h2, s, f, g.bottom)
  BY <1>1, <1>2, <1>9, AllKeep
<1>11. Suspended(c, Thread(f, s, O), h2, g.bottom)
  <2>1. Thread(f, s, O).frames = f /\ Thread(f, s, O).stack = s /\ Thread(f, s, O).open = O
    BY ThreadFields
  <2> DEFINE x == Thread(f, s, O)
  <2> HIDE DEF x
  <2>2. x = Thread(x.frames, x.stack, x.open) /\ x.frames = f /\ x.stack = s /\ x.open = O
    BY <2>1 DEF x
  <2>3. g.bottom \in 0 .. Len(s)
    BY <1>1
  <2>4. Suspended(c, x, h2, g.bottom)
    BY <2>2, <2>3, <1>1, <1>6, <1>8, <1>10 DEF Suspended, MemoryOK
  <2> QED  BY <2>4 DEF x
<1>12. Without(r.t).stack = s
  BY <1>7, ThreadFields
<1> QED  BY <1>6, <1>7, <1>11, <1>12 DEF h2

\* OpCode::Return.
LEMMA ReturnKeeps ==
  ASSUME NEW c, NEW f, NEW g, NEW s, NEW o, NEW op, Step(c, f, g, s, o, op), ReturnInstruction(op)
  PROVE  Keeps(c)
<1> DEFINE at == g.base + op.start
           n == IF op.count = Variable THEN Len(s) - at ELSE op.count
           r == Closed(th, heap, g.bottom)
           values == SubSeq(s, at + 1, at + n)
           t == ReturnTo(Without(r.t), g.bottom, values)
           m == NoteNow(c, s, g)
           p == ProtoNow(c, s, g)
<1>1. /\ Runs(c, f, g, s, o) /\ op = Operation /\ status = "running"
      /\ ValuesOK(heap, s) /\ Frame = g /\ th.stack = s
      /\ g.base \in Nat /\ g.base <= Len(s) /\ Len(s) \in Nat /\ Counts(op) \subseteq Nat
  BY StepFacts
<1>2. op.op = "Return"
  BY DEF ReturnInstruction
<1>3. /\ Takes(op) = op.count /\ (op.count # Variable => op.count \in Counts(op))
      /\ Touches(op) = IF op.count = Variable THEN {} ELSE Span(op.start, op.count)
  BY <1>2 DEF Takes, Counts, Touches
<1>4. /\ op.start \in 0 .. Room(p, m) /\ Room(p, m) \in Nat /\ g.base + Room(p, m) <= Len(s)
      /\ Touches(op) \subseteq 0 .. Room(p, m) - 1
  BY <1>1, <1>2, InstructionFacts
<1>5. (op.count = Variable) = g.variable
  <2>1. g.variable = (m.from # Fixed) /\ (m.from # Fixed <=> Takes(op) = Variable)
    BY <1>1, InstructionFacts
  <2> HIDE DEF m
  <2> QED  BY <1>3, <2>1, Zenon
<1>6. Goes(t, r.h)
  <2>1. th.stack = s /\ Frame = g
    BY <1>1
  <2>2. IF (op.count = Variable) # g.variable THEN Ends("fault") ELSE Goes(t, r.h)
    BY <2>1, Zenon DEF ReturnInstruction, Without
  <2> QED  BY <1>5, <2>2, Zenon
<1> HIDE DEF m, p
<1>7. at \in Nat /\ at <= Len(s) /\ n \in Nat /\ at + n <= Len(s)
  <2>1. at \in Nat /\ at <= Len(s)
    BY <1>1, <1>4, SMTT(30)
  <2>2. CASE op.count = Variable
    <3>1. n = Len(s) - at
      BY <2>2
    <3> HIDE DEF n, at
    <3> QED  BY <1>1, <2>1, <3>1
  <2>3. CASE op.count # Variable
    <3>1. n = op.count /\ op.count \in Nat
      BY <1>1, <1>3, <2>3
    <3>2. CASE op.count = 0
      BY <2>1, <3>1, <3>2
    <3>3. CASE op.count # 0
      <4>1. op.start + op.count - 1 \in Touches(op)
        BY <1>3, <1>4, <2>3, <3>1, <3>3, SMTT(30) DEF Span
      <4>2. op.start + op.count - 1 <= Room(p, m) - 1
        BY <1>4, <4>1
      <4>3. \A B, a, k, R, L \in Nat : a + k - 1 <= R - 1 /\ B + R <= L => B + a + k <= L
        OBVIOUS
      <4> QED  BY <1>1, <1>4, <2>1, <3>1, <4>2, <4>3
    <3> QED  BY <3>2, <3>3
  <2> QED  BY <2>1, <2>2, <2>3
<1>8. ValuesOK(heap, values)
  <2> HIDE DEF at, n
  <2>1. at + 1 \in Nat \ {0} /\ at + n \in Int /\ at + 1 <= (at + n) + 1
    BY <1>7
  <2>2. IsPart(heap, values, s, at + 1, at + n)
    BY <1>1, <1>7, <2>1, PartValues
  <2> QED  BY <2>2 DEF IsPart
<1> HIDE DEF values, r
<1>9. Suspended(c, Without(r.t), r.h, g.bottom) /\ Later(heap, r.h)
  BY LeavingSuspended DEF r
<1>10. ValuesOK(r.h, values)
  BY <1>8, <1>9, LaterValues
<1>11. Sound(c)
  BY <1>1 DEF Runs
<1>12. Good(c, t, r.h)
  BY <1>9, <1>10, <1>11, ReturnToGood
<1> HIDE DEF t
<1> QED  BY <1>1, <1>6, <1>12, GoesKeeps

\* The stack with arguments in the place of those of the frame that starts at b.
TailStack(s, b, n, args, params) ==
  [i \in DOMAIN s |->
     LET k == i - b - 1
     IN  IF k \in 1 .. n THEN args[k] ELSE IF k \in n + 1 .. params THEN NilValue ELSE s[i]]

\* It is one of values, and the same below the frame.
LEMMA TailStackOK ==
  ASSUME NEW h, NEW s, ValuesOK(h, s), NEW b \in Nat, NEW n \in Nat, NEW args, ValuesOK(h, args), Len(args) = n,
         NEW params
  PROVE  IsTurn(h, TailStack(s, b, n, args, params), s, IF b <= Len(s) THEN b ELSE Len(s))
<1> DEFINE r == TailStack(s, b, n, args, params)
<1>1. IsSeq(s) /\ Len(s) \in Nat /\ DOMAIN s = 1 .. Len(s) /\ \A i \in 1 .. Len(s) : ValueOK(h, s[i])
  BY Lengths, SeqFacts
<1>2. \A k \in 1 .. n : ValueOK(h, args[k])
  BY Lengths
<1>3. \A i \in 1 .. Len(s) :
        r[i] = IF i - b - 1 \in 1 .. n THEN args[i - b - 1]
               ELSE IF i - b - 1 \in n + 1 .. params THEN NilValue ELSE s[i]
  BY <1>1 DEF TailStack
<1>4. IsSeq(r) /\ Len(r) = Len(s)
  <2> DEFINE R == Range(r)
  <2>1. DOMAIN r = 1 .. Len(s) /\ r = [i \in 1 .. Len(s) |-> r[i]]
    BY <1>1 DEF TailStack
  <2> HIDE DEF r
  <2>2. \A i \in 1 .. Len(s) : r[i] \in R
    BY <2>1 DEF Range
  <2> HIDE DEF R
  <2>3. r \in [1 .. Len(s) -> R]
    BY <2>1, <2>2
  <2> QED  BY <1>1, <2>3, OfFunction
<1> HIDE DEF r
<1>5. \A i \in 1 .. Len(s) : ValueOK(h, r[i])
  <2> TAKE i \in 1 .. Len(s)
  <2>1. ValueOK(h, NilValue) /\ ValueOK(h, s[i])
    BY <1>1, NilOK
  <2> QED  BY <1>2, <1>3, <2>1
<1>6. \A j \in 1 .. (IF b <= Len(s) THEN b ELSE Len(s)) : r[j] = s[j]
  <2> TAKE j \in 1 .. (IF b <= Len(s) THEN b ELSE Len(s))
  <2>1. j \in 1 .. Len(s) /\ j <= b
    BY <1>1
  <2>2. ~(j - b - 1 \in 1 .. n) /\ ~(j - b - 1 \in n + 1 .. params)
    <3>1. j - b - 1 < 1 /\ j - b - 1 \in Int /\ 1 <= n + 1
      BY <2>1
    <3> QED  BY <3>1
  <2> QED  BY <1>3, <2>1, <2>2
<1> QED  BY <1>4, <1>5, <1>6 DEF IsTurn, ValuesOK, r

\* OpCode::TailCall.
LEMMA TailCallKeeps ==
  ASSUME NEW c, NEW f, NEW g, NEW s, NEW o, NEW op, Step(c, f, g, s, o, op), TailCallInstruction(op)
  PROVE  Keeps(c)
<1> DEFINE at == CallPlace(g, op)
           n == CallCount(g, s, op)
           fn == CallableFor(heap, s[at + 1])
           r == Closed(th, heap, g.bottom)
           w == Without(r.t)
           args == CallArgs(g, s, op)
           params == ProtoOf(heap, fn).params
           filled == TailStack(s, g.bottom, n, args, params)
           t1 == PushCall(WithStack(w, SubSeq(s, 1, g.bottom) \o args), r.h, g.bottom, fn)
           t2 == Enter(WithStack(w, filled), r.h, g.bottom, n, fn)
<1>1. /\ Runs(c, f, g, s, o) /\ op = Operation /\ status = "running"
      /\ HeapOK(c, heap) /\ ValuesOK(heap, s) /\ Good(c, th, heap) /\ Frame = g /\ th.stack = s
      /\ g.base \in Nat /\ g.base <= Len(s) /\ Len(s) \in Nat /\ g.bottom \in Nat /\ g.bottom < g.base
  BY StepFacts
<1>2. op.op = "TailCall"
  BY DEF TailCallInstruction
<1>3. /\ at \in Nat /\ g.base <= at /\ n \in Nat /\ at + 1 + n <= Len(s) /\ ValueOK(heap, s[at + 1])
      /\ IsPart(heap, args, s, at + 2, at + 1 + n) /\ (op.args = Variable) = g.variable
  BY <1>2, CallFacts
<1>4. \/ Ends("error") \/ Ends("overrun")
      \/ fn # NilValue /\ fn[1] # "fn" /\ Goes(t1, r.h)
      \/ fn # NilValue /\ fn[1] = "fn" /\ Goes(t2, r.h)
  <2>1. th.stack = s /\ Frame = g
    BY <1>1
  <2>2. IF (op.args = Variable) # g.variable THEN Ends("fault")
        ELSE IF fn = NilValue THEN Ends("error")
        ELSE IF fn[1] # "fn" THEN Goes(t1, r.h)
        ELSE IF n < params /\ Len(s) < g.bottom + 1 + params THEN Ends("overrun")
        ELSE Goes(t2, r.h)
    BY <2>1, Zenon DEF TailCallInstruction, CallPlace, CallCount, CallArgs, Without, TailStack
  <2> HIDE DEF t1, t2, n, fn, params, r, at
  <2> QED  BY <1>3, <2>2, Zenon
<1> HIDE DEF args, n, r, at
<1>5. Suspended(c, w, r.h, g.bottom) /\ w.stack = s /\ Later(heap, r.h)
  BY LeavingSuspended DEF r
<1>6. Sound(c) /\ code = c.protos
  BY <1>1 DEF Runs
<1>7. ValuesOK(heap, args) /\ Len(args) = n
  <2>1. ValuesOK(heap, args) /\ Len(args) = (at + 1 + n) - (at + 2) + 1
    BY <1>3 DEF IsPart
  <2> QED  BY <1>3, <2>1
<1>8. ValuesOK(r.h, args) /\ ValuesOK(r.h, s)
  BY <1>1, <1>5, <1>7, LaterValues
<1>9. ASSUME fn # NilValue  PROVE CallableOK(r.h, fn)
  <2>1. CallableOK(heap, fn)
    BY <1>1, <1>3, <1>9, CallableForOK
  <2> HIDE DEF fn
  <2> QED  BY <1>5, <2>1, LaterValues DEF CallableOK
<1> HIDE DEF fn, w
<1>10. ASSUME fn # NilValue, Goes(t1, r.h)  PROVE Keeps(c)
  <2>1. CallOK(r.h, fn, args)
    BY <1>8, <1>9, <1>10, CallableArgs
  <2> DEFINE u == WithStack(w, SubSeq(s, 1, g.bottom) \o args)
  <2>2. u = WithStack(w, SubSeq(w.stack, 1, g.bottom) \o args)
    BY <1>5
  <2>3. t1 = PushCall(u, r.h, g.bottom, fn)
    OBVIOUS
  <2> HIDE DEF u
  <2>4. Good(c, PushCall(u, r.h, g.bottom, fn), r.h)
    BY <1>5, <1>6, <2>1, <2>2, CallsGood
  <2> HIDE DEF t1
  <2> QED  BY <1>1, <1>10, <2>3, <2>4, GoesKeeps
<1>11. ASSUME fn # NilValue, fn[1] = "fn", Goes(t2, r.h)  PROVE Keeps(c)
  <2>1. ValueOK(r.h, fn)
    BY <1>9, <1>11 DEF CallableOK
  <2> HIDE DEF params
  <2>2. g.bottom <= Len(s)
    BY <1>1
  <2>3. IsTurn(r.h, filled, s, g.bottom)
    <3>1. IsTurn(r.h, filled, s, IF g.bottom <= Len(s) THEN g.bottom ELSE Len(s))
      BY <1>1, <1>3, <1>7, <1>8, TailStackOK
    <3> QED  BY <2>2, <3>1
  <2> HIDE DEF filled
  <2>4. ValuesOK(r.h, filled) /\ Len(filled) = Len(s) /\ \A j \in 1 .. g.bottom : filled[j] = s[j]
    BY <2>3 DEF IsTurn
  <2> DEFINE u == WithStack(w, filled)
             x == Thread(w.frames, filled, w.open)
  <2>5. Suspended(c, x, r.h, g.bottom) /\ u = x
    BY <1>5, <2>2, <2>4, SuspendedStack
  <2>6. x.stack = filled
    BY ThreadFields
  <2> HIDE DEF x
  <2>7. g.bottom + 1 + n <= Len(x.stack)
    <3>1. \A b, B, A, m, L \in Nat : b < B /\ B <= A /\ A + 1 + m <= L => b + 1 + m <= L
      OBVIOUS
    <3>2. g.bottom + 1 + n <= Len(s)
      BY <1>1, <1>3, <3>1
    <3> QED  BY <2>4, <2>6, <3>2
  <2>8. t2 = Enter(x, r.h, g.bottom, n, fn)
    BY <2>5
  <2> HIDE DEF u
  <2>9. Good(c, Enter(x, r.h, g.bottom, n, fn), r.h)
    BY <1>3, <1>6, <1>11, <2>1, <2>5, <2>7, EnterGood
  <2> HIDE DEF t2
  <2> QED  BY <1>1, <1>11, <2>8, <2>9, GoesKeeps
<1> HIDE DEF t1, t2
<1> QED  BY <1>1, <1>4, <1>10, <1>11, EndsKeeps

\* A callback that is about to run.
Called(c, g, s, args) ==
  /\ Sound(c) /\ code = c.protos /\ status = "running" /\ Good(c, th, heap)
  /\ HeapOK(c, heap) /\ Frame = g /\ th.stack = s /\ CallbackArgs = args
  /\ Suspended(c, Popped, heap, g.bottom) /\ Popped.stack = s
  /\ CallOK(heap, g.func, args) /\ ValuesOK(heap, args)

\* A callback at the top has what it needs, and the rest waits for it.
LEMMA CalledFacts ==
  ASSUME NEW c, Sound(c), code = c.protos, status = "running", Good(c, th, heap), Frame.is = "callback"
  PROVE  Called(c, Frame, th.stack, CallbackArgs)
<1> DEFINE s == th.stack
           f == Front(th.frames)
           g == Last(th.frames)
           O == th.open
<1>1. /\ th = Thread(th.frames, s, O) /\ HeapOK(c, heap) /\ ValuesOK(heap, s) /\ OpenOK(heap, O)
      /\ IsSeq(th.frames) /\ th.frames # <<>> /\ AllWait(c, heap, s, f, g.bottom) /\ TopOK(c, heap, s, g)
  BY DEF Good, MemoryOK
<1>2. Frame = g
  BY DEF Frame
<1>3. IsSeq(f)
  BY <1>1, FrontLast
<1> HIDE DEF f, g
<1>4. CallbackOK(heap, s, g)
  <2>1. g.is = "callback"
    BY <1>2
  <2>2. ~RunningOK(c, heap, s, g)
    BY <2>1 DEF RunningOK, FrameOK
  <2>3. ~ResultOK(heap, s, g)
    BY <2>1 DEF ResultOK
  <2> QED  BY <1>1, <2>2, <2>3 DEF TopOK
<1>5. /\ g.bottom \in 0 .. Len(s) /\ \A a \in Places(heap) : a < g.bottom
      /\ CallOK(heap, g.func, SubSeq(s, g.bottom + 1, Len(s)))
  BY <1>4 DEF CallbackOK
<1>6. Popped = Thread(f, s, O)
  <2>1. \A y : WithFrames(th, y) = Thread(y, s, O)
    BY <1>1, Rebuilt
  <2> QED  BY <2>1 DEF Popped, WithFrames, f
<1> DEFINE x == Thread(f, s, O)
<1>7. x.frames = f /\ x.stack = s /\ x.open = O
  BY ThreadFields
<1>8. x = Thread(x.frames, x.stack, x.open)
  BY <1>7
<1> HIDE DEF x, s, O
<1>9. Suspended(c, x, heap, g.bottom)
  BY <1>1, <1>3, <1>5, <1>7, <1>8 DEF Suspended, MemoryOK
<1>10. Suspended(c, Popped, heap, g.bottom) /\ Popped.stack = s
  BY <1>6, <1>7, <1>9 DEF x
<1>11. CallOK(heap, g.func, CallbackArgs)
  BY <1>2, <1>5 DEF CallbackArgs, s
<1>12. ValuesOK(heap, CallbackArgs)
  BY <1>11 DEF CallOK
<1> QED  BY <1>1, <1>2, <1>10, <1>11, <1>12 DEF Called, s

\* A thread that waits does not mind what changes in tables and variables.
LEMMA SuspendedLike ==
  ASSUME NEW c, NEW t, NEW h, NEW b, Suspended(c, t, h, b), NEW h2, Like(c, h, h2)
  PROVE  Suspended(c, t, h2, b)
<1>1. /\ t = Thread(t.frames, t.stack, t.open) /\ HeapOK(c, h) /\ ValuesOK(h, t.stack)
      /\ OpenOK(h, t.open) /\ IsSeq(t.frames) /\ AllWait(c, h, t.stack, t.frames, b)
      /\ b \in Nat /\ b <= Len(t.stack) /\ Len(t.stack) \in Nat
      /\ \A a \in Places(h) : a < b
  BY SuspendedFacts
<1>2. /\ Places(h2) = Places(h) /\ ValuesOK(h2, t.stack) /\ OpenOK(h2, t.open) /\ HeapOK(c, h2)
      /\ \A a \in Places(h) : a \in Nat
  BY <1>1, LikeFacts DEF Like
<1>3. Over(h, t.stack, h2, t.stack, b)
  BY <1>1, <1>2 DEF Over, Like
<1>4. AllWait(c, h2, t.stack, t.frames, b)
  BY <1>1, <1>3, AllKeep
<1>5. b \in 0 .. Len(t.stack)
  BY <1>1
<1> QED  BY <1>1, <1>2, <1>4, <1>5 DEF Suspended, MemoryOK

\* A callback returns.
LEMMA ReturnsKeeps ==
  ASSUME NEW c, NEW g, NEW s, NEW args, Called(c, g, s, args), NEW h, Like(c, heap, h),
         NEW values, ValuesOK(h, values), Returns(values, h)
  PROVE  Keeps(c)
<1>1. Sound(c) /\ status = "running" /\ Frame = g /\ Suspended(c, Popped, heap, g.bottom)
  BY DEF Called
<1>2. Suspended(c, Popped, h, g.bottom)
  BY <1>1, SuspendedLike
<1>3. Good(c, ReturnTo(Popped, g.bottom, values), h)
  BY <1>1, <1>2, ReturnToGood
<1>4. Goes(ReturnTo(Popped, g.bottom, values), h)
  BY <1>1 DEF Returns
<1> QED  BY <1>1, <1>3, <1>4, GoesKeeps

\* A callback calls a function in its place.
LEMMA CallsOnKeeps ==
  ASSUME NEW c, NEW g, NEW s, NEW args, Called(c, g, s, args), NEW func, NEW new,
         CallOK(heap, func, new), CallsOn(func, new)
  PROVE  Keeps(c)
<1>1. /\ Sound(c) /\ code = c.protos /\ status = "running" /\ Frame = g
      /\ Suspended(c, Popped, heap, g.bottom) /\ Popped.stack = s /\ th.stack = s
  BY DEF Called
<1> DEFINE u == WithStack(Popped, SubSeq(s, 1, g.bottom) \o new)
<1>2. u = WithStack(Popped, SubSeq(Popped.stack, 1, g.bottom) \o new)
  BY <1>1
<1>3. Goes(PushCall(u, heap, g.bottom, func), heap)
  BY <1>1, Zenon DEF CallsOn
<1> HIDE DEF u
<1>4. Good(c, PushCall(u, heap, g.bottom, func), heap)
  BY <1>1, <1>2, CallsGood
<1> QED  BY <1>1, <1>3, <1>4, GoesKeeps

\* The callback emit.
LEMMA EmitsKeeps ==
  ASSUME NEW c, NEW g, NEW s, NEW args, Called(c, g, s, args), Emits
  PROVE  Keeps(c)
<1>1. Sound(c) /\ status = "running" /\ Frame = g /\ Suspended(c, Popped, heap, g.bottom)
  BY DEF Called
<1>2. ValuesOK(heap, <<>>)
  BY TinyValues
<1>3. Good(c, ReturnTo(Popped, g.bottom, <<>>), heap)
  BY <1>1, <1>2, ReturnToGood
<1>4. th' = ReturnTo(Popped, g.bottom, <<>>) /\ UNCHANGED <<pgm, code, status, heap>>
  BY <1>1 DEF Emits
<1> DEFINE t == ReturnTo(Popped, g.bottom, <<>>)
<1> HIDE DEF t
<1>5. th' = t /\ Good(c, t, heap)
  BY <1>3, <1>4 DEF t
<1> QED  BY <1>1, <1>4, <1>5 DEF Keeps

\* The callback setmetatable.
LEMMA SetMetatableKeeps ==
  ASSUME NEW c, NEW g, NEW s, NEW args, Called(c, g, s, args), SetMetatable
  PROVE  Keeps(c)
<1> DEFINE two == Resize(args, 2)
           a == two[1]
           m == two[2]
           h == WithMeta(heap, a[2], m)
<1>1. /\ ValuesOK(heap, args) /\ CallbackArgs = args /\ HeapOK(c, heap) /\ Good(c, th, heap)
  BY DEF Called
<1>2. ValueOK(heap, a) /\ ValueOK(heap, m)
  <2>1. IsResize(heap, two, args, 2)
    BY <1>1, ResizedValues
  <2> HIDE DEF two
  <2>2. ValuesOK(heap, two) /\ Len(two) = 2
    BY <2>1 DEF IsResize
  <2> QED  BY <2>2, Lengths
<1>3. IF ~IsTable(a) \/ ~(IsTable(m) \/ m = NilValue) THEN Ends("error") ELSE Returns(<<a>>, h)
  BY <1>1, Zenon DEF SetMetatable, WithMeta
<1> HIDE DEF a, m
<1>4. CASE Ends("error")
  BY <1>1, <1>4, EndsKeeps
<1>5. CASE IsTable(a) /\ (IsTable(m) \/ m = NilValue) /\ Returns(<<a>>, h)
  <2>1. a[2] \in DOMAIN heap.tables /\ (m = NilValue \/ m[1] = "table")
    BY <1>2, <1>5 DEF ValueOK, IsTable
  <2>2. Like(c, heap, h)
    BY <1>1, <1>2, <2>1, MetaChanged
  <2> HIDE DEF h
  <2>3. ValueOK(h, a)
    BY <1>1, <1>2, <2>2, LikeFacts
  <2>4. ValuesOK(h, <<a>>)
    BY <2>3, TinyValues
  <2> QED  BY <1>5, <2>2, <2>4, ReturnsKeeps
<1> HIDE DEF h
<1> QED  BY <1>3, <1>4, <1>5

\* The callbacks of index and new_index.
LEMMA CarryOnKeeps ==
  ASSUME NEW c, NEW g, NEW s, NEW args, Called(c, g, s, args), CarryOn
  PROVE  Keeps(c)
<1> DEFINE m == IF g.func[2] = "index" THEN Index(heap, args[1], args[2])
                ELSE NewIndex(heap, args[1], args[2], args[3])
<1>1. /\ ValuesOK(heap, args) /\ CallbackArgs = args /\ HeapOK(c, heap) /\ Good(c, th, heap) /\ Frame = g
      /\ CallOK(heap, g.func, args)
  BY DEF Called
<1>2. g.func \in {<<"native", "index">>, <<"native", "newindex">>}
  BY <1>1 DEF CarryOn
<1>3. IsMeta(c, heap, m)
  <2>0. \A i \in 1 .. Len(args) : ValueOK(heap, args[i])
    BY <1>1, Lengths
  <2>1. CASE g.func = <<"native", "index">>
    <3>1. g.func[2] = "index" /\ g.func[1] = "native"
      BY <2>1
    <3>2. Len(args) = 2
      BY <1>1, <3>1 DEF CallOK, ValueOK
    <3>3. ValueOK(heap, args[1]) /\ ValueOK(heap, args[2])
      BY <2>0, <3>2
    <3>4. IsAnswer(c, heap, Index(heap, args[1], args[2]))
      BY <1>1, <3>3, IndexOK
    <3> QED  BY <3>1, <3>4 DEF IsAnswer
  <2>2. CASE g.func = <<"native", "newindex">>
    <3>1. g.func[2] = "newindex" /\ g.func[1] = "native"
      BY <2>2
    <3>2. Len(args) = 3
      BY <1>1, <3>1 DEF CallOK, ValueOK
    <3>3. ValueOK(heap, args[1]) /\ ValueOK(heap, args[2]) /\ ValueOK(heap, args[3])
      BY <2>0, <3>2
    <3>4. IsMeta(c, heap, NewIndex(heap, args[1], args[2], args[3]))
      BY <1>1, <3>3, NewIndexOK
    <3> QED  BY <3>1, <3>4
  <2> QED  BY <1>2, <2>1, <2>2
<1>4. (CASE m.is = "error" -> Ends("error")
         [] m.is = "value" -> Returns(<<m.value>>, heap)
         [] m.is = "set" -> Returns(<<>>, m.heap)
         [] m.is = "call" -> CallsOn(m.func, m.args))
  BY <1>1, Zenon DEF CarryOn
<1> HIDE DEF m
<1>5. CASE m.is = "error"
  <2>1. Ends("error")
    BY <1>4, <1>5
  <2> QED  BY <1>1, <2>1, EndsKeeps
<1>6. CASE m.is = "value"
  <2>1. Returns(<<m.value>>, heap) /\ ValueOK(heap, m.value)
    BY <1>3, <1>4, <1>6 DEF IsMeta
  <2>2. ValuesOK(heap, <<m.value>>) /\ Like(c, heap, heap)
    BY <1>1, <2>1, TinyValues, LikeItself
  <2> QED  BY <2>1, <2>2, ReturnsKeeps
<1>7. CASE m.is = "set"
  <2>1. Returns(<<>>, m.heap) /\ Like(c, heap, m.heap)
    BY <1>3, <1>4, <1>7 DEF IsMeta
  <2>2. ValuesOK(m.heap, <<>>)
    BY TinyValues
  <2> QED  BY <2>1, <2>2, ReturnsKeeps
<1>8. CASE m.is = "call"
  <2>1. CallsOn(m.func, m.args) /\ CallOK(heap, m.func, m.args)
    BY <1>3, <1>4, <1>8 DEF IsMeta
  <2> QED  BY <2>1, CallsOnKeeps
<1> QED  BY <1>3, <1>5, <1>6, <1>7, <1>8 DEF IsMeta

\* The callback of call.
LEMMA CallBoundKeeps ==
  ASSUME NEW c, NEW g, NEW s, NEW args, Called(c, g, s, args), CallBound
  PROVE  Keeps(c)
<1> DEFINE fn == CallableFor(heap, g.func[3])
           new == <<g.func[2]>> \o args
<1>1. /\ ValuesOK(heap, args) /\ CallbackArgs = args /\ HeapOK(c, heap) /\ Good(c, th, heap) /\ Frame = g
      /\ CallOK(heap, g.func, args)
  BY DEF Called
<1>2. g.func[1] = "bound"
  BY <1>1 DEF CallBound
<1>3. IF fn = NilValue THEN Ends("error") ELSE CallsOn(fn, new)
  BY <1>1, Zenon DEF CallBound
<1>4. ValueOK(heap, g.func[2]) /\ ValueOK(heap, g.func[3])
  BY <1>1, <1>2 DEF CallOK
<1>5. ValuesOK(heap, new)
  <2>1. ValuesOK(heap, <<g.func[2]>>)
    BY <1>4, TinyValues
  <2>2. IsJoin(heap, new, <<g.func[2]>>, args)
    BY <1>1, <2>1, JoinedValues
  <2> HIDE DEF new
  <2> QED  BY <2>2 DEF IsJoin
<1> HIDE DEF new
<1>6. CASE fn = NilValue
  <2>1. Ends("error")
    BY <1>3, <1>6
  <2> QED  BY <1>1, <2>1, EndsKeeps
<1>7. CASE fn # NilValue
  <2>1. CallableOK(heap, fn)
    BY <1>1, <1>4, <1>7, CallableForOK
  <2> HIDE DEF fn
  <2>2. CallOK(heap, fn, new)
    BY <1>5, <2>1, CallableArgs
  <2> QED  BY <1>3, <1>7, <2>2, CallsOnKeeps
<1> QED  BY <1>6, <1>7

\* Any callback.
LEMMA CallbackKeeps ==
  ASSUME NEW c, Sound(c), code = c.protos, Good(c, th, heap), Callback
  PROVE  Keeps(c)
<1>1. status = "running" /\ Frame.is = "callback"
  BY DEF Callback
<1>2. Called(c, Frame, th.stack, CallbackArgs)
  BY <1>1, CalledFacts
<1>3. Emits \/ SetMetatable \/ CarryOn \/ CallBound
  BY DEF Callback
<1> QED  BY <1>2, <1>3, EmitsKeeps, SetMetatableKeeps, CarryOnKeeps, CallBoundKeeps

\* A Lua frame at the top is about to execute an instruction.
LEMMA RunsNow ==
  ASSUME NEW c, Sound(c), code = c.protos, Good(c, th, heap), Frame.is = "lua"
  PROVE  Runs(c, Front(th.frames), Frame, th.stack, th.open)
<1> DEFINE s == th.stack
           f == Front(th.frames)
           g == Last(th.frames)
           O == th.open
<1>1. /\ th = Thread(th.frames, s, O) /\ HeapOK(c, heap) /\ ValuesOK(heap, s) /\ OpenOK(heap, O)
      /\ IsSeq(th.frames) /\ th.frames # <<>> /\ AllWait(c, heap, s, f, g.bottom) /\ TopOK(c, heap, s, g)
  BY DEF Good, MemoryOK
<1>2. IsSeq(f) /\ th.frames = Append(f, g)
  BY <1>1, FrontLast
<1>3. Frame = g
  BY DEF Frame
<1> HIDE DEF f, g, s, O
<1>4. RunningOK(c, heap, s, g)
  <2>1. g.is = "lua"
    BY <1>3
  <2>2. ~CallbackOK(heap, s, g)
    BY <2>1 DEF CallbackOK
  <2>3. ~ResultOK(heap, s, g)
    BY <2>1 DEF ResultOK
  <2> QED  BY <1>1, <2>2, <2>3 DEF TopOK
<1>5. th = Top(f, g, s, O)
  BY <1>1, <1>2 DEF Top
<1>6. Runs(c, f, g, s, O)
  BY <1>1, <1>2, <1>4, <1>5 DEF Runs
<1> QED  BY <1>3, <1>6 DEF f, s, O

\* It executes it while the thread runs.
LEMMA StepNow ==
  ASSUME NEW c, Sound(c), code = c.protos, status = "running", Good(c, th, heap), Frame.is = "lua"
  PROVE  Step(c, Front(th.frames), Frame, th.stack, th.open, Operation)
BY RunsNow DEF Step

\* Any instruction.
LEMMA InstructionKeeps ==
  ASSUME NEW c, Sound(c), code = c.protos, Good(c, th, heap), Instruction
  PROVE  Keeps(c)
<1>1. status = "running" /\ Frame.is = "lua"
  BY DEF Instruction
<1> DEFINE f == Front(th.frames)
           g == Frame
           s == th.stack
           o == th.open
<1>2. PICK op \in {Operation} :
        \/ Move(op) \/ LoadConstant(op) \/ LoadBoolean(op) \/ LoadNils(op)
        \/ NewTable(op) \/ GetTable(op) \/ PutTable(op) \/ GetUpTable(op) \/ PutUpTable(op)
        \/ SetList(op) \/ CallInstruction(op) \/ TailCallInstruction(op) \/ ReturnInstruction(op)
        \/ VarArgs(op) \/ JumpInstruction(op) \/ TestInstruction(op) \/ TestSet(op)
        \/ NewClosure(op) \/ NumericForPrep(op) \/ NumericForLoop(op)
        \/ GenericForCall(op) \/ GenericForLoop(op) \/ MethodInstruction(op) \/ Concat(op)
        \/ GetUpValue(op) \/ PutUpValue(op) \/ Length(op) \/ CompareEqual(op) \/ CompareOrder(op)
        \/ Not(op) \/ Minus(op) \/ Arithmetic(op)
  BY DEF Instruction
<1>3. Step(c, f, g, s, o, op)
  BY <1>1, StepNow
<1> HIDE DEF f, g, s, o
<1>4. Move(op) => Keeps(c)
  BY <1>3, MoveKeeps
<1>5. LoadConstant(op) => Keeps(c)
  BY <1>3, LoadConstantKeeps
<1>6. LoadBoolean(op) => Keeps(c)
  BY <1>3, LoadBooleanKeeps
<1>7. LoadNils(op) => Keeps(c)
  BY <1>3, LoadNilsKeeps
<1>8. NewTable(op) => Keeps(c)
  BY <1>3, NewTableKeeps
<1>9. GetTable(op) => Keeps(c)
  BY <1>3, GetTableKeeps
<1>10. PutTable(op) => Keeps(c)
  BY <1>3, PutTableKeeps
<1>11. GetUpTable(op) => Keeps(c)
  BY <1>3, GetUpTableKeeps
<1>12. PutUpTable(op) => Keeps(c)
  BY <1>3, PutUpTableKeeps
<1>13. SetList(op) => Keeps(c)
  BY <1>3, SetListKeeps
<1>14. CallInstruction(op) => Keeps(c)
  BY <1>3, CallKeeps
<1>15. TailCallInstruction(op) => Keeps(c)
  BY <1>3, TailCallKeeps
<1>16. ReturnInstruction(op) => Keeps(c)
  BY <1>3, ReturnKeeps
<1>17. VarArgs(op) => Keeps(c)
  BY <1>3, VarArgsKeeps
<1>18. JumpInstruction(op) => Keeps(c)
  BY <1>3, JumpKeeps
<1>19. TestInstruction(op) => Keeps(c)
  BY <1>3, TestKeeps
<1>20. TestSet(op) => Keeps(c)
  BY <1>3, TestSetKeeps
<1>21. NewClosure(op) => Keeps(c)
  BY <1>3, NewClosureKeeps
<1>22. NumericForPrep(op) => Keeps(c)
  BY <1>3, NumericForPrepKeeps
<1>23. NumericForLoop(op) => Keeps(c)
  BY <1>3, NumericForLoopKeeps
<1>24. GenericForCall(op) => Keeps(c)
  BY <1>3, GenericForCallKeeps
<1>25. GenericForLoop(op) => Keeps(c)
  BY <1>3, GenericForLoopKeeps
<1>26. MethodInstruction(op) => Keeps(c)
  BY <1>3, MethodKeeps
<1>27. Concat(op) => Keeps(c)
  BY <1>3, ConcatKeeps
<1>28. GetUpValue(op) => Keeps(c)
  BY <1>3, GetUpValueKeeps
<1>29. PutUpValue(op) => Keeps(c)
  BY <1>3, PutUpValueKeeps
<1>30. Length(op) => Keeps(c)
  BY <1>3, LengthKeeps
<1>31. CompareEqual(op) => Keeps(c)
  BY <1>3, CompareEqualKeeps
<1>32. CompareOrder(op) => Keeps(c)
  BY <1>3, CompareOrderKeeps
<1>33. Not(op) => Keeps(c)
  BY <1>3, NotKeeps
<1>34. Minus(op) => Keeps(c)
  BY <1>3, MinusKeeps
<1>35. Arithmetic(op) => Keeps(c)
  BY <1>3, ArithmeticKeeps
<1> QED
  BY <1>2, <1>4, <1>5, <1>6, <1>7, <1>8, <1>9, <1>10, <1>11, <1>12, <1>13, <1>14, <1>15,
     <1>16, <1>17, <1>18, <1>19, <1>20, <1>21, <1>22, <1>23, <1>24, <1>25, <1>26, <1>27,
     <1>28, <1>29, <1>30, <1>31, <1>32, <1>33, <1>34, <1>35

\* The heap that Closure::load and the host leave.
LEMMA StartHeapOK ==
  ASSUME NEW c, Sound(c)
  PROVE  HeapOK(c, StartHeap) /\ OpenCells(StartHeap) = {} /\ ValueOK(StartHeap, <<"fn", 1>>)
<1> DEFINE h == StartHeap
           cell == [open |-> FALSE, at |-> 0, value |-> <<"table", 1>>]
           fn == [proto |-> 1, ups |-> <<1>>]
           globals == [map |-> Globals, meta |-> NilValue]
<1>1. h = Heap(<<cell>>, <<fn>>, <<globals>>)
  BY DEF StartHeap, Heap
<1>2. \A x : IsSeq(<<x>>) /\ DOMAIN <<x>> = {1} /\ <<x>>[1] = x
  <2> TAKE x
  <2>1. IsSeq(<<x>>) /\ DOMAIN <<x>> = 1 .. 1
    BY TinySeqs
  <2>2. 1 .. 1 = {1} /\ <<x>>[1] = x
    OBVIOUS
  <2> QED  BY <2>1, <2>2
<1>3. h.cells = <<cell>> /\ h.closures = <<fn>> /\ h.tables = <<globals>> /\ h = Heap(h.cells, h.closures, h.tables)
  BY <1>1 DEF Heap
<1> HIDE DEF h
<1>4. DOMAIN h.cells = {1} /\ DOMAIN h.closures = {1} /\ DOMAIN h.tables = {1}
  BY <1>2, <1>3
<1>5. CellOK(h, cell)
  BY <1>4 DEF CellOK, ValueOK
<1>6. ClosureOK(c, h, fn)
  BY <1>2, <1>4 DEF ClosureOK, Sound
<1>7. \A k \in DOMAIN Globals : Globals[k] \in {<<"native", "emit">>, <<"native", "setmetatable">>}
  <2>1. /\ Str("emit")[2][1] = "emit" /\ Str("setmetatable")[2][1] = "setmetatable"
        /\ DOMAIN Globals = {Str("emit"), Str("setmetatable")}
        /\ \A k \in DOMAIN Globals : Globals[k] = <<"native", k[2][1]>>
    BY DEF Globals, Str
  <2> QED  BY <2>1
<1>8. TableOK(h, globals)
  <2>1. ValueOK(h, <<"native", "emit">>) /\ ValueOK(h, <<"native", "setmetatable">>)
    BY DEF ValueOK
  <2>2. \A k \in DOMAIN Globals : ValueOK(h, Globals[k])
    BY <1>7, <2>1
  <2> QED  BY <2>2 DEF TableOK
<1> HIDE DEF cell, fn, globals
<1>9. HeapOK(c, h)
  BY <1>2, <1>3, <1>4, <1>5, <1>6, <1>8 DEF HeapOK
<1>10. OpenCells(h) = {}
  <2>1. cell.open = FALSE
    BY Zenon DEF cell
  <2>2. \A u \in DOMAIN h.cells : h.cells[u] = cell
    BY <1>2, <1>3, <1>4
  <2> QED  BY <2>1, <2>2, Zenon DEF OpenCells
<1>11. ValueOK(h, <<"fn", 1>>)
  BY <1>4 DEF ValueOK
<1> QED  BY <1>9, <1>10, <1>11 DEF h

\* A thread starts as it should.
LEMMA StartGood ==
  ASSUME NEW c, Sound(c), code = c.protos
  PROVE  Good(c, PushCall(NewThread, StartHeap, 0, <<"fn", 1>>), StartHeap)
<1> DEFINE t == NewThread
           h == StartHeap
<1>1. HeapOK(c, h) /\ OpenCells(h) = {} /\ ValueOK(h, <<"fn", 1>>)
  BY StartHeapOK
<1>2. t = Thread(t.frames, t.stack, t.open) /\ t.frames = <<>> /\ t.stack = <<>> /\ t.open = <<>>
  BY DEF NewThread, Thread
<1> HIDE DEF t, h
<1>3. IsSeq(<<>>) /\ Len(<<>>) = 0 /\ ValuesOK(h, <<>>)
  BY TinySeqs, TinyValues
<1>4. Places(h) = {}
  BY <1>1 DEF Places
<1>5. OpenOK(h, <<>>)
  BY <1>1, <1>3 DEF OpenOK, Range
<1>6. AllWait(c, h, t.stack, <<>>, 0)
  BY <1>3 DEF AllWait
<1>7. Suspended(c, t, h, 0)
  BY <1>1, <1>2, <1>3, <1>4, <1>5, <1>6 DEF Suspended, MemoryOK
<1>8. SubSeq(t.stack, 0 + 1, Len(t.stack)) = <<>>
  BY <1>2, <1>3, EmptyPart
<1>9. CallOK(h, <<"fn", 1>>, <<>>)
  BY <1>1, <1>3 DEF CallOK
<1>10. Good(c, PushCall(t, h, 0, <<"fn", 1>>), h)
  <2> DEFINE fn == <<"fn", 1>>
  <2> HIDE DEF fn
  <2>1. CallOK(h, fn, SubSeq(t.stack, 0 + 1, Len(t.stack)))
    BY <1>8, <1>9 DEF fn
  <2>2. Good(c, PushCall(t, h, 0, fn), h)
    BY <1>7, <2>1, PushCallGood
  <2> QED  BY <2>2 DEF fn
<1> QED  BY <1>10 DEF t, h

(* The machine as a whole. *)
IInv ==
  /\ pgm \in DOMAIN Loaded /\ code = Loaded[pgm].protos /\ status # "fault"
  /\ IF Compiled(Loaded[pgm]) THEN Good(Loaded[pgm], th, heap)
     ELSE status = "uncompiled" /\ th = NewThread /\ heap = StartHeap

\* A machine starts as it should.
THEOREM InitIInv == Init => IInv
<1> SUFFICES ASSUME Init PROVE IInv
  OBVIOUS
<1> DEFINE c == Loaded[pgm]
<1>1. /\ pgm \in DOMAIN Loaded /\ code = c.protos
      /\ status = (IF Compiled(c) THEN "running" ELSE "uncompiled") /\ heap = StartHeap
      /\ th = IF status = "running" THEN PushCall(NewThread, StartHeap, 0, <<"fn", 1>>) ELSE NewThread
  BY DEF Init
<1>2. Compiled(c) => Sound(c)
  BY <1>1, LoadedAssumption
<1> HIDE DEF c
<1>3. CASE Compiled(c)
  <2>1. status = "running" /\ status # "fault"
    BY <1>1, <1>3
  <2>2. Good(c, th, heap)
    BY <1>1, <1>2, <1>3, <2>1, StartGood
  <2> QED  BY <1>1, <1>3, <2>1, <2>2 DEF IInv, c
<1>4. CASE ~Compiled(c)
  <2>1. status = "uncompiled" /\ status # "fault" /\ status # "running"
    BY <1>1, <1>4
  <2>2. th = NewThread
    BY <1>1, <2>1
  <2> QED  BY <1>1, <1>4, <2>1, <2>2 DEF IInv, c
<1> QED  BY <1>3, <1>4

\* No step leads out of it.
THEOREM NextIInv == IInv /\ [Next]_vars => IInv'
<1> SUFFICES ASSUME IInv, [Next]_vars PROVE IInv'
  OBVIOUS
<1> DEFINE c == Loaded[pgm]
<1>1. pgm \in DOMAIN Loaded /\ code = c.protos /\ status # "fault"
  BY DEF IInv
<1>2. CASE UNCHANGED vars
  <2>1. pgm' = pgm /\ code' = code /\ status' = status /\ th' = th /\ heap' = heap
    BY <1>2 DEF vars
  <2> QED  BY <2>1 DEF IInv
<1> HIDE DEF c
<1>3. ASSUME Next, status = "running"  PROVE IInv'
  <2>1. Compiled(c) /\ Good(c, th, heap) /\ Sound(c)
    <3>1. Compiled(c) /\ Good(c, th, heap)
      BY <1>3 DEF IInv, c
    <3> QED  BY <1>1, <3>1, LoadedAssumption DEF c
  <2>2. ASSUME Keeps(c)  PROVE IInv'
    <3>1. /\ Good(c, th', heap') /\ status' # "fault" /\ pgm' = pgm /\ code' = code
      BY <2>2 DEF Keeps
    <3>2. c = Loaded[pgm']
      BY <3>1 DEF c
    <3>3. /\ pgm' \in DOMAIN Loaded /\ code' = Loaded[pgm'].protos /\ status' # "fault"
          /\ Compiled(Loaded[pgm']) /\ Good(Loaded[pgm'], th', heap')
      BY <1>1, <2>1, <3>1, <3>2
    <3> QED  BY <3>3 DEF IInv
  <2>3. CASE Instruction
    BY <1>1, <2>1, <2>2, <2>3, InstructionKeeps
  <2>4. CASE Callback
    BY <1>1, <2>1, <2>2, <2>4, CallbackKeeps
  <2>5. CASE Finished
    <3>1. Ends("result")
      BY <2>5 DEF Finished
    <3>2. Keeps(c)
      BY <2>1, <3>1, EndsKeeps
    <3> QED  BY <2>2, <3>2
  <2>6. CASE Idle
    BY <1>3, <2>6 DEF Idle
  <2> QED  BY <1>3, <2>3, <2>4, <2>5, <2>6 DEF Next
<1>4. ASSUME Next, status # "running"  PROVE IInv'
  <2>1. Idle
    BY <1>4 DEF Next, Instruction, Callback, Finished
  <2> QED  BY <1>2, <2>1 DEF Idle
<1> QED  BY <1>2, <1>3, <1>4

\* What holds of the frames of a thread, one by one.
LEMMA FramesOf ==
  ASSUME NEW c, NEW h, NEW t, Good(c, t, h)
  PROVE  /\ IsSeq(t.frames) /\ Len(t.frames) \in Nat /\ DOMAIN t.frames = 1 .. Len(t.frames)
         /\ HeapOK(c, h) /\ OpenOK(h, t.open) /\ Len(t.stack) \in Nat /\ Len(t.frames) >= 1
         /\ Last(t.frames) = t.frames[Len(t.frames)] /\ TopOK(c, h, t.stack, Last(t.frames))
         /\ \A k \in 1 .. Len(t.frames) - 1 : WaitingOK(c, h, t.stack, t.frames[k], t.frames[k + 1].bottom)
<1> DEFINE f == t.frames
           e == Front(f)
<1>1. /\ IsSeq(f) /\ f # <<>> /\ HeapOK(c, h) /\ ValuesOK(h, t.stack) /\ OpenOK(h, t.open)
      /\ AllWait(c, h, t.stack, e, Last(f).bottom) /\ TopOK(c, h, t.stack, Last(f))
  BY DEF Good, MemoryOK
<1>2. Len(f) \in Nat /\ DOMAIN f = 1 .. Len(f) /\ Len(t.stack) \in Nat
  BY <1>1, SeqFacts, Lengths
<1> HIDE DEF f
<1>3. /\ Len(e) = Len(f) - 1 /\ Last(f) = f[Len(f)] /\ Len(f) >= 1
      /\ \A j \in 1 .. Len(f) - 1 : e[j] = f[j]
  BY <1>1, FrontSeq
<1> HIDE DEF e
<1>4. ASSUME NEW k \in 1 .. Len(f) - 1  PROVE WaitingOK(c, h, t.stack, f[k], f[k + 1].bottom)
  <2>1. k \in 1 .. Len(e) /\ e[k] = f[k]
    BY <1>2, <1>3
  <2>2. WaitingOK(c, h, t.stack, e[k], IF k < Len(e) THEN e[k + 1].bottom ELSE Last(f).bottom)
    BY <1>1, <2>1 DEF AllWait
  <2>3. CASE k < Len(e)
    <3>1. k + 1 \in 1 .. Len(f) - 1
      BY <1>2, <1>3, <2>3
    <3> QED  BY <1>3, <2>1, <2>2, <2>3, <3>1
  <2>4. CASE ~(k < Len(e))
    <3>1. k + 1 = Len(f)
      BY <1>2, <1>3, <2>4
    <3> QED  BY <1>3, <2>1, <2>2, <2>4, <3>1
  <2> QED  BY <2>3, <2>4
<1> QED  BY <1>1, <1>2, <1>3, <1>4 DEF f

\* A Lua frame is at the top, or waits.
LEMMA LuaFramesOK ==
  ASSUME NEW c, Good(c, th, heap), NEW k \in LuaFrames
  PROVE  /\ k \in 1 .. Len(th.frames) /\ FrameOK(c, heap, th.stack, th.frames[k])
         /\ k < Len(th.frames) => WaitingOK(c, heap, th.stack, th.frames[k], th.frames[k + 1].bottom)
         /\ k = Len(th.frames) => RunningOK(c, heap, th.stack, th.frames[k])
<1> DEFINE f == th.frames
           s == th.stack
<1>1. /\ Len(f) \in Nat /\ DOMAIN f = 1 .. Len(f) /\ Last(f) = f[Len(f)] /\ TopOK(c, heap, s, Last(f))
      /\ \A j \in 1 .. Len(f) - 1 : WaitingOK(c, heap, s, f[j], f[j + 1].bottom)
  BY FramesOf
<1>2. k \in DOMAIN f /\ f[k].is = "lua"
  BY DEF LuaFrames
<1> HIDE DEF f, s
<1>3. k \in 1 .. Len(f)
  BY <1>1, <1>2
<1>4. CASE k < Len(f)
  <2>1. WaitingOK(c, heap, s, f[k], f[k + 1].bottom)
    BY <1>1, <1>3, <1>4
  <2>2. FrameOK(c, heap, s, f[k])
    BY <2>1 DEF WaitingOK
  <2>3. k # Len(f)
    BY <1>1, <1>4
  <2> QED  BY <1>3, <2>1, <2>2, <2>3 DEF f, s
<1>5. CASE k = Len(f)
  <2>1. ~CallbackOK(heap, s, f[k]) /\ ~ResultOK(heap, s, f[k])
    BY <1>2 DEF CallbackOK, ResultOK
  <2>2. RunningOK(c, heap, s, f[k])
    BY <1>1, <1>5, <2>1 DEF TopOK
  <2>3. FrameOK(c, heap, s, f[k])
    BY <2>2 DEF RunningOK
  <2>4. ~(k < Len(f))
    BY <1>1, <1>5
  <2> QED  BY <1>3, <2>2, <2>3, <2>4 DEF f, s
<1> QED  BY <1>1, <1>3, <1>4, <1>5

\* What FramesFit says holds of a good thread.
LEMMA GoodFits ==
  ASSUME NEW c, Sound(c), code = c.protos, Good(c, th, heap), status # "fault"
  PROVE  FramesFit
<1> DEFINE f == th.frames
           s == th.stack
<1>1. /\ Len(f) \in Nat /\ DOMAIN f = 1 .. Len(f)
      /\ \A j \in 1 .. Len(f) - 1 : WaitingOK(c, heap, s, f[j], f[j + 1].bottom)
      /\ HeapOK(c, heap)
  BY FramesOf
<1>2. 1 .. Len(f) - 1 \subseteq LuaFrames
  <2> SUFFICES ASSUME NEW j \in 1 .. Len(f) - 1  PROVE j \in LuaFrames
    OBVIOUS
  <2> HIDE DEF f, s
  <2>1. FrameOK(c, heap, s, f[j]) /\ j \in DOMAIN f
    BY <1>1 DEF WaitingOK
  <2> DEFINE g == f[j]
  <2> HIDE DEF g
  <2>2. g.is = "lua"
    BY <2>1 DEF FrameOK, g
  <2> QED  BY <2>1, <2>2 DEF LuaFrames, g, f
<1>3. ASSUME NEW k \in LuaFrames, NEW g, g = f[k]
      PROVE  /\ s[g.bottom + 1][1] = "fn" /\ g.bottom < g.base
             /\ g.pc < Len(ProtoOf(heap, s[g.bottom + 1]).ops)
             /\ k < Len(f) => g.ret # <<>> /\ g.base <= f[k + 1].bottom
             /\ ~(k < Len(f)) => g.ret = <<>>
             /\ ~(k < Len(f)) /\ g.variable => g.base <= Len(s)
             /\ ~(k < Len(f)) /\ ~g.variable => Len(s) = g.base + g.size
  <2>1. /\ k \in 1 .. Len(f) /\ FrameOK(c, heap, s, g)
        /\ k < Len(f) => WaitingOK(c, heap, s, g, f[k + 1].bottom)
        /\ k = Len(f) => RunningOK(c, heap, s, g)
    BY <1>3, LuaFramesOK
  <2> HIDE DEF f, s
  <2> DEFINE p == ProtoAt(c, heap, s, g)
             notes == NotesAt(c, heap, s, g)
             q == ClosureAt(heap, s, g).proto
  <2>2. /\ s[g.bottom + 1][1] = "fn" /\ g.bottom < g.base /\ g.base <= Len(s) /\ g.pc \in Nat
        /\ g.pc + 1 \in DOMAIN notes /\ s[g.bottom + 1][2] \in DOMAIN heap.closures
        /\ g.size = p.size
    BY <2>1 DEF FrameOK
  <2>3. q \in DOMAIN c.protos
    BY <1>1, <2>2 DEF HeapOK, ClosureOK, ClosureAt
  <2>4. p = c.protos[q] /\ notes = c.notes[q] /\ ProtoOf(heap, s[g.bottom + 1]) = p
    BY DEF ProtoAt, NotesAt, ProtoOf, ClosureAt
  <2> HIDE DEF q, notes, p
  <2>5. SoundPrototype(c.protos, p, notes)
    BY <2>3, <2>4 DEF Sound
  <2>6. DOMAIN notes \subseteq DOMAIN p.ops /\ DOMAIN p.ops = 1 .. Len(p.ops) /\ Len(p.ops) \in Nat
    BY <2>5 DEF SoundPrototype
  <2>7. g.pc < Len(p.ops)
    BY <2>2, <2>6
  <2>8. ASSUME k < Len(f)  PROVE g.ret # <<>> /\ g.base <= f[k + 1].bottom
    <3>1. WaitingOK(c, heap, s, g, f[k + 1].bottom)
      BY <2>1, <2>8
    <3>2. WaitsForCall(c, heap, s, g, f[k + 1].bottom) => g.ret # <<>>
      <4>1. \A x : <<"normal", x>> # <<>>
        OBVIOUS
      <4> QED  BY <4>1 DEF WaitsForCall
    <3>3. WaitsForMeta(c, heap, s, g, f[k + 1].bottom) => g.ret # <<>>
      BY DEF WaitsForMeta
    <3> QED  BY <3>1, <3>2, <3>3 DEF WaitingOK
  <2>9. ASSUME ~(k < Len(f))  PROVE g.ret = <<>> /\ (~g.variable => Len(s) = g.base + g.size)
    <3>0. Len(f) \in Nat /\ k \in 1 .. Len(f)
      BY <1>1, <2>1, Zenon
    <3>1. k = Len(f)
      BY <2>9, <3>0
    <3>2. RunningOK(c, heap, s, g)
      BY <2>1, <3>1
    <3> DEFINE m == notes[g.pc + 1]
    <3>3. /\ g.ret = <<>> /\ g.variable = (m.from # Fixed)
          /\ IF m.from = Fixed THEN Len(s) = g.base + g.size ELSE g.base + m.from <= Len(s)
      BY <3>2 DEF RunningOK, notes
    <3> HIDE DEF m
    <3>4. ~g.variable => m.from = Fixed
      BY <3>3, Zenon
    <3> QED  BY <3>3, <3>4
  <2> QED  BY <2>2, <2>4, <2>7, <2>8, <2>9
<1> HIDE DEF f, s
<1>4. \A k \in LuaFrames :
        LET g == f[k]
        IN  /\ s[g.bottom + 1][1] = "fn" /\ g.bottom < g.base
            /\ g.pc < Len(ProtoOf(heap, s[g.bottom + 1]).ops)
            /\ IF k < Len(f)
               THEN g.ret # <<>> /\ g.base <= f[k + 1].bottom
               ELSE /\ g.ret = <<>>
                    /\ IF g.variable THEN g.base <= Len(s) ELSE Len(s) = g.base + g.size
  <2> SUFFICES ASSUME NEW k \in LuaFrames, NEW g, g = f[k]
               PROVE  /\ s[g.bottom + 1][1] = "fn" /\ g.bottom < g.base
                      /\ g.pc < Len(ProtoOf(heap, s[g.bottom + 1]).ops)
                      /\ IF k < Len(f)
                         THEN g.ret # <<>> /\ g.base <= f[k + 1].bottom
                         ELSE /\ g.ret = <<>>
                              /\ IF g.variable THEN g.base <= Len(s) ELSE Len(s) = g.base + g.size
    BY Zenon
  <2> QED  BY <1>3, Zenon
<1> QED  BY <1>2, <1>4, Zenon DEF FramesFit, f, s

\* What UpvaluesOrdered says holds of a good thread.
LEMMA GoodOrdered ==
  ASSUME NEW c, Sound(c), code = c.protos, Good(c, th, heap)
  PROVE  UpvaluesOrdered
<1> DEFINE f == th.frames
           s == th.stack
           open == OpenCells(heap)
<1>1. /\ Len(f) \in Nat /\ Len(f) >= 1 /\ HeapOK(c, heap) /\ OpenOK(heap, th.open) /\ Len(s) \in Nat
      /\ Last(f) = f[Len(f)] /\ TopOK(c, heap, s, Last(f)) /\ DOMAIN f = 1 .. Len(f)
  BY FramesOf
<1>2. Range(th.open) = open
  BY <1>1 DEF OpenOK
<1>3. \A i, j \in DOMAIN th.open : i < j => heap.cells[th.open[i]].at < heap.cells[th.open[j]].at
  BY <1>1 DEF OpenOK
<1>4. \A a \in Places(heap) : a < Len(s)
  <2>1. CASE Last(f).is = "lua"
    <3>1. Frame = Last(f)
      BY DEF Frame
    <3>2. Runs(c, Front(f), Frame, s, th.open)
      BY <2>1, <3>1, RunsNow
    <3> QED  BY <3>2, PlacesIn
  <2>2. CASE Last(f).is # "lua"
    <3>1. ~RunningOK(c, heap, s, Last(f))
      BY <2>2 DEF RunningOK, FrameOK
    <3>2. \A a \in Places(heap) : a < Last(f).bottom
      BY <1>1, <3>1 DEF TopOK, CallbackOK, ResultOK
    <3>3. Last(f).bottom \in 0 .. Len(s)
      BY <1>1, <3>1 DEF TopOK, CallbackOK, ResultOK
    <3>4. \A a \in Places(heap) : a \in Nat
      BY <1>1, LikeFacts, LikeItself
    <3> HIDE DEF f
    <3> QED  BY <1>1, <3>2, <3>3, <3>4
  <2> QED  BY <2>1, <2>2
<1>5. \A u \in open : heap.cells[u].at < Len(s)
  BY <1>4 DEF Places
<1>6. ASSUME NEW k \in LuaFrames, NEW u \in Range(heap.closures[s[f[k].bottom + 1][2]].ups), u \in open
      PROVE  heap.cells[u].at < f[k].bottom
  <2>1. FrameOK(c, heap, s, f[k])
    BY <1>6, LuaFramesOK
  <2> HIDE DEF f, s
  <2> DEFINE q == ClosureAt(heap, s, f[k])
  <2>2. PICK i \in DOMAIN q.ups : q.ups[i] = u
    BY DEF Range, ClosureAt
  <2>3. heap.cells[q.ups[i]].open
    BY <1>6, <2>2 DEF OpenCells
  <2> QED  BY <2>1, <2>2, <2>3, Zenon DEF FrameOK
<1>7. open = {u \in DOMAIN heap.cells : heap.cells[u].open}
  BY DEF OpenCells
<1> HIDE DEF open
<1> QED  BY <1>2, <1>3, <1>5, <1>6, <1>7, Zenon DEF UpvaluesOrdered, f, s

\* Both hold of every state of the machine.
LEMMA InvariantSays ==
  ASSUME IInv
  PROVE  FramesFit /\ UpvaluesOrdered
<1> DEFINE c == Loaded[pgm]
<1>1. CASE Compiled(c)
  <2>1. Sound(c) /\ code = c.protos /\ Good(c, th, heap) /\ status # "fault"
    BY <1>1, LoadedAssumption DEF IInv
  <2> HIDE DEF c
  <2> QED  BY <2>1, GoodFits, GoodOrdered
<1>2. CASE ~Compiled(c)
  <2>1. status = "uncompiled" /\ th = NewThread /\ heap = StartHeap
    BY <1>2 DEF IInv
  <2>2. FramesFit
    BY <2>1 DEF FramesFit
  <2>3. th.open = <<>> /\ th.frames = <<>>
    BY <2>1 DEF NewThread
  <2>4. {u \in DOMAIN heap.cells : heap.cells[u].open} = {}
    <3>1. heap.cells = <<[open |-> FALSE, at |-> 0, value |-> <<"table", 1>>]>>
      BY <2>1 DEF StartHeap
    <3> DEFINE cell == [open |-> FALSE, at |-> 0, value |-> <<"table", 1>>]
    <3>2. cell.open = FALSE
      BY Zenon
    <3> HIDE DEF cell
    <3>3. \A u \in DOMAIN <<cell>> : <<cell>>[u] = cell
      OBVIOUS
    <3>4. heap.cells = <<cell>>
      BY <3>1 DEF cell
    <3> QED  BY <3>2, <3>3, <3>4, Zenon
  <2>5. LuaFrames = {} /\ DOMAIN th.open = {} /\ Range(th.open) = {}
    BY <2>3 DEF LuaFrames, Range
  <2>6. UpvaluesOrdered
    BY <2>4, <2>5, Zenon DEF UpvaluesOrdered
  <2> QED  BY <2>2, <2>6
<1> QED  BY <1>1, <1>2

\* The machine stays as it should be, whatever program its compiler has made.
THEOREM SpecIInv == Spec => []IInv
BY InitIInv, NextIInv, PTL DEF Spec

\* The frames of a thread fit its stack and its code: run_vm never slices registers out of
\* bounds, never fails an assertion and never runs past the end of its code, and what takes a
\* variable number of values finds one (vm.rs run_vm, thread.rs).
THEOREM FramesAlwaysFit == Spec => []FramesFit
<1>1. IInv => FramesFit
  BY InvariantSays
<1> QED  BY <1>1, SpecIInv, PTL

\* The list of open upvalues of a thread has all of them, one for a place, in the order of their
\* places, on the stack, and below the frames that have captured them (thread.rs open_upvalues).
THEOREM UpvaluesAlwaysOrdered == Spec => []UpvaluesOrdered
<1>1. IInv => UpvaluesOrdered
  BY InvariantSays
<1> QED  BY <1>1, SpecIInv, PTL
================================================================================
