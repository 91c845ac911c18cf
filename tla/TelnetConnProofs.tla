--------------------------- MODULE TelnetConnProofs ---------------------------
(***************************************************************************)
(* TLAPS proofs about TelnetConn, for every alphabet, every set of data    *)
(* frames and every number of them.                                        *)
(***************************************************************************)
EXTENDS TelnetConn, FiniteSetTheorems, SequenceTheorems, WellFoundedInduction, TLAPS

-----------------------------------------------------------------------------
(* Facts about naturals and sequences.                                     *)

\* A nonempty set of naturals has a least element: among the initial segments
\* of its elements, which are finite, one is minimal for inclusion.
LEMMA LeastElement ==
  ASSUME NEW S \in SUBSET Nat, S # {}
  PROVE  \E n \in S : \A m \in S : n <= m
<1> DEFINE T == {0..n : n \in S}
<1>1. T \subseteq FiniteSubsetsOf(Nat)
  <2>1. \A n \in S : IsFiniteSet(0..n) /\ 0..n \subseteq Nat
    BY FS_Interval
  <2> QED  BY <2>1 DEF FiniteSubsetsOf
<1>2. T # {}
  OBVIOUS
<1>3. IsWellFoundedOn(StrictSubsetOrdering(Nat), FiniteSubsetsOf(Nat))
  BY FS_StrictSubsetOrderingWellFounded
<1> HIDE DEF T
<1>4. PICK X \in T : \A Y \in T : <<Y, X>> \notin StrictSubsetOrdering(Nat)
  BY <1>1, <1>2, <1>3, WFMin
<1> USE DEF T
<1>5. PICK n \in S : X = 0..n
  BY <1>4
<1>6. ASSUME NEW m \in S  PROVE  n <= m
  <2>1. SUFFICES ASSUME m < n  PROVE  FALSE
    OBVIOUS
  <2>2. 0..m \subseteq 0..n /\ 0..m # 0..n
    <3>1. n \in 0..n /\ n \notin 0..m
      BY <2>1
    <3> QED  BY <2>1, <3>1
  <2>3. 0..m \in SUBSET Nat /\ 0..n \in SUBSET Nat
    OBVIOUS
  <2>4. <<0..m, 0..n>> \in StrictSubsetOrdering(Nat)
    BY <2>2, <2>3, Zenon DEF StrictSubsetOrdering
  <2> QED  BY <1>4, <1>5, <2>4
<1> QED  BY <1>6

\* Moving the head of one sequence to the end of the one before it.
LEMMA ShiftHead ==
  ASSUME NEW S, NEW s \in Seq(S), NEW t \in Seq(S), t # <<>>
  PROVE  /\ Head(t) \in S /\ Tail(t) \in Seq(S)
         /\ <<Head(t)>> \in Seq(S) /\ s \o <<Head(t)>> \in Seq(S)
         /\ (s \o <<Head(t)>>) \o Tail(t) = s \o t
<1>1. Head(t) \in S /\ Tail(t) \in Seq(S)
  BY HeadTailProperties
<1>2. t = <<Head(t)>> \o Tail(t)
  <2>1. Len(t) \in 1..Len(t) /\ 1 \in 1..Len(t)
    BY EmptySeq
  <2>2. SubSeq(t, 1, Len(t)) = <<t[1]>> \o SubSeq(t, 2, Len(t))
    BY <2>1, SubSeqRecursiveFirst
  <2>3. SubSeq(t, 1, Len(t)) = t
    BY SubSeqFull
  <2>4. SubSeq(t, 2, Len(t)) = Tail(t)
    BY TailIsSubSeq
  <2> QED  BY <2>2, <2>3, <2>4
<1>3. <<Head(t)>> \in Seq(S)
  BY <1>1
<1>4. s \o <<Head(t)>> \in Seq(S)
  BY <1>3, ConcatProperties
<1>5. (s \o <<Head(t)>>) \o Tail(t) = s \o (<<Head(t)>> \o Tail(t))
  BY <1>1, <1>3, ConcatAssociative
<1> QED  BY <1>1, <1>2, <1>3, <1>4, <1>5

\* Appending to the last of two sequences, and of three.
LEMMA ConcatAppend ==
  ASSUME NEW S, NEW v \in Seq(S), NEW u \in Seq(S), NEW e \in S
  PROVE  v \o Append(u, e) = Append(v \o u, e)
OBVIOUS

LEMMA ShiftAppend ==
  ASSUME NEW S, NEW s \in Seq(S), NEW t \in Seq(S), NEW u \in Seq(S), NEW e \in S
  PROVE  /\ Append(u, e) \in Seq(S)
         /\ s \o t \o Append(u, e) = Append(s \o t \o u, e)
<1>1. s \o t \in Seq(S)
  BY ConcatProperties
<1>2. s \o t \o Append(u, e) = Append(s \o t \o u, e)
  BY <1>1, ConcatAppend
<1>3. Append(u, e) \in Seq(S)
  BY AppendProperties
<1> QED  BY <1>2, <1>3

-----------------------------------------------------------------------------
\* The read task has a first line feed whenever it looks for one.
LEMMA FirstEndType ==
  ASSUME NEW bytes \in Seq(Byte), LineEnds(bytes) # {}
  PROVE  FirstEnd(bytes) \in 1..Len(bytes)
<1>1. LineEnds(bytes) \in SUBSET Nat
  BY DEF LineEnds
<1>2. \E i \in LineEnds(bytes) : \A j \in LineEnds(bytes) : i <= j
  BY <1>1, LeastElement
<1>3. FirstEnd(bytes) \in LineEnds(bytes)
  BY <1>2 DEF FirstEnd
<1> QED  BY <1>3 DEF LineEnds

\* Stripping a line yields a line.
LEMMA StrippedType ==
  ASSUME NEW line \in Seq(Byte)
  PROVE  Stripped(line) \in Seq(Byte)
<1> DEFINE ends == {n \in 0..Len(line) : \A i \in n+1..Len(line) : line[i] \in {CR, NL}}
<1>1. ends \in SUBSET Nat /\ Len(line) \in ends
  OBVIOUS
<1>2. \E n \in ends : \A m \in ends : n <= m
  BY <1>1, LeastElement
<1> HIDE DEF ends
<1>3. (CHOOSE n \in ends : \A m \in ends : n <= m) \in ends
  BY <1>2
<1>4. TextLength(line) \in ends
  BY <1>3 DEF TextLength, ends
<1>5. TextLength(line) \in 0..Len(line)
  BY <1>4 DEF ends
<1>6. SubSeq(line, 1, TextLength(line)) \in Seq(Byte)
  BY <1>5, SubSeqProperties
<1> QED  BY <1>6 DEF Stripped

-----------------------------------------------------------------------------
(* The inductive invariant.  InOrder needs to know that TelnetIn's closed  *)
(* is only set on a drained channel nobody can send on any more, and that  *)
(* a reaped connection was closed.                                         *)

ClosedDrained == closed => reader = "done" /\ channel = <<>>
IInv == TypeOK /\ InOrder /\ ClosedDrained /\ ReapedDrained

LEMMA InitIInv == Init => IInv
<1> SUFFICES ASSUME Init  PROVE IInv
  OBVIOUS
<1>1. TypeOK
  <2>1. /\ <<>> \in Seq(Frame) /\ <<>> \in Seq(Event) /\ <<>> \in Seq(Byte)
        /\ Len(<<>>) <= 1 /\ 0 \in Nat /\ FALSE \in BOOLEAN
    BY EmptySeq
  <2> QED  BY <2>1, Zenon DEF Init, TypeOK
<1>2. <<>> \o <<>> = <<>>
  OBVIOUS
<1>3. InOrder
  BY <1>2 DEF Init, InOrder
<1>4. ClosedDrained /\ ReapedDrained
  BY DEF Init, ClosedDrained, ReapedDrained
<1> QED  BY <1>1, <1>3, <1>4 DEF IInv

\* What TelnetIn::next leaves of the events it holds, taken or put back.
LEMMA NextKeepsOrder ==
  ASSUME TypeOK, TakeFront \/ KeepFront
  PROVE  /\ peek' \in Seq(Event) /\ Len(peek') <= 1
         /\ channel' \in Seq(Event) /\ taken' \in Seq(Event)
         /\ taken' \o peek' \o channel' = taken \o peek \o channel
<1>0. /\ channel \in Seq(Event) /\ taken \in Seq(Event)
      /\ peek \in Seq(Event) /\ Len(peek) <= 1
  BY DEF TypeOK
<1>1. taken \o <<>> = taken
  BY <1>0, ConcatEmptySeq
<1>2. CASE peek # <<>> \/ channel = <<>>
  <2>1. FrontEvent = peek /\ channel' = channel
    BY <1>2 DEF FrontEvent, TakeFront, KeepFront, Update
  <2>2. CASE KeepFront
    BY <1>0, <2>1, <2>2 DEF KeepFront
  <2>3. CASE TakeFront
    <3>1. taken' = taken \o peek /\ peek' = <<>>
      BY <2>1, <2>3 DEF TakeFront
    <3>2. taken \o peek \in Seq(Event) /\ (taken \o peek) \o <<>> = taken \o peek
      BY <1>0, ConcatProperties, ConcatEmptySeq
    <3> QED  BY <1>0, <2>1, <3>1, <3>2, EmptySeq
  <2> QED  BY <2>2, <2>3
<1>3. CASE peek = <<>> /\ channel # <<>>
  <2>1. FrontEvent = <<Head(channel)>> /\ channel' = Tail(channel)
    BY <1>3 DEF FrontEvent, TakeFront, KeepFront, Update
  <2>2. /\ Tail(channel) \in Seq(Event) /\ <<Head(channel)>> \in Seq(Event)
        /\ taken \o <<Head(channel)>> \in Seq(Event)
        /\ (taken \o <<Head(channel)>>) \o Tail(channel) = taken \o channel
    BY <1>0, <1>3, ShiftHead
  <2>3. taken \o peek \o channel = taken \o channel
    BY <1>1, <1>3
  <2>4. CASE TakeFront
    <3>1. taken' = taken \o <<Head(channel)>> /\ peek' = <<>>
      BY <2>1, <2>4 DEF TakeFront
    <3>2. taken' \o peek' = taken'
      BY <2>2, <3>1, ConcatEmptySeq
    <3>3. taken' \o peek' \o channel' = taken \o peek \o channel
      BY <2>1, <2>2, <2>3, <3>1, <3>2, Zenon
    <3>4. peek' \in Seq(Event) /\ Len(peek') <= 1
      BY <3>1, EmptySeq
    <3> QED  BY <2>1, <2>2, <3>1, <3>3, <3>4, Zenon
  <2>5. CASE KeepFront
    <3>1. taken' = taken /\ peek' = <<Head(channel)>>
      BY <2>1, <2>5 DEF KeepFront
    <3>2. Len(peek') <= 1 /\ peek' \in Seq(Event)
      BY <2>2, <3>1
    <3>3. taken' \o peek' \o channel' = taken \o peek \o channel
      BY <2>1, <2>2, <2>3, <3>1, Zenon
    <3> QED  BY <1>0, <2>1, <2>2, <3>1, <3>2, <3>3, Zenon
  <2> QED  BY <2>4, <2>5
<1> QED  BY <1>2, <1>3

\* What a send does to the events between the read task and the game.
LEMMA SendKeepsOrder ==
  ASSUME IInv, reader = "run", NEW e \in Event, Send(e),
         UNCHANGED <<peek, closed, taken, conn>>
  PROVE  /\ channel' \in Seq(Event) /\ emitted' \in Seq(Event)
         /\ reader' \in {"run", "done"}
         /\ InOrder' /\ ClosedDrained' /\ ReapedDrained'
<1>0. /\ channel \in Seq(Event) /\ taken \in Seq(Event) /\ peek \in Seq(Event)
      /\ emitted \in Seq(Event)
  BY DEF IInv, TypeOK
<1>1. CASE conn = "live"
  <2>1. channel' = Append(channel, e) /\ emitted' = Append(emitted, e) /\ reader' = reader
    BY <1>1 DEF Send
  <2>2. /\ Append(channel, e) \in Seq(Event) /\ Append(emitted, e) \in Seq(Event)
        /\ taken \o peek \o Append(channel, e) = Append(taken \o peek \o channel, e)
    BY <1>0, ShiftAppend
  <2>3. InOrder'
    BY <2>1, <2>2 DEF IInv, InOrder
  <2>4. ClosedDrained' /\ ReapedDrained'
    BY <1>1, <2>1 DEF IInv, ClosedDrained, ReapedDrained
  <2> QED  BY <2>1, <2>2, <2>3, <2>4
<1>2. CASE conn # "live"
  <2>1. reader' = "done" /\ channel' = channel /\ emitted' = emitted
    BY <1>2 DEF Send
  <2>2. InOrder'
    BY <2>1 DEF IInv, InOrder
  <2>3. ClosedDrained' /\ ReapedDrained'
    BY <2>1 DEF IInv, ClosedDrained, ReapedDrained
  <2> QED  BY <1>0, <2>1, <2>2, <2>3
<1> QED  BY <1>1, <1>2

\* What a call of TelnetIn::next does, while the connection is live.
LEMMA NextKeepsIInv ==
  ASSUME IInv, conn = "live", TakeFront \/ KeepFront,
         UNCHANGED <<emitted, reader, conn>>
  PROVE  /\ peek' \in Seq(Event) /\ Len(peek') <= 1 /\ closed' \in BOOLEAN
         /\ channel' \in Seq(Event) /\ taken' \in Seq(Event)
         /\ InOrder' /\ ClosedDrained' /\ ReapedDrained'
<1>1. TypeOK /\ closed \in BOOLEAN
  BY DEF IInv, TypeOK
<1>2. /\ peek' \in Seq(Event) /\ Len(peek') <= 1
      /\ channel' \in Seq(Event) /\ taken' \in Seq(Event)
      /\ taken' \o peek' \o channel' = taken \o peek \o channel
  BY <1>1, NextKeepsOrder
<1>3. InOrder'
  BY <1>2 DEF IInv, InOrder
<1>4. closed' \in BOOLEAN
  BY DEF TakeFront, KeepFront, Update
<1>5. ClosedDrained'
  BY DEF IInv, ClosedDrained, TakeFront, KeepFront, Update
<1>6. ReapedDrained'
  BY DEF ReapedDrained
<1> QED  BY <1>2, <1>3, <1>4, <1>5, <1>6

\* Steps that leave the events and TelnetIn alone.
LEMMA QuietStep ==
  ASSUME IInv, UNCHANGED <<emitted, telnetIn, reader>>, conn' # "reaped" \/ UNCHANGED conn
  PROVE  InOrder' /\ ClosedDrained' /\ ReapedDrained'
BY DEF IInv, InOrder, ClosedDrained, ReapedDrained, telnetIn

LEMMA WireType ==
  ASSUME TypeOK, wire # <<>>
  PROVE  /\ Head(wire) \in Frame /\ Tail(wire) \in Seq(Frame)
         /\ Append(read, Head(wire)) \in Seq(Frame)
<1>1. wire \in Seq(Frame) /\ read \in Seq(Frame)
  BY DEF TypeOK
<1>2. Head(wire) \in Frame /\ Tail(wire) \in Seq(Frame)
  BY <1>1, HeadTailProperties
<1> QED  BY <1>1, <1>2, AppendProperties

\* The invariant is preserved by every step.
LEMMA StepIInv == IInv /\ [Next]_vars => IInv'
<1> SUFFICES ASSUME IInv, [Next]_vars  PROVE IInv'
  OBVIOUS
<1>t. TypeOK
  BY DEF IInv
<1> USE DEF socket, readTask, game, output
<1>1. ASSUME NEW f \in Frame, PeerSend(f)  PROVE IInv'
  <2>1. wire' \in Seq(Frame)
    BY <1>t, <1>1, AppendProperties DEF PeerSend, TypeOK
  <2>2. TypeOK'
    BY <1>t, <1>1, <2>1 DEF PeerSend, TypeOK, telnetIn
  <2>3. InOrder' /\ ClosedDrained' /\ ReapedDrained'
    BY <1>1, QuietStep DEF PeerSend
  <2> QED  BY <2>2, <2>3 DEF IInv
<1>2. CASE PeerHangUp
  <2>1. TypeOK'
    BY <1>t, <1>2 DEF PeerHangUp, TypeOK, telnetIn
  <2>2. InOrder' /\ ClosedDrained' /\ ReapedDrained'
    BY <1>2, QuietStep DEF PeerHangUp
  <2> QED  BY <2>1, <2>2 DEF IInv
<1>3. CASE ReadData
  <2>1. buffer' \in Seq(Byte)
    <3>1. Head(wire) \in Frame /\ Head(wire).kind = "data"
      BY <1>t, <1>3, WireType DEF ReadData
    <3>2. Head(wire).data \in Seq(Byte)
      BY <3>1, ConnAssumption DEF Frame
    <3> QED  BY <1>t, <1>3, <3>2, ConcatProperties DEF ReadData, TypeOK
  <2>2. wire' \in Seq(Frame) /\ read' \in Seq(Frame)
    BY <1>t, <1>3, WireType DEF ReadData
  <2>3. TypeOK'
    BY <1>t, <1>3, <2>1, <2>2 DEF ReadData, TypeOK, telnetIn
  <2>4. InOrder' /\ ClosedDrained' /\ ReapedDrained'
    BY <1>3, QuietStep DEF ReadData
  <2> QED  BY <2>3, <2>4 DEF IInv
<1>4. CASE ReadTelnet
  <2>1. TelnetEvent(Head(wire).event) \in Event
    <3>1. Head(wire) \in Frame /\ Head(wire).kind = "telnet"
      BY <1>t, <1>4, WireType DEF ReadTelnet
    <3>2. Head(wire).event \in Telnet
      BY <3>1 DEF Frame
    <3> QED  BY <3>2 DEF TelnetEvent, Event
  <2>2. wire' \in Seq(Frame) /\ read' \in Seq(Frame)
    BY <1>t, <1>4, WireType DEF ReadTelnet
  <2>3. /\ channel' \in Seq(Event) /\ emitted' \in Seq(Event)
        /\ reader' \in {"run", "done"}
        /\ InOrder' /\ ClosedDrained' /\ ReapedDrained'
    BY <1>4, <2>1, SendKeepsOrder DEF ReadTelnet
  <2>4. TypeOK'
    BY <1>t, <1>4, <2>2, <2>3 DEF ReadTelnet, TypeOK
  <2> QED  BY <2>3, <2>4 DEF IInv
<1>5. CASE EmitLine
  <2> DEFINE end == FirstEnd(buffer)
             line == SubSeq(buffer, 1, end)
  <2>1. buffer \in Seq(Byte) /\ end \in 1..Len(buffer)
    BY <1>t, <1>5, FirstEndType DEF EmitLine, TypeOK
  <2>2. line \in Seq(Byte) /\ SubSeq(buffer, end + 1, Len(buffer)) \in Seq(Byte)
    BY <2>1, SubSeqProperties
  <2>3. LineEvent(Stripped(line)) \in Event
    BY <2>2, StrippedType DEF LineEvent, Event
  <2>4. /\ channel' \in Seq(Event) /\ emitted' \in Seq(Event)
        /\ reader' \in {"run", "done"}
        /\ InOrder' /\ ClosedDrained' /\ ReapedDrained'
    BY <1>5, <2>3, SendKeepsOrder DEF EmitLine
  <2>5. buffer' \in Seq(Byte)
    BY <1>5, <2>2 DEF EmitLine
  <2>6. TypeOK'
    BY <1>t, <1>5, <2>4, <2>5 DEF EmitLine, TypeOK
  <2> QED  BY <2>4, <2>6 DEF IInv
<1>6. CASE ReadEnd
  <2>1. <<>> \in Seq(Byte)
    BY EmptySeq
  <2>2. TypeOK'
    BY <1>t, <1>6, <2>1 DEF ReadEnd, TypeOK, telnetIn
  <2>3. InOrder' /\ ClosedDrained' /\ ReapedDrained'
    BY <1>6 DEF IInv, InOrder, ClosedDrained, ReapedDrained, ReadEnd, telnetIn
  <2> QED  BY <2>2, <2>3 DEF IInv
<1>7. CASE HandleTelnet
  <2>1. CASE TakeFront /\ gmcp' \in BOOLEAN
    <3>1. /\ peek' \in Seq(Event) /\ Len(peek') <= 1 /\ closed' \in BOOLEAN
          /\ channel' \in Seq(Event) /\ taken' \in Seq(Event)
          /\ InOrder' /\ ClosedDrained' /\ ReapedDrained'
      BY <1>7, <2>1, NextKeepsIInv DEF HandleTelnet, InPhase
    <3>2. TypeOK'
      BY <1>t, <1>7, <2>1, <3>1 DEF HandleTelnet, TypeOK
    <3> QED  BY <3>1, <3>2 DEF IInv
  <2>2. CASE UNCHANGED <<telnetIn, gmcp>>
    <3>1. TypeOK'
      BY <1>t, <1>7, <2>2 DEF HandleTelnet, TypeOK, telnetIn
    <3>2. InOrder' /\ ClosedDrained' /\ ReapedDrained'
      BY <1>7, <2>2, QuietStep DEF HandleTelnet
    <3> QED  BY <3>1, <3>2 DEF IInv
  <2> QED  BY <1>t, <1>7, <2>1, <2>2 DEF HandleTelnet, TypeOK
<1>8. CASE RunCommand
  <2>1. /\ peek' \in Seq(Event) /\ Len(peek') <= 1 /\ closed' \in BOOLEAN
        /\ channel' \in Seq(Event) /\ taken' \in Seq(Event)
        /\ InOrder' /\ ClosedDrained' /\ ReapedDrained'
    BY <1>8, NextKeepsIInv DEF RunCommand, InPhase
  <2>2. TypeOK'
    BY <1>t, <1>8, <2>1 DEF RunCommand, TypeOK, Reply
  <2> QED  BY <2>1, <2>2 DEF IInv
<1>9. CASE CommandsDone
  <2>1. outq' \in Nat /\ UNCHANGED writer
    BY <1>t, <1>9 DEF CommandsDone, TypeOK, Reply
  <2>2. stage' \in {"new", "start", "asking", "session", "game"}
    BY <1>t, <1>9 DEF CommandsDone, TypeOK
  <2>3. CASE KeepFront
    <3>1. /\ peek' \in Seq(Event) /\ Len(peek') <= 1 /\ closed' \in BOOLEAN
          /\ channel' \in Seq(Event) /\ taken' \in Seq(Event)
          /\ InOrder' /\ ClosedDrained' /\ ReapedDrained'
      BY <1>9, <2>3, NextKeepsIInv DEF CommandsDone, InPhase
    <3>2. TypeOK'
      BY <1>t, <1>9, <2>1, <2>2, <3>1 DEF CommandsDone, TypeOK
    <3> QED  BY <3>1, <3>2 DEF IInv
  <2>4. CASE UNCHANGED telnetIn
    <3>1. TypeOK'
      BY <1>t, <1>9, <2>1, <2>2, <2>4 DEF CommandsDone, TypeOK, telnetIn
    <3>2. InOrder' /\ ClosedDrained' /\ ReapedDrained'
      BY <1>9, <2>4, QuietStep DEF CommandsDone
    <3> QED  BY <3>1, <3>2 DEF IInv
  <2> QED  BY <1>9, <2>3, <2>4 DEF CommandsDone
<1>10. CASE Login
  <2>1. outq' \in Nat /\ UNCHANGED writer
    BY <1>t, <1>10 DEF Login, TypeOK, Reply
  <2>2. stage' \in {"new", "start", "asking", "session", "game"}
    BY <1>t, <1>10 DEF Login, TypeOK
  <2>3. CASE TakeFront \/ KeepFront
    <3>1. /\ peek' \in Seq(Event) /\ Len(peek') <= 1 /\ closed' \in BOOLEAN
          /\ channel' \in Seq(Event) /\ taken' \in Seq(Event)
          /\ InOrder' /\ ClosedDrained' /\ ReapedDrained'
      BY <1>10, <2>3, NextKeepsIInv DEF Login, InPhase
    <3>2. TypeOK'
      BY <1>t, <1>10, <2>1, <2>2, <3>1 DEF Login, TypeOK
    <3> QED  BY <3>1, <3>2 DEF IInv
  <2>4. CASE UNCHANGED telnetIn
    <3>1. TypeOK'
      BY <1>t, <1>10, <2>1, <2>2, <2>4 DEF Login, TypeOK, telnetIn
    <3>2. InOrder' /\ ClosedDrained' /\ ReapedDrained'
      BY <1>10, <2>4, QuietStep DEF Login
    <3> QED  BY <3>1, <3>2 DEF IInv
  <2> QED  BY <1>10, <2>3, <2>4 DEF Login
<1>11. CASE Reap
  <2>1. TypeOK'
    BY <1>t, <1>11 DEF Reap, TypeOK, telnetIn
  <2>2. InOrder' /\ ClosedDrained'
    BY <1>11 DEF IInv, InOrder, ClosedDrained, Reap, telnetIn
  <2>3. ReapedDrained'
    <3>1. CASE IsClosed
      <4>1. reader = "done" /\ channel = <<>> /\ peek = <<>>
        BY <3>1 DEF IInv, ClosedDrained, IsClosed
      <4>2. taken \o <<>> \o <<>> = taken
        BY <1>t, ConcatEmptySeq DEF TypeOK
      <4>3. emitted = taken
        BY <4>1, <4>2 DEF IInv, InOrder
      <4> QED  BY <1>11, <4>1, <4>3 DEF Reap, ReapedDrained, telnetIn
    <3>2. CASE ~IsClosed
      BY <1>11, <3>2, QuietStep DEF Reap
    <3> QED  BY <3>1, <3>2
  <2> QED  BY <2>1, <2>2, <2>3 DEF IInv
<1>12. CASE Despawn
  <2>1. TypeOK'
    BY <1>t, <1>12 DEF Despawn, TypeOK, telnetIn
  <2>2. InOrder' /\ ClosedDrained' /\ ReapedDrained'
    BY <1>12, QuietStep DEF Despawn
  <2> QED  BY <2>1, <2>2 DEF IInv
<1>13. CASE Forward \/ FlushAndClose \/ WriteFails
  <2>1. TypeOK'
    BY <1>t, <1>13 DEF Forward, FlushAndClose, WriteFails, TypeOK, telnetIn
  <2>2. InOrder' /\ ClosedDrained' /\ ReapedDrained'
    BY <1>13, QuietStep DEF Forward, FlushAndClose, WriteFails
  <2> QED  BY <2>1, <2>2 DEF IInv
<1>14. CASE UNCHANGED vars
  <2>1. TypeOK'
    BY <1>t, <1>14 DEF vars, TypeOK, telnetIn
  <2>2. InOrder' /\ ClosedDrained' /\ ReapedDrained'
    BY <1>14, QuietStep DEF vars
  <2> QED  BY <2>1, <2>2 DEF IInv
<1> QED
  BY <1>1, <1>2, <1>3, <1>4, <1>5, <1>6, <1>7, <1>8, <1>9, <1>10, <1>11, <1>12,
     <1>13, <1>14 DEF Next

THEOREM Invariant == Spec => []IInv
BY InitIInv, StepIInv, PTL DEF Spec

-----------------------------------------------------------------------------
(* The theorems.                                                           *)

\* Every variable of the connection keeps its type.
THEOREM TypeCorrect == Spec => []TypeOK
<1>1. IInv => TypeOK
  BY DEF IInv
<1> QED  BY <1>1, Invariant, PTL

\* TelnetIn hands the game exactly what the read task sent, in order.
THEOREM OrderKept == Spec => []InOrder
<1>1. IInv => InOrder
  BY DEF IInv
<1> QED  BY <1>1, Invariant, PTL

\* TelnetIn::closed is never premature.
THEOREM ClosedFinal == Spec => []ClosedIsFinal
<1>1. IInv => ClosedIsFinal
  <2> SUFFICES ASSUME IInv, closed  PROVE reader = "done" /\ taken \o peek = emitted
    BY DEF ClosedIsFinal
  <2>1. reader = "done" /\ channel = <<>>
    BY DEF IInv, ClosedDrained
  <2>2. taken \o peek \in Seq(Event)
    BY ConcatProperties DEF IInv, TypeOK
  <2>3. (taken \o peek) \o <<>> = taken \o peek
    BY <2>2, ConcatEmptySeq
  <2> QED  BY <2>1, <2>3 DEF IInv, InOrder
<1> QED  BY <1>1, Invariant, PTL

\* reap_conns never loses a line or a telnet event the client sent.
THEOREM ReapLosesNothing == Spec => []ReapedDrained
<1>1. IInv => ReapedDrained
  BY DEF IInv
<1> QED  BY <1>1, Invariant, PTL

\* The write task has nothing left when it closes the socket, and gets nothing more:
\* the entity, whose TelnetOut alone could give it a reply, is gone by then.
THEOREM FlushedWhenClosed == Spec => []ClosedIsFlushed
<1>1. Init => ClosedIsFlushed
  BY DEF Init, ClosedIsFlushed
<1>2. TypeOK /\ ClosedIsFlushed /\ [Next]_vars => ClosedIsFlushed'
  <2> SUFFICES ASSUME TypeOK, ClosedIsFlushed, [Next]_vars PROVE ClosedIsFlushed'
    OBVIOUS
  <2>1. CASE \/ \E f \in Frame : PeerSend(f)
             \/ PeerHangUp \/ ReadData \/ ReadTelnet \/ EmitLine \/ ReadEnd
    <3>1. UNCHANGED <<outq, writer, conn>>
      BY <2>1 DEF PeerSend, PeerHangUp, ReadData, ReadTelnet, EmitLine, ReadEnd, game, output
    <3> QED
      BY <3>1 DEF ClosedIsFlushed
  <2>2. CASE HandleTelnet \/ RunCommand \/ CommandsDone \/ Login \/ Reap \/ Despawn
    <3>1. conn = "live" /\ writer' = writer
      BY <2>2 DEF HandleTelnet, RunCommand, CommandsDone, Login, Reap, Despawn, InPhase,
                  Reply, output
    <3> QED
      BY <3>1 DEF ClosedIsFlushed
  <2>3. CASE Forward \/ FlushAndClose \/ WriteFails
    <3>1. conn' = conn /\ (writer' = "closed" => writer = "run" /\ outq' = 0 /\ conn # "live")
      BY <2>3 DEF Forward, FlushAndClose, WriteFails, game
    <3> QED
      BY <3>1 DEF ClosedIsFlushed
  <2>4. CASE UNCHANGED vars
    BY <2>4 DEF vars, game, output, ClosedIsFlushed
  <2> QED
    BY <2>1, <2>2, <2>3, <2>4 DEF Next
<1> QED
  BY <1>1, <1>2, TypeCorrect, PTL DEF Spec

-----------------------------------------------------------------------------
(* The connection implements the abstract stream.                          *)

\* The first event of a stream the game has not taken yet.
LEMMA NextElement ==
  ASSUME NEW S, NEW s \in Seq(S), NEW t \in Seq(S), NEW u \in Seq(S), Len(t) = 1
  PROVE  /\ Len(s) < Len(s \o t \o u)
         /\ s \o t = Append(s, (s \o t \o u)[Len(s) + 1])
<1>0. Len(s) \in Nat /\ Len(u) \in Nat /\ 1 \in 1..Len(t)
  BY LenProperties
<1>1. /\ s \o t \in Seq(S) /\ Len(s \o t) = Len(s) + 1
      /\ (s \o t)[Len(s) + 1] = t[1]
      /\ \A i \in 1..Len(s) : (s \o t)[i] = s[i]
  <2>1. /\ s \o t \in Seq(S) /\ Len(s \o t) = Len(s) + Len(t)
        /\ \A i \in 1..Len(s) + Len(t) :
              (s \o t)[i] = IF i <= Len(s) THEN s[i] ELSE t[i - Len(s)]
    BY ConcatProperties, Zenon
  <2>2. Len(s) + 1 \in 1..Len(s) + Len(t) /\ ~(Len(s) + 1 <= Len(s))
        /\ (Len(s) + 1) - Len(s) = 1
    BY <1>0
  <2>3. (s \o t)[Len(s) + 1] = t[1]
    BY <2>1, <2>2
  <2>4. ASSUME NEW i \in 1..Len(s)  PROVE (s \o t)[i] = s[i]
    <3>1. i \in 1..Len(s) + Len(t) /\ i <= Len(s)
      BY <1>0
    <3> QED  BY <2>1, <3>1
  <2> QED  BY <2>1, <2>3, <2>4
<1>2. /\ Len((s \o t) \o u) = Len(s) + 1 + Len(u)
      /\ ((s \o t) \o u)[Len(s) + 1] = (s \o t)[Len(s) + 1]
  <2> DEFINE st == s \o t
  <2> HIDE DEF st
  <2>1. st \in Seq(S) /\ Len(st) = Len(s) + 1
    BY <1>1 DEF st
  <2>2. /\ Len(st \o u) = Len(st) + Len(u)
        /\ \A i \in 1..Len(st) + Len(u) :
              (st \o u)[i] = IF i <= Len(st) THEN st[i] ELSE u[i - Len(st)]
    BY <2>1, ConcatProperties, ZenonT(40)
  <2>3. Len(s) + 1 \in 1..Len(st) + Len(u) /\ Len(s) + 1 <= Len(st)
    BY <1>0, <2>1
  <2>4. Len(st \o u) = Len(s) + 1 + Len(u) /\ (st \o u)[Len(s) + 1] = st[Len(s) + 1]
    BY <2>1, <2>2, <2>3
  <2> QED  BY <2>4 DEF st
<1>3. t[1] \in S
  BY <1>0, ElementOfSeq, Zenon
<1>4. /\ Append(s, t[1]) \in Seq(S) /\ Len(Append(s, t[1])) = Len(s) + 1
      /\ Append(s, t[1])[Len(s) + 1] = t[1]
      /\ \A i \in 1..Len(s) : Append(s, t[1])[i] = s[i]
  BY <1>3, AppendProperties
<1>5. Append(s, t[1]) = s \o t
  <2>1. \A i \in 1..Len(s) + 1 : Append(s, t[1])[i] = (s \o t)[i]
    BY <1>1, <1>4
  <2> QED  BY <1>1, <1>4, <2>1, SeqEqual
<1> QED  BY <1>1, <1>2, <1>5

\* Taking the front event is receiving the next one.
LEMMA TakeReceives ==
  ASSUME TypeOK, InOrder, conn = "live", TakeFront, FrontEvent # <<>>,
         UNCHANGED <<emitted, reader, conn>>
  PROVE  Stream!Receive
<1>0. /\ channel \in Seq(Event) /\ taken \in Seq(Event)
      /\ peek \in Seq(Event) /\ Len(peek) <= 1
  BY DEF TypeOK
<1>1. /\ Len(taken) < Len(emitted)
      /\ taken \o FrontEvent = Append(taken, emitted[Len(taken) + 1])
  <2>1. CASE peek # <<>>
    <3>1. FrontEvent = peek
      BY <2>1 DEF FrontEvent
    <3>2. Len(peek) = 1
      BY <1>0, <2>1, EmptySeq
    <3> QED  BY <1>0, <3>1, <3>2, NextElement DEF InOrder
  <2>2. CASE peek = <<>>
    <3>1. channel # <<>> /\ FrontEvent = <<Head(channel)>>
      BY <2>2 DEF FrontEvent
    <3>2. /\ <<Head(channel)>> \in Seq(Event) /\ Tail(channel) \in Seq(Event)
          /\ (taken \o <<Head(channel)>>) \o Tail(channel) = taken \o channel
      BY <1>0, <3>1, ShiftHead
    <3>3. taken \o <<>> = taken
      BY <1>0, ConcatEmptySeq
    <3>4. emitted = taken \o <<Head(channel)>> \o Tail(channel)
      BY <2>2, <3>2, <3>3 DEF InOrder
    <3>5. Len(<<Head(channel)>>) = 1
      OBVIOUS
    <3> QED  BY <1>0, <3>1, <3>2, <3>4, <3>5, NextElement
  <2> QED  BY <2>1, <2>2
<1> QED  BY <1>1 DEF Stream!Receive, TakeFront

\* A send offers an event, or ends the stream when nobody is left to take it.
LEMMA SendOffers ==
  ASSUME TypeOK, reader = "run", NEW e \in Event, Send(e), UNCHANGED <<taken, conn>>
  PROVE  Stream!Offer \/ Stream!End
<1>0. emitted \in Seq(Event)
  BY DEF TypeOK
<1>1. CASE conn = "live"
  <2>1. emitted' = Append(emitted, e) /\ reader' = reader
    BY <1>1 DEF Send
  <2>2. /\ Append(emitted, e) \in Seq(Event)
        /\ Len(Append(emitted, e)) = Len(emitted) + 1
        /\ \A i \in 1..Len(emitted) : Append(emitted, e)[i] = emitted[i]
    BY <1>0, AppendProperties
  <2>3. SubSeq(Append(emitted, e), 1, Len(emitted)) = emitted
    <3> DEFINE start == SubSeq(Append(emitted, e), 1, Len(emitted))
    <3>1. \A i \in 1..Len(emitted) : Append(emitted, e)[i] \in Event
      BY <1>0, <2>2, ElementOfSeq
    <3>2. /\ start \in Seq(Event) /\ Len(start) = Len(emitted)
          /\ \A i \in 1..Len(emitted) : start[i] = Append(emitted, e)[i]
      BY <1>0, <3>1, SubSeqProperties
    <3> HIDE DEF start
    <3>3. start = emitted
      BY <1>0, <2>2, <3>2, SeqEqual
    <3> QED  BY <3>3 DEF start
  <2> QED  BY <1>1, <2>1, <2>2, <2>3 DEF Stream!Offer
<1>2. CASE conn # "live"
  BY <1>2 DEF Send, Stream!End
<1> QED  BY <1>1, <1>2

\* Every step of the connection is a step of the stream, or leaves it alone.
LEMMA StepRefines ==
  IInv /\ [Next]_vars => [Stream!Next]_<<emitted, taken, reader = "run", conn>>
<1> SUFFICES ASSUME IInv, [Next]_vars
             PROVE  Stream!Next \/ UNCHANGED <<emitted, taken, reader, conn>>
  OBVIOUS
<1>t. TypeOK /\ InOrder
  BY DEF IInv
<1> USE DEF socket, readTask, game, output
<1>1. CASE ReadTelnet
  <2>1. TelnetEvent(Head(wire).event) \in Event
    BY <1>t, <1>1, WireType DEF ReadTelnet, Frame, TelnetEvent, Event
  <2> QED  BY <1>t, <1>1, <2>1, SendOffers DEF ReadTelnet, Stream!Next
<1>2. CASE EmitLine
  <2> DEFINE line == SubSeq(buffer, 1, FirstEnd(buffer))
  <2>1. buffer \in Seq(Byte) /\ FirstEnd(buffer) \in 1..Len(buffer)
    BY <1>t, <1>2, FirstEndType DEF EmitLine, TypeOK
  <2>2. line \in Seq(Byte)
    BY <2>1, SubSeqProperties
  <2>3. LineEvent(Stripped(line)) \in Event
    BY <2>2, StrippedType DEF LineEvent, Event
  <2> QED  BY <1>t, <1>2, <2>3, SendOffers DEF EmitLine, Stream!Next
<1>3. CASE ReadEnd
  BY <1>3 DEF ReadEnd, telnetIn, Stream!Next, Stream!End
<1>4. CASE TakeFront /\ FrontEvent # <<>> /\ conn = "live" /\ UNCHANGED <<emitted, reader, conn>>
  BY <1>t, <1>4, TakeReceives DEF Stream!Next
<1>5. CASE Reap
  <2>1. CASE IsClosed
    <3>1. reader = "done" /\ channel = <<>> /\ peek = <<>>
      BY <2>1 DEF IInv, ClosedDrained, IsClosed
    <3>2. taken \o <<>> \o <<>> = taken
      BY <1>t, ConcatEmptySeq DEF TypeOK
    <3>3. emitted = taken
      BY <1>t, <3>1, <3>2 DEF InOrder
    <3> QED  BY <1>5, <2>1, <3>1, <3>3 DEF Reap, InPhase, telnetIn, Stream!Reap, Stream!Next
  <2> QED  BY <1>5, <2>1 DEF Reap, telnetIn
<1>6. CASE Despawn
  BY <1>6 DEF Despawn, InPhase, telnetIn, Stream!Despawn, Stream!Next
<1>7. CASE UNCHANGED <<emitted, taken, reader, conn>>
  BY <1>7
<1>8. CASE HandleTelnet \/ RunCommand \/ CommandsDone \/ Login
  BY <1>4, <1>8 DEF HandleTelnet, RunCommand, CommandsDone, Login, InPhase, telnetIn,
                    FrontEventIs, KeepFront
<1>9. CASE \/ \E f \in Frame : PeerSend(f)
           \/ PeerHangUp \/ ReadData \/ Forward \/ FlushAndClose \/ WriteFails
           \/ UNCHANGED vars
  BY <1>7, <1>9 DEF PeerSend, PeerHangUp, ReadData, Forward, FlushAndClose, WriteFails,
                    telnetIn, vars
<1> QED
  BY <1>1, <1>2, <1>3, <1>5, <1>6, <1>8, <1>9 DEF Next

\* The connection, its peek slot and its closed flag included, is a stream that
\* hands over each event once and in order and is reaped only when drained.
THEOREM Implements == Spec => StreamSpec
<1>1. Init => Stream!Init
  BY DEF Init, Stream!Init
<1>2. IInv /\ [Next]_vars => [Stream!Next]_Stream!svars
  BY StepRefines DEF Stream!svars
<1> QED  BY <1>1, <1>2, Invariant, PTL DEF Spec, StreamSpec, Stream!Spec

-----------------------------------------------------------------------------
(* What is heard of a stream.  The recursion over the bytes exists and is  *)
(* unique, by induction; all else follows from it by exhibiting functions  *)
(* that satisfy it.                                                        *)

\* A set of naturals that holds 0 and every successor holds every natural.
LEMMA SetInduction ==
  ASSUME NEW S, 0 \in S, \A n \in Nat : n \in S => n + 1 \in S
  PROVE  Nat \subseteq S
<1>1. SUFFICES ASSUME Nat \ S # {}  PROVE FALSE
  OBVIOUS
<1>2. PICK n \in Nat \ S : \A m \in Nat \ S : n <= m
  BY <1>1, LeastElement
<1>3. n # 0 /\ n - 1 \in Nat
  BY <1>2
<1>4. n - 1 \in S
  BY <1>2, <1>3
<1> QED  BY <1>2, <1>3, <1>4

\* f is what is known after each element of q, from s.
Follows(f, step, s, q, S) ==
  /\ f \in [0..Len(q) -> S] /\ f[0] = s
  /\ \A n \in 1..Len(q) : f[n] = step[<<f[n - 1], q[n]>>]

LEMMA FollowsExists ==
  ASSUME NEW S, NEW X, NEW step \in [S \X X -> S], NEW s \in S, NEW q \in Seq(X)
  PROVE  \E f : Follows(f, step, s, q, S)
<1> DEFINE Partly(f, n) == /\ f \in [0..Len(q) -> S] /\ f[0] = s
                           /\ \A i \in 1..Len(q) : i <= n => f[i] = step[<<f[i - 1], q[i]>>]
           I == {n \in Nat : \E f : Partly(f, n)}
<1>0. Len(q) \in Nat /\ \A i \in 1..Len(q) : q[i] \in X
  OBVIOUS
<1>1. 0 \in I
  <2> DEFINE f == [n \in 0..Len(q) |-> s]
  <2>1. Partly(f, 0)
    BY <1>0
  <2> QED  BY <2>1
<1>2. ASSUME NEW n \in Nat, n \in I  PROVE n + 1 \in I
  <2>1. PICK f : Partly(f, n)
    BY <1>2
  <2> DEFINE next == IF n + 1 \in 1..Len(q) THEN step[<<f[n], q[n + 1]>>] ELSE s
             g == [f EXCEPT ![n + 1] = next]
  <2>2. next \in S
    BY <1>0, <2>1
  <2>3. g \in [0..Len(q) -> S] /\ \A i \in 0..Len(q) : g[i] = IF i = n + 1 THEN next ELSE f[i]
    BY <2>1, <2>2
  <2>4. n + 1 \in 1..Len(q) => next = step[<<f[n], q[n + 1]>>]
    OBVIOUS
  <2> HIDE DEF g, next
  <2>5. ASSUME NEW i \in 1..Len(q), i <= n + 1  PROVE g[i] = step[<<g[i - 1], q[i]>>]
    <3>1. i - 1 \in 0..Len(q) /\ i - 1 # n + 1 /\ i \in 0..Len(q)
      BY <1>0, <2>5
    <3>2. g[i - 1] = f[i - 1]
      BY <2>3, <3>1
    <3>3. CASE i = n + 1
      BY <2>3, <2>4, <3>1, <3>2, <3>3
    <3>4. CASE i # n + 1
      BY <2>1, <2>3, <2>5, <3>1, <3>2, <3>4
    <3> QED  BY <3>3, <3>4
  <2>6. g[0] = s
    BY <1>0, <2>1, <2>3
  <2>7. Partly(g, n + 1)
    BY <2>3, <2>5, <2>6
  <2> HIDE DEF Partly
  <2> QED  BY <2>7
<1>3. Nat \subseteq I
  <2> HIDE DEF I
  <2> QED  BY <1>1, <1>2, SetInduction
<1>4. PICK f : Partly(f, Len(q))
  BY <1>0, <1>3
<1>5. Follows(f, step, s, q, S)
  BY <1>0, <1>4 DEF Follows
<1> QED  BY <1>5

State == [events : Seq(Event), rest : Seq(Byte)]

\* Trimming a line yields a line: what precedes its last other byte, if any.
LEMMA TrimmedIs ==
  ASSUME NEW line \in Seq(Byte)
  PROVE  \E n \in 0..Len(line) :
           /\ Trimmed(line) = SubSeq(line, 1, n)
           /\ \A i \in n+1..Len(line) : line[i] = CR
           /\ n # 0 => line[n] # CR
<1> DEFINE text == {i \in DOMAIN line : line[i] # CR}
           last == CHOOSE i \in text : \A j \in text : i >= j
<1>1. CASE text = {}
  <2>1. Trimmed(line) = <<>> /\ SubSeq(line, 1, 0) = <<>>
    BY <1>1 DEF Trimmed
  <2>2. \A i \in 0+1..Len(line) : line[i] = CR
    BY <1>1
  <2> QED  BY <2>1, <2>2
<1>2. CASE text # {}
  <2>1. \E i \in text : \A j \in text : i >= j
    <3> DEFINE up == {Len(line) - i : i \in text}
    <3>1. up \in SUBSET Nat /\ up # {}
      BY <1>2
    <3> HIDE DEF up
    <3>2. PICK m \in up : \A k \in up : m <= k
      BY <3>1, LeastElement
    <3>3. PICK i \in text : m = Len(line) - i
      BY <3>2 DEF up
    <3>4. \A j \in text : Len(line) - j \in up
      BY DEF up
    <3>5. \A j \in text : i >= j
      BY <3>2, <3>3, <3>4
    <3> QED  BY <3>5
  <2>2. last \in text /\ \A j \in text : last >= j
    <3> HIDE DEF text
    <3> QED  BY <2>1
  <2>3. Trimmed(line) = SubSeq(line, 1, last)
    BY <1>2 DEF Trimmed
  <2> HIDE DEF last
  <2>4. last \in 1..Len(line) /\ line[last] # CR
    BY <2>2
  <2>5. \A i \in last+1..Len(line) : line[i] = CR
    BY <2>2, <2>4
  <2> QED  BY <2>3, <2>4, <2>5
<1> QED  BY <1>1, <1>2

LEMMA HearsType ==
  ASSUME NEW s \in State, NEW byte \in Byte
  PROVE  Hears(s, byte) \in State
<1>1. s.events \in Seq(Event) /\ s.rest \in Seq(Byte)
  BY DEF State
<1>2. Trimmed(s.rest) \in Seq(Byte)
  <2>1. PICK n \in 0..Len(s.rest) : Trimmed(s.rest) = SubSeq(s.rest, 1, n)
    BY <1>1, TrimmedIs
  <2> QED  BY <1>1, <2>1, SubSeqProperties
<1>3. LineEvent(Trimmed(s.rest)) \in Event
  BY <1>2 DEF LineEvent, Event
<1>4. Append(s.events, LineEvent(Trimmed(s.rest))) \in Seq(Event)
  BY <1>1, <1>3, AppendProperties
<1>5. Append(s.rest, byte) \in Seq(Byte)
  BY <1>1, AppendProperties
<1>6. <<>> \in Seq(Byte)
  BY EmptySeq
<1>7. CASE byte = NL
  BY <1>4, <1>6, <1>7 DEF Hears, State
<1>8. CASE byte # NL
  BY <1>5, <1>8 DEF Hears, State
<1> QED  BY <1>7, <1>8

\* f is what is known after each byte, from s.
After(f, s, bytes) ==
  f = [n \in 0..Len(bytes) |-> IF n = 0 THEN s ELSE Hears(f[n - 1], bytes[n])]

LEMMA AfterUnique ==
  ASSUME NEW bytes \in Seq(Byte), NEW s, NEW f, NEW g, After(f, s, bytes), After(g, s, bytes)
  PROVE  f[Len(bytes)] = g[Len(bytes)]
<1> DEFINE I == {n \in Nat : n <= Len(bytes) => f[n] = g[n]}
<1>0. Len(bytes) \in Nat
  OBVIOUS
<1>1. \A n \in 0..Len(bytes) : /\ f[n] = IF n = 0 THEN s ELSE Hears(f[n - 1], bytes[n])
                               /\ g[n] = IF n = 0 THEN s ELSE Hears(g[n - 1], bytes[n])
  BY DEF After
<1>2. 0 \in I
  BY <1>0, <1>1
<1>3. ASSUME NEW n \in Nat, n \in I  PROVE n + 1 \in I
  <2> SUFFICES ASSUME n + 1 <= Len(bytes)  PROVE f[n + 1] = g[n + 1]
    OBVIOUS
  <2>1. f[n] = g[n] /\ n + 1 \in 0..Len(bytes) /\ n + 1 # 0 /\ (n + 1) - 1 = n
    BY <1>0, <1>3
  <2>2. f[n + 1] = Hears(f[n], bytes[n + 1]) /\ g[n + 1] = Hears(g[n], bytes[n + 1])
    BY <1>1, <2>1
  <2> QED  BY <2>1, <2>2
<1>4. Nat \subseteq I
  <2> HIDE DEF I
  <2> QED  BY <1>2, <1>3, SetInduction
<1> QED  BY <1>0, <1>4

LEMMA HearingIs ==
  ASSUME NEW bytes \in Seq(Byte), NEW s, NEW f, After(f, s, bytes)
  PROVE  Hearing(s, bytes) = f[Len(bytes)]
<1> DEFINE g == CHOOSE g : After(g, s, bytes)
<1>1. After(g, s, bytes)
  OBVIOUS
<1>2. Hearing(s, bytes) = g[Len(bytes)]
  BY DEF Hearing, After
<1> HIDE DEF g
<1> QED  BY <1>1, <1>2, AfterUnique

LEMMA AfterExists ==
  ASSUME NEW bytes \in Seq(Byte), NEW s \in State
  PROVE  \E f \in [0..Len(bytes) -> State] : After(f, s, bytes)
<1> DEFINE step == [p \in State \X Byte |-> Hears(p[1], p[2])]
<1>1. step \in [State \X Byte -> State]
  BY HearsType
<1>2. \A t \in State, b \in Byte : step[<<t, b>>] = Hears(t, b)
  OBVIOUS
<1> HIDE DEF step
<1>3. PICK f : Follows(f, step, s, bytes, State)
  BY <1>1, FollowsExists
<1>4. f \in [0..Len(bytes) -> State] /\ f[0] = s /\ Len(bytes) \in Nat
  BY <1>3 DEF Follows
<1>5. \A n \in 1..Len(bytes) : f[n] = Hears(f[n - 1], bytes[n])
  <2> SUFFICES ASSUME NEW n \in 1..Len(bytes)  PROVE f[n] = Hears(f[n - 1], bytes[n])
    OBVIOUS
  <2>1. f[n - 1] \in State /\ bytes[n] \in Byte
    BY <1>4
  <2> QED  BY <1>2, <1>3, <2>1 DEF Follows
<1>6. \A n \in 0..Len(bytes) : f[n] = IF n = 0 THEN s ELSE Hears(f[n - 1], bytes[n])
  BY <1>4, <1>5
<1>7. f = [n \in 0..Len(bytes) |-> f[n]]
  BY <1>4
<1>8. After(f, s, bytes)
  <2>1. [n \in 0..Len(bytes) |-> f[n]]
          = [n \in 0..Len(bytes) |-> IF n = 0 THEN s ELSE Hears(f[n - 1], bytes[n])]
    BY <1>6
  <2> QED  BY <1>7, <2>1 DEF After
<1> QED  BY <1>4, <1>8

\* What is heard of a run of bytes is a state of the reader.
LEMMA HearingType ==
  ASSUME NEW bytes \in Seq(Byte), NEW s \in State
  PROVE  Hearing(s, bytes) \in State
<1>1. PICK f \in [0..Len(bytes) -> State] : After(f, s, bytes)
  BY AfterExists
<1>2. Hearing(s, bytes) = f[Len(bytes)] /\ Len(bytes) \in 0..Len(bytes)
  BY <1>1, HearingIs
<1> QED  BY <1>2

\* A function that hears byte after byte ends with what is heard.
LEMMA AfterByStep ==
  ASSUME NEW bytes \in Seq(Byte), NEW s, NEW S, NEW f \in [0..Len(bytes) -> S], f[0] = s,
         \A n \in 1..Len(bytes) : f[n] = Hears(f[n - 1], bytes[n])
  PROVE  Hearing(s, bytes) = f[Len(bytes)]
<1>1. \A n \in 0..Len(bytes) : f[n] = IF n = 0 THEN s ELSE Hears(f[n - 1], bytes[n])
  OBVIOUS
<1>2. f = [n \in 0..Len(bytes) |-> f[n]]
  OBVIOUS
<1>3. [n \in 0..Len(bytes) |-> f[n]]
        = [n \in 0..Len(bytes) |-> IF n = 0 THEN s ELSE Hears(f[n - 1], bytes[n])]
  BY <1>1
<1>4. After(f, s, bytes)
  BY <1>2, <1>3 DEF After
<1> QED  BY <1>4, HearingIs

\* Hearing one run of bytes and then another is hearing them joined.
LEMMA HearingJoin ==
  ASSUME NEW b \in Seq(Byte), NEW c \in Seq(Byte), NEW s \in State
  PROVE  Hearing(s, b \o c) = Hearing(Hearing(s, b), c)
<1> DEFINE bc == b \o c
<1>1. /\ bc \in Seq(Byte) /\ Len(bc) = Len(b) + Len(c) /\ Len(b) \in Nat /\ Len(c) \in Nat
      /\ \A i \in 1..Len(b) : bc[i] = b[i]
      /\ \A i \in 1..Len(c) : bc[Len(b) + i] = c[i]
  OBVIOUS
<1> HIDE DEF bc
<1>2. PICK f \in [0..Len(bc) -> State] : After(f, s, bc)
  BY <1>1, AfterExists
<1>3. Hearing(s, bc) = f[Len(bc)]
  BY <1>1, <1>2, HearingIs
<1>4. \A n \in 0..Len(bc) : f[n] = IF n = 0 THEN s ELSE Hears(f[n - 1], bc[n])
  BY <1>2 DEF After
<1> DEFINE g == [n \in 0..Len(b) |-> f[n]]
           h == [n \in 0..Len(c) |-> f[Len(b) + n]]
<1>5. g \in [0..Len(b) -> State] /\ g[0] = s /\ g[Len(b)] = f[Len(b)]
  BY <1>1, <1>4
<1>6. \A n \in 1..Len(b) : g[n] = Hears(g[n - 1], b[n])
  <2> SUFFICES ASSUME NEW n \in 1..Len(b)  PROVE g[n] = Hears(g[n - 1], b[n])
    OBVIOUS
  <2>1. n \in 0..Len(bc) /\ n # 0 /\ n - 1 \in 0..Len(b) /\ n \in 0..Len(b) /\ bc[n] = b[n]
    BY <1>1
  <2> QED  BY <1>4, <2>1
<1>7. h \in [0..Len(c) -> State] /\ h[0] = f[Len(b)] /\ h[Len(c)] = f[Len(bc)]
  BY <1>1
<1>8. \A n \in 1..Len(c) : h[n] = Hears(h[n - 1], c[n])
  <2> SUFFICES ASSUME NEW n \in 1..Len(c)  PROVE h[n] = Hears(h[n - 1], c[n])
    OBVIOUS
  <2>1. /\ Len(b) + n \in 0..Len(bc) /\ Len(b) + n # 0 /\ (Len(b) + n) - 1 = Len(b) + (n - 1)
        /\ n - 1 \in 0..Len(c) /\ n \in 0..Len(c) /\ bc[Len(b) + n] = c[n]
    BY <1>1
  <2>2. f[Len(b) + n] = Hears(f[Len(b) + (n - 1)], c[n])
    BY <1>4, <2>1
  <2> QED  BY <2>1, <2>2
<1> HIDE DEF g, h
<1>9. Hearing(s, b) = f[Len(b)]
  BY <1>5, <1>6, AfterByStep
<1>10. Hearing(f[Len(b)], c) = f[Len(bc)]
  BY <1>7, <1>8, AfterByStep
<1> QED  BY <1>3, <1>9, <1>10 DEF bc

\* Bytes without a line feed complete no line.
LEMMA HearingText ==
  ASSUME NEW bytes \in Seq(Byte), LineEnds(bytes) = {}, NEW E \in Seq(Event)
  PROVE  Hearing([events |-> E, rest |-> <<>>], bytes) = [events |-> E, rest |-> bytes]
<1> DEFINE f == [n \in 0..Len(bytes) |-> [events |-> E, rest |-> SubSeq(bytes, 1, n)]]
<1>0. Len(bytes) \in Nat
  OBVIOUS
<1>1. \A n \in 0..Len(bytes) : SubSeq(bytes, 1, n) \in Seq(Byte)
  BY SubSeqProperties
<1>2. f \in [0..Len(bytes) -> State]
  BY <1>1 DEF State
<1>3. f[0] = [events |-> E, rest |-> <<>>]
  <2>1. SubSeq(bytes, 1, 0) = <<>>
    OBVIOUS
  <2> QED  BY <1>0, <2>1
<1>4. f[Len(bytes)] = [events |-> E, rest |-> bytes]
  BY <1>0, SubSeqFull
<1>5. \A n \in 1..Len(bytes) : f[n] = Hears(f[n - 1], bytes[n])
  <2> SUFFICES ASSUME NEW n \in 1..Len(bytes)  PROVE f[n] = Hears(f[n - 1], bytes[n])
    OBVIOUS
  <2>1. bytes[n] # NL
    BY DEF LineEnds
  <2>2. SubSeq(bytes, 1, n) = Append(SubSeq(bytes, 1, n - 1), bytes[n])
    BY <1>0
  <2>3. n - 1 \in 0..Len(bytes) /\ n \in 0..Len(bytes)
    BY <1>0
  <2>4. \A i \in 0..Len(bytes) : f[i] = [events |-> E, rest |-> SubSeq(bytes, 1, i)]
    OBVIOUS
  <2> HIDE DEF f
  <2>5. f[n - 1] = [events |-> E, rest |-> SubSeq(bytes, 1, n - 1)]
    BY <2>3, <2>4
  <2>6. f[n] = [events |-> E, rest |-> Append(SubSeq(bytes, 1, n - 1), bytes[n])]
    BY <2>2, <2>3, <2>4
  <2> DEFINE before == SubSeq(bytes, 1, n - 1)
  <2> HIDE DEF before
  <2>7. Hears([events |-> E, rest |-> before], bytes[n])
          = [events |-> E, rest |-> Append(before, bytes[n])]
    BY <2>1 DEF Hears
  <2> QED  BY <2>5, <2>6, <2>7 DEF before
<1> HIDE DEF f
<1> QED  BY <1>2, <1>3, <1>4, <1>5, AfterByStep

\* Stripping a line with its line feed is trimming it without.
LEMMA StrippedIsTrimmed ==
  ASSUME NEW text \in Seq(Byte), LineEnds(text) = {}
  PROVE  Stripped(Append(text, NL)) = Trimmed(text)
<1> DEFINE line == Append(text, NL)
           ends == {n \in 0..Len(line) : \A i \in n+1..Len(line) : line[i] \in {CR, NL}}
<1>1. PICK n \in 0..Len(text) :
        /\ Trimmed(text) = SubSeq(text, 1, n)
        /\ \A i \in n+1..Len(text) : text[i] = CR
        /\ n # 0 => text[n] # CR
  BY TrimmedIs
<1>2. /\ Len(text) \in Nat /\ Len(line) = Len(text) + 1 /\ line[Len(text) + 1] = NL
      /\ \A i \in 1..Len(text) : line[i] = text[i]
  OBVIOUS
<1>3. \A i \in 1..Len(text) : text[i] # NL
  BY DEF LineEnds
<1>4. n \in ends
  BY <1>1, <1>2
<1>5. \A m \in ends : n <= m
  <2> SUFFICES ASSUME NEW m \in ends, m < n  PROVE FALSE
    BY <1>1, <1>2
  <2>1. n \in m+1..Len(line) /\ n \in 1..Len(text)
    BY <1>1, <1>2
  <2>2. line[n] \in {CR, NL}
    BY <2>1
  <2> QED  BY <1>1, <1>2, <1>3, <2>1, <2>2
<1>6. TextLength(line) = n
  <2>1. TextLength(line) = CHOOSE k \in ends : \A m \in ends : k <= m
    BY DEF TextLength
  <2>2. \A k \in ends : (\A m \in ends : k <= m) => k = n
    <3> SUFFICES ASSUME NEW k \in ends, \A m \in ends : k <= m  PROVE k = n
      OBVIOUS
    <3>1. k \in Nat /\ n \in Nat
      BY <1>1, <1>2
    <3> HIDE DEF ends
    <3>2. k <= n /\ n <= k
      BY <1>4, <1>5
    <3> QED  BY <3>1, <3>2
  <2> HIDE DEF ends
  <2> QED  BY <1>4, <1>5, <2>1, <2>2
<1>7. SubSeq(line, 1, n) = SubSeq(text, 1, n)
  BY <1>1, <1>2
<1> QED  BY <1>1, <1>6, <1>7 DEF Stripped

LEMMA HearingOne ==
  ASSUME NEW s \in State, NEW byte \in Byte
  PROVE  Hearing(s, <<byte>>) = Hears(s, byte)
<1> DEFINE one == <<byte>>
           f == [n \in 0..Len(one) |-> IF n = 0 THEN s ELSE Hears(s, byte)]
<1>1. one \in Seq(Byte) /\ Len(one) = 1 /\ one[1] = byte
  OBVIOUS
<1> HIDE DEF one
<1>2. Hears(s, byte) \in State
  BY HearsType
<1>3. f \in [0..Len(one) -> State]
  BY <1>2
<1>4. f[0] = s /\ f[1] = Hears(s, byte)
  BY <1>1
<1> HIDE DEF f
<1>5. \A n \in 1..Len(one) : f[n] = Hears(f[n - 1], one[n])
  <2> SUFFICES ASSUME NEW n \in 1..Len(one)  PROVE f[n] = Hears(f[n - 1], one[n])
    OBVIOUS
  <2>1. n = 1 /\ n - 1 = 0
    BY <1>1
  <2> QED  BY <1>1, <1>4, <2>1
<1>6. Hearing(s, one) = f[Len(one)]
  BY <1>1, <1>3, <1>4, <1>5, AfterByStep
<1> QED  BY <1>1, <1>4, <1>6 DEF one

\* The read task cuts a line out of its buffer as the reader would hear it.
LEMMA HearingLine ==
  ASSUME NEW bytes \in Seq(Byte), LineEnds(bytes) # {}, NEW E \in Seq(Event)
  PROVE  LET end == FirstEnd(bytes)
             E2 == Append(E, LineEvent(Stripped(SubSeq(bytes, 1, end))))
         IN  Hearing([events |-> E, rest |-> <<>>], bytes)
               = Hearing([events |-> E2, rest |-> <<>>], SubSeq(bytes, end + 1, Len(bytes)))
<1> DEFINE end == FirstEnd(bytes)
           text == SubSeq(bytes, 1, end - 1)
           rest == SubSeq(bytes, end + 1, Len(bytes))
           E2 == Append(E, LineEvent(Trimmed(text)))
<1>1. end \in LineEnds(bytes) /\ \A j \in LineEnds(bytes) : end <= j
  <2>1. LineEnds(bytes) \in SUBSET Nat
    BY DEF LineEnds
  <2>2. \E i \in LineEnds(bytes) : \A j \in LineEnds(bytes) : i <= j
    BY <2>1, LeastElement
  <2> QED  BY <2>2 DEF FirstEnd
<1> HIDE DEF end
<1>2. end \in 1..Len(bytes) /\ bytes[end] = NL /\ Len(bytes) \in Nat
  BY <1>1 DEF LineEnds
<1>3. /\ text \in Seq(Byte) /\ Len(text) = end - 1
      /\ \A i \in 1..end-1 : text[i] = bytes[i]
  BY <1>2
<1>4. rest \in Seq(Byte)
  BY <1>2, SubSeqProperties
<1> HIDE DEF text
<1>5. LineEnds(text) = {}
  <2> SUFFICES ASSUME NEW i \in LineEnds(text)  PROVE FALSE
    OBVIOUS
  <2>1. i \in 1..end-1 /\ text[i] = NL
    BY <1>2, <1>3 DEF LineEnds
  <2>2. i \in LineEnds(bytes) /\ i < end
    BY <1>2, <1>3, <2>1 DEF LineEnds
  <2> QED  BY <1>1, <1>2, <2>1, <2>2
<1>6. SubSeq(bytes, 1, end) = Append(text, NL) /\ Append(text, NL) = text \o <<NL>>
  <2>1. SubSeq(bytes, 1, end) = SubSeq(bytes, 1, end - 1) \o <<bytes[end]>>
    BY <1>2, SubSeqRecursiveSecond
  <2>2. Append(text, NL) = text \o <<NL>>
    BY <1>3
  <2> QED  BY <1>2, <2>1, <2>2 DEF text
<1>7. NL \in Byte /\ <<NL>> \in Seq(Byte) /\ text \o <<NL>> \in Seq(Byte)
  <2>1. NL \in Byte
    BY DEF Byte
  <2>2. <<NL>> \in Seq(Byte)
    BY <2>1
  <2> QED  BY <1>3, <2>1, <2>2, ConcatProperties
<1>8. bytes = (text \o <<NL>>) \o rest
  <2> DEFINE line == SubSeq(bytes, 1, end)
  <2>1. line \in Seq(Byte) /\ Len(line) = end /\ \A i \in 1..end : line[i] = bytes[i]
    BY <1>2
  <2>2. Len(rest) = Len(bytes) - end /\ \A i \in 1..Len(bytes) - end : rest[i] = bytes[end + i]
    BY <1>2
  <2> HIDE DEF line, rest
  <2>3. /\ line \o rest \in Seq(Byte)
        /\ Len(line \o rest) = Len(line) + Len(rest)
        /\ \A i \in 1..Len(line) + Len(rest) :
             (line \o rest)[i] = IF i <= Len(line) THEN line[i] ELSE rest[i - Len(line)]
    BY <1>4, <2>1, ConcatProperties
  <2>4. Len(line \o rest) = Len(bytes) /\ Len(line) + Len(rest) = Len(bytes)
    BY <1>2, <2>1, <2>2, <2>3
  <2>5. \A i \in 1..Len(bytes) : (line \o rest)[i] = bytes[i]
    <3> SUFFICES ASSUME NEW i \in 1..Len(bytes)  PROVE (line \o rest)[i] = bytes[i]
      OBVIOUS
    <3>1. i \in Int /\ end \in Int /\ (i <= end \/ ~(i <= end))
      BY <1>2
    <3>2. CASE i <= end
      BY <2>1, <2>3, <2>4, <3>1, <3>2
    <3>3. CASE ~(i <= end)
      <4>1. i - end \in 1..Len(bytes) - end /\ i = end + (i - end)
        BY <1>2, <3>3
      <4>2. (line \o rest)[i] = rest[i - end]
        BY <2>1, <2>3, <2>4, <3>3
      <4>3. rest[i - end] = bytes[end + (i - end)]
        BY <2>2, <4>1
      <4> QED  BY <4>1, <4>2, <4>3
    <3> QED  BY <3>1, <3>2, <3>3
  <2>6. line \o rest = bytes
    BY <2>3, <2>4, <2>5, SeqEqual
  <2> QED  BY <1>6, <2>6 DEF line
<1> HIDE DEF rest
<1> DEFINE start == [events |-> E, rest |-> <<>>]
<1>9. start \in State
  <2>1. <<>> \in Seq(Byte)
    OBVIOUS
  <2> QED  BY <2>1 DEF State
<1>10. Hearing(start, text) = [events |-> E, rest |-> text]
  BY <1>3, <1>5, HearingText
<1>11. [events |-> E, rest |-> text] \in State
  BY <1>3 DEF State
<1>12. Hears([events |-> E, rest |-> text], NL) = [events |-> E2, rest |-> <<>>]
  BY DEF Hears
<1> HIDE DEF start, E2
<1>13. Hearing(start, text \o <<NL>>) = [events |-> E2, rest |-> <<>>]
  <2>1. Hearing(start, text \o <<NL>>) = Hearing(Hearing(start, text), <<NL>>)
    BY <1>3, <1>7, <1>9, HearingJoin
  <2>2. Hearing([events |-> E, rest |-> text], <<NL>>) = Hears([events |-> E, rest |-> text], NL)
    BY <1>7, <1>11, HearingOne
  <2> QED  BY <1>10, <1>12, <2>1, <2>2
<1>14. Hearing(start, bytes) = Hearing([events |-> E2, rest |-> <<>>], rest)
  <2>1. Hearing(start, (text \o <<NL>>) \o rest) = Hearing(Hearing(start, text \o <<NL>>), rest)
    BY <1>4, <1>7, <1>9, HearingJoin
  <2> QED  BY <1>8, <1>13, <2>1
<1>15. Stripped(SubSeq(bytes, 1, end)) = Trimmed(text)
  BY <1>3, <1>5, <1>6, StrippedIsTrimmed
<1> QED  BY <1>14, <1>15 DEF start, rest, E2, end

\* The same of whole frames.
LEMMA HearsFrameType ==
  ASSUME NEW s \in State, NEW f \in Frame
  PROVE  HearsFrame(s, f) \in State
<1>1. CASE f.kind = "data"
  <2>1. f.data \in Seq(Byte)
    BY <1>1, ConnAssumption DEF Frame
  <2> QED  BY <1>1, <2>1, HearingType DEF HearsFrame
<1>2. CASE f.kind # "data"
  <2>1. TelnetEvent(f.event) \in Event
    BY <1>2 DEF Frame, TelnetEvent, Event
  <2>2. s.events \in Seq(Event) /\ s.rest \in Seq(Byte)
    BY DEF State
  <2>3. Append(s.events, TelnetEvent(f.event)) \in Seq(Event)
    BY <2>1, <2>2, AppendProperties
  <2> QED  BY <1>2, <2>2, <2>3 DEF HearsFrame, State
<1> QED  BY <1>1, <1>2

AfterFrames(f, frames) ==
  f = [n \in 0..Len(frames) |->
         IF n = 0 THEN NothingHeard ELSE HearsFrame(f[n - 1], frames[n])]

LEMMA HeardIs ==
  ASSUME NEW frames \in Seq(Frame), NEW f, AfterFrames(f, frames)
  PROVE  Heard(frames) = f[Len(frames)]
<1> DEFINE g == CHOOSE g : AfterFrames(g, frames)
<1>1. AfterFrames(g, frames)
  OBVIOUS
<1>2. Heard(frames) = g[Len(frames)]
  BY DEF Heard, AfterFrames
<1> HIDE DEF g
<1> DEFINE I == {n \in Nat : n <= Len(frames) => f[n] = g[n]}
<1>3. Len(frames) \in Nat
  OBVIOUS
<1>4. \A n \in 0..Len(frames) :
        /\ f[n] = IF n = 0 THEN NothingHeard ELSE HearsFrame(f[n - 1], frames[n])
        /\ g[n] = IF n = 0 THEN NothingHeard ELSE HearsFrame(g[n - 1], frames[n])
  BY <1>1 DEF AfterFrames
<1>5. 0 \in I
  BY <1>3, <1>4
<1>6. ASSUME NEW n \in Nat, n \in I  PROVE n + 1 \in I
  <2> SUFFICES ASSUME n + 1 <= Len(frames)  PROVE f[n + 1] = g[n + 1]
    OBVIOUS
  <2>1. f[n] = g[n] /\ n + 1 \in 0..Len(frames) /\ n + 1 # 0 /\ (n + 1) - 1 = n
    BY <1>3, <1>6
  <2>2. /\ f[n + 1] = HearsFrame(f[n], frames[n + 1])
        /\ g[n + 1] = HearsFrame(g[n], frames[n + 1])
    BY <1>4, <2>1
  <2> QED  BY <2>1, <2>2
<1>7. Nat \subseteq I
  <2> HIDE DEF I
  <2> QED  BY <1>5, <1>6, SetInduction
<1> QED  BY <1>2, <1>3, <1>7

LEMMA AfterFramesExists ==
  ASSUME NEW frames \in Seq(Frame)
  PROVE  \E f \in [0..Len(frames) -> State] : AfterFrames(f, frames)
<1> DEFINE step == [p \in State \X Frame |-> HearsFrame(p[1], p[2])]
<1>1. step \in [State \X Frame -> State]
  BY HearsFrameType
<1>2. \A t \in State, b \in Frame : step[<<t, b>>] = HearsFrame(t, b)
  OBVIOUS
<1>3. NothingHeard \in State
  <2>1. <<>> \in Seq(Byte) /\ <<>> \in Seq(Event)
    OBVIOUS
  <2> QED  BY <2>1 DEF NothingHeard, State
<1> HIDE DEF step
<1>4. PICK f : Follows(f, step, NothingHeard, frames, State)
  BY <1>1, <1>3, FollowsExists
<1>5. f \in [0..Len(frames) -> State] /\ f[0] = NothingHeard /\ Len(frames) \in Nat
  BY <1>4 DEF Follows
<1>6. \A n \in 1..Len(frames) : f[n] = HearsFrame(f[n - 1], frames[n])
  <2> SUFFICES ASSUME NEW n \in 1..Len(frames)
               PROVE  f[n] = HearsFrame(f[n - 1], frames[n])
    OBVIOUS
  <2>1. f[n - 1] \in State /\ frames[n] \in Frame
    BY <1>5
  <2> QED  BY <1>2, <1>4, <2>1 DEF Follows
<1>7. \A n \in 0..Len(frames) :
        f[n] = IF n = 0 THEN NothingHeard ELSE HearsFrame(f[n - 1], frames[n])
  BY <1>5, <1>6
<1>8. f = [n \in 0..Len(frames) |-> f[n]]
  BY <1>5
<1>9. AfterFrames(f, frames)
  <2>1. [n \in 0..Len(frames) |-> f[n]]
          = [n \in 0..Len(frames) |->
               IF n = 0 THEN NothingHeard ELSE HearsFrame(f[n - 1], frames[n])]
    BY <1>7
  <2> QED  BY <1>8, <2>1 DEF AfterFrames
<1> QED  BY <1>5, <1>9

LEMMA HeardType ==
  ASSUME NEW frames \in Seq(Frame)
  PROVE  Heard(frames) \in State
<1>1. PICK f \in [0..Len(frames) -> State] : AfterFrames(f, frames)
  BY AfterFramesExists
<1>2. Heard(frames) = f[Len(frames)] /\ Len(frames) \in 0..Len(frames)
  BY <1>1, HeardIs
<1> QED  BY <1>2

LEMMA HeardNone == Heard(<<>>) = NothingHeard
<1>1. <<>> \in Seq(Frame) /\ Len(<<>>) = 0
  OBVIOUS
<1>2. PICK f \in [0..Len(<<>>) -> State] : AfterFrames(f, <<>>)
  BY <1>1, AfterFramesExists
<1>3. Heard(<<>>) = f[0]
  BY <1>1, <1>2, HeardIs
<1>4. f[0] = NothingHeard
  BY <1>1, <1>2 DEF AfterFrames
<1> QED  BY <1>3, <1>4

\* A frame more is heard after what was heard before it.
LEMMA HeardAppend ==
  ASSUME NEW frames \in Seq(Frame), NEW x \in Frame
  PROVE  Heard(Append(frames, x)) = HearsFrame(Heard(frames), x)
<1> DEFINE more == Append(frames, x)
<1>1. /\ more \in Seq(Frame) /\ Len(frames) \in Nat /\ Len(more) = Len(frames) + 1
      /\ more[Len(frames) + 1] = x /\ \A i \in 1..Len(frames) : more[i] = frames[i]
  OBVIOUS
<1> HIDE DEF more
<1>2. PICK f \in [0..Len(more) -> State] : AfterFrames(f, more)
  BY <1>1, AfterFramesExists
<1>3. Heard(more) = f[Len(more)]
  BY <1>1, <1>2, HeardIs
<1>4. \A n \in 0..Len(more) :
        f[n] = IF n = 0 THEN NothingHeard ELSE HearsFrame(f[n - 1], more[n])
  BY <1>2 DEF AfterFrames
<1> DEFINE g == [n \in 0..Len(frames) |-> f[n]]
<1>5. \A n \in 0..Len(frames) :
        g[n] = IF n = 0 THEN NothingHeard ELSE HearsFrame(g[n - 1], frames[n])
  <2> SUFFICES ASSUME NEW n \in 0..Len(frames)
               PROVE  g[n] = IF n = 0 THEN NothingHeard ELSE HearsFrame(g[n - 1], frames[n])
    OBVIOUS
  <2>1. n \in 0..Len(more) /\ (n # 0 => n - 1 \in 0..Len(frames) /\ more[n] = frames[n])
    BY <1>1
  <2> QED  BY <1>4, <2>1
<1>6. AfterFrames(g, frames)
  <2>1. g = [n \in 0..Len(frames) |-> g[n]]
    OBVIOUS
  <2> HIDE DEF g
  <2>2. [n \in 0..Len(frames) |-> g[n]]
          = [n \in 0..Len(frames) |->
               IF n = 0 THEN NothingHeard ELSE HearsFrame(g[n - 1], frames[n])]
    BY <1>5
  <2> QED  BY <2>1, <2>2 DEF AfterFrames
<1>7. Heard(frames) = g[Len(frames)]
  <2> HIDE DEF g
  <2> QED  BY <1>6, HeardIs
<1>8. g[Len(frames)] = f[Len(frames)]
  BY <1>1
<1>9. f[Len(more)] = HearsFrame(f[Len(frames)], x)
  <2>1. Len(more) \in 0..Len(more) /\ Len(more) # 0 /\ Len(more) - 1 = Len(frames)
    BY <1>1
  <2> QED  BY <1>1, <1>4, <2>1
<1> QED  BY <1>3, <1>7, <1>8, <1>9 DEF more

-----------------------------------------------------------------------------
(* LinesAreWhole.  While the read task runs, also the line it is in is the *)
(* one the reader of the stream is in; what ends it drops only that.       *)

Unsent == Hearing([events |-> emitted, rest |-> <<>>], buffer)
Whole == /\ LinesAreWhole
         /\ conn = "live" /\ reader = "run" => Unsent = Heard(read)

LEMMA InitWhole == Init => Whole
<1> SUFFICES ASSUME Init  PROVE Whole
  OBVIOUS
<1>1. emitted = <<>> /\ buffer = <<>> /\ read = <<>>
  BY DEF Init
<1>2. <<>> \in Seq(Byte) /\ <<>> \in Seq(Event) /\ LineEnds(<<>>) = {}
  BY DEF LineEnds
<1>3. Hearing(NothingHeard, <<>>) = NothingHeard
  BY <1>2, HearingText DEF NothingHeard
<1> QED  BY <1>1, <1>3, HeardNone DEF Whole, LinesAreWhole, Unsent, NothingHeard

LEMMA StepWhole == IInv /\ Whole /\ [Next]_vars => Whole'
<1> SUFFICES ASSUME IInv, Whole, [Next]_vars, conn' = "live"
             PROVE  /\ Unsent'.events = Heard(read').events
                    /\ reader' = "run" => Unsent' = Heard(read')
  BY DEF Whole, LinesAreWhole, Unsent
<1>0. conn = "live"
  BY DEF Next, vars, PeerSend, PeerHangUp, ReadData, ReadTelnet, EmitLine, ReadEnd, HandleTelnet,
         RunCommand, CommandsDone, Login, Reap, Despawn, Forward, FlushAndClose, WriteFails,
         game, InPhase
<1>t. /\ TypeOK /\ emitted \in Seq(Event) /\ buffer \in Seq(Byte) /\ read \in Seq(Frame)
      /\ wire \in Seq(Frame)
  BY DEF IInv, TypeOK
<1>w. /\ Unsent.events = Heard(read).events
      /\ reader = "run" => Unsent = Heard(read)
  BY <1>0 DEF Whole, LinesAreWhole, Unsent
<1>s. [events |-> emitted, rest |-> <<>>] \in State
  <2>1. <<>> \in Seq(Byte)
    OBVIOUS
  <2> QED  BY <1>t, <2>1 DEF State
<1> DEFINE frame == Head(wire)
<1>1. CASE ReadData
  <2>1. frame \in Frame /\ frame.kind = "data"
    BY <1>t, <1>1, WireType DEF ReadData
  <2>2. frame.data \in Seq(Byte)
    BY <2>1, ConnAssumption DEF Frame
  <2>3. Hearing([events |-> emitted, rest |-> <<>>], buffer \o frame.data)
          = Hearing(Unsent, frame.data)
    BY <1>t, <1>s, <2>2, HearingJoin DEF Unsent
  <2>4. Unsent' = Hearing([events |-> emitted, rest |-> <<>>], buffer \o frame.data)
    BY <1>1 DEF ReadData, Unsent
  <2>5. Heard(Append(read, frame)) = HearsFrame(Heard(read), frame)
    BY <1>t, <2>1, HeardAppend
  <2>6. HearsFrame(Heard(read), frame) = Hearing(Heard(read), frame.data)
    BY <2>1 DEF HearsFrame
  <2>7. read' = Append(read, frame) /\ reader = "run"
    BY <1>1 DEF ReadData
  <2> QED  BY <1>w, <2>3, <2>4, <2>5, <2>6, <2>7
<1>2. CASE ReadTelnet
  <2>1. frame \in Frame /\ frame.kind = "telnet"
    BY <1>t, <1>2, WireType DEF ReadTelnet
  <2> DEFINE event == TelnetEvent(frame.event)
  <2>2. /\ reader = "run" /\ LineEnds(buffer) = {} /\ read' = Append(read, frame)
        /\ buffer' = buffer /\ emitted' = Append(emitted, event)
    BY <1>0, <1>2 DEF ReadTelnet, Send
  <2>3. event \in Event
    BY <2>1 DEF Frame, TelnetEvent, Event
  <2> HIDE DEF event
  <2>4. Append(emitted, event) \in Seq(Event)
    BY <1>t, <2>3, AppendProperties
  <2>5. Unsent = [events |-> emitted, rest |-> buffer]
    BY <1>t, <2>2, HearingText DEF Unsent
  <2>6. Unsent' = [events |-> Append(emitted, event), rest |-> buffer]
    <3>1. Hearing([events |-> Append(emitted, event), rest |-> <<>>], buffer)
            = [events |-> Append(emitted, event), rest |-> buffer]
      BY <1>t, <2>2, <2>4, HearingText
    <3> QED  BY <2>2, <3>1 DEF Unsent
  <2>7. Heard(read') = HearsFrame(Heard(read), frame)
    BY <1>t, <2>1, <2>2, HeardAppend
  <2>8. HearsFrame([events |-> emitted, rest |-> buffer], frame)
          = [events |-> Append(emitted, event), rest |-> buffer]
    BY <2>1 DEF HearsFrame, event
  <2> QED  BY <1>w, <2>2, <2>5, <2>6, <2>7, <2>8
<1>3. CASE EmitLine
  <2> DEFINE end == FirstEnd(buffer)
             event == LineEvent(Stripped(SubSeq(buffer, 1, end)))
  <2>1. /\ reader = "run" /\ LineEnds(buffer) # {} /\ read' = read
        /\ buffer' = SubSeq(buffer, end + 1, Len(buffer)) /\ emitted' = Append(emitted, event)
    BY <1>0, <1>3 DEF EmitLine, Send
  <2>2. Unsent = Hearing([events |-> Append(emitted, event), rest |-> <<>>],
                         SubSeq(buffer, end + 1, Len(buffer)))
    BY <1>t, <2>1, HearingLine DEF Unsent
  <2>3. Unsent' = Unsent
    BY <2>1, <2>2 DEF Unsent
  <2> QED  BY <1>w, <2>1, <2>3
<1>4. CASE ReadEnd
  <2>1. /\ reader' = "done" /\ LineEnds(buffer) = {} /\ read' = read
        /\ buffer' = <<>> /\ emitted' = emitted
    BY <1>4 DEF ReadEnd
  <2>2. Unsent = [events |-> emitted, rest |-> buffer]
    BY <1>t, <2>1, HearingText DEF Unsent
  <2>3. Unsent' = [events |-> emitted, rest |-> <<>>]
    <3>1. <<>> \in Seq(Byte) /\ LineEnds(<<>>) = {}
      BY DEF LineEnds
    <3>2. Hearing([events |-> emitted, rest |-> <<>>], <<>>) = [events |-> emitted, rest |-> <<>>]
      BY <1>t, <3>1, HearingText
    <3> QED  BY <2>1, <3>2 DEF Unsent
  <2> QED  BY <1>w, <2>1, <2>2, <2>3
<1>5. CASE UNCHANGED readTask
  BY <1>w, <1>5 DEF readTask, Unsent
<1>6. CASE \/ \E f \in Frame : PeerSend(f)
           \/ PeerHangUp \/ HandleTelnet \/ RunCommand \/ CommandsDone \/ Login \/ Reap \/ Despawn
           \/ Forward \/ FlushAndClose \/ WriteFails \/ UNCHANGED vars
  BY <1>5, <1>6 DEF PeerSend, PeerHangUp, HandleTelnet, RunCommand, CommandsDone, Login, Reap,
                    Despawn, Forward, FlushAndClose, WriteFails, vars
<1> QED  BY <1>1, <1>2, <1>3, <1>4, <1>6 DEF Next

\* Every line and telnet event of what the client sent is passed on once, whole
\* and in order, wherever the frames cut the bytes.
THEOREM LinesAlwaysWhole == Spec => []LinesAreWhole
<1>1. Whole => LinesAreWhole
  BY DEF Whole
<1> QED  BY <1>1, InitWhole, StepWhole, Invariant, PTL DEF Spec
=============================================================================
