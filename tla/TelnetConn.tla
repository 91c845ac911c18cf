------------------------------ MODULE TelnetConn ------------------------------
(***************************************************************************)
(* One client connection of src/net.rs, from the client's socket to the    *)
(* game systems that read lines from it.                                   *)
(*                                                                         *)
(* Three tasks run concurrently: the read task and the write task that     *)
(* handle_conn spawns on the IO pool, and the frame loop of the Bevy app,  *)
(* whose schedules First, PreUpdate, Update and Last run in turn.  They    *)
(* share two unbounded channels: read task -> TelnetIn, TelnetOut -> write *)
(* task.  An option (TelnetIn::peek) is a sequence of at most one element. *)
(***************************************************************************)
EXTENDS Integers, Sequences

CONSTANTS
  Char,         \* the printable bytes a client may type
  CR, NL,       \* carriage return and line feed
  Telnet,       \* telnet commands, negotiations and subnegotiations
  DoGmcp,       \* the negotiation that enables GMCP
  DataFrames,   \* the runs of bytes one decoded Data event may carry
  MaxFrames     \* bound: how many frames the client sends in all

Byte == Char \cup {CR, NL}

ASSUME ConnAssumption ==
  /\ CR # NL
  /\ {CR, NL} \cap Char = {}
  /\ DoGmcp \in Telnet
  /\ DataFrames \subseteq Seq(Byte)
  /\ MaxFrames \in Nat

\* What the telnet decoder yields for the bytes of the socket.
Frame == [kind : {"data"}, data : DataFrames] \cup [kind : {"telnet"}, event : Telnet]

\* What the read task sends to TelnetIn: whole lines, and telnet events.
Event == [kind : {"line"}, line : Seq(Byte)] \cup [kind : {"telnet"}, event : Telnet]

VARIABLES
  peer,      \* the client's end of the socket: "open", "closed", "reset"
  wire,      \* frames the client sent and the read task has not decoded
  read,      \* history: frames the read task has decoded
  reader,    \* the read task: "run", "done" (its sender is dropped)
  buffer,    \* bytes of the line the read task is assembling
  channel,   \* the read task's channel
  emitted,   \* history: everything sent on that channel
  peek,      \* TelnetIn::peek
  closed,    \* TelnetIn::closed
  taken,     \* history: what next_line and next_telnet have returned
  gmcp,      \* the GMCP component
  conn,      \* the connection entity: "live", "reaped", "despawned"
  stage,     \* who reads its lines: "new", "start", "asking", "session", "game"
  phase,     \* the schedule the frame loop is in
  outq,      \* replies in the channel of the write task
  writer     \* the write task: "run", "closed" (after a flush), "failed"

socket == <<peer, wire>>
readTask == <<read, reader, buffer, emitted>>
telnetIn == <<channel, peek, closed, taken>>
game == <<gmcp, conn, stage, phase>>
output == <<outq, writer>>
vars == <<socket, readTask, telnetIn, game, output>>

TypeOK ==
  /\ peer \in {"open", "closed", "reset"}
  /\ wire \in Seq(Frame)
  /\ read \in Seq(Frame)
  /\ reader \in {"run", "done"}
  /\ buffer \in Seq(Byte)
  /\ channel \in Seq(Event)
  /\ emitted \in Seq(Event)
  /\ peek \in Seq(Event) /\ Len(peek) <= 1
  /\ closed \in BOOLEAN
  /\ taken \in Seq(Event)
  /\ gmcp \in BOOLEAN
  /\ conn \in {"live", "reaped", "despawned"}
  /\ stage \in {"new", "start", "asking", "session", "game"}
  /\ phase \in {"First", "PreUpdate", "Update", "Last"}
  /\ outq \in Nat
  /\ writer \in {"run", "closed", "failed"}

\* The first frame in which the game can see the connection.
Init ==
  /\ peer = "open" /\ wire = <<>>
  /\ read = <<>> /\ reader = "run" /\ buffer = <<>> /\ emitted = <<>>
  /\ channel = <<>> /\ peek = <<>> /\ closed = FALSE /\ taken = <<>>
  /\ gmcp = FALSE /\ conn = "live" /\ stage = "new" /\ phase = "First"
  /\ outq = 0 /\ writer = "run"

-----------------------------------------------------------------------------
(* The client.                                                             *)

PeerSend(f) ==
  /\ peer = "open"
  /\ Len(read) + Len(wire) < MaxFrames
  /\ wire' = Append(wire, f)
  /\ UNCHANGED <<peer, readTask, telnetIn, game, output>>

\* Hanging up lets the frames in flight arrive; a reset may overtake them.
PeerHangUp ==
  /\ peer = "open"
  /\ peer' \in {"closed", "reset"}
  /\ UNCHANGED <<wire, readTask, telnetIn, game, output>>

-----------------------------------------------------------------------------
(* The read task of handle_conn.                                           *)

LineEnds(bytes) == {i \in 1..Len(bytes) : bytes[i] = NL}

\* Mutant: the buffer is split at its last line feed (rposition).
LastEnd(bytes) == CHOOSE i \in LineEnds(bytes) : \A j \in LineEnds(bytes) : i >= j

\* The bytes up to and including the first line feed: split_to(i + 1).
FirstEnd(bytes) == CHOOSE i \in LineEnds(bytes) : \A j \in LineEnds(bytes) : i <= j

\* How much of a line precedes the carriage returns and line feeds it ends with.
TextLength(line) ==
  LET ends == {n \in 0..Len(line) : \A i \in n+1..Len(line) : line[i] \in {CR, NL}}
  IN  CHOOSE n \in ends : \A m \in ends : n <= m
Stripped(line) == SubSeq(line, 1, TextLength(line))

LineEvent(line) == [kind |-> "line", line |-> line]
TelnetEvent(event) == [kind |-> "telnet", event |-> event]

\* read_tx.send fails once the entity, and with it the receiver, is gone: the
\* task then breaks out of its loop, dropping the sender.
Send(e) ==
  IF conn = "live"
  THEN /\ channel' = Append(channel, e)
       /\ emitted' = Append(emitted, e)
       /\ UNCHANGED reader
  ELSE /\ reader' = "done"
       /\ UNCHANGED <<channel, emitted>>

ReadData ==
  /\ reader = "run" /\ LineEnds(buffer) = {}
  /\ wire # <<>> /\ Head(wire).kind = "data"
  /\ buffer' = buffer \o Head(wire).data
  /\ read' = Append(read, Head(wire))
  /\ wire' = Tail(wire)
  /\ UNCHANGED <<peer, reader, emitted, telnetIn, game, output>>

ReadTelnet ==
  /\ reader = "run" /\ LineEnds(buffer) = {}
  /\ wire # <<>> /\ Head(wire).kind = "telnet"
  /\ Send(TelnetEvent(Head(wire).event))
  /\ read' = Append(read, Head(wire))
  /\ wire' = Tail(wire)
  /\ UNCHANGED <<peer, buffer, peek, closed, taken, game, output>>

EmitLine ==
  /\ reader = "run" /\ LineEnds(buffer) # {}
  /\ LET end == FirstEnd(buffer) IN
       /\ Send(LineEvent(Stripped(SubSeq(buffer, 1, end))))
       /\ buffer' = SubSeq(buffer, end + 1, Len(buffer))
  /\ UNCHANGED <<socket, read, peek, closed, taken, game, output>>

\* End of file or a socket error; what is left in the buffer is dropped.
ReadEnd ==
  /\ reader = "run" /\ LineEnds(buffer) = {}
  /\ \/ peer = "closed" /\ wire = <<>>
     \/ peer = "reset"
  /\ reader' = "done" /\ buffer' = <<>>
  /\ UNCHANGED <<socket, read, emitted, telnetIn, game, output>>

-----------------------------------------------------------------------------
(* TelnetIn.                                                               *)

\* TelnetIn::update: the front event, and whether the end was noticed.
FrontEvent == IF peek # <<>> \/ channel = <<>> THEN peek ELSE <<Head(channel)>>

\* Mutants: the early return is missing; Empty is taken for Disconnected; the
\* channel is called closed before it is drained; Disconnected is ignored.
UpdateUnguarded ==
  /\ channel' = IF channel = <<>> THEN channel ELSE Tail(channel)
  /\ closed' = (closed \/ (peek = <<>> /\ channel = <<>> /\ reader = "done"))
UpdateEmptyCloses ==
  /\ channel' = IF peek # <<>> \/ channel = <<>> THEN channel ELSE Tail(channel)
  /\ closed' = (closed \/ (peek = <<>> /\ channel = <<>>))
UpdateEagerClose ==
  /\ channel' = IF peek # <<>> \/ channel = <<>> THEN channel ELSE Tail(channel)
  /\ closed' = (closed \/ (peek = <<>> /\ reader = "done"))
UpdateNoClose ==
  /\ channel' = IF peek # <<>> \/ channel = <<>> THEN channel ELSE Tail(channel)
  /\ UNCHANGED closed

Update ==
  /\ channel' = IF peek # <<>> \/ channel = <<>> THEN channel ELSE Tail(channel)
  /\ closed' = (closed \/ (peek = <<>> /\ channel = <<>> /\ reader = "done"))

FrontEventIs(kind) == FrontEvent # <<>> /\ Head(FrontEvent).kind = kind

\* TelnetIn::next: take the front event if it is wanted, or put it back.
TakeFront == Update /\ peek' = <<>> /\ taken' = taken \o FrontEvent
KeepFront == Update /\ peek' = FrontEvent /\ UNCHANGED taken

IsClosed == closed /\ peek = <<>>

-----------------------------------------------------------------------------
(* The frame loop.                                                         *)

InPhase(p) == conn = "live" /\ phase = p

\* TelnetOut::line and friends drop the text once the write task has ended.
Reply(n) == outq' = (IF writer = "run" THEN outq + n ELSE outq) /\ UNCHANGED writer

\* First: telnet_handler looks only at an event already in peek, and
\* gmcp_observer reacts to it.
HandleTelnet ==
  /\ InPhase("First")
  /\ phase' = "PreUpdate"
  /\ IF peek # <<>> /\ FrontEventIs("telnet")
     THEN TakeFront /\ gmcp' = (gmcp \/ Head(peek).event = DoGmcp)
     ELSE UNCHANGED <<telnetIn, gmcp>>
  /\ UNCHANGED <<socket, readTask, conn, stage, output>>

\* PreUpdate: one turn of the loop of game_commands_system.
RunCommand ==
  /\ InPhase("PreUpdate") /\ stage = "game"
  /\ FrontEventIs("line")
  /\ TakeFront
  /\ Reply(1)
  /\ UNCHANGED <<socket, readTask, game>>

\* PreUpdate: the loop ends, or the connection has no command set yet and
\* add_command_sets_system gives it one.
CommandsDone ==
  /\ InPhase("PreUpdate")
  /\ phase' = "Update"
  /\ \/ stage = "game" /\ ~FrontEventIs("line") /\ KeepFront /\ UNCHANGED <<stage, output>>
     \/ stage = "session" /\ stage' = "game" /\ Reply(1) /\ UNCHANGED telnetIn
     \/ stage \notin {"session", "game"} /\ UNCHANGED <<stage, telnetIn, output>>
  /\ UNCHANGED <<socket, readTask, gmcp, conn>>

\* Update: greeter, then login_system, which takes at most one line a frame.
Login ==
  /\ InPhase("Update")
  /\ phase' = "Last"
  /\ \/ stage = "new" /\ stage' = "start" /\ Reply(1) /\ UNCHANGED telnetIn
     \/ stage = "start" /\ stage' = "asking" /\ Reply(1) /\ UNCHANGED telnetIn
     \/ /\ stage = "asking" /\ FrontEventIs("line")
        /\ TakeFront
        /\ stage' \in {"start", "asking", "session"}
        /\ Reply(1)
     \/ stage = "asking" /\ ~FrontEventIs("line") /\ KeepFront /\ UNCHANGED <<stage, output>>
     \/ stage \in {"session", "game"} /\ UNCHANGED <<stage, telnetIn, output>>
  /\ UNCHANGED <<socket, readTask, gmcp, conn>>

\* Mutant: the end of the read task is taken for the end of the input.
ReapEager ==
  /\ InPhase("Last")
  /\ phase' = "First"
  /\ conn' = IF reader = "done" THEN "reaped" ELSE conn
  /\ UNCHANGED <<socket, readTask, telnetIn, gmcp, stage, output>>

\* Last: reap_conns.
Reap ==
  /\ InPhase("Last")
  /\ phase' = "First"
  /\ conn' = IF IsClosed THEN "reaped" ELSE conn
  /\ UNCHANGED <<socket, readTask, telnetIn, gmcp, stage, output>>

\* PreUpdate: some administrator's @despawn names this connection.
Despawn ==
  /\ InPhase("PreUpdate")
  /\ conn' = "despawned"
  /\ UNCHANGED <<socket, readTask, telnetIn, gmcp, stage, phase, output>>

FrameStep == HandleTelnet \/ RunCommand \/ CommandsDone \/ Login \/ Reap

-----------------------------------------------------------------------------
(* The write task of handle_conn.                                          *)

\* Mutant: the write task does not wait for a reply.
ForwardUnguarded ==
  /\ writer = "run"
  /\ outq' = outq - 1
  /\ UNCHANGED <<writer, socket, readTask, telnetIn, game>>

Forward ==
  /\ writer = "run" /\ outq > 0
  /\ outq' = outq - 1
  /\ UNCHANGED <<writer, socket, readTask, telnetIn, game>>

\* Mutant: the socket is closed as soon as the sender is gone.
CloseUnflushed ==
  /\ writer = "run" /\ conn # "live"
  /\ writer' = "closed"
  /\ UNCHANGED <<outq, socket, readTask, telnetIn, game>>

\* The stream ends when the entity's TelnetOut, the last sender, is dropped.
FlushAndClose ==
  /\ writer = "run" /\ outq = 0 /\ conn # "live"
  /\ writer' = "closed"
  /\ UNCHANGED <<outq, socket, readTask, telnetIn, game>>

WriteFails ==
  /\ writer = "run" /\ peer # "open"
  /\ outq > 0 \/ conn # "live"
  /\ writer' = "failed" /\ outq' = 0
  /\ UNCHANGED <<socket, readTask, telnetIn, game>>

-----------------------------------------------------------------------------
ReadStep == ReadData \/ ReadTelnet \/ EmitLine \/ ReadEnd
WriteStep == Forward \/ FlushAndClose \/ WriteFails

Next ==
  \/ \E f \in Frame : PeerSend(f)
  \/ PeerHangUp
  \/ ReadData \/ ReadTelnet \/ EmitLine \/ ReadEnd
  \/ HandleTelnet \/ RunCommand \/ CommandsDone \/ Login \/ Reap \/ Despawn
  \/ Forward \/ FlushAndClose \/ WriteFails

\* Each task is polled until it has nothing to do, and the app loops.
Fairness == WF_vars(ReadStep) /\ WF_vars(FrameStep) /\ WF_vars(WriteStep)

Spec == Init /\ [][Next]_vars /\ Fairness

-----------------------------------------------------------------------------
(* Properties.                                                             *)

\* Between the read task and the game no event is lost, duplicated or
\* reordered, although TelnetIn::next takes events out and puts them back.
InOrder == emitted = taken \o peek \o channel

\* closed() is never premature: once it holds the read task has ended and
\* the game has had every event, also the ones that arrived after the last
\* poll of the channel.
ClosedIsFinal == closed => reader = "done" /\ taken \o peek = emitted

\* reap_conns despawns a connection only after the game has taken everything
\* the client managed to send.
ReapedDrained == conn = "reaped" => reader = "done" /\ taken = emitted

\* What TelnetIn promises the game, whatever its peek and closed do.
Stream == INSTANCE EventStream WITH
            offered <- emitted, received <- taken,
            open <- (reader = "run"), consumer <- conn
StreamSpec == Stream!Spec

\* A connection whose client has hung up is eventually despawned, and both of
\* its tasks end, whatever is left unread in front of it.
HangUpEndsAll ==
  peer # "open" ~> conn # "live" /\ reader = "done" /\ writer # "run"

\* The write task does not close the socket on replies it still holds.
ClosedIsFlushed == writer = "closed" => outq = 0 /\ conn # "live"
-----------------------------------------------------------------------------
(* What the game should hear of a stream: a reader that takes it byte by   *)
(* byte, with what it has understood and the line it is in.                *)

NothingHeard == [events |-> <<>>, rest |-> <<>>]

\* A line without the carriage returns it ends with.
Trimmed(line) ==
  LET text == {i \in DOMAIN line : line[i] # CR}
  IN  IF text = {} THEN <<>>
      ELSE SubSeq(line, 1, CHOOSE i \in text : \A j \in text : i >= j)

Hears(s, byte) ==
  IF byte = NL THEN [events |-> Append(s.events, LineEvent(Trimmed(s.rest))), rest |-> <<>>]
  ELSE [s EXCEPT !.rest = Append(@, byte)]

Hearing(s, bytes) ==
  LET after[n \in 0..Len(bytes)] == IF n = 0 THEN s ELSE Hears(after[n - 1], bytes[n])
  IN  after[Len(bytes)]

\* Of whole frames, as the telnet decoder yields them.
HearsFrame(s, f) ==
  IF f.kind = "data" THEN Hearing(s, f.data)
  ELSE [s EXCEPT !.events = Append(@, TelnetEvent(f.event))]

Heard(frames) ==
  LET after[n \in 0..Len(frames)] ==
        IF n = 0 THEN NothingHeard ELSE HearsFrame(after[n - 1], frames[n])
  IN  after[Len(frames)]

\* Every line the client completed and every telnet event reaches TelnetIn once,
\* whole and in order, however the bytes were cut into frames: what the read task
\* has sent, with what its buffer still gives, is what was heard.
LinesAreWhole ==
  conn = "live" =>
    Hearing([events |-> emitted, rest |-> <<>>], buffer).events = Heard(read).events
=============================================================================
