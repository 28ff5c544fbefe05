------------------------------- MODULE Frames -------------------------------
(***************************************************************************)
(* The WebSocket frames of one connection (internal/ws/websocket.go): the  *)
(* lengths in their headers, the two goroutines of the server that write   *)
(* frames under Conn.mu and may block on a client that does not read, and  *)
(* ReadText, which answers pings and hands over texts.                     *)
(*                                                                         *)
(* What a text says is the business of Socket; here every text of the      *)
(* client is answered by one text, a command when it ends, if it does.     *)
(***************************************************************************)
EXTENDS Integers, Sequences

CONSTANTS
  Sizes,     \* the lengths of the texts, in bytes
  Pings,     \* the lengths of the pings
  Window,    \* the chunks the network holds for a client that is not reading
  MaxPolls,  \* bound on the frames the poller sends
  MaxSent    \* bound on the frames the client sends

ASSUME FramesAssumption ==
  /\ Sizes \subseteq Nat /\ Pings \subseteq Nat
  /\ Window \in Nat \ {0} /\ MaxPolls \in Nat /\ MaxSent \in Nat

Text == 1
CloseFrame == 8
Ping == 9
Pong == 10

-----------------------------------------------------------------------------
(* The header: two bytes and, from 126 on, a length of two or eight more.  *)

ShiftByte(n) == n \div 256
LowByte(n) == n % 256

PutUint16(n) == <<LowByte(ShiftByte(n)), LowByte(n)>>

PutUint64(n) ==
  LET n1 == ShiftByte(n)
      n2 == ShiftByte(n1)
      n3 == ShiftByte(n2)
      n4 == ShiftByte(n3)
      n5 == ShiftByte(n4)
      n6 == ShiftByte(n5)
      n7 == ShiftByte(n6)
  IN <<LowByte(n7), LowByte(n6), LowByte(n5), LowByte(n4),
       LowByte(n3), LowByte(n2), LowByte(n1), LowByte(n)>>

Uint16(b) == b[1] * 256 + b[2]

Uint64(b) ==
  ((((((b[1] * 256 + b[2]) * 256 + b[3]) * 256 + b[4]) * 256 + b[5]) * 256 + b[6])
     * 256 + b[7]) * 256 + b[8]

Header(opcode, n) ==
  CASE n < 126 -> <<128 + opcode, n>>
    [] n >= 126 /\ n <= 65535 -> <<128 + opcode, 126>> \o PutUint16(n)
    [] OTHER -> <<128 + opcode, 127>> \o PutUint64(n)

(* What readFrame takes from a header (less the mask): a frame in parts is *)
(* refused, the seven bits of the second byte are a length or its size.    *)
Final(h) == h[1] >= 128
Opcode(h) == h[1] % 16
Length(h) ==
  LET seven == h[2] % 128
      more == SubSeq(h, 3, Len(h))
  IN IF seven < 126 THEN seven
     ELSE IF seven = 126 THEN Uint16(more) ELSE Uint64(more)

(* The header of a client: the mask bit is set, a long length has 8 bytes. *)
ClientHeader(final, opcode, n) ==
  LET first == opcode + IF final THEN 128 ELSE 0
  IN IF n < 126 THEN <<first, 128 + n>> ELSE <<first, 255>> \o PutUint64(n)

-----------------------------------------------------------------------------
(* A frame crosses the network in chunks: its header, a tuple of bytes,    *)
(* and parts of its payload, of which only the size matters.               *)

Payload(n) ==
  CASE n = 0 -> <<>>
    [] n = 1 -> <<1>>
    [] OTHER -> <<(n + 1) \div 2, n \div 2>>

Chunks == [header : Seq(Nat), bytes : Nat]

Chunk(header, n) == [header |-> header, bytes |-> n]

Frame(opcode, n) ==
  LET body == Payload(n)
  IN <<Chunk(Header(opcode, n), 0)>> \o [i \in 1 .. Len(body) |-> Chunk(<<>>, body[i])]

(* What a client makes of a chunk: a header where a frame may begin, of a  *)
(* pong only with the payload of its oldest ping, or bytes of the frame.   *)
Parse(view, chunk) ==
  LET h == chunk.header
      pong == h # <<>> /\ Opcode(h) = Pong
  IN [sane |-> /\ view.sane
               /\ h # <<>> => Final(h) /\ view.missing = 0
               /\ h = <<>> => chunk.bytes <= view.missing
               /\ pong => view.pings # <<>> /\ Head(view.pings) = Length(h),
      missing |-> IF h # <<>> THEN Length(h) ELSE view.missing - chunk.bytes,
      pings |-> IF pong /\ view.pings # <<>> THEN Tail(view.pings) ELSE view.pings]

-----------------------------------------------------------------------------
Goroutines == {"reader", "poller"}
NoOne == "nobody"

VARIABLES
  pc,       \* "ready", "lock" (wants Conn.mu), "write" (has it), "over",
            \* and the reader "command": it executes one for its client
  out,      \* the chunks each goroutine has yet to write
  mu,       \* who holds Conn.mu
  conn,     \* "up", "closed" by the server, "lost" with the client
  pipe,     \* the chunks on their way to the client
  view,     \* what the client has read: the rest of a frame, pings to answer
  reading,  \* the client reads what it is sent
  inbox,    \* the headers on their way to the server
  sent,     \* frames the client sent
  polls     \* frames the poller sent

client == <<view, reading, inbox, sent>>
vars == <<pc, out, mu, conn, pipe, client, polls>>

Init ==
  /\ pc = [g \in Goroutines |-> "ready"]
  /\ out = [g \in Goroutines |-> <<>>]
  /\ mu = NoOne
  /\ conn = "up"
  /\ pipe = <<>>
  /\ view = [sane |-> TRUE, missing |-> 0, pings |-> <<>>]
  /\ reading = TRUE
  /\ inbox = <<>>
  /\ sent = 0
  /\ polls = 0

Goto(g, label) == pc' = [pc EXCEPT ![g] = label]

-----------------------------------------------------------------------------
(* writeFrame.                                                             *)

Send(g, opcode, n) ==
  /\ Goto(g, "lock")
  /\ out' = [out EXCEPT ![g] = Frame(opcode, n)]

(* Mutant of Lock: frames are written without the mutex.                   *)
LockNothing(g) ==
  /\ pc[g] = "lock"
  /\ Goto(g, "write")
  /\ UNCHANGED <<mu, out, conn, pipe, client, polls>>

Lock(g) ==
  /\ pc[g] = "lock"
  /\ mu = NoOne
  /\ mu' = g
  /\ Goto(g, "write")
  /\ UNCHANGED <<out, conn, pipe, client, polls>>

(* A write without a deadline: it blocks as long as the network is full.   *)
Write(g) ==
  /\ pc[g] = "write"
  /\ out[g] # <<>>
  /\ conn = "up"
  /\ Len(pipe) < Window
  /\ pipe' = Append(pipe, Head(out[g]))
  /\ out' = [out EXCEPT ![g] = Tail(@)]
  /\ UNCHANGED <<pc, mu, conn, client, polls>>

Written(g) ==
  /\ pc[g] = "write"
  /\ out[g] = <<>>
  /\ mu' = NoOne
  /\ Goto(g, "ready")
  /\ UNCHANGED <<out, conn, pipe, client, polls>>

(* Mutant of WriteFails: the mutex stays locked on the error path.         *)
WriteFailsLocked(g) ==
  /\ pc[g] = "write"
  /\ out[g] # <<>>
  /\ conn # "up"
  /\ out' = [out EXCEPT ![g] = <<>>]
  /\ Goto(g, "over")
  /\ UNCHANGED <<mu, conn, pipe, client, polls>>

(* Mutant of WriteFails: the rest of the frame is kept for the next write. *)
WriteFailsKeeping(g) ==
  /\ pc[g] = "write"
  /\ out[g] # <<>>
  /\ conn # "up"
  /\ mu' = NoOne
  /\ Goto(g, "over")
  /\ UNCHANGED <<out, conn, pipe, client, polls>>

(* The poller gives up; the reader too, unless it does not look at the     *)
(* error: that of a pong or of an error message.                           *)
WriteFails(g) ==
  /\ pc[g] = "write"
  /\ out[g] # <<>>
  /\ conn # "up"
  /\ out' = [out EXCEPT ![g] = <<>>]
  /\ mu' = NoOne
  /\ \/ Goto(g, "over")
     \/ g = "reader" /\ Goto(g, "ready")
  /\ UNCHANGED <<conn, pipe, client, polls>>

-----------------------------------------------------------------------------
(* The reader: ReadText in the loop of handleWebSocket.                    *)

(* The handler returns: done and the connection are closed.                *)
Quit ==
  /\ Goto("reader", "over")
  /\ conn' = IF conn = "up" THEN "closed" ELSE conn
  /\ UNCHANGED out

Incoming ==
  /\ pc["reader"] = "ready"
  /\ inbox # <<>>
  /\ inbox' = Tail(inbox)
  /\ UNCHANGED <<mu, pipe, view, reading, sent, polls>>

(* A message is handled before the next frame is read: the answer to most  *)
(* is there at once.                                                       *)
ReadText ==
  /\ Incoming
  /\ Final(Head(inbox)) /\ Opcode(Head(inbox)) = Text
  /\ \E n \in Sizes : Send("reader", Text, n)
  /\ UNCHANGED conn

(* A command, which the reader executes before it answers.                 *)
ReadCommand ==
  /\ Incoming
  /\ Final(Head(inbox)) /\ Opcode(Head(inbox)) = Text
  /\ Goto("reader", "command")
  /\ UNCHANGED <<out, conn>>

(* The command of the session ends, which it need not.                     *)
CommandEnds ==
  /\ pc["reader"] = "command"
  /\ \E n \in Sizes : Send("reader", Text, n)
  /\ UNCHANGED <<mu, conn, pipe, client, polls>>

(* Mutant of ReadPing: pings are read and not answered.                    *)
ReadPingOnly ==
  /\ Incoming
  /\ Final(Head(inbox)) /\ Opcode(Head(inbox)) = Ping
  /\ UNCHANGED <<pc, out, conn>>

ReadPing ==
  /\ Incoming
  /\ Final(Head(inbox)) /\ Opcode(Head(inbox)) = Ping
  /\ Send("reader", Pong, Length(Head(inbox)))
  /\ UNCHANGED conn

(* A close, another opcode, or a frame in parts.                           *)
ReadOther ==
  /\ Incoming
  /\ ~Final(Head(inbox)) \/ Opcode(Head(inbox)) \notin {Text, Ping}
  /\ Quit

ReadFails ==
  /\ pc["reader"] = "ready"
  /\ conn # "up"
  /\ Quit
  /\ UNCHANGED <<mu, pipe, client, polls>>

-----------------------------------------------------------------------------
(* The poller: a text when the session has news, until done is closed.     *)

Poll ==
  /\ pc["poller"] = "ready"
  /\ polls < MaxPolls
  /\ polls' = polls + 1
  /\ \E n \in Sizes : Send("poller", Text, n)
  /\ UNCHANGED <<mu, conn, pipe, client>>

PollerStops ==
  /\ pc["poller"] = "ready"
  /\ pc["reader"] = "over"
  /\ Goto("poller", "over")
  /\ UNCHANGED <<out, mu, conn, pipe, client, polls>>

-----------------------------------------------------------------------------
(* The client.                                                             *)

ClientSends(final, opcode, n) ==
  /\ conn = "up"
  /\ sent < MaxSent
  /\ sent' = sent + 1
  /\ inbox' = Append(inbox, ClientHeader(final, opcode, n))
  /\ view' = IF opcode = Ping THEN [view EXCEPT !.pings = Append(@, n)] ELSE view
  /\ UNCHANGED <<pc, out, mu, conn, pipe, reading, polls>>

ClientReads ==
  /\ reading
  /\ pipe # <<>>
  /\ pipe' = Tail(pipe)
  /\ view' = Parse(view, Head(pipe))
  /\ UNCHANGED <<pc, out, mu, conn, reading, inbox, sent, polls>>

ClientStalls ==
  /\ reading
  /\ reading' = FALSE
  /\ UNCHANGED <<pc, out, mu, conn, pipe, view, inbox, sent, polls>>

ClientVanishes ==
  /\ conn = "up"
  /\ conn' = "lost"
  /\ reading' = FALSE
  /\ UNCHANGED <<pc, out, mu, pipe, view, inbox, sent, polls>>

-----------------------------------------------------------------------------
WriteFrame(g) == Lock(g) \/ Write(g) \/ Written(g) \/ WriteFails(g)

Reader == ReadText \/ ReadCommand \/ ReadPing \/ ReadOther \/ ReadFails

Client ==
  \/ \E n \in Sizes : ClientSends(TRUE, Text, n)
  \/ \E n \in Pings : ClientSends(TRUE, Ping, n)
  \/ ClientSends(TRUE, CloseFrame, 0)
  \/ ClientSends(FALSE, Text, 0)
  \/ ClientReads \/ ClientStalls \/ ClientVanishes

Next ==
  \/ Reader \/ CommandEnds \/ Poll \/ PollerStops \/ Client
  \/ \E g \in Goroutines : WriteFrame(g)

(* The goroutines of the server run, waiters get the mutex, and a client   *)
(* that is reading goes on.  Nobody has to send, no command has to end, and*)
(* any client may stall.                                                   *)
Fairness ==
  /\ \A g \in Goroutines :
       SF_vars(Lock(g)) /\ WF_vars(Write(g) \/ Written(g) \/ WriteFails(g))
  /\ WF_vars(Reader)
  /\ WF_vars(PollerStops)
  /\ WF_vars(ClientReads)

SafetySpec == Init /\ [][Next]_vars

Spec == SafetySpec /\ Fairness

-----------------------------------------------------------------------------
(* Type invariant: the goroutines, the connection and the client.          *)
TypeOK ==
  /\ pc \in [Goroutines -> {"ready", "lock", "write", "over", "command"}]
  /\ pc["poller"] # "command"
  /\ out \in [Goroutines -> Seq(Chunks)]
  /\ \A g \in Goroutines : pc[g] \in {"ready", "over", "command"} => out[g] = <<>>
  /\ mu \in Goroutines \cup {NoOne}
  /\ conn \in {"up", "closed", "lost"}
  /\ pipe \in Seq(Chunks) /\ Len(pipe) <= Window
  /\ view \in [sane : BOOLEAN, missing : Int, pings : Seq(Nat)]
  /\ reading \in BOOLEAN
  /\ inbox \in Seq(Seq(Nat)) /\ Len(inbox) <= sent
  /\ sent \in 0 .. MaxSent /\ polls \in 0 .. MaxPolls

(* What the client has read and what is on its way to it are whole frames  *)
(* of the lengths their headers announce, whoever wrote them, with at most *)
(* the one a goroutine is writing still incomplete; pongs answer the pings *)
(* in their order, with their payload.                                     *)
WholeFrames ==
  LET after[i \in 0 .. Len(pipe)] == IF i = 0 THEN view ELSE Parse(after[i - 1], pipe[i])
      all == after[Len(pipe)]
  IN all.sane /\ (mu = NoOne /\ conn = "up" => all.missing = 0)

(* A client that goes on reading gets the pongs of all its pings, unless   *)
(* the connection ends, whatever the poller sends in between.  Those behind*)
(* a command have to wait for its end.                                     *)
PingsAnswered ==
  []<>(view.pings = <<>> \/ ~reading \/ conn # "up" \/ pc["reader"] = "command")

(* When the connection is gone both goroutines end, also one that was      *)
(* blocked in a write, and one that waited for the mutex meanwhile.  A     *)
(* reader ends when its command does, and until then nobody tells a poller *)
(* that has nothing to send; but neither does anything block the poller.   *)
LostConnectionEndsBoth ==
  conn # "up" ~> \/ \A g \in Goroutines : pc[g] = "over"
                 \/ pc["reader"] = "command" /\ pc["poller"] \in {"ready", "over"}
=============================================================================
