------------------------------- MODULE Socket -------------------------------
(***************************************************************************)
(* One WebSocket connection (handleWebSocket and pollWebSocket in          *)
(* internal/server/server.go): the goroutine that reads the messages of    *)
(* the client and the one that polls the session every 50 ms.  Both drain  *)
(* the terminal of the session and both write to the connection, message   *)
(* by message.                                                             *)
(*                                                                         *)
(* The session is reduced to what the connection sees of it: its reported  *)
(* state, whether it is in the table, and the output of its program, in    *)
(* numbered chunks; a message carries a set of them.  It has no other      *)
(* client that takes output.                                               *)
(***************************************************************************)
EXTENDS Integers, Sequences, Functions

CONSTANTS
  MaxWrites,   \* bound on the chunks programs write
  MaxMessages  \* bound on the messages the client sends

ASSUME SocketAssumption == MaxWrites \in Nat \ {0} /\ MaxMessages \in Nat

Goroutines == {"reader", "poller"}

VARIABLES
  state,    \* the reported state of the session
  present,  \* the session is in the table
  runner,   \* who waits for the running program: "nobody", "reader"
            \* (message command), "other" (a goroutine of the session)
  written,  \* chunks the terminal ever received
  taken,    \* of these, the chunks drained
  pc,       \* where the goroutines stand
  kind,     \* the message the reader answers
  chunk,    \* what each goroutine drained and has not put in a message yet
  shot,     \* the snapshot each goroutine took: chunks it shows
  batch,    \* the messages each goroutine has to send
  last,     \* lastState of pollWebSocket
  done,     \* the channel done is closed
  wire,     \* the connection: "up" or "down"
  sent,     \* messages the client has sent
  got,      \* the outputs the client received, in order: sets of chunks
  known,    \* the state the client was told last
  toldOver, \* the client was told that the session is closed or gone
  screen,   \* what the last snapshot the client received shows
  overtaken, \* that snapshot shows less than the one before it (history)
  unsent    \* chunks drained for an answer that does not carry them (history)

sessionVars == <<state, present, runner, written>>
clientVars == <<sent, got, known, toldOver, screen, overtaken>>
vars == <<sessionVars, taken, pc, kind, chunk, shot, batch, last, done, wire,
          clientVars, unsent>>

States == {"idle", "running", "error", "closed"}

Init ==
  /\ state = "idle" /\ present = TRUE /\ runner = "nobody"
  /\ written = 1 /\ taken = 0  \* the first prompt
  /\ pc = [reader |-> "initial", poller |-> "off"]
  /\ kind = "none"
  /\ chunk = [g \in Goroutines |-> {}]
  /\ shot = [g \in Goroutines |-> 0]
  /\ batch = [g \in Goroutines |-> <<>>]
  /\ last = "none"
  /\ done = FALSE
  /\ wire = "up"
  /\ sent = 0 /\ got = <<>> /\ known = "none" /\ toldOver = FALSE
  /\ screen = 0 /\ overtaken = FALSE
  /\ unsent = {}

Goto(g, label) == pc' = [pc EXCEPT ![g] = label]

-----------------------------------------------------------------------------
(* The session, as the rest of the server drives it.                       *)

StartElsewhere ==
  /\ state \in {"idle", "error"} /\ present
  /\ state' = "running"
  /\ runner' = "other"
  /\ UNCHANGED <<present, written, taken, pc, kind, chunk, shot, batch, last,
                 done, wire, clientVars, unsent>>

ProgramWrites ==
  /\ runner # "nobody"
  /\ written < MaxWrites
  /\ written' = written + 1
  /\ UNCHANGED <<state, present, runner, taken, pc, kind, chunk, shot, batch,
                 last, done, wire, clientVars, unsent>>

(* The command or program ends; the reader that waited for it drains.      *)
ProgramEnds ==
  /\ runner # "nobody"
  /\ state' \in IF state = "closed" THEN {"closed"} ELSE {"idle", "error", "closed"}
  /\ runner' = "nobody"
  /\ IF runner = "reader" THEN Goto("reader", "drain") ELSE UNCHANGED pc
  /\ UNCHANGED <<present, written, taken, kind, chunk, shot, batch, last,
                 done, wire, clientVars, unsent>>

(* DELETE or the expiry: first the table, then close().                    *)
Unregister ==
  /\ present
  /\ present' = FALSE
  /\ UNCHANGED <<state, runner, written, taken, pc, kind, chunk, shot, batch,
                 last, done, wire, clientVars, unsent>>

CloseSession ==
  /\ ~present /\ state # "closed"
  /\ state' = "closed"
  /\ UNCHANGED <<present, runner, written, taken, pc, kind, chunk, shot,
                 batch, last, done, wire, clientVars, unsent>>

(* Ctrl+C, Ctrl+D or Ctrl+Q for the line editor.                           *)
TypedQuit ==
  /\ present /\ state # "closed"
  /\ state' = "closed"
  /\ UNCHANGED <<present, runner, written, taken, pc, kind, chunk, shot,
                 batch, last, done, wire, clientVars, unsent>>

-----------------------------------------------------------------------------
(* What both goroutines do: drain and send.                                *)

Message(type, st, out, shows) == [type |-> type, st |-> st, out |-> out, shows |-> shows]
Output(g, st) == Message("output", st, chunk[g], 0)
Status(st) == Message("state", st, {}, 0)
Accepted(st) == Message("accepted", st, {}, 0)
Snapshot(g, st) == Message("snapshot", st, {}, shot[g])
Error(st) == Message("error", st, {}, 0)

(* drainOutput.                                                            *)
TakeOutput(g) ==
  /\ chunk' = [chunk EXCEPT ![g] = (taken + 1) .. written]
  /\ taken' = written

(* snapshotTerminal; the status is read in yet another step.               *)
Looks(g) ==
  /\ pc[g] = "look"
  /\ shot' = [shot EXCEPT ![g] = written]
  /\ Goto(g, "status")
  /\ UNCHANGED <<sessionVars, taken, kind, chunk, batch, last, done, wire,
                 clientVars, unsent>>

Prepare(g, messages) ==
  /\ batch' = [batch EXCEPT ![g] = messages]
  /\ chunk' = [chunk EXCEPT ![g] = {}]
  /\ shot' = [shot EXCEPT ![g] = 0]

(* The client reads a message; the last snapshot is what it displays.      *)
Receive(m) ==
  /\ got' = IF m.out = {} THEN got ELSE Append(got, m.out)
  /\ known' = IF m.st \in States THEN m.st ELSE known
  /\ toldOver' = (toldOver \/ m.st \in {"closed", "missing"})
  /\ IF m.type = "snapshot"
     THEN screen' = m.shows /\ overtaken' = (m.shows < screen)
     ELSE UNCHANGED <<screen, overtaken>>
  /\ UNCHANGED sent

Sending == {"initialOutput", "initialState", "send", "lastSend"}

(* SendJSON under Conn.mu.                                                 *)
Send(g) ==
  /\ pc[g] \in Sending
  /\ batch[g] # <<>> /\ wire = "up"
  /\ Receive(Head(batch[g]))
  /\ batch' = [batch EXCEPT ![g] = Tail(@)]
  /\ UNCHANGED <<sessionVars, taken, pc, kind, chunk, shot, last, done, wire,
                 unsent>>

-----------------------------------------------------------------------------
(* handleWebSocket.                                                        *)

(* return: close(done), then conn.Close().                                 *)
ReaderReturns ==
  /\ Goto("reader", "ended")
  /\ batch' = [batch EXCEPT !["reader"] = <<>>]
  /\ done' = TRUE
  /\ wire' = "down"
  /\ kind' = "none"
  /\ UNCHANGED <<sessionVars, taken, chunk, shot, last, clientVars, unsent>>

(* Mutant of ReaderFails: the connection is closed, the channel is not.    *)
ReaderForgetsDone ==
  /\ \/ pc["reader"] \in Sending /\ batch["reader"] # <<>> /\ wire = "down"
     \/ pc["reader"] = "read"
  /\ Goto("reader", "ended")
  /\ batch' = [batch EXCEPT !["reader"] = <<>>]
  /\ wire' = "down"
  /\ kind' = "none"
  /\ UNCHANGED <<sessionVars, taken, chunk, shot, last, done, clientVars,
                 unsent>>

(* SendJSON or ReadText fails: the connection is broken, or the client     *)
(* sent a close frame or one that is not supported.                        *)
ReaderFails ==
  /\ \/ pc["reader"] \in Sending /\ batch["reader"] # <<>> /\ wire = "down"
     \/ pc["reader"] = "read"
  /\ ReaderReturns

(* Mutant of InitialDrain: the poller is started before SendInitial.       *)
InitialDrainPolled ==
  /\ pc["reader"] = "initial" /\ present
  /\ TakeOutput("reader")
  /\ pc' = [reader |-> "initialLook", poller |-> "wait"]
  /\ UNCHANGED <<sessionVars, kind, shot, batch, last, done, wire, clientVars,
                 unsent>>

(* SendInitial: output, then state and snapshot; the poller starts last.   *)
InitialDrain ==
  /\ pc["reader"] = "initial"
  /\ IF present
     THEN /\ TakeOutput("reader")
          /\ Goto("reader", "initialLook")
          /\ UNCHANGED batch
     ELSE /\ batch' = [batch EXCEPT !["reader"] = <<Error("missing")>>]
          /\ Goto("reader", "lastSend")
          /\ UNCHANGED <<chunk, taken>>
  /\ UNCHANGED <<sessionVars, kind, shot, last, done, wire, clientVars,
                 unsent>>

(* The output is sent before the status is read.                           *)
InitialLook ==
  /\ pc["reader"] = "initialLook"
  /\ shot' = [shot EXCEPT !["reader"] = written]
  /\ batch' = [batch EXCEPT !["reader"] =
       IF chunk["reader"] # {} THEN <<Output("reader", "none")>> ELSE <<>>]
  /\ chunk' = [chunk EXCEPT !["reader"] = {}]
  /\ Goto("reader", "initialOutput")
  /\ UNCHANGED <<sessionVars, taken, kind, last, done, wire, clientVars,
                 unsent>>

InitialStatus ==
  /\ pc["reader"] = "initialOutput" /\ batch["reader"] = <<>>
  /\ Prepare("reader", <<Status(state), Snapshot("reader", state)>>)
  /\ Goto("reader", "initialState")
  /\ UNCHANGED <<sessionVars, taken, kind, last, done, wire, clientVars,
                 unsent>>

StartPolling ==
  /\ pc["reader"] = "initialState" /\ batch["reader"] = <<>>
  /\ pc' = [reader |-> "read", poller |-> "wait"]
  /\ UNCHANGED <<sessionVars, taken, kind, chunk, shot, batch, last, done,
                 wire, clientVars, unsent>>

Sent(g, from, to) ==
  /\ pc[g] = from /\ batch[g] = <<>>
  /\ Goto(g, to)
  /\ UNCHANGED <<sessionVars, taken, kind, chunk, shot, batch, last, done,
                 wire, clientVars, unsent>>

ReaderSent == Sent("reader", "send", "read")

ReaderGivesUp ==
  /\ pc["reader"] = "lastSend" /\ batch["reader"] = <<>>
  /\ ReaderReturns

(* The client sends a message and the reader receives it.                  *)
Receiving ==
  /\ pc["reader"] = "read" /\ wire = "up"
  /\ sent < MaxMessages
  /\ sent' = sent + 1
  /\ UNCHANGED <<present, written, taken, chunk, shot, last, done, wire, got,
                 known, toldOver, screen, overtaken, unsent>>

ReplyError(st) ==
  /\ batch' = [batch EXCEPT !["reader"] = <<Error(st)>>]
  /\ Goto("reader", "send")
  /\ UNCHANGED <<state, runner, kind>>

(* The message is not JSON, of an unknown type, not for this kind of       *)
(* session, or the session does not admit what it asks for.                *)
ReadRefused ==
  /\ Receiving
  /\ ReplyError(IF present THEN "none" ELSE "missing")

ReadCommand ==
  /\ Receiving /\ present
  /\ state \in {"idle", "error"}
  /\ state' = "running"
  /\ \/ kind' = "command" /\ runner' = "reader" /\ Goto("reader", "command")
     \/ kind' = "run" /\ runner' = "other" /\ Goto("reader", "drain")
  /\ UNCHANGED batch

(* output, and input, whose bytes go to the program or the line editor.    *)
ReadOutput ==
  /\ Receiving /\ present
  /\ kind' = "output"
  /\ Goto("reader", "drain")
  /\ UNCHANGED <<state, runner, batch>>

ReadSnapshot ==
  /\ Receiving /\ present
  /\ kind' = "snapshot"
  /\ Goto("reader", "look")
  /\ UNCHANGED <<state, runner, batch>>

ReaderDrains ==
  /\ pc["reader"] = "drain"
  /\ TakeOutput("reader")
  /\ Goto("reader", "look")
  /\ UNCHANGED <<sessionVars, kind, shot, batch, last, done, wire, clientVars,
                 unsent>>

(* HandleSocketMessage and messagesFromResult.                             *)
Answer(st) ==
  CASE kind = "command" -> <<Output("reader", st), Status(st), Snapshot("reader", st)>>
    [] kind = "run" -> <<Accepted(st), Snapshot("reader", st)>>
    [] kind = "snapshot" -> <<Snapshot("reader", st)>>
    [] OTHER -> (IF chunk["reader"] # {} THEN <<Output("reader", st)>> ELSE <<>>)
                  \o <<Status(st), Snapshot("reader", st)>>

(* Mutant of ReaderStatus: the reader waits for the next message, and what *)
(* it was about to answer is sent with the next answer.                    *)
ReaderStatusKeepingKind ==
  /\ pc["reader"] = "status"
  /\ Prepare("reader", Answer(state))
  /\ unsent' = IF kind = "run" THEN unsent \cup chunk["reader"] ELSE unsent
  /\ Goto("reader", "read")
  /\ UNCHANGED <<sessionVars, taken, kind, last, done, wire, clientVars>>

ReaderStatus ==
  /\ pc["reader"] = "status"
  /\ Prepare("reader", Answer(state))
  /\ unsent' = IF kind = "run" THEN unsent \cup chunk["reader"] ELSE unsent
  /\ kind' = "none"
  /\ Goto("reader", "send")
  /\ UNCHANGED <<sessionVars, taken, last, done, wire, clientVars>>

-----------------------------------------------------------------------------
(* pollWebSocket.                                                          *)

PollDone ==
  /\ pc["poller"] = "wait" /\ done
  /\ Goto("poller", "stopped")
  /\ UNCHANGED <<sessionVars, taken, kind, chunk, shot, batch, last, done,
                 wire, clientVars, unsent>>

PollTick ==
  /\ pc["poller"] = "wait"
  /\ IF present
     THEN /\ TakeOutput("poller")
          /\ Goto("poller", "look")
          /\ UNCHANGED batch
     ELSE /\ batch' = [batch EXCEPT !["poller"] = <<Error("missing")>>]
          /\ Goto("poller", "lastSend")
          /\ UNCHANGED <<chunk, taken>>
  /\ UNCHANGED <<sessionVars, kind, shot, last, done, wire, clientVars,
                 unsent>>

(* Mutant of News: a changed state hides the new output.                   *)
NewsOfStateOnly(st) ==
  LET changed == st # last
      output == chunk["poller"] # {}
  IN  CASE changed -> <<Status(st), Snapshot("poller", st)>>
        [] ~changed /\ output -> <<Output("poller", st), Snapshot("poller", st)>>
        [] OTHER -> <<>>

(* Mutant of News: no snapshot unless the state changed.                   *)
NewsWithoutSnapshot(st) ==
  LET changed == st # last
      output == chunk["poller"] # {}
  IN  (IF output THEN <<Output("poller", st)>> ELSE <<>>)
        \o (IF changed THEN <<Status(st), Snapshot("poller", st)>> ELSE <<>>)

(* Mutant of News: lastState is overwritten before it is compared.         *)
NewsForgotten(st) ==
  IF chunk["poller"] # {}
  THEN <<Output("poller", st), Snapshot("poller", st)>>
  ELSE <<>>

(* output when there is some, state when it changed, snapshot with either. *)
News(st) ==
  LET changed == st # last
      output == chunk["poller"] # {}
  IN  (IF output THEN <<Output("poller", st)>> ELSE <<>>)
        \o (IF changed THEN <<Status(st)>> ELSE <<>>)
        \o (IF output \/ changed THEN <<Snapshot("poller", st)>> ELSE <<>>)

PollStatus ==
  /\ pc["poller"] = "status"
  /\ Prepare("poller", News(state))
  /\ last' = state
  /\ Goto("poller", "send")
  /\ UNCHANGED <<sessionVars, taken, kind, done, wire, clientVars, unsent>>

PollSent == Sent("poller", "send", "wait") \/ Sent("poller", "lastSend", "stopped")

PollFails ==
  /\ pc["poller"] \in Sending /\ batch["poller"] # <<>> /\ wire = "down"
  /\ batch' = [batch EXCEPT !["poller"] = <<>>]
  /\ Goto("poller", "stopped")
  /\ UNCHANGED <<sessionVars, taken, kind, chunk, shot, last, done, wire,
                 clientVars, unsent>>

-----------------------------------------------------------------------------
(* The client goes away or the network fails.                              *)
Disconnect ==
  /\ wire = "up"
  /\ wire' = "down"
  /\ UNCHANGED <<sessionVars, taken, pc, kind, chunk, shot, batch, last, done,
                 clientVars, unsent>>

Session ==
  \/ StartElsewhere \/ ProgramWrites \/ ProgramEnds
  \/ Unregister \/ CloseSession \/ TypedQuit

Read == ReadRefused \/ ReadCommand \/ ReadOutput \/ ReadSnapshot

Reader ==
  \/ InitialDrain \/ InitialLook \/ InitialStatus \/ StartPolling
  \/ Send("reader") \/ ReaderSent \/ ReaderGivesUp
  \/ ReaderDrains \/ Looks("reader") \/ ReaderStatus

Poller ==
  \/ PollDone \/ PollTick \/ Looks("poller") \/ PollStatus
  \/ Send("poller") \/ PollSent \/ PollFails

Next == Session \/ Read \/ Reader \/ ReaderFails \/ Poller \/ Disconnect

SafetySpec == Init /\ [][Next]_vars

(* Goroutines that can run do run, a ticker ticks, a select with a closed  *)
(* channel takes it sooner or later, a read on a broken connection fails,  *)
(* and close() follows the removal from the table.  The client reads what  *)
(* it is sent.  Nobody has to send messages, start or end programs.        *)
Fairness ==
  /\ WF_vars(Reader) /\ WF_vars(wire = "down" /\ ReaderFails)
  /\ WF_vars(Poller) /\ SF_vars(PollDone)
  /\ WF_vars(CloseSession)

Spec == SafetySpec /\ Fairness

-----------------------------------------------------------------------------
Messages ==
  [type : {"output", "state", "accepted", "snapshot", "error"},
   st : States \cup {"none", "missing"}, out : SUBSET (1 .. taken), shows : 0 .. written]

ReaderLabels ==
  Sending \cup {"initial", "initialLook", "read", "command", "drain", "look",
                "status", "ended"}

PollerLabels == {"off", "wait", "look", "status", "send", "lastSend", "stopped"}

(* Type invariant: the session, the goroutines, the connection, the client.*)
TypeOK ==
  /\ state \in States /\ present \in BOOLEAN
  /\ runner \in {"nobody", "reader", "other"}
  /\ written \in 1 .. MaxWrites /\ taken \in 0 .. written
  /\ pc \in [Goroutines -> ReaderLabels \cup PollerLabels]
  /\ pc["reader"] \in ReaderLabels /\ pc["poller"] \in PollerLabels
  /\ kind \in {"none", "command", "run", "output", "snapshot"}
  /\ kind # "none" <=> pc["reader"] \in {"command", "drain", "look", "status"}
  /\ chunk \in [Goroutines -> SUBSET (1 .. taken)]
  /\ shot \in [Goroutines -> 0 .. written]
  /\ batch \in [Goroutines -> Seq(Messages)]
  /\ last \in States \cup {"none"}
  /\ done \in BOOLEAN /\ wire \in {"up", "down"}
  /\ sent \in 0 .. MaxMessages
  /\ got \in Seq(SUBSET (1 .. taken)) /\ screen \in 0 .. written /\ overtaken \in BOOLEAN
  /\ known \in States \cup {"none"} /\ toldOver \in BOOLEAN
  /\ unsent \subseteq 1 .. taken

(* The chunks a goroutine has drained and not sent yet.                    *)
Held(g) ==
  chunk[g] \cup UNION {m.out : m \in Range(batch[g])}

(* The chunks the client has.                                              *)
Received == UNION Range(got)

(* While the connection is up every chunk that was drained is with the     *)
(* client, exactly once, or on its way, or was left out of the answer to   *)
(* run: the two goroutines that drain the terminal share its output and    *)
(* neither loses or repeats what the other took.                           *)
OutputConserved ==
  LET shares == <<Received, Held("reader"), Held("poller"), unsent>>
  IN  /\ \A i, j \in DOMAIN got : i # j => got[i] \cap got[j] = {}
      /\ \A i, j \in DOMAIN shares : i # j => shares[i] \cap shares[j] = {}
      /\ wire = "up" => 1 .. taken = UNION Range(shares)

(* SendInitial is complete before the poller sends anything: the output    *)
(* that waited for the client is the first it receives.                    *)
InitialFirst == got # <<>> /\ pc["poller"] # "off" => 1 \in got[1]

(* The closing of a session, by EXIT, Ctrl+C, DELETE or expiry, reaches a  *)
(* connected client although nothing but the poller looks for it.          *)
ClosedIsTold == state = "closed" ~> toldOver \/ wire = "down"

(* The screen of a connected client catches up with what programs wrote    *)
(* (at most MaxWrites chunks), whichever goroutine drained it.  It can stay*)
(* behind in one way only: of the snapshots of the two goroutines the older*)
(* came last.                                                              *)
ScreenCatchesUp == []<>(screen = written \/ overtaken \/ wire = "down" \/ ~present)

(* When the connection breaks both goroutines end, the reader at the latest*)
(* when the command it waits for does.                                     *)
GoroutinesEnd ==
  wire = "down" ~> \/ pc["reader"] = "command"
                   \/ pc["reader"] = "ended" /\ pc["poller"] \in {"off", "stopped"}

-----------------------------------------------------------------------------
(* What docs/websocket.md says and the code does not do.                   *)

(* docs/websocket.md:50: the server sends state when the session changes   *)
(* state.  A change and back between two ticks of the poller goes unseen,  *)
(* also when the answer to run has told the client the state in between.   *)
StateChangeTold ==
  \A st \in States :
    <>[](state = st /\ present /\ wire = "up") => <>[](known = st)
=============================================================================
