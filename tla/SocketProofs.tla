---------------------------- MODULE SocketProofs ----------------------------
(***************************************************************************)
(* Theorems about Socket, for every number of chunks and of messages: the  *)
(* two goroutines of a connection share the output of the session without  *)
(* losing or repeating any of it, what waited for the client comes first,  *)
(* and the poller does not let the close go by unsaid.                     *)
(***************************************************************************)
EXTENDS Socket, SequenceTheorems, TLAPS

(* Who runs a command for the reader ends with the reader waiting for it.  *)
CommandAwaited == runner = "reader" => pc["reader"] = "command"

(* A goroutine holds chunks between a drain and the next message only, and *)
(* messages while it sends them; only the first of them carries output.    *)
HeldBy(g) ==
  /\ chunk[g] # {} => pc[g] \in {"initialLook", "look", "status"}
  /\ batch[g] # <<>> => pc[g] \in Sending
  /\ \A i \in 2 .. Len(batch[g]) : batch[g][i].out = {}
  /\ pc[g] = "lastSend" /\ batch[g] # <<>> => Head(batch[g]).out = {}

HeldFollowsPc ==
  /\ \A g \in Goroutines : HeldBy(g)
  /\ kind = "snapshot" => pc["reader"] \in {"look", "status"} /\ chunk["reader"] = {}

(* The poller is started after SendInitial.                                *)
PollerStartsLast ==
  pc["reader"] \in {"initial", "initialLook", "initialOutput", "initialState"}
    => pc["poller"] = "off"

(* The chunks a goroutine has, as they follow from the above.              *)
InHand(g) == chunk[g] \cup IF batch[g] = <<>> THEN {} ELSE Head(batch[g]).out

(* OutputConserved set by set, whether or not the connection is up.        *)
Shared ==
  /\ \A i, j \in 1 .. Len(got) : i # j => got[i] \cap got[j] = {}
  /\ \A g \in Goroutines : InHand(g) \subseteq 1 .. taken
  /\ \A g \in Goroutines : InHand(g) \cap Received = {} /\ InHand(g) \cap unsent = {}
  /\ InHand("reader") \cap InHand("poller") = {}
  /\ Received \cap unsent = {}
  /\ wire = "up" => 1 .. taken \subseteq Received \cup InHand("reader") \cup InHand("poller") \cup unsent

(* Where the first chunk is until the client has it.                       *)
FirstChunk ==
  /\ got # <<>> => 1 \in got[1]
  /\ pc["reader"] = "initial" => got = <<>> /\ taken = 0
  /\ pc["reader"] = "initialLook" => got = <<>> /\ 1 \in chunk["reader"]
  /\ pc["reader"] = "initialOutput" /\ batch["reader"] # <<>>
       => got = <<>> /\ Len(batch["reader"]) = 1 /\ 1 \in Head(batch["reader"]).out
  /\ pc["reader"] = "initialOutput" /\ batch["reader"] = <<>> => got # <<>>
  /\ pc["reader"] \notin {"initial", "initialLook", "initialOutput", "lastSend", "ended"}
       => got # <<>>
  /\ pc["poller"] # "off" => got # <<>>

Inv == TypeOK /\ CommandAwaited /\ HeldFollowsPc /\ PollerStartsLast /\ Shared /\ FirstChunk

-----------------------------------------------------------------------------
(* Messages without output, and an output before them.                     *)
Quiet == {m \in Messages : m.out = {}}

Speech(t, out) ==
  /\ t \in Seq(Messages)
  /\ \A i \in 2 .. Len(t) : t[i].out = {}
  /\ IF t = <<>> THEN out = {} ELSE Head(t).out = out

LEMMA QuietSpeech ==
  ASSUME NEW t \in Seq(Quiet)
  PROVE  Speech(t, {})
<1>1. t \in Seq(Messages)
  BY DEF Quiet
<1>2. \A i \in 1 .. Len(t) : t[i].out = {}
  BY DEF Quiet
<1> QED BY <1>1, <1>2 DEF Speech

LEMMA LoudSpeech ==
  ASSUME NEW m \in Messages, NEW t \in Seq(Quiet), NEW s, s = <<m>> \o t
  PROVE  Speech(s, m.out)
<1>1. t \in Seq(Messages) /\ <<m>> \in Seq(Messages)
  BY DEF Quiet
<1>2. \A i \in 1 .. Len(t) : t[i].out = {}
  BY DEF Quiet
<1>3. s \in Seq(Messages) /\ Len(s) = Len(t) + 1 /\ s[1] = m /\ \A i \in 2 .. Len(s) : s[i] = t[i - 1]
  BY <1>1, ConcatProperties
<1> QED BY <1>2, <1>3 DEF Speech

(* The messages of both goroutines.                                        *)
LEMMA Said ==
  ASSUME TypeOK, NEW g \in Goroutines, NEW st \in States \cup {"none", "missing"}
  PROVE  /\ Output(g, st) \in Messages /\ Output(g, st).out = chunk[g]
         /\ {Status(st), Accepted(st), Snapshot(g, st), Error(st)} \subseteq Quiet
<1>3. chunk[g] \in SUBSET (1 .. taken) /\ shot[g] \in 0 .. written /\ 0 \in 0 .. written
  BY SocketAssumption DEF TypeOK
<1>4. Output(g, st) \in Messages /\ Output(g, st).out = chunk[g]
  BY <1>3 DEF Output, Message, Messages
<1>5. Status(st) \in Quiet /\ Accepted(st) \in Quiet /\ Error(st) \in Quiet
  BY <1>3 DEF Status, Accepted, Error, Message, Messages, Quiet
<1>6. Snapshot(g, st) \in Quiet
  BY <1>3 DEF Snapshot, Message, Messages, Quiet
<1> QED BY <1>4, <1>5, <1>6

LEMMA NewsSaid ==
  ASSUME TypeOK, NEW st \in States
  PROVE  Speech(News(st), chunk["poller"])
<1> DEFINE output == chunk["poller"] # {}
           changed == st # last
           first == IF output THEN <<Output("poller", st)>> ELSE <<>>
           status == IF changed THEN <<Status(st)>> ELSE <<>>
           screened == IF output \/ changed THEN <<Snapshot("poller", st)>> ELSE <<>>
<1>1. News(st) = (first \o status) \o screened
  BY DEF News
<1>2. /\ Output("poller", st) \in Messages /\ Output("poller", st).out = chunk["poller"]
      /\ Status(st) \in Quiet /\ Snapshot("poller", st) \in Quiet
  BY Said DEF Goroutines
<1>3. first \in Seq(Messages) /\ status \in Seq(Messages) /\ screened \in Seq(Messages)
  BY <1>2 DEF Quiet
<1>4. status \in Seq(Quiet) /\ screened \in Seq(Quiet)
  BY <1>2
<1>5. output => first = <<Output("poller", st)>>
  OBVIOUS
<1>6. ~output => first = <<>>
  OBVIOUS
<1> HIDE DEF first, status, screened
<1>7. News(st) = first \o (status \o screened) /\ status \o screened \in Seq(Quiet)
  BY <1>1, <1>3, <1>4, ConcatAssociative, ConcatProperties
<1>8. CASE output
  BY <1>2, <1>5, <1>7, <1>8, LoudSpeech
<1>9. CASE ~output
  <2>1. News(st) \in Seq(Quiet)
    BY <1>6, <1>7, <1>9, ConcatEmptySeq
  <2> QED BY <1>9, <2>1, QuietSpeech
<1> QED BY <1>8, <1>9

LEMMA AnswerSaid ==
  ASSUME TypeOK, NEW st \in States
  PROVE  Speech(Answer(st), IF kind \in {"run", "snapshot"} THEN {} ELSE chunk["reader"])
<1> DEFINE o == Output("reader", st)
           s == Status(st)
           c == Snapshot("reader", st)
           a == Accepted(st)
<1>1. o \in Messages /\ o.out = chunk["reader"] /\ s \in Quiet /\ c \in Quiet /\ a \in Quiet
  BY Said DEF Goroutines
<1>2. CASE kind = "command"
  <2>1. Answer(st) = <<o, s, c>>
    BY <1>2 DEF Answer
  <2> HIDE DEF o, s, c
  <2>2. Speech(<<o, s, c>>, o.out)
    BY <1>1 DEF Speech, Quiet
  <2> QED BY <1>1, <1>2, <2>1, <2>2
<1>3. CASE kind = "run"
  <2>1. Answer(st) = <<a, c>>
    BY <1>3 DEF Answer
  <2> HIDE DEF a, c
  <2>2. <<a, c>> \in Seq(Quiet)
    BY <1>1
  <2> QED BY <1>3, <2>1, <2>2, QuietSpeech
<1>4. CASE kind = "snapshot"
  <2>1. Answer(st) = <<c>>
    BY <1>4 DEF Answer
  <2> HIDE DEF c
  <2>2. <<c>> \in Seq(Quiet)
    BY <1>1
  <2> QED BY <1>4, <2>1, <2>2, QuietSpeech
<1>5. CASE kind \notin {"command", "run", "snapshot"}
  <2> DEFINE first == IF chunk["reader"] # {} THEN <<o>> ELSE <<>>
  <2>1. Answer(st) = first \o <<s, c>>
    BY <1>5 DEF Answer
  <2>2. CASE chunk["reader"] # {}
    <3>1. Answer(st) = <<o>> \o <<s, c>>
      BY <2>1, <2>2
    <3> HIDE DEF o, s, c, first
    <3>2. <<s, c>> \in Seq(Quiet)
      BY <1>1
    <3> QED BY <1>1, <1>5, <3>1, <3>2, LoudSpeech
  <2>3. CASE chunk["reader"] = {}
    <3>1. Answer(st) = <<>> \o <<s, c>>
      BY <2>1, <2>3
    <3> HIDE DEF o, s, c, first
    <3>2. <<s, c>> \in Seq(Quiet)
      BY <1>1
    <3>3. Answer(st) = <<s, c>>
      BY <3>1, <3>2, ConcatEmptySeq
    <3> QED BY <1>5, <2>3, <3>2, <3>3, QuietSpeech
  <2> QED BY <2>2, <2>3
<1> QED BY <1>2, <1>3, <1>4, <1>5

-----------------------------------------------------------------------------
(* Type correctness, action by action.  Messages carry chunks that were    *)
(* taken and show chunks that were written: of both there are ever more.   *)
Typed == TypeOK /\ CommandAwaited

(* What the sends need: a message taken from the front of a queue.         *)
LEMMA Sending1 ==
  ASSUME NEW s \in Seq(Messages), s # <<>>
  PROVE  Head(s) \in Messages /\ Tail(s) \in Seq(Messages)
OBVIOUS

LEMMA MoreMessages ==
  ASSUME Typed, taken' \in Nat, written' \in Nat, taken <= taken', written <= written'
  PROVE  batch \in [Goroutines -> Seq(Messages')] /\ Messages \subseteq Messages'
<1>1. taken \in Nat /\ written \in Nat
  BY SocketAssumption DEF Typed, TypeOK
<1>2. SUBSET (1 .. taken) \subseteq SUBSET (1 .. taken') /\ 0 .. written \subseteq 0 .. written'
  BY <1>1
<1>3. Messages \subseteq Messages'
  BY <1>2 DEF Messages
<1>4. \A g \in Goroutines : batch[g] \in Seq(Messages')
  BY <1>3, SeqMonotonic DEF Typed, TypeOK
<1> QED BY <1>3, <1>4 DEF Typed, TypeOK

LEMMA SameMessages ==
  ASSUME UNCHANGED <<taken, written>>
  PROVE  Messages' = Messages
BY DEF Messages

LEMMA InitTyped == Init => Typed
<1> SUFFICES ASSUME Init PROVE Typed
  OBVIOUS
<1>1. MaxWrites \in Nat \ {0} /\ MaxMessages \in Nat
  BY SocketAssumption
<1>2. /\ state \in States /\ present \in BOOLEAN /\ runner \in {"nobody", "reader", "other"}
      /\ kind \in {"none", "command", "run", "output", "snapshot"}
      /\ last \in States \cup {"none"} /\ known \in States \cup {"none"}
      /\ done \in BOOLEAN /\ wire \in {"up", "down"} /\ toldOver \in BOOLEAN /\ overtaken \in BOOLEAN
  BY DEF Init, States
<1>3. /\ pc \in [Goroutines -> ReaderLabels \cup PollerLabels]
      /\ pc["reader"] \in ReaderLabels /\ pc["poller"] \in PollerLabels
      /\ kind # "none" <=> pc["reader"] \in {"command", "drain", "look", "status"}
      /\ CommandAwaited
  BY DEF Init, Goroutines, ReaderLabels, PollerLabels, CommandAwaited
<1>4. /\ written \in 1 .. MaxWrites /\ taken \in 0 .. written /\ sent \in 0 .. MaxMessages
      /\ screen \in 0 .. written /\ got \in Seq(SUBSET (1 .. taken)) /\ unsent \subseteq 1 .. taken
  BY <1>1 DEF Init
<1>5. /\ chunk \in [Goroutines -> SUBSET (1 .. taken)] /\ shot \in [Goroutines -> 0 .. written]
      /\ batch \in [Goroutines -> Seq(Messages)]
  BY DEF Init
<1> QED BY <1>2, <1>3, <1>4, <1>5 DEF Typed, TypeOK

LEMMA SessionTyped == Typed /\ Session => Typed'
<1> SUFFICES ASSUME Typed, Session PROVE Typed'
  OBVIOUS
<1> USE DEF Typed, TypeOK, CommandAwaited, sessionVars, clientVars
<1>1. CASE StartElsewhere
  BY <1>1, SameMessages DEF StartElsewhere, States
<1>2. CASE ProgramWrites
  <2>1. written' \in 1 .. MaxWrites /\ taken \in 0 .. written' /\ 0 .. written \subseteq 0 .. written'
    BY <1>2, SocketAssumption DEF ProgramWrites
  <2>2. shot' \in [Goroutines -> 0 .. written'] /\ screen' \in 0 .. written'
    BY <1>2, <2>1 DEF ProgramWrites
  <2>3. batch' \in [Goroutines -> Seq(Messages')]
    BY <1>2, <2>1, MoreMessages, SocketAssumption DEF ProgramWrites
  <2> QED BY <1>2, <2>1, <2>2, <2>3 DEF ProgramWrites
<1>3. CASE ProgramEnds
  BY <1>3, SameMessages DEF ProgramEnds, States, Goto, Goroutines, ReaderLabels
<1>4. CASE Unregister
  <2>1. /\ UNCHANGED <<state, runner, written, taken, pc, kind, chunk, shot, batch, last, done, wire,
                       clientVars, unsent>>
        /\ present' \in BOOLEAN
    BY <1>4 DEF Unregister
  <2> QED BY <2>1, SameMessages
<1>5. CASE CloseSession
  BY <1>5, SameMessages DEF CloseSession, States
<1>6. CASE TypedQuit
  BY <1>6, SameMessages DEF TypedQuit, States
<1> QED BY <1>1, <1>2, <1>3, <1>4, <1>5, <1>6 DEF Session

(* Both goroutines drain, and send.                                        *)
LEMMA DrainTyped ==
  ASSUME Typed, NEW g \in Goroutines, TakeOutput(g), written' = written
  PROVE  /\ taken' \in 0 .. written' /\ 1 .. taken \subseteq 1 .. taken'
         /\ batch \in [Goroutines -> Seq(Messages')] /\ got \in Seq(SUBSET (1 .. taken'))
         /\ chunk' \in [Goroutines -> SUBSET (1 .. taken')]
<1>1. /\ MaxWrites \in Nat /\ written \in 1 .. MaxWrites /\ taken \in 0 .. written
      /\ chunk \in [Goroutines -> SUBSET (1 .. taken)]
  BY SocketAssumption DEF Typed, TypeOK
<1>2. taken' = written /\ chunk' = [chunk EXCEPT ![g] = (taken + 1) .. written]
  BY DEF TakeOutput
<1>3. 1 .. taken \subseteq 1 .. written /\ (taken + 1) .. written \subseteq 1 .. written
  BY <1>1
<1>4. taken' \in 0 .. written' /\ written' \in Nat /\ taken \in Nat /\ taken <= taken'
  BY <1>1, <1>2
<1>5. got \in Seq(SUBSET (1 .. taken'))
  BY <1>2, <1>3 DEF Typed, TypeOK
<1>6. batch \in [Goroutines -> Seq(Messages')]
  BY <1>4, MoreMessages
<1> QED BY <1>1, <1>2, <1>3, <1>4, <1>5, <1>6

LEMMA LooksTyped ==
  ASSUME Typed, NEW g \in Goroutines, Looks(g)
  PROVE  Typed'
<1> USE DEF Typed, CommandAwaited, sessionVars, clientVars, Goto, ReaderLabels, PollerLabels, Goroutines
<1>1. shot' \in [Goroutines -> 0 .. written]
  BY SocketAssumption DEF Looks, TypeOK
<1>2. /\ pc' \in [Goroutines -> ReaderLabels \cup PollerLabels]
      /\ pc'["reader"] \in ReaderLabels /\ pc'["poller"] \in PollerLabels
      /\ pc["reader"] = "command" <=> pc'["reader"] = "command"
      /\ pc["reader"] \in {"command", "drain", "look", "status"}
           <=> pc'["reader"] \in {"command", "drain", "look", "status"}
  BY DEF Looks, TypeOK
<1> QED BY <1>1, <1>2, SameMessages DEF Looks, TypeOK

LEMMA SendTyped ==
  ASSUME Typed, NEW g \in Goroutines, Send(g)
  PROVE  Typed'
<1> DEFINE m == Head(batch[g])
<1>1. batch[g] \in Seq(Messages) /\ batch[g] # <<>> /\ batch' = [batch EXCEPT ![g] = Tail(@)]
  BY DEF Send, Typed, TypeOK
<1>2. m \in Messages /\ Tail(batch[g]) \in Seq(Messages)
  BY <1>1, Sending1
<1>3. got' \in Seq(SUBSET (1 .. taken))
  BY <1>2 DEF Send, Receive, Messages, Typed, TypeOK
<1>4. known' \in States \cup {"none"} /\ toldOver' \in BOOLEAN
  BY DEF Send, Receive, Typed, TypeOK
<1>5. screen' \in 0 .. written
  <2>1. screen' = m.shows \/ screen' = screen
    BY DEF Send, Receive
  <2> QED BY <1>2, <2>1 DEF Messages, Typed, TypeOK
<1>8. overtaken' \in BOOLEAN
  <2>1. overtaken' = (m.shows < screen) \/ overtaken' = overtaken
    BY DEF Send, Receive
  <2>2. overtaken \in BOOLEAN
    BY DEF Typed, TypeOK
  <2>3. CASE overtaken' = overtaken
    BY <2>2, <2>3
  <2>4. CASE overtaken' = (m.shows < screen)
    BY <2>4
  <2> QED BY <2>1, <2>3, <2>4
<1>6. batch' \in [Goroutines -> Seq(Messages)]
  BY <1>1, <1>2 DEF Typed, TypeOK
<1>7. Messages' = Messages
  BY SameMessages DEF Send, sessionVars
<1> QED BY <1>3, <1>4, <1>5, <1>6, <1>7, <1>8 DEF Send, Receive, Typed, TypeOK, CommandAwaited, sessionVars

LEMMA ReaderTyped == Typed /\ (Read \/ Reader \/ ReaderFails) => Typed'
<1> SUFFICES ASSUME Typed, Read \/ Reader \/ ReaderFails PROVE Typed'
  OBVIOUS
<1> USE DEF Typed, CommandAwaited, sessionVars, clientVars, Goto, ReaderLabels, Sending, Goroutines
<1>1. CASE ReaderFails \/ ReaderGivesUp
  <2>1. ReaderReturns /\ pc["reader"] # "command"
    BY <1>1 DEF ReaderFails, ReaderGivesUp
  <2>2. batch' \in [Goroutines -> Seq(Messages)]
    BY <2>1 DEF ReaderReturns, TypeOK
  <2>3. /\ pc' \in [Goroutines -> ReaderLabels \cup PollerLabels]
        /\ pc'["reader"] = "ended" /\ pc'["poller"] = pc["poller"] /\ runner' # "reader"
    BY <2>1 DEF ReaderReturns, TypeOK
  <2> QED BY <2>1, <2>2, <2>3, SameMessages DEF ReaderReturns, TypeOK
<1>2. CASE InitialDrain
  <2>1. ASSUME present PROVE Typed'
    <3>1. /\ taken' \in 0 .. written' /\ 1 .. taken \subseteq 1 .. taken'
          /\ chunk' \in [Goroutines -> SUBSET (1 .. taken')]
          /\ batch \in [Goroutines -> Seq(Messages')] /\ got \in Seq(SUBSET (1 .. taken'))
      BY <1>2, <2>1, DrainTyped DEF InitialDrain
    <3>2. pc' = [pc EXCEPT !["reader"] = "initialLook"] /\ batch' = batch /\ shot' = shot
      BY <1>2, <2>1 DEF InitialDrain
    <3>3. pc["reader"] = "initial" /\ kind = "none" /\ runner # "reader"
      BY <1>2 DEF InitialDrain, TypeOK
    <3>4. CommandAwaited' /\ kind' = "none"
      BY <1>2, <3>3 DEF InitialDrain
    <3> QED BY <1>2, <3>1, <3>2, <3>3, <3>4 DEF InitialDrain, TypeOK
  <2>2. ASSUME ~present PROVE Typed'
    <3>1. Error("missing") \in Messages
      BY Said DEF Quiet
    <3>2. batch' \in [Goroutines -> Seq(Messages)] /\ pc' = [pc EXCEPT !["reader"] = "lastSend"]
      <4>1. <<Error("missing")>> \in Seq(Messages)
        BY <3>1
      <4>2. /\ batch' = [batch EXCEPT !["reader"] = <<Error("missing")>>]
            /\ pc' = [pc EXCEPT !["reader"] = "lastSend"]
        BY <1>2, <2>2 DEF InitialDrain
      <4> QED BY <4>1, <4>2 DEF TypeOK
    <3>3. UNCHANGED <<taken, chunk>>
      BY <1>2, <2>2 DEF InitialDrain
    <3> QED BY <1>2, <3>2, <3>3, SameMessages DEF InitialDrain, TypeOK
  <2> QED BY <2>1, <2>2
<1>11. CASE InitialLook
  <2>1. Output("reader", "none") \in Messages
    BY Said
  <2> HIDE DEF Goroutines
  <2>2. batch' \in [Goroutines -> Seq(Messages)]
    <3>1. PICK t : t = IF chunk["reader"] # {} THEN <<Output("reader", "none")>> ELSE <<>>
      OBVIOUS
    <3>2. t \in Seq(Messages) /\ batch' = [batch EXCEPT !["reader"] = t]
      BY <1>11, <2>1, <3>1 DEF InitialLook
    <3> QED BY <3>2 DEF TypeOK
  <2>3. chunk' \in [Goroutines -> SUBSET (1 .. taken)] /\ shot' \in [Goroutines -> 0 .. written]
    <3>1. {} \in SUBSET (1 .. taken) /\ written \in 0 .. written
      BY SocketAssumption DEF TypeOK
    <3>2. chunk' = [chunk EXCEPT !["reader"] = {}] /\ shot' = [shot EXCEPT !["reader"] = written]
      BY <1>11 DEF InitialLook
    <3> QED BY <3>1, <3>2 DEF TypeOK
  <2>4. /\ pc' \in [Goroutines -> ReaderLabels \cup PollerLabels]
        /\ pc["reader"] = "initialLook" /\ pc'["reader"] = "initialOutput" /\ pc'["poller"] = pc["poller"]
    BY <1>11 DEF InitialLook, TypeOK, Goroutines
  <2> QED BY <1>11, <2>2, <2>3, <2>4, SameMessages DEF InitialLook, TypeOK
<1>3. CASE InitialStatus
  <2>1. {Status(state), Snapshot("reader", state)} \subseteq Messages
    BY Said DEF Quiet, TypeOK
  <2> QED BY <1>3, <2>1, SameMessages DEF InitialStatus, Prepare, TypeOK
<1>4. CASE StartPolling
  BY <1>4, SameMessages DEF StartPolling, PollerLabels, TypeOK
<1>5. CASE Send("reader")
  BY <1>5, SendTyped
<1>6. CASE ReaderSent
  BY <1>6, SameMessages DEF ReaderSent, Sent, TypeOK
<1>7. CASE ReaderDrains
  <2>1. /\ taken' \in 0 .. written' /\ 1 .. taken \subseteq 1 .. taken'
        /\ chunk' \in [Goroutines -> SUBSET (1 .. taken')]
        /\ batch \in [Goroutines -> Seq(Messages')] /\ got \in Seq(SUBSET (1 .. taken'))
    BY <1>7, DrainTyped DEF ReaderDrains
  <2>2. UNCHANGED <<sessionVars, kind, shot, batch, last, done, wire, clientVars, unsent>>
    BY <1>7 DEF ReaderDrains
  <2>3. present' \in BOOLEAN /\ done' \in BOOLEAN /\ toldOver' \in BOOLEAN /\ overtaken' \in BOOLEAN
    BY <2>2, Zenon DEF TypeOK
  <2>4. pc["reader"] = "drain" /\ pc' = [pc EXCEPT !["reader"] = "look"]
    BY <1>7 DEF ReaderDrains
  <2> QED BY <2>1, <2>2, <2>3, <2>4 DEF TypeOK
<1>8. CASE Looks("reader")
  BY <1>8, LooksTyped
<1>9. CASE ReaderStatus
  <2>1. Answer(state) \in Seq(Messages)
    BY AnswerSaid DEF Speech, TypeOK
  <2> HIDE DEF Goroutines
  <2>2. batch' \in [Goroutines -> Seq(Messages)] /\ "reader" \in Goroutines
    BY <1>9, <2>1 DEF ReaderStatus, Prepare, TypeOK, Goroutines
  <2>3. chunk' \in [Goroutines -> SUBSET (1 .. taken)] /\ shot' \in [Goroutines -> 0 .. written]
    <3>1. {} \in SUBSET (1 .. taken) /\ 0 \in 0 .. written
      BY SocketAssumption DEF TypeOK
    <3>2. chunk' = [chunk EXCEPT !["reader"] = {}] /\ shot' = [shot EXCEPT !["reader"] = 0]
      BY <1>9 DEF ReaderStatus, Prepare
    <3> QED BY <3>1, <3>2 DEF TypeOK
  <2>4. unsent' \subseteq 1 .. taken
    <3>1. chunk["reader"] \subseteq 1 .. taken
      BY <2>2 DEF TypeOK
    <3> QED BY <1>9, <3>1 DEF ReaderStatus, TypeOK
  <2>5. /\ pc' \in [Goroutines -> ReaderLabels \cup PollerLabels]
        /\ pc'["reader"] = "send" /\ pc'["poller"] = pc["poller"] /\ pc["reader"] # "command"
    BY <1>9 DEF ReaderStatus, TypeOK, Goroutines
  <2> QED BY <1>9, <2>2, <2>3, <2>4, <2>5, SameMessages DEF ReaderStatus, TypeOK
<1>10. CASE Read
  <2>1. Error("none") \in Messages /\ Error("missing") \in Messages
    BY Said DEF Quiet
  <2>2. sent' \in 0 .. MaxMessages
    BY <1>10, SocketAssumption DEF Read, ReadRefused, ReadCommand, ReadOutput, ReadSnapshot, Receiving, TypeOK
  <2>3. CASE ReadRefused
    <3>1. batch' \in [Goroutines -> Seq(Messages)]
      BY <2>1, <2>3 DEF ReadRefused, ReplyError, TypeOK
    <3>2. /\ pc' \in [Goroutines -> ReaderLabels \cup PollerLabels]
          /\ pc'["reader"] = "send" /\ pc'["poller"] = pc["poller"] /\ pc["reader"] = "read"
      BY <2>3 DEF ReadRefused, Receiving, ReplyError, TypeOK
    <3> QED BY <2>2, <2>3, <3>1, <3>2, SameMessages DEF ReadRefused, Receiving, ReplyError, TypeOK
  <2>4. CASE ReadCommand
    BY <2>2, <2>4, SameMessages DEF ReadCommand, Receiving, TypeOK, States
  <2>5. CASE ReadOutput \/ ReadSnapshot
    BY <2>2, <2>5, SameMessages DEF ReadOutput, ReadSnapshot, Receiving, TypeOK
  <2> QED BY <1>10, <2>3, <2>4, <2>5 DEF Read
<1> QED BY <1>1, <1>2, <1>3, <1>4, <1>5, <1>6, <1>7, <1>8, <1>9, <1>10, <1>11 DEF Reader

LEMMA PollerTyped == Typed /\ (Poller \/ Disconnect \/ UNCHANGED vars) => Typed'
<1> SUFFICES ASSUME Typed, Poller \/ Disconnect \/ UNCHANGED vars PROVE Typed'
  OBVIOUS
<1> USE DEF Typed, CommandAwaited, sessionVars, clientVars, Goto, PollerLabels, Sending, Goroutines
<1>1. CASE PollDone \/ Disconnect \/ UNCHANGED vars
  <2>1. /\ UNCHANGED <<sessionVars, taken, kind, chunk, shot, batch, last, done, clientVars, unsent>>
        /\ wire' \in {"up", "down"} /\ pc'["reader"] = pc["reader"]
        /\ pc' \in [Goroutines -> ReaderLabels \cup PollerLabels] /\ pc'["poller"] \in PollerLabels
    BY <1>1 DEF PollDone, Disconnect, vars, TypeOK
  <2> QED BY <2>1, SameMessages DEF TypeOK
<1>5. CASE PollSent
  <2>1. /\ UNCHANGED <<sessionVars, taken, kind, chunk, shot, batch, last, done, wire, clientVars, unsent>>
        /\ \/ pc' = [pc EXCEPT !["poller"] = "wait"]
           \/ pc' = [pc EXCEPT !["poller"] = "stopped"]
    BY <1>5 DEF PollSent, Sent
  <2>2. present' \in BOOLEAN /\ done' \in BOOLEAN /\ toldOver' \in BOOLEAN /\ overtaken' \in BOOLEAN
    BY <2>1, Zenon DEF TypeOK
  <2>3. /\ pc' \in [Goroutines -> ReaderLabels \cup PollerLabels]
        /\ pc'["reader"] = pc["reader"] /\ pc'["poller"] \in PollerLabels
    BY <2>1 DEF TypeOK
  <2> QED BY <2>1, <2>2, <2>3, SameMessages DEF TypeOK
<1>6. CASE PollFails
  BY <1>6, SameMessages DEF PollFails, TypeOK
<1>2. CASE PollTick
  <2>1. ASSUME present PROVE Typed'
    <3>1. /\ taken' \in 0 .. written' /\ 1 .. taken \subseteq 1 .. taken'
          /\ chunk' \in [Goroutines -> SUBSET (1 .. taken')]
          /\ batch \in [Goroutines -> Seq(Messages')] /\ got \in Seq(SUBSET (1 .. taken'))
      BY <1>2, <2>1, DrainTyped DEF PollTick
    <3>2. pc' = [pc EXCEPT !["poller"] = "look"] /\ batch' = batch
      BY <1>2, <2>1 DEF PollTick
    <3>3. /\ pc' \in [Goroutines -> ReaderLabels \cup PollerLabels]
          /\ pc'["reader"] = pc["reader"] /\ pc'["poller"] \in PollerLabels
      BY <3>2 DEF TypeOK
    <3>4. UNCHANGED <<sessionVars, kind, shot, last, done, wire, clientVars, unsent>>
      BY <1>2 DEF PollTick
    <3>5. CommandAwaited' /\ (kind' # "none" <=> pc'["reader"] \in {"command", "drain", "look", "status"})
      BY <3>3, <3>4 DEF TypeOK
    <3>6. present' \in BOOLEAN /\ done' \in BOOLEAN /\ toldOver' \in BOOLEAN /\ overtaken' \in BOOLEAN
      BY <3>4, Zenon DEF TypeOK
    <3> QED BY <3>1, <3>2, <3>3, <3>4, <3>5, <3>6 DEF TypeOK
  <2>2. ASSUME ~present PROVE Typed'
    <3>1. Error("missing") \in Messages
      BY Said DEF Quiet
    <3>2. batch' \in [Goroutines -> Seq(Messages)] /\ pc' = [pc EXCEPT !["poller"] = "lastSend"]
      <4>1. <<Error("missing")>> \in Seq(Messages)
        BY <3>1
      <4>2. /\ batch' = [batch EXCEPT !["poller"] = <<Error("missing")>>]
            /\ pc' = [pc EXCEPT !["poller"] = "lastSend"]
        BY <1>2, <2>2 DEF PollTick
      <4> QED BY <4>1, <4>2 DEF TypeOK
    <3>3. UNCHANGED <<taken, chunk>>
      BY <1>2, <2>2 DEF PollTick
    <3> QED BY <1>2, <3>2, <3>3, SameMessages DEF PollTick, TypeOK
  <2> QED BY <2>1, <2>2
<1>3. CASE PollStatus
  <2>1. News(state) \in Seq(Messages)
    BY NewsSaid DEF Speech, TypeOK
  <2> HIDE DEF Goroutines
  <2>2. batch' \in [Goroutines -> Seq(Messages)]
    BY <1>3, <2>1 DEF PollStatus, Prepare, TypeOK
  <2>3. chunk' \in [Goroutines -> SUBSET (1 .. taken)] /\ shot' \in [Goroutines -> 0 .. written]
    <3>1. {} \in SUBSET (1 .. taken) /\ 0 \in 0 .. written
      BY SocketAssumption DEF TypeOK
    <3>2. chunk' = [chunk EXCEPT !["poller"] = {}] /\ shot' = [shot EXCEPT !["poller"] = 0]
      BY <1>3 DEF PollStatus, Prepare
    <3> QED BY <3>1, <3>2 DEF TypeOK
  <2> QED BY <1>3, <2>2, <2>3, SameMessages DEF PollStatus, TypeOK, Goroutines
<1>4. CASE Send("poller")
  BY <1>4, SendTyped
<1>7. CASE Looks("poller")
  BY <1>7, LooksTyped
<1> QED BY <1>1, <1>2, <1>3, <1>4, <1>5, <1>6, <1>7 DEF Poller

LEMMA StepTyped == Typed /\ [Next]_vars => Typed'
BY SessionTyped, ReaderTyped, PollerTyped DEF Next

(* The type invariant of a connection.                                     *)
THEOREM TypeCorrect == SafetySpec => []TypeOK
<1>1. Typed => TypeOK
  BY DEF Typed
<1> QED BY InitTyped, StepTyped, <1>1, PTL DEF SafetySpec

-----------------------------------------------------------------------------
(* Where chunks and messages are held.                                     *)
LEMMA InitHeld == Init => HeldFollowsPc /\ PollerStartsLast
BY DEF Init, HeldFollowsPc, HeldBy, PollerStartsLast, Goroutines

LEMMA PollerStep ==
  ASSUME Typed, PollerStartsLast, [Next]_vars
  PROVE  PollerStartsLast'
<1>0. pc \in [Goroutines -> ReaderLabels \cup PollerLabels] /\ Goroutines = {"reader", "poller"}
  BY DEF Typed, TypeOK, Goroutines
<1> USE DEF PollerStartsLast, Goto
<1>1. CASE Session \/ UNCHANGED vars \/ Disconnect
  BY <1>0, <1>1 DEF Session, StartElsewhere, ProgramWrites, ProgramEnds, Unregister, CloseSession,
                    TypedQuit, vars, Disconnect
<1>2. CASE Read \/ ReaderFails
  BY <1>0, <1>2 DEF Read, ReadRefused, ReadCommand, ReadOutput, ReadSnapshot, ReplyError, Receiving,
                    ReaderFails, ReaderReturns
<1>3. CASE Reader
  BY <1>0, <1>3 DEF Reader, InitialDrain, InitialLook, InitialStatus, StartPolling, Send, ReaderSent,
                    Sent, ReaderGivesUp, ReaderReturns, ReaderDrains, Looks, ReaderStatus
<1>4. CASE Poller
  BY <1>0, <1>4 DEF Poller, PollDone, PollTick, Looks, PollStatus, Send, PollSent, Sent, PollFails, Sending
<1> QED BY <1>1, <1>2, <1>3, <1>4 DEF Next

(* A goroutine that has nothing may go anywhere, any other stays.          *)
LEMMA Untouched ==
  ASSUME NEW g \in Goroutines, HeldBy(g), chunk'[g] = chunk[g], batch'[g] = batch[g],
         pc'[g] = pc[g] \/ (chunk[g] = {} /\ batch[g] = <<>>)
  PROVE  HeldBy(g)'
BY DEF HeldBy

(* What a goroutine has at its labels.                                     *)
LEMMA Empty ==
  ASSUME NEW g \in Goroutines, HeldBy(g)
  PROVE  /\ pc[g] \notin {"initialLook", "look", "status"} => chunk[g] = {}
         /\ pc[g] \notin Sending => batch[g] = <<>>
BY DEF HeldBy

LEMMA SendHeld ==
  ASSUME Typed, NEW g \in Goroutines, HeldBy(g), Send(g)
  PROVE  /\ HeldBy(g)' /\ (batch[g]' # <<>> => Head(batch[g]').out = {})
<1>1. batch[g] \in Seq(Messages) /\ batch[g] # <<>> /\ batch' = [batch EXCEPT ![g] = Tail(@)]
      /\ pc' = pc /\ chunk' = chunk /\ pc[g] \in Sending
  BY DEF Send, Typed, TypeOK
<1>2. batch'[g] = Tail(batch[g])
  BY <1>1 DEF Typed, TypeOK
<1> DEFINE s == batch[g]  t == Tail(batch[g])
<1>3. \A i \in 2 .. Len(s) : s[i].out = {}
  BY DEF HeldBy
<1>4. /\ \A i \in 2 .. Len(t) : t[i].out = {}
      /\ t # <<>> => Head(t).out = {}
  <2> HIDE DEF s
  <2> QED BY <1>1, <1>3 DEF s
<1> QED BY <1>1, <1>2, <1>4 DEF HeldBy

LEMMA HeldStep ==
  ASSUME Typed, HeldFollowsPc, PollerStartsLast, [Next]_vars
  PROVE  HeldFollowsPc'
<1> DEFINE Kind == kind = "snapshot" => pc["reader"] \in {"look", "status"} /\ chunk["reader"] = {}
<1>0. /\ pc \in [Goroutines -> ReaderLabels \cup PollerLabels]
      /\ chunk \in [Goroutines -> SUBSET (1 .. taken)] /\ batch \in [Goroutines -> Seq(Messages)]
      /\ "reader" \in Goroutines /\ "poller" \in Goroutines /\ Goroutines = {"reader", "poller"}
      /\ HeldBy("reader") /\ HeldBy("poller") /\ Kind
  BY DEF Typed, TypeOK, Goroutines, HeldFollowsPc
<1> SUFFICES HeldBy("reader")' /\ HeldBy("poller")' /\ Kind'
  BY <1>0 DEF HeldFollowsPc
<1> USE DEF sessionVars, clientVars, Goto
<1>1. CASE (Session /\ ~ProgramEnds) \/ UNCHANGED vars \/ Disconnect
  BY <1>0, <1>1, Untouched DEF Session, StartElsewhere, ProgramWrites, Unregister, CloseSession,
                    TypedQuit, vars, Disconnect
<1>2. CASE ProgramEnds
  <2>1. chunk' = chunk /\ batch' = batch /\ kind' = kind /\ pc'["poller"] = pc["poller"]
    BY <1>0, <1>2 DEF ProgramEnds
  <2>2. pc' = pc \/ pc["reader"] = "command"
    BY <1>2 DEF ProgramEnds, Typed, CommandAwaited
  <2>3. HeldBy("reader")' /\ HeldBy("poller")'
    BY <1>0, <2>1, <2>2, Untouched, Empty DEF Sending
  <2> QED BY <1>0, <2>1, <2>2, <2>3
<1>3. CASE ReaderFails \/ ReaderGivesUp
  <2>1. /\ chunk' = chunk /\ batch'["reader"] = <<>> /\ kind' = "none"
        /\ pc'["poller"] = pc["poller"] /\ pc'["reader"] = "ended" /\ batch'["poller"] = batch["poller"]
        /\ pc["reader"] \notin {"initialLook", "look", "status"}
    BY <1>0, <1>3 DEF ReaderFails, ReaderGivesUp, ReaderReturns, Sending
  <2> QED BY <1>0, <2>1, Untouched DEF HeldBy
<1>4. CASE InitialDrain
  <2>1. /\ chunk'["poller"] = chunk["poller"] /\ kind' = kind /\ pc["reader"] = "initial"
        /\ pc'["poller"] = pc["poller"] /\ batch'["poller"] = batch["poller"]
    BY <1>0, <1>4 DEF InitialDrain, TakeOutput
  <2>2. \/ pc'["reader"] = "initialLook" /\ batch'["reader"] = batch["reader"]
        \/ /\ pc'["reader"] = "lastSend" /\ batch'["reader"] = <<Error("missing")>>
           /\ chunk'["reader"] = chunk["reader"]
    BY <1>0, <1>4 DEF InitialDrain
  <2>3. Error("missing").out = {}
    BY DEF Error, Message
  <2>4. HeldBy("reader")'
    BY <1>0, <2>1, <2>2, <2>3, Empty DEF HeldBy, Sending
  <2>5. kind # "snapshot"
    BY <1>0, <2>1
  <2> QED BY <1>0, <2>1, <2>4, <2>5, Untouched
<1>18. CASE InitialLook
  <2>1. /\ pc["reader"] = "initialLook" /\ pc'["reader"] = "initialOutput" /\ kind' = kind
        /\ chunk'["reader"] = {} /\ chunk'["poller"] = chunk["poller"]
        /\ pc'["poller"] = pc["poller"] /\ batch'["poller"] = batch["poller"]
        /\ batch'["reader"] = <<>> \/ \E m : batch'["reader"] = <<m>>
    BY <1>0, <1>18 DEF InitialLook
  <2>2. HeldBy("reader")'
    BY <2>1 DEF HeldBy, Sending
  <2>3. kind # "snapshot"
    BY <1>0, <2>1
  <2> QED BY <1>0, <2>1, <2>2, <2>3, Untouched
<1>5. CASE InitialStatus
  <2>1. /\ chunk'["reader"] = {} /\ kind' = kind /\ pc["reader"] = "initialOutput"
        /\ pc'["poller"] = pc["poller"] /\ batch'["poller"] = batch["poller"]
        /\ pc'["reader"] = "initialState" /\ chunk'["poller"] = chunk["poller"]
        /\ batch'["reader"] = <<Status(state), Snapshot("reader", state)>>
    BY <1>0, <1>5 DEF InitialStatus, Prepare
  <2>2. Snapshot("reader", state).out = {}
    BY DEF Snapshot, Message
  <2>3. HeldBy("reader")'
    BY <2>1, <2>2 DEF HeldBy, Sending
  <2> QED BY <1>0, <2>1, <2>3, Untouched
<1>6. CASE StartPolling
  <2>1. /\ chunk' = chunk /\ batch' = batch /\ kind' = kind /\ batch["reader"] = <<>>
        /\ pc["reader"] = "initialState" /\ pc'["reader"] = "read" /\ pc'["poller"] = "wait"
    BY <1>6 DEF StartPolling
  <2>2. pc["poller"] = "off"
    BY <2>1 DEF PollerStartsLast
  <2> QED BY <1>0, <2>1, <2>2, Untouched, Empty DEF Sending
<1>7. CASE Send("reader")
  <2>1. kind' = kind /\ chunk' = chunk /\ pc' = pc /\ batch'["poller"] = batch["poller"]
    BY <1>0, <1>7 DEF Send
  <2> QED BY <1>0, <1>7, <2>1, SendHeld, Untouched
<1>8. CASE ReaderSent
  BY <1>0, <1>8, Untouched, Empty DEF ReaderSent, Sent
<1>9. CASE ReaderDrains
  <2>1. /\ pc["reader"] = "drain" /\ pc'["reader"] = "look" /\ batch' = batch /\ kind' = kind
        /\ chunk'["poller"] = chunk["poller"] /\ pc'["poller"] = pc["poller"]
    BY <1>0, <1>9 DEF ReaderDrains, TakeOutput
  <2>2. HeldBy("reader")'
    BY <1>0, <2>1, Empty DEF HeldBy, Sending
  <2> QED BY <1>0, <2>1, <2>2, Untouched
<1>10. CASE Looks("reader") \/ Looks("poller")
  <2>1. /\ chunk' = chunk /\ batch' = batch /\ kind' = kind
        /\ \A g \in Goroutines : pc'[g] = pc[g] \/ (pc[g] = "look" /\ pc'[g] = "status")
    BY <1>0, <1>10 DEF Looks
  <2>2. HeldBy("reader")' /\ HeldBy("poller")'
    BY <1>0, <2>1 DEF HeldBy, Sending
  <2> QED BY <1>0, <2>1, <2>2
<1>11. CASE ReaderStatus
  <2>1. Speech(Answer(state), IF kind \in {"run", "snapshot"} THEN {} ELSE chunk["reader"])
    BY AnswerSaid DEF Typed, TypeOK
  <2>2. /\ chunk'["reader"] = {} /\ kind' = "none" /\ pc'["reader"] = "send"
        /\ batch'["reader"] = Answer(state)
        /\ pc'["poller"] = pc["poller"] /\ batch'["poller"] = batch["poller"]
        /\ chunk'["poller"] = chunk["poller"]
    BY <1>0, <1>11 DEF ReaderStatus, Prepare
  <2>3. HeldBy("reader")'
    BY <2>1, <2>2 DEF HeldBy, Sending, Speech
  <2> QED BY <1>0, <2>2, <2>3, Untouched
<1>12. CASE Read
  <2>1. /\ pc["reader"] = "read" /\ chunk' = chunk /\ pc'["poller"] = pc["poller"]
        /\ batch'["poller"] = batch["poller"]
    BY <1>0, <1>12 DEF Read, ReadRefused, ReadCommand, ReadOutput, ReadSnapshot, ReplyError, Receiving
  <2>2. chunk["reader"] = {} /\ batch["reader"] = <<>>
    BY <1>0, <2>1, Empty DEF Sending
  <2>3. CASE ReadRefused
    <3>1. /\ pc'["reader"] = "send" /\ kind' = kind
          /\ \E st : batch'["reader"] = <<Error(st)>>
      BY <1>0, <2>3 DEF ReadRefused, ReplyError, Receiving
    <3> QED BY <1>0, <2>1, <2>2, <3>1, Untouched DEF HeldBy, Sending
  <2>4. CASE ReadCommand \/ ReadOutput \/ ReadSnapshot
    <3>1. batch' = batch /\ (kind' = "snapshot" => pc'["reader"] = "look")
      BY <1>0, <2>4 DEF ReadCommand, ReadOutput, ReadSnapshot
    <3> QED BY <1>0, <2>1, <2>2, <3>1, Untouched
  <2> QED BY <1>12, <2>3, <2>4 DEF Read
<1>13. CASE PollDone \/ PollSent
  BY <1>0, <1>13, Untouched, Empty DEF PollDone, PollSent, Sent, Sending
<1>14. CASE PollTick
  <2>1. /\ pc["poller"] = "wait" /\ kind' = kind /\ pc'["reader"] = pc["reader"]
        /\ chunk'["reader"] = chunk["reader"] /\ batch'["reader"] = batch["reader"]
    BY <1>0, <1>14 DEF PollTick, TakeOutput
  <2>2. \/ pc'["poller"] = "look" /\ batch'["poller"] = batch["poller"]
        \/ /\ pc'["poller"] = "lastSend" /\ chunk'["poller"] = chunk["poller"]
           /\ batch'["poller"] = <<Error("missing")>>
    BY <1>0, <1>14 DEF PollTick
  <2>3. Error("missing").out = {}
    BY DEF Error, Message
  <2>4. HeldBy("poller")'
    BY <1>0, <2>1, <2>2, <2>3, Empty DEF HeldBy, Sending
  <2> QED BY <1>0, <2>1, <2>4, Untouched
<1>15. CASE PollStatus
  <2>1. Speech(News(state), chunk["poller"])
    BY NewsSaid DEF Typed, TypeOK
  <2>2. /\ chunk'["poller"] = {} /\ kind' = kind /\ pc'["poller"] = "send"
        /\ batch'["poller"] = News(state)
        /\ pc'["reader"] = pc["reader"] /\ batch'["reader"] = batch["reader"]
        /\ chunk'["reader"] = chunk["reader"]
    BY <1>0, <1>15 DEF PollStatus, Prepare
  <2>3. HeldBy("poller")'
    BY <2>1, <2>2 DEF HeldBy, Sending, Speech
  <2> QED BY <1>0, <2>2, <2>3, Untouched
<1>16. CASE Send("poller")
  <2>1. kind' = kind /\ chunk' = chunk /\ pc' = pc /\ batch'["reader"] = batch["reader"]
    BY <1>0, <1>16 DEF Send
  <2> QED BY <1>0, <1>16, <2>1, SendHeld, Untouched
<1>17. CASE PollFails
  <2>1. /\ chunk' = chunk /\ batch'["poller"] = <<>> /\ kind' = kind /\ pc["poller"] \in Sending
        /\ pc'["reader"] = pc["reader"] /\ batch'["reader"] = batch["reader"]
    BY <1>0, <1>17 DEF PollFails
  <2>2. chunk["poller"] = {}
    BY <1>0, <2>1, Empty DEF Sending
  <2> QED BY <1>0, <2>1, <2>2, Untouched DEF HeldBy
<1> QED BY <1>1, <1>2, <1>3, <1>4, <1>5, <1>6, <1>7, <1>8, <1>9, <1>10, <1>11, <1>12, <1>13,
           <1>14, <1>15, <1>16, <1>17, <1>18 DEF Next, Reader, Poller

-----------------------------------------------------------------------------
(* The shares of the output.                                               *)

(* A goroutine's share becomes another, with what was new, or is lost with *)
(* the connection; the other's does not change.                            *)
Other(g) == IF g = "reader" THEN "poller" ELSE "reader"

LEMMA SharesMove ==
  ASSUME Typed, Shared, NEW g \in Goroutines, got' = got, taken' \in Nat, taken <= taken',
         InHand(Other(g))' = InHand(Other(g)),
         (InHand(g) \cup unsent \cup (taken + 1) .. taken') = InHand(g)' \cup unsent'
           \/ (wire' = "down" /\ InHand(g)' \cup unsent' \subseteq InHand(g) \cup unsent),
         unsent \subseteq unsent', InHand(g)' \cap unsent' = {},
         wire' = "up" => wire = "up"
  PROVE  Shared'
<1>1. Received' = Received /\ taken \in Nat
  BY SocketAssumption DEF Received, Typed, TypeOK
<1>2. Received \subseteq 1 .. taken /\ unsent \subseteq 1 .. taken
  BY DEF Received, Range, Typed, TypeOK
<1>3. /\ Other(g) \in Goroutines /\ Goroutines = {g, Other(g)} /\ g # Other(g)
  BY DEF Other, Goroutines
<1> DEFINE H == InHand(g)  O == InHand(Other(g))  H2 == InHand(g)'
<1>4. /\ H \subseteq 1 .. taken /\ O \subseteq 1 .. taken
      /\ H \cap Received = {} /\ O \cap Received = {} /\ H \cap unsent = {} /\ O \cap unsent = {}
  BY <1>3 DEF Shared
<1>5. H \cap O = {} /\ Received \cap unsent = {}
  BY DEF Shared, Other, Goroutines
<1>6. H2 \cup unsent' \subseteq H \cup unsent \cup (taken + 1) .. taken'
  OBVIOUS
<1>7. /\ H2 \subseteq 1 .. taken' /\ O \subseteq 1 .. taken'
      /\ H2 \cap Received = {} /\ O \cap unsent' = {} /\ H2 \cap O = {} /\ Received \cap unsent' = {}
  <2>1. H2 \cap unsent' = {}
    OBVIOUS
  <2>2. /\ \A c \in 1 .. taken : c \notin (taken + 1) .. taken'
        /\ 1 .. taken \subseteq 1 .. taken' /\ (taken + 1) .. taken' \subseteq 1 .. taken'
    BY <1>1
  <2> DEFINE old == 1 .. taken  new == (taken + 1) .. taken'  all == 1 .. taken'
  <2>3. H2 \cup unsent' \subseteq H \cup unsent \cup new
    BY <1>6
  <2> HIDE DEF H, O, H2, old, new, all
  <2>4. H2 \subseteq all /\ O \subseteq all
    BY <1>2, <1>4, <2>2, <2>3 DEF old, new, all
  <2>5. H2 \cap Received = {} /\ Received \cap unsent' = {}
    BY <1>2, <1>4, <1>5, <2>2, <2>3 DEF old, new
  <2>6. O \cap unsent' = {} /\ H2 \cap O = {}
    BY <1>2, <1>4, <1>5, <2>2, <2>3 DEF old, new
  <2> QED BY <2>4, <2>5, <2>6 DEF all
<1>8. ASSUME wire' = "up"
      PROVE  1 .. taken' \subseteq Received \cup H2 \cup O \cup unsent'
  <2>1. H \cup unsent \cup (taken + 1) .. taken' = H2 \cup unsent'
    BY <1>8
  <2>2. 1 .. taken \subseteq Received \cup H \cup O \cup unsent
    BY <1>8 DEF Shared, Other, Goroutines
  <2>3. 1 .. taken' \subseteq (1 .. taken) \cup (taken + 1) .. taken'
    BY <1>1
  <2> HIDE DEF H, O, H2
  <2> QED BY <2>1, <2>2, <2>3
<1>9. InHand(Other(g))' = O /\ InHand("reader")' \cap InHand("poller")' = {}
  <2>1. CASE g = "reader"
    BY <1>7, <2>1 DEF Other, InHand
  <2>2. CASE g = "poller"
    BY <1>7, <2>2 DEF Other, InHand
  <2> QED BY <2>1, <2>2 DEF Goroutines
<1>10. \A i, j \in 1 .. Len(got') : i # j => got'[i] \cap got'[j] = {}
  BY DEF Shared
<1>11. \A k \in Goroutines :
         InHand(k)' \subseteq 1 .. taken' /\ InHand(k)' \cap Received' = {} /\ InHand(k)' \cap unsent' = {}
  <2>1. ASSUME NEW k \in Goroutines
        PROVE  /\ InHand(k)' \subseteq 1 .. taken' /\ InHand(k)' \cap Received' = {}
               /\ InHand(k)' \cap unsent' = {}
    <3>1. CASE k = g
      BY <1>1, <1>7, <3>1
    <3>2. CASE k = Other(g)
      BY <1>1, <1>4, <1>7, <1>9, <3>2
    <3> QED BY <1>3, <3>1, <3>2
  <2> QED BY <2>1
<1>12. wire' = "up" =>
         1 .. taken' \subseteq Received' \cup InHand("reader")' \cup InHand("poller")' \cup unsent'
  BY <1>1, <1>8, <1>9 DEF Other, Goroutines
<1> QED BY <1>1, <1>7, <1>9, <1>10, <1>11, <1>12 DEF Shared

(* Nothing moves.                                                          *)
LEMMA SharesStay ==
  ASSUME Shared, UNCHANGED <<got, chunk, batch, taken, unsent>>, wire' = "up" => wire = "up"
  PROVE  Shared'
<1>1. Received' = Received /\ \A g \in Goroutines : InHand(g)' = InHand(g)
  BY DEF Received, InHand
<1>2. "reader" \in Goroutines /\ "poller" \in Goroutines
  BY DEF Goroutines
<1> QED BY <1>1, <1>2 DEF Shared

(* A message reaches the client.                                           *)
LEMMA SharesSent ==
  ASSUME Typed, Shared, NEW g \in Goroutines, HeldBy(g), Send(g)
  PROVE  Shared'
<1> DEFINE out == Head(batch[g]).out
           O == InHand(Other(g))
<1>1. /\ batch[g] \in Seq(Messages) /\ batch[g] # <<>> /\ batch' = [batch EXCEPT ![g] = Tail(@)]
      /\ chunk' = chunk /\ pc[g] \in Sending /\ taken' = taken /\ unsent' = unsent /\ wire' = wire
      /\ got' = IF out = {} THEN got ELSE Append(got, out)
      /\ got \in Seq(SUBSET (1 .. taken)) /\ batch \in [Goroutines -> Seq(Messages)]
  BY DEF Send, Receive, Typed, TypeOK
<1>2. /\ Other(g) \in Goroutines /\ Goroutines = {g, Other(g)} /\ g # Other(g)
      /\ {g, Other(g)} = {"reader", "poller"}
  BY DEF Other, Goroutines
<1>3. chunk[g] = {} /\ InHand(g) = out
  BY <1>1, Empty DEF Sending, InHand
<1>4. InHand(g)' = {}
  BY <1>1, <1>3, SendHeld DEF InHand
<1>5. InHand(Other(g))' = O
  <2>1. chunk'[Other(g)] = chunk[Other(g)] /\ batch'[Other(g)] = batch[Other(g)]
    BY <1>1, <1>2
  <2> QED BY <2>1 DEF InHand
<1>6. out \subseteq 1 .. taken
  BY <1>2, <1>3 DEF Shared
<1>7. Received' = Received \cup out
  <2>1. CASE out = {}
    BY <1>1, <2>1 DEF Received
  <2>2. CASE out # {}
    <3>1. got' = Append(got, out)
      BY <1>1, <2>2
    <3> HIDE DEF out
    <3>2. /\ Len(got') = Len(got) + 1 /\ got'[Len(got) + 1] = out /\ Len(got) \in Nat
          /\ \A i \in 1 .. Len(got) : got'[i] = got[i]
          /\ DOMAIN got = 1 .. Len(got) /\ DOMAIN got' = 1 .. Len(got')
      BY <1>1, <1>6, <3>1, AppendProperties, LenProperties
    <3>3. Range(got') = Range(got) \cup {out}
      <4>1. \A x \in Range(got') : x \in Range(got) \cup {out}
        BY <3>2 DEF Range
      <4>2. Range(got) \subseteq Range(got')
        BY <3>2 DEF Range
      <4>3. out \in Range(got')
        BY <3>2 DEF Range
      <4> QED BY <4>1, <4>2, <4>3
    <3> QED BY <3>3 DEF Received
  <2> QED BY <2>1, <2>2
<1>8. \A i, j \in 1 .. Len(got') : i # j => got'[i] \cap got'[j] = {}
  <2>1. CASE out = {}
    BY <1>1, <2>1 DEF Shared
  <2>2. CASE out # {}
    <3>1. got' = Append(got, out)
      BY <1>1, <2>2
    <3>2. out \cap Received = {}
      BY <1>3 DEF Shared
    <3> HIDE DEF out
    <3>3. /\ Len(got') = Len(got) + 1 /\ got'[Len(got) + 1] = out /\ Len(got) \in Nat
          /\ \A i \in 1 .. Len(got) : got'[i] = got[i] /\ got[i] \subseteq Received
      BY <1>1, <1>6, <3>1 DEF Received, Range
    <3>4. \A i \in 1 .. Len(got) : got[i] \cap out = {}
      BY <3>2, <3>3
    <3>5. \A i, j \in 1 .. Len(got) : i # j => got[i] \cap got[j] = {}
      BY DEF Shared
    <3> QED BY <3>3, <3>4, <3>5
  <2> QED BY <2>1, <2>2
<1>9. /\ O \subseteq 1 .. taken /\ O \cap Received = {} /\ O \cap unsent = {} /\ O \cap out = {}
      /\ out \cap Received = {} /\ out \cap unsent = {} /\ Received \cap unsent = {}
  <2>1. O \subseteq 1 .. taken /\ O \cap Received = {} /\ O \cap unsent = {}
    BY <1>2 DEF Shared
  <2>2. out \cap Received = {} /\ out \cap unsent = {} /\ Received \cap unsent = {}
    BY <1>3 DEF Shared
  <2>3. InHand(g) \cap O = {}
    BY DEF Shared, Other, Goroutines
  <2> QED BY <1>3, <2>1, <2>2, <2>3
<1>10. wire = "up" => 1 .. taken \subseteq Received \cup out \cup O \cup unsent
  <2>1. InHand("reader") \cup InHand("poller") = InHand(g) \cup O
    BY DEF Other, Goroutines
  <2> QED BY <1>3, <2>1 DEF Shared
<1> HIDE DEF O, out
<1>11. /\ InHand("reader")' \cap InHand("poller")' = {}
       /\ InHand("reader")' \cup InHand("poller")' = O
  <2>1. CASE g = "reader"
    BY <1>4, <1>5, <2>1 DEF Other
  <2>2. CASE g = "poller"
    BY <1>4, <1>5, <2>2 DEF Other
  <2> QED BY <2>1, <2>2 DEF Goroutines
<1>12. \A k \in Goroutines :
         InHand(k)' \subseteq 1 .. taken /\ InHand(k)' \cap Received' = {} /\ InHand(k)' \cap unsent = {}
  <2>1. ASSUME NEW k \in Goroutines
        PROVE  InHand(k)' \subseteq 1 .. taken /\ InHand(k)' \cap Received' = {} /\ InHand(k)' \cap unsent = {}
    <3>1. CASE k = g
      BY <1>4, <3>1
    <3>2. CASE k = Other(g)
      BY <1>5, <1>7, <1>9, <3>2
    <3> QED BY <1>2, <3>1, <3>2
  <2> QED BY <2>1
<1> QED BY <1>1, <1>7, <1>8, <1>9, <1>10, <1>11, <1>12 DEF Shared

LEMMA InitShared == Init => Shared /\ FirstChunk /\ CommandAwaited
<1> SUFFICES ASSUME Init PROVE Shared /\ FirstChunk /\ CommandAwaited
  OBVIOUS
<1>1. got = <<>> /\ taken = 0 /\ unsent = {} /\ runner = "nobody"
      /\ pc = [reader |-> "initial", poller |-> "off"]
  BY DEF Init
<1>2. InHand("reader") = {} /\ InHand("poller") = {}
  BY DEF Init, InHand, Goroutines
<1>3. Received = {} /\ Len(got) = 0
  BY <1>1 DEF Received, Range
<1>4. Shared
  <2>1. 1 .. taken = {} /\ 1 .. Len(got) = {}
    BY <1>1, <1>3
  <2> QED BY <1>1, <1>2, <1>3, <2>1 DEF Shared, Goroutines
<1> QED BY <1>1, <1>4 DEF FirstChunk, CommandAwaited

(* The share of a goroutine whose queue is empty, or was just filled.      *)
LEMMA ShareOf ==
  ASSUME NEW g \in Goroutines
  PROVE  /\ batch[g] = <<>> => InHand(g) = chunk[g]
         /\ chunk[g] = {} /\ batch[g] # <<>> => InHand(g) = Head(batch[g]).out
BY DEF InHand

LEMMA ShareOfSpeech ==
  ASSUME NEW g \in Goroutines, NEW t, NEW out, Speech(t, out), chunk'[g] = {}, batch'[g] = t
  PROVE  InHand(g)' = out
BY DEF InHand, Speech

LEMMA OtherShare ==
  ASSUME NEW g \in Goroutines, chunk'[Other(g)] = chunk[Other(g)], batch'[Other(g)] = batch[Other(g)]
  PROVE  InHand(Other(g))' = InHand(Other(g))
BY DEF InHand

LEMMA SharedStep ==
  ASSUME Typed, HeldFollowsPc, Shared, [Next]_vars
  PROVE  Shared'
<1>0. /\ pc \in [Goroutines -> ReaderLabels \cup PollerLabels]
      /\ chunk \in [Goroutines -> SUBSET (1 .. taken)] /\ batch \in [Goroutines -> Seq(Messages)]
      /\ "reader" \in Goroutines /\ "poller" \in Goroutines /\ Goroutines = {"reader", "poller"}
      /\ Other("reader") = "poller" /\ Other("poller") = "reader"
      /\ HeldBy("reader") /\ HeldBy("poller")
      /\ kind = "snapshot" => chunk["reader"] = {}
  BY DEF Typed, TypeOK, Goroutines, HeldFollowsPc, Other
<1>a. /\ taken \in Nat /\ written \in Nat /\ taken <= written /\ (taken + 1) .. taken = {}
  BY SocketAssumption DEF Typed, TypeOK
<1>b. \A g \in Goroutines : InHand(g) \cap unsent = {} /\ InHand(g) \subseteq 1 .. taken
  BY DEF Shared
<1>c. \A c \in (taken + 1) .. written : c \notin unsent
  BY <1>a DEF Typed, TypeOK
<1>d. Error("missing").out = {} /\ \A st : Error(st).out = {} /\ Status(st).out = {}
  BY DEF Error, Status, Message
<1> USE DEF sessionVars, clientVars
<1>1. CASE Session \/ UNCHANGED vars \/ Disconnect \/ StartPolling \/ ReaderSent
           \/ Looks("reader") \/ Looks("poller") \/ PollDone \/ PollSent \/ ReadCommand \/ ReadOutput \/ ReadSnapshot
  <2>1. UNCHANGED <<got, chunk, batch, taken, unsent>> /\ (wire' = "up" => wire = "up")
    BY <1>1 DEF Session, StartElsewhere, ProgramWrites, ProgramEnds, Unregister, CloseSession,
                TypedQuit, vars, Disconnect, StartPolling, ReaderSent, Sent, Looks, PollDone,
                PollSent, ReadCommand, ReadOutput, ReadSnapshot, Receiving
  <2> QED BY <2>1, SharesStay
<1>2. CASE Send("reader") \/ Send("poller")
  BY <1>0, <1>2, SharesSent
<1>3. CASE ReaderFails \/ ReaderGivesUp
  <2>1. /\ chunk' = chunk /\ batch'["reader"] = <<>> /\ batch'["poller"] = batch["poller"]
        /\ wire' = "down" /\ UNCHANGED <<got, taken, unsent>>
    BY <1>0, <1>3 DEF ReaderFails, ReaderGivesUp, ReaderReturns
  <2>2. InHand("reader")' \subseteq InHand("reader")
    BY <2>1 DEF InHand
  <2>3. InHand("poller")' = InHand("poller")
    BY <1>0, <2>1, OtherShare
  <2> QED BY <1>0, <1>a, <1>b, <2>1, <2>2, <2>3, SharesMove
<1>4. CASE InitialDrain
  <2>1. /\ pc["reader"] = "initial" /\ UNCHANGED <<got, unsent, wire>>
        /\ batch'["poller"] = batch["poller"] /\ chunk'["poller"] = chunk["poller"]
    BY <1>0, <1>4 DEF InitialDrain, TakeOutput
  <2>2. InHand("reader") = {} /\ batch["reader"] = <<>> /\ chunk["reader"] = {}
    BY <1>0, <2>1, Empty, ShareOf DEF Sending
  <2>3. InHand("poller")' = InHand("poller")
    BY <1>0, <2>1, OtherShare
  <2>4. CASE present
    <3>1. taken' = written /\ chunk'["reader"] = (taken + 1) .. taken' /\ batch' = batch
      BY <1>0, <1>4, <2>4 DEF InitialDrain, TakeOutput
    <3>2. InHand("reader")' = (taken + 1) .. taken'
      BY <2>2, <3>1 DEF InHand
    <3> QED BY <1>0, <1>a, <1>c, <2>1, <2>2, <2>3, <3>1, <3>2, SharesMove
  <2>5. CASE ~present
    <3>1. taken' = taken /\ chunk' = chunk /\ batch'["reader"] = <<Error("missing")>>
      BY <1>0, <1>4, <2>5 DEF InitialDrain
    <3>2. InHand("reader")' = {}
      BY <1>d, <2>2, <3>1 DEF InHand
    <3> QED BY <1>0, <1>a, <2>1, <2>2, <2>3, <3>1, <3>2, SharesMove
  <2> QED BY <2>4, <2>5
<1>12. CASE InitialLook
  <2>1. /\ pc["reader"] = "initialLook" /\ chunk'["reader"] = {}
        /\ chunk'["poller"] = chunk["poller"] /\ batch'["poller"] = batch["poller"]
        /\ UNCHANGED <<got, taken, unsent, wire>>
        /\ batch'["reader"] = IF chunk["reader"] # {} THEN <<Output("reader", "none")>> ELSE <<>>
    BY <1>0, <1>12 DEF InitialLook
  <2>2. InHand("reader") = chunk["reader"]
    BY <1>0, <2>1, Empty, ShareOf DEF Sending
  <2>3. InHand("poller")' = InHand("poller")
    BY <1>0, <2>1, OtherShare
  <2>4. InHand("reader")' = chunk["reader"]
    <3>1. Output("reader", "none").out = chunk["reader"]
      BY DEF Output, Message
    <3>2. CASE chunk["reader"] # {}
      BY <2>1, <3>1, <3>2 DEF InHand
    <3>3. CASE chunk["reader"] = {}
      BY <2>1, <3>3 DEF InHand
    <3> QED BY <3>2, <3>3
  <2> QED BY <1>0, <1>a, <1>b, <2>1, <2>2, <2>3, <2>4, SharesMove
<1>5. CASE InitialStatus
  <2>1. /\ pc["reader"] = "initialOutput" /\ batch["reader"] = <<>>
        /\ batch'["poller"] = batch["poller"] /\ chunk'["poller"] = chunk["poller"]
        /\ chunk'["reader"] = {} /\ UNCHANGED <<got, taken, unsent, wire>>
        /\ batch'["reader"] = <<Status(state), Snapshot("reader", state)>>
    BY <1>0, <1>5 DEF InitialStatus, Prepare
  <2>2. InHand("reader") = {}
    BY <1>0, <2>1, Empty, ShareOf
  <2>3. InHand("poller")' = InHand("poller")
    BY <1>0, <2>1, OtherShare
  <2>4. InHand("reader")' = {}
    BY <1>d, <2>1 DEF InHand
  <2> QED BY <1>0, <1>a, <2>1, <2>2, <2>3, <2>4, SharesMove
<1>6. CASE ReadRefused
  <2>1. /\ pc["reader"] = "read" /\ chunk' = chunk /\ batch'["poller"] = batch["poller"]
        /\ UNCHANGED <<got, taken, unsent, wire>>
        /\ \E st : batch'["reader"] = <<Error(st)>>
    BY <1>0, <1>6 DEF ReadRefused, Receiving, ReplyError
  <2>2. InHand("reader") = {} /\ chunk["reader"] = {}
    BY <1>0, <2>1, Empty, ShareOf DEF Sending
  <2>3. InHand("poller")' = InHand("poller")
    BY <1>0, <2>1, OtherShare
  <2>4. InHand("reader")' = {}
    BY <1>d, <2>1, <2>2 DEF InHand
  <2> QED BY <1>0, <1>a, <2>1, <2>2, <2>3, <2>4, SharesMove
<1>7. CASE ReaderDrains
  <2>1. /\ pc["reader"] = "drain" /\ taken' = written /\ chunk'["reader"] = (taken + 1) .. taken'
        /\ batch' = batch /\ chunk'["poller"] = chunk["poller"] /\ UNCHANGED <<got, unsent, wire>>
    BY <1>0, <1>7 DEF ReaderDrains, TakeOutput
  <2>2. InHand("reader") = {} /\ batch["reader"] = <<>>
    BY <1>0, <2>1, Empty, ShareOf DEF Sending
  <2>3. InHand("poller")' = InHand("poller")
    BY <1>0, <2>1, OtherShare
  <2>4. InHand("reader")' = (taken + 1) .. taken'
    BY <2>1, <2>2 DEF InHand
  <2> QED BY <1>0, <1>a, <1>c, <2>1, <2>2, <2>3, <2>4, SharesMove
<1>8. CASE ReaderStatus
  <2>1. Speech(Answer(state), IF kind \in {"run", "snapshot"} THEN {} ELSE chunk["reader"])
    BY AnswerSaid DEF Typed, TypeOK
  <2>2. /\ pc["reader"] = "status" /\ chunk'["reader"] = {} /\ batch'["reader"] = Answer(state)
        /\ batch'["poller"] = batch["poller"] /\ chunk'["poller"] = chunk["poller"]
        /\ unsent' = (IF kind = "run" THEN unsent \cup chunk["reader"] ELSE unsent)
        /\ UNCHANGED <<got, taken, wire>>
    BY <1>0, <1>8 DEF ReaderStatus, Prepare
  <2>3. InHand("reader") = chunk["reader"]
    BY <1>0, <2>2, Empty, ShareOf DEF Sending
  <2>4. InHand("poller")' = InHand("poller")
    BY <1>0, <2>2, OtherShare
  <2>5. InHand("reader")' = IF kind \in {"run", "snapshot"} THEN {} ELSE chunk["reader"]
    BY <1>0, <2>1, <2>2, ShareOfSpeech
  <2>6. InHand("reader")' \cup unsent' = InHand("reader") \cup unsent
    BY <1>0, <2>2, <2>3, <2>5
  <2>7. InHand("reader")' \cap unsent' = {} /\ unsent \subseteq unsent'
    BY <1>0, <1>b, <2>2, <2>3, <2>5
  <2> QED BY <1>0, <1>a, <2>2, <2>4, <2>6, <2>7, SharesMove
<1>9. CASE PollTick
  <2>1. pc["poller"] = "wait" /\ UNCHANGED <<got, unsent, wire>> /\ batch'["reader"] = batch["reader"]
        /\ chunk'["reader"] = chunk["reader"]
    BY <1>0, <1>9 DEF PollTick, TakeOutput
  <2>2. InHand("poller") = {} /\ batch["poller"] = <<>> /\ chunk["poller"] = {}
    BY <1>0, <2>1, Empty, ShareOf DEF Sending
  <2>3. InHand("reader")' = InHand("reader")
    BY <1>0, <2>1, OtherShare
  <2>4. CASE present
    <3>1. taken' = written /\ chunk'["poller"] = (taken + 1) .. taken' /\ batch' = batch
      BY <1>0, <1>9, <2>4 DEF PollTick, TakeOutput
    <3>2. InHand("poller")' = (taken + 1) .. taken'
      BY <2>2, <3>1 DEF InHand
    <3> QED BY <1>0, <1>a, <1>c, <2>1, <2>2, <2>3, <3>1, <3>2, SharesMove
  <2>5. CASE ~present
    <3>1. taken' = taken /\ chunk' = chunk /\ batch'["poller"] = <<Error("missing")>>
      BY <1>0, <1>9, <2>5 DEF PollTick
    <3>2. InHand("poller")' = {}
      BY <1>d, <2>2, <3>1 DEF InHand
    <3> QED BY <1>0, <1>a, <2>1, <2>2, <2>3, <3>1, <3>2, SharesMove
  <2> QED BY <2>4, <2>5
<1>10. CASE PollStatus
  <2>1. Speech(News(state), chunk["poller"])
    BY NewsSaid DEF Typed, TypeOK
  <2>2. /\ pc["poller"] = "status" /\ chunk'["poller"] = {} /\ batch'["poller"] = News(state)
        /\ batch'["reader"] = batch["reader"] /\ chunk'["reader"] = chunk["reader"]
        /\ UNCHANGED <<got, taken, unsent, wire>>
    BY <1>0, <1>10 DEF PollStatus, Prepare
  <2>3. InHand("poller") = chunk["poller"]
    BY <1>0, <2>2, Empty, ShareOf DEF Sending
  <2>4. InHand("reader")' = InHand("reader")
    BY <1>0, <2>2, OtherShare
  <2>5. InHand("poller")' = chunk["poller"]
    BY <1>0, <2>1, <2>2, ShareOfSpeech
  <2> QED BY <1>0, <1>a, <1>b, <2>2, <2>3, <2>4, <2>5, SharesMove
<1>11. CASE PollFails
  <2>1. /\ chunk' = chunk /\ batch'["poller"] = <<>> /\ batch'["reader"] = batch["reader"]
        /\ wire = "down" /\ UNCHANGED <<got, taken, unsent, wire>>
    BY <1>0, <1>11 DEF PollFails
  <2>2. InHand("poller")' \subseteq InHand("poller")
    BY <2>1 DEF InHand
  <2>3. InHand("reader")' = InHand("reader")
    BY <1>0, <2>1, OtherShare
  <2> QED BY <1>0, <1>a, <1>b, <2>1, <2>2, <2>3, SharesMove
<1> QED BY <1>1, <1>2, <1>3, <1>4, <1>5, <1>6, <1>7, <1>8, <1>9, <1>10, <1>11, <1>12
           DEF Next, Read, Reader, Poller

LEMMA FirstOfAppend ==
  ASSUME NEW S, NEW s \in Seq(S), NEW e \in S
  PROVE  Append(s, e) # <<>> /\ Append(s, e)[1] = IF s = <<>> THEN e ELSE s[1]
<1>1. Len(Append(s, e)) = Len(s) + 1 /\ Len(s) \in Nat
  OBVIOUS
<1>2. Append(s, e) # <<>>
  BY <1>1
<1>3. CASE s = <<>>
  BY <1>3
<1>4. CASE s # <<>>
  <2>1. 1 \in 1 .. Len(s)
    BY <1>4
  <2> QED BY <1>4, <2>1
<1> QED BY <1>2, <1>3, <1>4

(* What waited for the client comes first.                                 *)
LEMMA FirstSent ==
  ASSUME Typed, HeldFollowsPc, FirstChunk, NEW g \in Goroutines, Send(g),
         g = "poller" => pc["poller"] # "off"
  PROVE  FirstChunk'
<1> DEFINE out == Head(batch[g]).out
<1>1. /\ batch[g] \in Seq(Messages) /\ batch[g] # <<>> /\ batch' = [batch EXCEPT ![g] = Tail(@)]
      /\ pc' = pc /\ pc[g] \in Sending /\ taken' = taken
      /\ got' = IF out = {} THEN got ELSE Append(got, out)
      /\ got \in Seq(SUBSET (1 .. taken)) /\ batch \in [Goroutines -> Seq(Messages)]
      /\ HeldBy(g)
  BY DEF Send, Receive, Typed, TypeOK, HeldFollowsPc
<1>2. out \in SUBSET (1 .. taken)
  BY <1>1, Sending1 DEF Messages
<1>3. CASE got # <<>>
  <2>1. got' # <<>> /\ got'[1] = got[1]
    <3> HIDE DEF out
    <3>1. CASE out = {}
      BY <1>1, <1>3, <3>1
    <3>2. CASE out # {}
      BY <1>1, <1>2, <1>3, <3>2, FirstOfAppend
    <3> QED BY <3>1, <3>2
  <2>2. pc["reader"] = "initialOutput" => batch'["reader"] = <<>>
    BY <1>1, <1>3 DEF FirstChunk, Goroutines
  <2>3. pc["reader"] # "initial"
    BY <1>3 DEF FirstChunk
  <2> QED BY <1>1, <1>3, <2>1, <2>2, <2>3 DEF FirstChunk
<1>4. CASE got = <<>> /\ g = "reader" /\ pc["reader"] = "initialOutput"
  <2>1. Len(batch["reader"]) = 1 /\ 1 \in out
    BY <1>1, <1>4 DEF FirstChunk
  <2>2. batch'["reader"] = <<>>
    <3>1. batch'["reader"] = Tail(batch["reader"])
      BY <1>1, <1>4
    <3> QED BY <1>1, <1>4, <2>1, <3>1
  <2>3. got' # <<>> /\ got'[1] = out
    <3>1. got' = Append(got, out)
      BY <1>1, <2>1
    <3> HIDE DEF out
    <3> QED BY <1>1, <1>2, <1>4, <3>1, FirstOfAppend
  <2> QED BY <1>1, <1>4, <2>1, <2>2, <2>3 DEF FirstChunk
<1>5. CASE got = <<>> /\ ~(g = "reader" /\ pc["reader"] = "initialOutput")
  <2>1. g = "reader" /\ pc["reader"] = "lastSend"
    BY <1>1, <1>5 DEF FirstChunk, Sending, Goroutines
  <2>2. got' = got
    BY <1>1, <2>1 DEF HeldBy
  <2> QED BY <1>1, <1>5, <2>1, <2>2 DEF FirstChunk
<1> QED BY <1>3, <1>4, <1>5

LEMMA FirstStep ==
  ASSUME Typed, HeldFollowsPc, PollerStartsLast, FirstChunk, [Next]_vars
  PROVE  FirstChunk'
<1>0. /\ pc \in [Goroutines -> ReaderLabels \cup PollerLabels]
      /\ batch \in [Goroutines -> Seq(Messages)]
      /\ "reader" \in Goroutines /\ "poller" \in Goroutines /\ Goroutines = {"reader", "poller"}
  BY DEF Typed, TypeOK, Goroutines
<1> USE DEF sessionVars, clientVars, Goto
<1>1. CASE (Session /\ ~ProgramEnds) \/ UNCHANGED vars \/ Disconnect
  BY <1>0, <1>1 DEF Session, StartElsewhere, ProgramWrites, Unregister, CloseSession, TypedQuit,
                    vars, Disconnect, FirstChunk
<1>2. CASE ProgramEnds
  <2>1. got' = got /\ taken' = taken /\ batch' = batch /\ chunk' = chunk
    BY <1>2 DEF ProgramEnds
  <2>2. CASE pc' = pc
    BY <2>1, <2>2 DEF FirstChunk
  <2>3. CASE pc' # pc
    <3>1. pc["reader"] = "command" /\ pc'["reader"] = "drain"
      BY <1>0, <1>2, <2>3 DEF ProgramEnds, Typed, CommandAwaited
    <3> QED BY <2>1, <3>1 DEF FirstChunk
  <2> QED BY <2>2, <2>3
<1>3. CASE ReaderFails \/ ReaderGivesUp
  <2>1. got' = got /\ pc'["reader"] = "ended" /\ pc'["poller"] = pc["poller"]
    BY <1>0, <1>3 DEF ReaderFails, ReaderGivesUp, ReaderReturns
  <2>2. got # <<>> => 1 \in got[1]
    BY DEF FirstChunk
  <2>3. pc["poller"] # "off" => got # <<>>
    BY DEF FirstChunk
  <2> QED BY <2>1, <2>2, <2>3 DEF FirstChunk
<1>4. CASE Send("reader")
  BY <1>0, <1>4, FirstSent
<1>5. CASE Send("poller")
  <2>1. pc["poller"] # "off"
    BY <1>5 DEF Send, Sending
  <2> QED BY <1>0, <1>5, <2>1, FirstSent
<1>6. CASE InitialDrain
  <2>1. /\ pc["reader"] = "initial" /\ got' = got /\ pc'["poller"] = pc["poller"]
        /\ got = <<>> /\ taken = 0 /\ pc["poller"] = "off"
    BY <1>0, <1>6 DEF InitialDrain, FirstChunk, PollerStartsLast
  <2>2. CASE present
    <3>1. written \in Nat \ {0}
      BY SocketAssumption DEF Typed, TypeOK
    <3>2. pc'["reader"] = "initialLook" /\ chunk'["reader"] = (taken + 1) .. written
      BY <1>0, <1>6, <2>2 DEF InitialDrain, TakeOutput, Typed, TypeOK
    <3>3. 1 \in chunk'["reader"]
      BY <2>1, <3>1, <3>2
    <3> QED BY <2>1, <3>2, <3>3 DEF FirstChunk
  <2>3. CASE ~present
    BY <1>0, <1>6, <2>1, <2>3 DEF InitialDrain, FirstChunk
  <2> QED BY <2>2, <2>3
<1>10. CASE InitialLook
  <2>1. /\ pc["reader"] = "initialLook" /\ got' = got /\ pc'["poller"] = pc["poller"]
        /\ got = <<>> /\ 1 \in chunk["reader"] /\ pc["poller"] = "off"
        /\ pc'["reader"] = "initialOutput"
    BY <1>0, <1>10 DEF InitialLook, FirstChunk, PollerStartsLast
  <2>2. batch'["reader"] = <<Output("reader", "none")>>
    BY <1>0, <1>10, <2>1 DEF InitialLook
  <2>3. /\ Len(batch'["reader"]) = 1 /\ batch'["reader"] # <<>>
        /\ Head(batch'["reader"]).out = chunk["reader"]
    BY <2>2 DEF Output, Message
  <2> QED BY <2>1, <2>3 DEF FirstChunk
<1>7. CASE InitialStatus \/ StartPolling
  <2>1. /\ pc["reader"] \in {"initialOutput", "initialState"} /\ got' = got
        /\ pc["reader"] = "initialOutput" => batch["reader"] = <<>>
        /\ pc'["reader"] \in {"initialState", "read"}
    BY <1>0, <1>7 DEF InitialStatus, StartPolling
  <2> QED BY <2>1 DEF FirstChunk
<1>8. CASE ReaderSent \/ ReaderDrains \/ Looks("reader") \/ ReaderStatus \/ Read
  <2>1. /\ pc["reader"] \in {"send", "drain", "look", "status", "read"} /\ got' = got
        /\ pc'["reader"] \in {"send", "drain", "look", "status", "read", "command"}
        /\ pc'["poller"] = pc["poller"]
    BY <1>0, <1>8 DEF ReaderSent, Sent, ReaderDrains, Looks, ReaderStatus, Read, ReadRefused,
                      ReadCommand, ReadOutput, ReadSnapshot, ReplyError, Receiving
  <2> QED BY <2>1 DEF FirstChunk
<1>9. CASE PollDone \/ PollTick \/ Looks("poller") \/ PollStatus \/ PollSent \/ PollFails
  <2>1. /\ pc["poller"] # "off" /\ pc'["reader"] = pc["reader"] /\ got' = got
        /\ batch'["reader"] = batch["reader"] /\ chunk'["reader"] = chunk["reader"]
    <3>1. CASE PollTick
      BY <1>0, <3>1 DEF PollTick, TakeOutput, Typed, TypeOK
    <3>2. CASE PollDone \/ Looks("poller") \/ PollSent \/ PollFails
      BY <1>0, <3>2 DEF PollDone, Looks, PollSent, Sent, PollFails, Sending
    <3>3. CASE PollStatus
      BY <1>0, <3>3 DEF PollStatus, Prepare, Typed, TypeOK
    <3> QED BY <1>9, <3>1, <3>2, <3>3
  <2> QED BY <2>1 DEF FirstChunk
<1> QED BY <1>1, <1>2, <1>3, <1>4, <1>5, <1>6, <1>7, <1>8, <1>9, <1>10 DEF Next, Reader, Poller

-----------------------------------------------------------------------------
LEMMA Invariance == SafetySpec => []Inv
<1>1. Init => Inv
  BY InitTyped, InitHeld, InitShared DEF Inv, Typed
<1>2. Inv /\ [Next]_vars => Inv'
  BY StepTyped, HeldStep, PollerStep, SharedStep, FirstStep DEF Inv, Typed
<1> QED BY <1>1, <1>2, PTL DEF SafetySpec

(* All a goroutine holds is what it drained and the first of its messages. *)
LEMMA HeldIsInHand ==
  ASSUME TypeOK, NEW g \in Goroutines, HeldBy(g)
  PROVE  Held(g) = InHand(g)
<1> DEFINE b == batch[g]
<1>1. b \in Seq(Messages) /\ \A i \in 2 .. Len(b) : b[i].out = {}
  BY DEF TypeOK, HeldBy
<1>2. Held(g) = chunk[g] \cup UNION {m.out : m \in Range(b)}
  BY DEF Held
<1>3. InHand(g) = chunk[g] \cup IF b = <<>> THEN {} ELSE Head(b).out
  BY DEF InHand
<1> HIDE DEF b
<1>4. UNION {m.out : m \in Range(b)} = IF b = <<>> THEN {} ELSE Head(b).out
  <2>1. CASE b = <<>>
    <3>1. Range(b) = {}
      BY <2>1 DEF Range
    <3> QED BY <2>1, <3>1
  <2>2. CASE b # <<>>
    <3>1. \A m \in Range(b) : m = Head(b) \/ m.out = {}
      BY <1>1, <2>2 DEF Range
    <3>2. Head(b) \in Range(b)
      BY <1>1, <2>2 DEF Range
    <3> QED BY <2>2, <3>1, <3>2
  <2> QED BY <2>1, <2>2
<1> QED BY <1>2, <1>3, <1>4

(* OutputConserved, for any number of chunks and messages: while the       *)
(* connection is up, every chunk that one of the two goroutines drained    *)
(* was received once, is held by one of them, or is left out of the answer *)
(* to run, which has no output field.                                      *)
THEOREM OutputShared == SafetySpec => []OutputConserved
<1>1. Inv => OutputConserved
  <2> SUFFICES ASSUME Inv PROVE OutputConserved
    OBVIOUS
  <2> DEFINE r == Received  a == Held("reader")  b == Held("poller")  u == unsent
             shares == <<r, a, b, u>>
  <2>1. a = InHand("reader") /\ b = InHand("poller")
    BY HeldIsInHand DEF Inv, HeldFollowsPc, Goroutines
  <2>2. /\ r \cap a = {} /\ r \cap b = {} /\ r \cap u = {} /\ a \cap b = {} /\ a \cap u = {}
        /\ b \cap u = {}
    BY <2>1 DEF Inv, Shared, Goroutines
  <2>3. \A i, j \in DOMAIN got : i # j => got[i] \cap got[j] = {}
    <3>1. got \in Seq(SUBSET (1 .. taken))
      BY DEF Inv, TypeOK
    <3>2. \A i, j \in 1 .. Len(got) : i # j => got[i] \cap got[j] = {}
      BY DEF Inv, Shared
    <3> QED BY <3>1, <3>2
  <2>4. wire = "up" => 1 .. taken = r \cup a \cup b \cup u
    <3>1. r \subseteq 1 .. taken
      BY DEF Received, Range, Inv, TypeOK
    <3>2. a \subseteq 1 .. taken /\ b \subseteq 1 .. taken /\ u \subseteq 1 .. taken
      BY <2>1 DEF Inv, Shared, Goroutines, TypeOK
    <3>3. wire = "up" => 1 .. taken \subseteq r \cup a \cup b \cup u
      BY <2>1 DEF Inv, Shared
    <3> QED BY <3>1, <3>2, <3>3
  <2> HIDE DEF r, a, b, u
  <2>5. DOMAIN shares = 1 .. 4 /\ shares[1] = r /\ shares[2] = a /\ shares[3] = b /\ shares[4] = u
    OBVIOUS
  <2>6. UNION Range(shares) = r \cup a \cup b \cup u
    BY <2>5 DEF Range
  <2>7. \A i, j \in DOMAIN shares : i # j => shares[i] \cap shares[j] = {}
    BY <2>2, <2>5
  <2> QED BY <2>3, <2>4, <2>6, <2>7 DEF OutputConserved, r, a, b, u
<1> QED BY Invariance, <1>1, PTL

(* InitialFirst, likewise: when the poller has been started, and with it   *)
(* the second source of messages, the client has the output that waited    *)
(* for it, before any other.                                               *)
THEOREM PromptComesFirst == SafetySpec => []InitialFirst
<1>1. Inv => InitialFirst
  BY DEF Inv, FirstChunk, InitialFirst
<1> QED BY Invariance, <1>1, PTL

-----------------------------------------------------------------------------
(* lastState is overwritten before the message is sent.  While the         *)
(* connection is up, a poller that remembers the close has told the client *)
(* or has the message in hand, and it stops after telling it.              *)
Watched ==
  wire = "up" =>
    /\ ~done
    /\ pc["poller"] = "stopped" => toldOver
    /\ pc["poller"] = "lastSend" =>
         toldOver \/ (batch["poller"] # <<>> /\ Head(batch["poller"]).st = "missing")
    /\ last = "closed" =>
         toldOver \/ \E i \in 1 .. Len(batch["poller"]) : batch["poller"][i].st = "closed"

(* Steps of others, which may break the connection or tell the client.     *)
LEMMA WatchedKept ==
  ASSUME Watched, wire' = wire \/ wire' = "down", done' = done \/ wire' = "down",
         pc'["poller"] = pc["poller"] \/ pc'["poller"] = "wait",
         batch'["poller"] = batch["poller"], last' = last, toldOver => toldOver'
  PROVE  Watched'
BY DEF Watched

LEMMA NewsOfClose ==
  ASSUME TypeOK, last # "closed"
  PROVE  \E i \in 1 .. Len(News("closed")) : News("closed")[i].st = "closed"
<1> DEFINE out == IF chunk["poller"] # {} THEN <<Output("poller", "closed")>> ELSE <<>>
           told == Status("closed")
           shown == <<Snapshot("poller", "closed")>>
           front == out \o <<told>>
<1>1. News("closed") = front \o shown
  BY DEF News
<1>2. out \in Seq(Messages) /\ told \in Messages /\ shown \in Seq(Messages)
  <2>1. /\ Output("poller", "closed") \in Messages /\ Status("closed") \in Messages
        /\ Snapshot("poller", "closed") \in Messages
    BY Said DEF Goroutines, States, Quiet
  <2> QED BY <2>1
<1>3. told.st = "closed"
  BY DEF Status, Message
<1> HIDE DEF out, told, shown
<1>4. <<told>> \in Seq(Messages) /\ Len(<<told>>) = 1 /\ <<told>>[1] = told
  BY <1>2
<1>5. front \in Seq(Messages) /\ Len(front) = Len(out) + 1 /\ front[Len(out) + 1] = told
  BY <1>2, <1>4, ConcatProperties
<1> HIDE DEF front
<1>6. Len(out) \in Nat /\ Len(shown) \in Nat
  BY <1>2
<1>7. /\ Len(News("closed")) = Len(front) + Len(shown)
      /\ News("closed")[Len(out) + 1] = front[Len(out) + 1]
  BY <1>1, <1>2, <1>5, <1>6, ConcatProperties
<1>8. Len(out) + 1 \in 1 .. Len(News("closed"))
  BY <1>5, <1>6, <1>7
<1> QED BY <1>3, <1>5, <1>7, <1>8

LEMMA WatchedSent ==
  ASSUME Typed, Watched, Send("poller")
  PROVE  Watched'
<1> DEFINE b == batch["poller"]
<1>1. /\ b \in Seq(Messages) /\ b # <<>> /\ batch'["poller"] = Tail(b) /\ pc' = pc /\ last' = last
      /\ wire' = wire /\ wire = "up" /\ done' = done
      /\ toldOver' = (toldOver \/ Head(b).st \in {"closed", "missing"})
  BY DEF Send, Receive, Typed, TypeOK, Goroutines
<1> HIDE DEF b
<1>2. pc["poller"] # "stopped" /\ (pc["poller"] = "lastSend" => toldOver')
  BY <1>1 DEF Watched, Send, Sending, b
<1>3. ASSUME last = "closed", ~toldOver'
      PROVE  \E i \in 1 .. Len(Tail(b)) : Tail(b)[i].st = "closed"
  <2>1. PICK i \in 1 .. Len(b) : b[i].st = "closed"
    BY <1>1, <1>3 DEF Watched, b
  <2>2. Head(b).st # "closed" /\ Head(b) = b[1]
    <3>1. ~(Head(b).st \in {"closed", "missing"})
      BY <1>1, <1>3, Zenon
    <3> QED BY <1>1, <3>1
  <2>3. i - 1 \in 1 .. Len(Tail(b)) /\ Tail(b)[i - 1] = b[i]
    <3>1. i # 1
      BY <2>1, <2>2
    <3> QED BY <1>1, <2>1, <3>1
  <2> QED BY <2>1, <2>3
<1> QED BY <1>1, <1>2, <1>3 DEF Watched

LEMMA WatchedStep ==
  ASSUME Typed, HeldFollowsPc, PollerStartsLast, Watched, [Next]_vars
  PROVE  Watched'
<1>0. /\ pc \in [Goroutines -> ReaderLabels \cup PollerLabels]
      /\ batch \in [Goroutines -> Seq(Messages)] /\ state \in States
      /\ Goroutines = {"reader", "poller"}
  BY DEF Typed, TypeOK, Goroutines
<1> USE DEF sessionVars, clientVars, Goto
<1>1. CASE Session \/ UNCHANGED vars \/ Disconnect
  <2>1. /\ wire' = wire \/ wire' = "down"
        /\ UNCHANGED <<done, batch, last, toldOver>> /\ pc'["poller"] = pc["poller"]
    BY <1>0, <1>1 DEF Session, StartElsewhere, ProgramWrites, ProgramEnds, Unregister,
                      CloseSession, TypedQuit, vars, Disconnect
  <2> QED BY <2>1, WatchedKept
<1>2. CASE Read \/ ReaderFails
  <2>1. /\ (wire' = wire /\ done' = done) \/ wire' = "down"
        /\ UNCHANGED <<last, toldOver>> /\ pc'["poller"] = pc["poller"]
        /\ batch'["poller"] = batch["poller"]
    BY <1>0, <1>2 DEF Read, ReadRefused, ReadCommand, ReadOutput, ReadSnapshot, ReplyError,
                      Receiving, ReaderFails, ReaderReturns
  <2> QED BY <2>1, WatchedKept
<1>3. CASE Reader
  <2> DEFINE Kept == /\ (wire' = wire /\ done' = done) \/ wire' = "down"
                     /\ last' = last /\ (toldOver => toldOver')
                     /\ pc'["poller"] = pc["poller"] \/ pc'["poller"] = "wait"
                     /\ batch'["poller"] = batch["poller"]
  <2>1. ASSUME InitialDrain PROVE Kept
    <3>1. pc'["poller"] = pc["poller"]
      BY <1>0, <2>1 DEF InitialDrain
    <3>2. batch'["poller"] = batch["poller"]
      BY <1>0, <2>1 DEF InitialDrain
    <3> QED BY <2>1, <3>1, <3>2 DEF InitialDrain
  <2>2. ASSUME InitialLook \/ InitialStatus \/ StartPolling \/ ReaderSent PROVE Kept
    BY <1>0, <2>2 DEF InitialLook, InitialStatus, StartPolling, ReaderSent, Sent, Prepare
  <2>3. ASSUME Send("reader") PROVE Kept
    <3>1. toldOver' = (toldOver \/ Head(batch["reader"]).st \in {"closed", "missing"})
      BY <2>3 DEF Send, Receive
    <3>2. toldOver => toldOver'
      BY <3>1, Zenon
    <3>3. batch'["poller"] = batch["poller"]
      BY <1>0, <2>3 DEF Send
    <3> QED BY <2>3, <3>2, <3>3 DEF Send
  <2>4. ASSUME ReaderGivesUp PROVE Kept
    BY <1>0, <2>4 DEF ReaderGivesUp, ReaderReturns
  <2>5. ASSUME ReaderDrains \/ Looks("reader") \/ ReaderStatus PROVE Kept
    BY <1>0, <2>5 DEF ReaderDrains, Looks, ReaderStatus, Prepare
  <2>6. Kept
    BY <1>3, <2>1, <2>2, <2>3, <2>4, <2>5 DEF Reader
  <2> QED BY <2>6, WatchedKept
<1>4. CASE PollDone \/ PollFails \/ Looks("poller")
  BY <1>0, <1>4 DEF PollDone, PollFails, Looks, Watched
<1>5. CASE PollTick
  <2>1. batch["poller"] = <<>>
    BY <1>0, <1>5 DEF PollTick, HeldFollowsPc, HeldBy, Sending
  <2>2. UNCHANGED <<wire, done, last, toldOver>>
    BY <1>5 DEF PollTick
  <2>3. CASE present
    BY <1>0, <1>5, <2>1, <2>2, <2>3 DEF PollTick, Watched
  <2>4. CASE ~present
    <3>1. batch'["poller"] = <<Error("missing")>> /\ pc'["poller"] = "lastSend"
      BY <1>0, <1>5, <2>4 DEF PollTick
    <3>2. batch'["poller"] # <<>> /\ Head(batch'["poller"]).st = "missing"
      BY <3>1 DEF Error, Message
    <3>3. last = "closed" /\ wire = "up" => toldOver
      BY <2>1 DEF Watched
    <3> QED BY <2>2, <3>1, <3>2, <3>3 DEF Watched
  <2> QED BY <2>3, <2>4
<1>6. CASE PollStatus
  <2>1. batch["poller"] = <<>>
    BY <1>0, <1>6 DEF PollStatus, HeldFollowsPc, HeldBy, Sending
  <2>2. /\ UNCHANGED <<wire, done, toldOver>> /\ last' = state /\ pc'["poller"] = "send"
        /\ batch'["poller"] = News(state)
    BY <1>0, <1>6 DEF PollStatus, Prepare
  <2>3. ASSUME state = "closed", wire = "up", ~toldOver
        PROVE  \E i \in 1 .. Len(News(state)) : News(state)[i].st = "closed"
    <3>1. last # "closed"
      BY <2>1, <2>3 DEF Watched
    <3> QED BY <2>3, <3>1, NewsOfClose DEF Typed
  <2> HIDE DEF Watched
  <2> QED BY <2>2, <2>3 DEF Watched
<1>7. CASE PollSent
  <2>1. batch["poller"] = <<>> /\ UNCHANGED <<wire, done, last, toldOver, batch>>
    BY <1>7 DEF PollSent, Sent
  <2>2. \/ pc["poller"] = "send" /\ pc'["poller"] = "wait"
        \/ pc["poller"] = "lastSend" /\ pc'["poller"] = "stopped"
    BY <1>0, <1>7 DEF PollSent, Sent
  <2> QED BY <2>1, <2>2 DEF Watched
<1>8. CASE Send("poller")
  BY <1>8, WatchedSent
<1> QED BY <1>1, <1>2, <1>3, <1>4, <1>5, <1>6, <1>7, <1>8 DEF Next, Poller

(* A poller that has nothing more to send and takes the session for closed *)
(* has told the client, and so has one that stopped, unless the connection *)
(* broke: nothing lets the close go by unsaid.                             *)
CloseNotMissed ==
  wire = "up" /\ batch["poller"] = <<>> /\ (last = "closed" \/ pc["poller"] = "stopped")
    => toldOver

(* This is the safety ClosedIsTold rests on; that the poller looks again   *)
(* and sends what it has is fairness.                                      *)
THEOREM PollerTells == SafetySpec => []CloseNotMissed
<1>1. Init => Watched
  BY DEF Init, Watched
<1>2. Inv /\ Watched /\ [Next]_vars => Watched'
  BY WatchedStep DEF Inv, Typed
<1>3. Watched => CloseNotMissed
  BY DEF Watched, CloseNotMissed
<1> QED BY Invariance, <1>1, <1>2, <1>3, PTL DEF SafetySpec
=============================================================================
