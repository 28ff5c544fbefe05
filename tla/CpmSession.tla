----------------------------- MODULE CpmSession -----------------------------
(***************************************************************************)
(* One CP/M session: the requests command, run, input, output and DELETE,  *)
(* the expiry sweep, the line editor of handleInput and the goroutine of   *)
(* executeCommand.  The CP/M machine (retronet-cpm) is external: a program *)
(* runs for a while, may read the bytes queued for it, and ends.           *)
(***************************************************************************)
EXTENDS SessionCore

CONSTANTS
  Messages,   \* the data of input requests: sequences of Bytes
  MaxLine,    \* nobody types more while the edited line is this long,
  MaxQueued   \* or while this many bytes wait for the program

Bytes == {"char", "blank", "enter", "erase", "clear", "quit", "other"}

ASSUME CpmAssumption ==
  /\ Messages \subseteq Seq(Bytes)
  /\ MaxLine \in Nat /\ MaxQueued \in Nat

VARIABLES
  drive,   \* the temporary directory of the session: "up" or "removed"
  line,    \* ManagedSession.line
  todo,    \* what is left of the data each handler is working on
  queued   \* number of bytes queued for the program (retronet-terminal)

cpmVars == <<drive, line, todo, queued>>
vars == <<coreVars, cpmVars>>

Init ==
  /\ CoreInit
  /\ drive = "up"
  /\ line = <<>>
  /\ todo = [h \in Handlers |-> <<>>]
  /\ queued = 0

-----------------------------------------------------------------------------
(* POST /command, POST /run and their WebSocket messages.                  *)

(* RunCommand and StartCommand, up to the first lock of ManagedSession.mu: *)
(* a blank /run is refused at once and changes nothing.                    *)
StartRequest(h) ==
  /\ \E label \in {"beginSync", "begin", "promptOnly"} : Request(h, label)
  /\ UNCHANGED cpmVars

BeginSync(h) ==
  /\ pc[h] = "beginSync"
  /\ Admit(h, "executing", "running") \/ Refuse(h)
  /\ UNCHANGED cpmVars

(* startCommandWithInput; a refused input loses what was left of it.       *)
BeginAsync(h) ==
  /\ pc[h] = "begin"
  /\ \/ Admit(h, "launch", "admitted") /\ UNCHANGED todo
     \/ Refuse(h) /\ todo' = [todo EXCEPT ![h] = <<>>]
  /\ UNCHANGED <<drive, line, queued>>

(* The typed-ahead bytes are queued before the goroutine starts.           *)
Launch(h) ==
  /\ Spawn(h, "running")
  /\ queued' = queued + Len(todo[h])
  /\ todo' = [todo EXCEPT ![h] = <<>>]
  /\ UNCHANGED <<drive, line>>

(* Mutant of PromptOnly: LastError is left as it was.                      *)
PromptKeepingError(h) ==
  /\ pc[h] = "promptOnly"
  /\ \/ /\ MuFree /\ Admissible
        /\ state' = "idle"
        /\ Goto(h, "drain")
        /\ UNCHANGED <<closed, lastError, registered, mu, exec, result>>
     \/ Refuse(h)
  /\ UNCHANGED cpmVars

(* promptOnly; when Prompt fails the request ends with its error.          *)
PromptOnly(h) ==
  /\ pc[h] = "promptOnly"
  /\ \/ /\ MuFree /\ Admissible
        /\ state' = "idle"
        /\ lastError' = ""
        /\ \E label \in {"drain", "ready"} : Goto(h, label)
        /\ UNCHANGED <<closed, registered, mu, exec, result>>
     \/ Refuse(h)
  /\ UNCHANGED cpmVars

(* drain: the answer is built from the status read under the lock.         *)
Drain(h) ==
  /\ pc[h] = "drain"
  /\ MuFree
  /\ Goto(h, "ready")
  /\ UNCHANGED <<closed, state, lastError, registered, mu, exec, result>>
  /\ UNCHANGED cpmVars

OutputRequest(h) == Request(h, "drain") /\ UNCHANGED cpmVars

-----------------------------------------------------------------------------
(* POST /input and the WebSocket input message: handleInput.               *)

InputRequest(h) ==
  /\ Len(line) < MaxLine /\ queued < MaxQueued
  /\ Request(h, "inputStatus")
  /\ \E data \in Messages : todo' = [todo EXCEPT ![h] = data]
  /\ UNCHANGED <<drive, line, queued>>

(* The status is read under the lock, and the lock is released.            *)
RouteInput(h) ==
  /\ pc[h] = "inputStatus"
  /\ MuFree
  /\ \/ /\ closed
        /\ Goto(h, "ready")
        /\ todo' = [todo EXCEPT ![h] = <<>>]
     \/ /\ ~closed /\ state = "running"
        /\ Goto(h, "queue")
        /\ UNCHANGED todo
     \/ /\ ~closed /\ state # "running"
        /\ Goto(h, "editLock")
        /\ UNCHANGED todo
  /\ UNCHANGED <<closed, state, lastError, registered, mu, exec, result>>
  /\ UNCHANGED <<drive, line, queued>>

(* The bytes go to the terminal of the program, or Input fails.            *)
QueueInput(h) ==
  /\ pc[h] = "queue"
  /\ todo' = [todo EXCEPT ![h] = <<>>]
  /\ \/ Goto(h, "drain") /\ queued' = queued + Len(todo[h])
     \/ Goto(h, "ready") /\ UNCHANGED queued
  /\ UNCHANGED <<closed, state, lastError, registered, mu, exec, result>>
  /\ UNCHANGED <<drive, line>>

(* The lock is taken again: only Closed is looked at a second time.        *)
LockEditor(h) ==
  /\ pc[h] = "editLock"
  /\ MuFree
  /\ \/ /\ closed
        /\ Goto(h, "ready")
        /\ todo' = [todo EXCEPT ![h] = <<>>]
        /\ UNCHANGED mu
     \/ /\ ~closed
        /\ mu' = h
        /\ Goto(h, "editing")
        /\ UNCHANGED todo
  /\ UNCHANGED <<closed, state, lastError, registered, exec, result>>
  /\ UNCHANGED <<drive, line, queued>>

(* The loop over the bytes, with the lock held throughout.                 *)
Editing(h, byte) ==
  /\ pc[h] = "editing"
  /\ todo[h] # <<>>
  /\ Head(todo[h]) = byte
  /\ todo' = [todo EXCEPT ![h] = Tail(todo[h])]

(* Mutant of EditQuit: the quit keys also remove the drive.                *)
EditQuitWithCleanup(h) ==
  /\ Editing(h, "quit")
  /\ closed' = TRUE
  /\ state' = "closed"
  /\ drive' = "removed"
  /\ UNCHANGED <<lastError, registered, mu, pc, exec, result, line, queued>>

(* Ctrl-C, Ctrl-D, Ctrl-Q: the session is closed, the loop goes on.        *)
EditQuit(h) ==
  /\ Editing(h, "quit")
  /\ closed' = TRUE
  /\ state' = "closed"
  /\ UNCHANGED <<lastError, registered, mu, pc, exec, result, drive, line, queued>>

EditClear(h) ==
  /\ Editing(h, "clear")
  /\ line' = <<>>
  /\ UNCHANGED <<coreVars, drive, queued>>

EditErase(h) ==
  /\ Editing(h, "erase")
  /\ line' = IF line = <<>> THEN line ELSE SubSeq(line, 1, Len(line) - 1)
  /\ UNCHANGED <<coreVars, drive, queued>>

(* Mutant of EditInsert: without the test for printable bytes.             *)
EditInsertUnfiltered(h) ==
  /\ \E byte \in {"char", "blank", "other"} :
       /\ Editing(h, byte)
       /\ line' = Append(line, byte)
  /\ UNCHANGED <<coreVars, drive, queued>>

EditInsert(h) ==
  /\ \E byte \in {"char", "blank"} :
       /\ Editing(h, byte)
       /\ line' = Append(line, byte)
  /\ UNCHANGED <<coreVars, drive, queued>>

EditIgnore(h) ==
  /\ Editing(h, "other")
  /\ UNCHANGED <<coreVars, drive, line, queued>>

(* Enter: a line with a command releases the lock and is started like a    *)
(* /run, with the rest of the data as its input; a blank line prompts.     *)
HasCommand == \E i \in DOMAIN line : line[i] # "blank"

EditEnter(h) ==
  /\ Editing(h, "enter")
  /\ line' = <<>>
  /\ \/ HasCommand /\ mu' = NoOne /\ Goto(h, "begin")
     \/ ~HasCommand /\ UNCHANGED <<mu, pc>>
  /\ UNCHANGED <<closed, state, lastError, registered, exec, result, drive, queued>>

(* Mutant of EditDone: the lock is not released.                           *)
EditDoneWithoutUnlock(h) ==
  /\ pc[h] = "editing"
  /\ todo[h] = <<>>
  /\ Goto(h, "drain")
  /\ UNCHANGED <<closed, state, lastError, registered, mu, exec, result, cpmVars>>

EditDone(h) ==
  /\ pc[h] = "editing"
  /\ todo[h] = <<>>
  /\ mu' = NoOne
  /\ Goto(h, "drain")
  /\ UNCHANGED <<closed, state, lastError, registered, exec, result, cpmVars>>

-----------------------------------------------------------------------------
(* executeCommand, in the handler (/command) or in its own goroutine.      *)

(* The program takes a queued byte (BDOS console input).                   *)
ProgramReads(e) ==
  /\ exec[e] = "running"
  /\ queued > 0
  /\ queued' = queued - 1
  /\ UNCHANGED <<coreVars, drive, line, todo>>

(* session.RunCommand returns nil, shell.ErrExit or another error.         *)
ProgramEnds(e) ==
  /\ exec[e] = "running"
  /\ \E res \in {"ok", "exit", "fail"} :
       /\ result' = [result EXCEPT ![e] = res]
       /\ exec' = [exec EXCEPT ![e] = IF res = "exit" THEN "finishing" ELSE "prompting"]
  /\ UNCHANGED <<closed, state, lastError, registered, mu, pc, cpmVars>>

(* The prompt after the command; its failure replaces the earlier error.   *)
PromptAfter(e) ==
  /\ exec[e] = "prompting"
  /\ exec' = [exec EXCEPT ![e] = "finishing"]
  /\ \/ UNCHANGED result
     \/ result' = [result EXCEPT ![e] = "promptFail"]
  /\ UNCHANGED <<closed, state, lastError, registered, mu, pc, cpmVars>>

Finish(e) ==
  /\ exec[e] = "finishing"
  /\ RecordOnClosed(e) \/ RecordOnOpen(e)
  /\ Retire(e)
  /\ UNCHANGED <<registered, mu, cpmVars>>

-----------------------------------------------------------------------------
(* DELETE /sessions/{id} and the expiry sweep.                             *)

DeleteRequest(h) == Unregister(h) /\ UNCHANGED cpmVars

(* close() on a CP/M session: the fields, then cleanup() of the drive.     *)
CloseSession ==
  /\ CloseFields
  /\ drive' = "removed"
  /\ UNCHANGED <<lastError, mu, exec, result, line, todo, queued>>

Close(h) ==
  /\ pc[h] = "close"
  /\ CloseSession
  /\ Goto(h, "ready")
  /\ UNCHANGED registered

(* cleanupExpiredLocked, run by any request: Manager.mu is held from the   *)
(* removal to the return of close(), so nobody sees the time in between.   *)
Sweep ==
  /\ registered
  /\ registered' = FALSE
  /\ CloseSession
  /\ UNCHANGED pc

-----------------------------------------------------------------------------
Arrive(h) ==
  StartRequest(h) \/ OutputRequest(h) \/ InputRequest(h) \/ DeleteRequest(h)

Edit(h) ==
  \/ EditQuit(h) \/ EditClear(h) \/ EditErase(h) \/ EditInsert(h)
  \/ EditIgnore(h) \/ EditEnter(h) \/ EditDone(h)

(* The steps of a request that need ManagedSession.mu, and the others.     *)
Contend(h) ==
  \/ BeginSync(h) \/ BeginAsync(h) \/ PromptOnly(h) \/ Drain(h)
  \/ RouteInput(h) \/ LockEditor(h) \/ Close(h)

Proceed(h) == Launch(h) \/ QueueInput(h) \/ Edit(h)

Handle(h) == Arrive(h) \/ Contend(h) \/ Proceed(h)

Execute(e) == ProgramReads(e) \/ ProgramEnds(e) \/ PromptAfter(e) \/ Finish(e)

Next ==
  \/ \E h \in Handlers : Handle(h)
  \/ \E e \in Executors : Execute(e)
  \/ Sweep

SafetySpec == Init /\ [][Next]_vars

(* The Go scheduler runs every goroutine that can run; sync.Mutex serves   *)
(* its waiters (starvation mode), hence strong fairness where the lock is  *)
(* needed.  Nobody has to send requests, nothing forces a session to       *)
(* expire, and nothing in the code makes a CP/M program end.               *)
Fairness ==
  /\ \A h \in Handlers : SF_vars(Contend(h)) /\ WF_vars(Proceed(h))
  /\ \A e \in Executors : WF_vars(PromptAfter(e)) /\ SF_vars(Finish(e))

Spec == SafetySpec /\ Fairness

-----------------------------------------------------------------------------
Labels ==
  {"ready", "beginSync", "begin", "promptOnly", "launch", "executing", "drain",
   "inputStatus", "queue", "editLock", "editing", "close"}

ExecPhases == {"none", "admitted", "running", "prompting", "finishing"}

(* Type invariant: the session fields, the handlers, the executors and the *)
(* terminal queue keep the values the code gives them.                     *)
TypeOK ==
  /\ CoreTypeOK
  /\ pc \in [Handlers -> Labels]
  /\ exec \in [Executors -> ExecPhases]
  /\ drive \in {"up", "removed"}
  /\ line \in Seq({"char", "blank"})
  /\ todo \in [Handlers -> Seq(Bytes)]
  /\ queued \in Nat

Active(e) == exec[e] # "none"

(* beginCommand and executeCommand together admit one command at a time:   *)
(* whatever requests, keystrokes and deletions do in between, two          *)
(* executors are never at work on the same CP/M machine                    *)
(* (docs/sicurezza.md: state=running prevents two concurrent commands).    *)
OneCommandAtATime ==
  \A e, f \in Executors : Active(e) /\ Active(f) => e = f

(* The state "running" is never left behind: as long as the session says   *)
(* running, the command that said so is still going to record its end; and *)
(* as long as a command is at work the session says running, or closed.    *)
RunningHasOwner ==
  /\ Reported = "running" => \E e \in Executors : Active(e)
  /\ (\E e \in Executors : Active(e)) => Reported \in {"running", "closed"}

(* Closed and State agree: executeCommand, promptOnly and beginCommand     *)
(* never put a live state into a closed session, and only closing says     *)
(* closed.                                                                 *)
ClosedAgrees == closed <=> state = "closed"

(* last_error is there exactly in the state error, in every open session.  *)
ErrorExplained == ~closed => (state = "error" <=> lastError # "")

(* Nothing reopens a session: a command that ends after DELETE, expiry or  *)
(* Ctrl-C leaves the session closed (executeCommand's second Closed test). *)
ClosedIsFinal == [][closed => closed' /\ state' = "closed"]_vars

(* The drive of an open session that clients can still find is never       *)
(* removed, and the drive is removed for good.                             *)
DriveOutlivesUse ==
  /\ [][drive = "removed" => drive' = "removed"]_vars
  /\ [](drive = "removed" => closed /\ ~registered)

(* The inductive invariant: the parts above, and what they rest on: a      *)
(* handler holds the token of a command exactly while it launches or       *)
(* executes one, the lock is held exactly by the line editor, and close()  *)
(* comes after the removal from the map.                                   *)
TokenFollowsPc ==
  /\ \A h \in Handlers :
       /\ exec[h] = "admitted" <=> pc[h] = "launch"
       /\ exec[h] \in {"running", "prompting", "finishing"} <=> pc[h] = "executing"
  /\ \A r \in Runs : exec[r] # "admitted"

LockFollowsPc == \A h \in Handlers : mu = h <=> pc[h] = "editing"

RemovedBeforeClose ==
  /\ \A h \in Handlers : pc[h] = "close" => ~registered
  /\ drive = "removed" => closed /\ ~registered

Inv ==
  /\ TypeOK
  /\ TokenFollowsPc /\ LockFollowsPc /\ RemovedBeforeClose
  /\ OneCommandAtATime /\ RunningHasOwner /\ ClosedAgrees /\ ErrorExplained

(* Every request is answered, whatever the others do with the lock, except *)
(* a /command, which waits for its own program as long as that runs.       *)
RequestsAnswered ==
  \A h \in Handlers :
    pc[h] \notin {"ready", "executing"} ~> pc[h] \in {"ready", "executing"}

(* The session implements the abstract life cycle; a command is over when  *)
(* RunCommand has returned and its end is not recorded yet.                *)
Over(e) == exec[e] \in {"prompting", "finishing"}

WorkOf ==
  IF \E e \in Executors : Over(e) THEN "over"
  ELSE IF \E e \in Executors : Active(e) THEN "ongoing"
  ELSE "none"

Lifecycle == INSTANCE SessionLifecycle WITH phase <- Reported, work <- WorkOf

(* With the fairness above: an ended command is always recorded.           *)
LifecycleSpec == Lifecycle!Spec

LifecycleSafety == Lifecycle!SafetySpec
=============================================================================
