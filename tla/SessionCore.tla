---------------------------- MODULE SessionCore -----------------------------
(***************************************************************************)
(* The part of one ManagedSession (internal/server/manager.go) that CP/M   *)
(* and bare sessions share: the fields guarded by ManagedSession.mu, the   *)
(* request goroutines (handlers) that hold a pointer to the session, the   *)
(* goroutines that execute commands, and the methods beginCommand, close   *)
(* and statusLocked.                                                       *)
(*                                                                         *)
(* A handler first finds the session with Manager.Get and then works on    *)
(* the pointer without Manager.mu, so that the session may be removed from *)
(* the map or closed under it; every lock region of the code is one step.  *)
(***************************************************************************)
EXTENDS Naturals, Sequences, FiniteSets

CONSTANTS
  Handlers,  \* goroutines that serve requests and WebSocket messages
  Runs,      \* slots for the goroutines started with "go s.execute..."
  NoOne      \* nobody holds ManagedSession.mu

ASSUME CoreAssumption ==
  /\ Handlers # {} /\ Runs # {}
  /\ Handlers \cap Runs = {}
  /\ NoOne \notin Handlers \cup Runs

VARIABLES
  closed,      \* ManagedSession.Closed
  state,       \* ManagedSession.State
  lastError,   \* ManagedSession.LastError, reduced to its origin
  registered,  \* the session is in Manager.sessions
  mu,          \* holder of ManagedSession.mu, when a step leaves it locked
  pc,          \* where each handler stands in its request
  exec,        \* how far each executor is with its command
  result       \* how the command of each executor ended

coreVars == <<closed, state, lastError, registered, mu, pc, exec, result>>

Executors == Handlers \cup Runs

States == {"idle", "running", "closed", "error"}
Errors == {"", "fail", "promptFail", "timedOut"}
Results == {"ok", "exit", "fail", "promptFail", "timedOut", "stopped"}

CoreInit ==
  /\ closed = FALSE
  /\ state = "idle"
  /\ lastError = ""
  /\ registered = TRUE
  /\ mu = NoOne
  /\ pc = [h \in Handlers |-> "ready"]
  /\ exec = [e \in Executors |-> "none"]
  /\ result = [e \in Executors |-> "ok"]

MuFree == mu = NoOne

(* statusLocked: Closed wins over whatever State holds.                    *)
Reported == IF closed THEN "closed" ELSE state

Goto(h, label) == pc' = [pc EXCEPT ![h] = label]

(* Manager.Get found the session: the handler goes on with the pointer.    *)
(* A request that does not find it changes nothing and is not modelled.    *)
Request(h, label) ==
  /\ pc[h] = "ready"
  /\ registered
  /\ Goto(h, label)
  /\ UNCHANGED <<closed, state, lastError, registered, mu, exec, result>>

(* Mutant of Admissible: beginCommand without the test on State.           *)
AdmissibleWhenOpen == ~closed

(* Mutant of Admissible: beginCommand without the test on Closed.          *)
AdmissibleUnlessRunning == state # "running"

(* beginCommand.                                                           *)
Admissible == ~closed /\ state # "running"

Admit(h, label, phase) ==
  /\ MuFree
  /\ Admissible
  /\ state' = "running"
  /\ lastError' = ""
  /\ exec' = [exec EXCEPT ![h] = phase]
  /\ Goto(h, label)
  /\ UNCHANGED <<closed, registered, mu, result>>

(* ErrSessionClosed or ErrSessionBusy: the request is answered.            *)
Refuse(h) ==
  /\ MuFree
  /\ ~Admissible
  /\ Goto(h, "ready")
  /\ UNCHANGED <<closed, state, lastError, registered, mu, exec, result>>

(* "go s.execute...": the command moves to a goroutine of its own.         *)
Spawn(h, phase) ==
  /\ pc[h] = "launch"
  /\ \E r \in Runs :
       /\ exec[r] = "none"
       /\ exec' = [exec EXCEPT ![h] = "none", ![r] = phase]
  /\ Goto(h, "drain")
  /\ UNCHANGED <<closed, state, lastError, registered, mu, result>>

(* The last lock region of executeCommand and executeBareRun, when the     *)
(* session was closed during the execution and when it was not.            *)
ErrorOf(res) == IF res \in Errors THEN res ELSE ""

RecordOnClosed(e) ==
  /\ MuFree
  /\ closed
  /\ state' = "closed"
  /\ lastError' = IF ErrorOf(result[e]) # "" THEN ErrorOf(result[e]) ELSE lastError
  /\ UNCHANGED closed

(* Mutant of RecordOnOpen: Closed is not tested again after the command.   *)
RecordWithoutRecheck(e) ==
  /\ MuFree
  /\ closed' = (result[e] = "exit")
  /\ state' = IF result[e] = "exit" THEN "closed" ELSE "idle"
  /\ lastError' = ErrorOf(result[e])

(* Mutant of RecordOnOpen: a command without error leaves State alone.     *)
RecordOnlyTrouble(e) ==
  /\ MuFree
  /\ ~closed
  /\ closed' = (result[e] = "exit")
  /\ state' = CASE result[e] = "exit" -> "closed"
                [] ErrorOf(result[e]) # "" -> "error"
                [] OTHER -> state
  /\ lastError' = ErrorOf(result[e])

RecordOnOpen(e) ==
  /\ MuFree
  /\ ~closed
  /\ closed' = (result[e] = "exit")
  /\ state' = CASE result[e] = "exit" -> "closed"
                [] ErrorOf(result[e]) # "" -> "error"
                [] OTHER -> "idle"
  /\ lastError' = ErrorOf(result[e])

(* The executor is done; a handler that executed its own command goes on.  *)
Retire(e) ==
  /\ exec' = [exec EXCEPT ![e] = "none"]
  /\ result' = [result EXCEPT ![e] = "ok"]
  /\ pc' = IF e \in Handlers THEN [pc EXCEPT ![e] = "drain"] ELSE pc

(* Manager.Delete up to the unlock of Manager.mu; close() comes later.     *)
Unregister(h) ==
  /\ pc[h] = "ready"
  /\ registered
  /\ registered' = FALSE
  /\ Goto(h, "close")
  /\ UNCHANGED <<closed, state, lastError, mu, exec, result>>

(* The fields close() sets; what else it releases depends on the kind.     *)
CloseFields ==
  /\ MuFree
  /\ closed' = TRUE
  /\ state' = "closed"

CoreTypeOK ==
  /\ closed \in BOOLEAN
  /\ state \in States
  /\ lastError \in Errors
  /\ registered \in BOOLEAN
  /\ mu \in Handlers \cup {NoOne}
  /\ result \in [Executors -> Results]
=============================================================================
