---------------------------- MODULE BareSession -----------------------------
(***************************************************************************)
(* One bare session: the requests assemble, run, input, output and DELETE, *)
(* the expiry sweep, the goroutine of executeBareRun and the part of the   *)
(* backends (internal/backend) the session depends on: the ROM that Load   *)
(* leaves behind, and which running programs a Stop reaches.  The CPU      *)
(* cores, the assembler and the front panel are external.                  *)
(***************************************************************************)
EXTENDS SessionCore

CONSTANT Archs  \* the CPUs a session may be created for

(* The 8008 and 8080 backends keep a front panel, the 4004 and 6502 ones a *)
(* stop channel.                                                           *)
PanelArchs == {"8008", "8080"}

ASSUME BareAssumption == Archs \subseteq {"4004", "6502"} \cup PanelArchs

VARIABLES
  arch,    \* ManagedSession.Arch
  loaded,  \* ManagedSession.Loaded
  rom,     \* what Load left in the backend: "none", "good", "bad" (panel only)
  panel,   \* the run that uses the current front panel, or NoOne
  told     \* the runs whose stop request is set

bareVars == <<arch, loaded, rom, panel, told>>
vars == <<coreVars, bareVars>>

Panel == arch \in PanelArchs

Init ==
  /\ CoreInit
  /\ arch \in Archs
  /\ loaded = FALSE
  /\ rom = "none"
  /\ panel = NoOne
  /\ told = {}

Active(e) == exec[e] # "none"

-----------------------------------------------------------------------------
(* POST /run and the WebSocket message run: startBareRun.                  *)

RunRequest(h) == Request(h, "runCheck") /\ UNCHANGED bareVars

(* Loaded is read without ManagedSession.mu.                               *)
RunCheck(h) ==
  /\ pc[h] = "runCheck"
  /\ Goto(h, IF loaded THEN "begin" ELSE "ready")
  /\ UNCHANGED <<closed, state, lastError, registered, mu, exec, result>>
  /\ UNCHANGED bareVars

Begin(h) ==
  /\ pc[h] = "begin"
  /\ Admit(h, "launch", "admitted") \/ Refuse(h)
  /\ UNCHANGED bareVars

Launch(h) == Spawn(h, "launched") /\ UNCHANGED bareVars

(* drain: the status is read under the lock.                               *)
Drain(h) ==
  /\ pc[h] = "drain"
  /\ MuFree
  /\ Goto(h, "ready")
  /\ UNCHANGED <<closed, state, lastError, registered, mu, exec, result>>
  /\ UNCHANGED bareVars

OutputRequest(h) == Request(h, "drain") /\ UNCHANGED bareVars

(* POST /input: no line editor, the bytes go to the terminal.              *)
InputRequest(h) == Request(h, "inputStatus") /\ UNCHANGED bareVars

RouteInput(h) ==
  /\ pc[h] = "inputStatus"
  /\ MuFree
  /\ Goto(h, IF closed THEN "ready" ELSE "drain")
  /\ UNCHANGED <<closed, state, lastError, registered, mu, exec, result>>
  /\ UNCHANGED bareVars

-----------------------------------------------------------------------------
(* POST /assemble: Manager.Assemble.                                       *)

AssembleRequest(h) == Request(h, "asmCheck") /\ UNCHANGED bareVars

(* Mutant of AsmCheck: the lock stays locked when assemble is refused.     *)
AsmCheckLocked(h) ==
  /\ pc[h] = "asmCheck"
  /\ MuFree
  /\ Goto(h, IF Admissible THEN "asmLoad" ELSE "ready")
  /\ mu' = IF Admissible THEN mu ELSE h
  /\ UNCHANGED <<closed, state, lastError, registered, exec, result>>
  /\ UNCHANGED bareVars

(* The lock is taken for the test, and released before the compilation.    *)
AsmCheck(h) ==
  /\ pc[h] = "asmCheck"
  /\ MuFree
  /\ Goto(h, IF Admissible THEN "asmLoad" ELSE "ready")
  /\ UNCHANGED <<closed, state, lastError, registered, mu, exec, result>>
  /\ UNCHANGED bareVars

(* The source does not compile, or is for another CPU.                     *)
AsmRejected(h) ==
  /\ pc[h] = "asmLoad"
  /\ Goto(h, "ready")
  /\ UNCHANGED <<closed, state, lastError, registered, mu, exec, result>>
  /\ UNCHANGED bareVars

(* Mutant of LoadFails: every backend replaces its ROM before the test.    *)
LoadFailsTooLate(h) ==
  /\ Goto(h, "ready")
  /\ rom' = "bad"
  /\ UNCHANGED panel

(* Backend.Load, without any lock.  A ROM that does not fit is refused,    *)
(* but the panel backends have replaced theirs by then; an empty one is    *)
(* legal and the same as none.  A panel backend that loaded has a new      *)
(* front panel.                                                            *)
LoadFails(h) ==
  /\ Goto(h, "ready")
  /\ rom' = IF Panel THEN "bad" ELSE rom
  /\ UNCHANGED panel

LoadSucceeds(h) ==
  /\ Goto(h, "asmRecord")
  /\ rom' \in {"none", "good"}
  /\ panel' = NoOne

AsmLoad(h) ==
  /\ pc[h] = "asmLoad"
  /\ LoadFails(h) \/ LoadSucceeds(h)
  /\ UNCHANGED <<closed, state, lastError, registered, mu, exec, result>>
  /\ UNCHANGED <<arch, loaded, told>>

(* Mutant of AsmRecord: LastError survives the new program.                *)
AsmRecordKeepingError(h) ==
  /\ pc[h] = "asmRecord"
  /\ MuFree
  /\ loaded' = TRUE
  /\ state' = "idle"
  /\ Goto(h, "ready")
  /\ UNCHANGED <<closed, lastError, registered, mu, exec, result>>
  /\ UNCHANGED <<arch, rom, panel, told>>

(* The lock is taken again; Closed and State are not looked at.            *)
AsmRecord(h) ==
  /\ pc[h] = "asmRecord"
  /\ MuFree
  /\ loaded' = TRUE
  /\ state' = "idle"
  /\ lastError' = ""
  /\ Goto(h, "ready")
  /\ UNCHANGED <<closed, registered, mu, exec, result>>
  /\ UNCHANGED <<arch, rom, panel, told>>

-----------------------------------------------------------------------------
(* executeBareRun and Backend.Run, in a goroutine of its own.              *)

(* Run refuses a missing ROM and fails to set up a bad one; otherwise it   *)
(* clears the stop request (for everybody, where it is a channel of the    *)
(* backend), starts the timer and the program.                             *)
Arm(e) ==
  /\ exec[e] = "launched"
  /\ \/ /\ rom # "good"
        /\ exec' = [exec EXCEPT ![e] = "finishing"]
        /\ result' = [result EXCEPT ![e] = "fail"]
        /\ UNCHANGED <<panel, told>>
     \/ /\ rom = "good"
        /\ exec' = [exec EXCEPT ![e] = "running"]
        /\ told' = IF Panel THEN told \ {e} ELSE {}
        /\ panel' = IF Panel THEN e ELSE NoOne
        /\ UNCHANGED result
  /\ UNCHANGED <<closed, state, lastError, registered, mu, pc, arch, loaded, rom>>

Ends(e, res) ==
  /\ exec' = [exec EXCEPT ![e] = "finishing"]
  /\ result' = [result EXCEPT ![e] = res]
  /\ told' = told \ {e}
  /\ UNCHANGED <<closed, state, lastError, registered, mu, pc, arch, loaded, rom, panel>>

(* Mutant of RunEnds: neither limit nor timer, a run ends when it is told. *)
RunEndsWhenTold(e) == exec[e] = "running" /\ e \in told /\ Ends(e, "stopped")

(* Halt or step limit, a CPU error, the timeout, or a stop request.        *)
RunEnds(e) ==
  /\ exec[e] = "running"
  /\ \/ \E res \in {"ok", "fail", "timedOut"} : Ends(e, res)
     \/ e \in told /\ Ends(e, "stopped")

(* A CPU halts, or the timeout comes: Closed is never written here.        *)
Finish(e) ==
  /\ exec[e] = "finishing"
  /\ RecordOnClosed(e) \/ RecordOnOpen(e)
  /\ Retire(e)
  /\ UNCHANGED <<registered, mu, bareVars>>

-----------------------------------------------------------------------------
(* DELETE /sessions/{id} and the expiry sweep.                             *)

DeleteRequest(h) == Unregister(h) /\ UNCHANGED bareVars

(* Backend.Stop: the channel is shared by all runs, the panel is the       *)
(* current one.                                                            *)
Reached ==
  {r \in Runs : exec[r] = "running" /\ (Panel => panel = r)}

CloseSession ==
  /\ CloseFields
  /\ told' = told \cup Reached
  /\ UNCHANGED <<lastError, mu, exec, result, arch, loaded, rom, panel>>

Close(h) ==
  /\ pc[h] = "close"
  /\ CloseSession
  /\ Goto(h, "ready")
  /\ UNCHANGED registered

Sweep ==
  /\ registered
  /\ registered' = FALSE
  /\ CloseSession
  /\ UNCHANGED pc

-----------------------------------------------------------------------------
Arrive(h) ==
  \/ RunRequest(h) \/ OutputRequest(h) \/ InputRequest(h)
  \/ AssembleRequest(h) \/ DeleteRequest(h)

Contend(h) ==
  \/ Begin(h) \/ Drain(h) \/ RouteInput(h) \/ AsmCheck(h) \/ AsmRecord(h) \/ Close(h)

Proceed(h) ==
  RunCheck(h) \/ Launch(h) \/ AsmRejected(h) \/ AsmLoad(h)

Handle(h) == Arrive(h) \/ Contend(h) \/ Proceed(h)

Execute(e) == Arm(e) \/ RunEnds(e) \/ Finish(e)

Next ==
  \/ \E h \in Handlers : Handle(h)
  \/ \E r \in Runs : Execute(r)
  \/ Sweep

SafetySpec == Init /\ [][Next]_vars

(* Goroutines that can run do run, waiters get the lock, and a program     *)
(* ends at the latest at its step limit.  The last is certain on the panel *)
(* architectures only, whose programs never block (ChannelBackend shows    *)
(* what may happen on the others; PanelBackend which of its runs a timer   *)
(* stops).  A new goroutine waits for nobody: Launch is strong because     *)
(* Runs is bounded.                                                        *)
Fairness ==
  /\ \A h \in Handlers :
       SF_vars(Contend(h)) /\ SF_vars(Launch(h)) /\ WF_vars(Proceed(h))
  /\ \A r \in Runs :
       WF_vars(Arm(r)) /\ WF_vars(Panel /\ RunEnds(r)) /\ SF_vars(Finish(r))

Spec == SafetySpec /\ Fairness

-----------------------------------------------------------------------------
Labels ==
  {"ready", "runCheck", "begin", "launch", "drain", "inputStatus",
   "asmCheck", "asmLoad", "asmRecord", "close"}

ExecPhases == {"none", "admitted", "launched", "running", "finishing"}

(* Type invariant: session fields, backend and goroutines.                 *)
TypeOK ==
  /\ CoreTypeOK
  /\ pc \in [Handlers -> Labels]
  /\ exec \in [Executors -> ExecPhases]
  /\ arch \in Archs
  /\ loaded \in BOOLEAN
  /\ rom \in {"none", "good"} \cup IF Panel THEN {"bad"} ELSE {}
  /\ panel \in Runs \cup {NoOne}
  /\ told \subseteq Runs

(* The reported state running always has a program behind it that will     *)
(* record its end, also when Assemble overwrote State in the middle of a   *)
(* run and a second run was admitted.                                      *)
RunningHasOwner == Reported = "running" => \E e \in Executors : Active(e)

(* In an open session last_error is there exactly in the state error,      *)
(* whatever Assemble and executeBareRun overwrite of each other.           *)
ErrorExplained == ~closed => (state = "error" <=> lastError # "")

(* Nothing reopens the session clients see: Assemble may still write idle  *)
(* into State and a run may still end, but Closed stays and masks it.      *)
ClosedIsFinal == [][Reported = "closed" => Reported' = "closed"]_vars

(* After the session was closed no program is admitted any more; the ones  *)
(* that were may only become fewer.                                        *)
NothingStartsOnceClosed ==
  [][closed => Cardinality({e \in Executors : Active(e)'})
                 <= Cardinality({e \in Executors : Active(e)})]_vars

(* Every request is answered: a bare /run does not wait for the program    *)
(* (in the model it may wait for one of the bounded Runs).                 *)
RequestsAnswered ==
  \A h \in Handlers :
    pc[h] # "ready" ~> \/ pc[h] = "ready"
                       \/ pc[h] = "launch" /\ \A r \in Runs : Active(r)

(* After DELETE or expiry all programs of a panel backend end, also those  *)
(* whose stop request was lost, and no further one follows them.           *)
ClosedRunsEnd == (closed /\ Panel) ~> [](\A e \in Executors : ~Active(e))

-----------------------------------------------------------------------------
(* What the documentation, comments and tests say and the code does not do.*)

(* docs/sicurezza.md:17: running keeps a second command from being started.*)
(* Assemble decides on a State it read before it compiled and loaded.      *)
OneProgramAtATime ==
  \A e, f \in Executors : Active(e) /\ Active(f) => e = f
=============================================================================
