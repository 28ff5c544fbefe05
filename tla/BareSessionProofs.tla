------------------------- MODULE BareSessionProofs --------------------------
(***************************************************************************)
(* Theorems about BareSession, for every set of handlers, of concurrent    *)
(* programs and of architectures: although Assemble may overwrite State    *)
(* under a program and a second one may start beside it, the state and the *)
(* error that clients read stay consistent, and a closed session closed.   *)
(***************************************************************************)
EXTENDS BareSession, FiniteSetTheorems, TLAPS

(* The initial state has the types of TypeOK.                              *)
LEMMA InitType == Init => TypeOK
<1> SUFFICES ASSUME Init PROVE TypeOK
  OBVIOUS
<1> USE DEF Init, CoreInit
<1>1. CoreTypeOK
  BY DEF CoreTypeOK, States, Errors, Results
<1>2. pc \in [Handlers -> Labels] /\ exec \in [Executors -> ExecPhases]
  BY DEF Labels, ExecPhases
<1> QED BY <1>1, <1>2 DEF TypeOK

(* A request that arrives keeps the types.                                 *)
LEMMA ArriveType ==
  ASSUME TypeOK, NEW h \in Handlers, Arrive(h) PROVE TypeOK'
<1> USE DEF TypeOK, CoreTypeOK, Labels, Request, Goto, bareVars, Panel
<1>1. CASE RunRequest(h)
  BY <1>1 DEF RunRequest
<1>2. CASE OutputRequest(h)
  BY <1>2 DEF OutputRequest
<1>3. CASE InputRequest(h)
  BY <1>3 DEF InputRequest
<1>4. CASE AssembleRequest(h)
  BY <1>4 DEF AssembleRequest
<1>5. CASE DeleteRequest(h)
  BY <1>5 DEF DeleteRequest, Unregister
<1> QED BY <1>1, <1>2, <1>3, <1>4, <1>5 DEF Arrive

(* So do the steps that need the lock of the session.                      *)
LEMMA ContendType ==
  ASSUME TypeOK, NEW h \in Handlers, Contend(h) PROVE TypeOK'
<1> USE DEF TypeOK, CoreTypeOK, Labels, ExecPhases, States, Errors, Executors, Goto, bareVars, Panel
<1>1. CASE Begin(h)
  BY <1>1 DEF Begin, Admit, Refuse
<1>2. CASE Drain(h)
  BY <1>2 DEF Drain
<1>3. CASE RouteInput(h)
  BY <1>3 DEF RouteInput
<1>4. CASE AsmCheck(h)
  BY <1>4 DEF AsmCheck
<1>5. CASE AsmRecord(h)
  BY <1>5 DEF AsmRecord
<1>6. CASE Close(h)
  <2>1. told' \subseteq Runs
    BY <1>6 DEF Close, CloseSession, Reached
  <2> QED BY <1>6, <2>1 DEF Close, CloseSession, CloseFields
<1> QED BY <1>1, <1>2, <1>3, <1>4, <1>5, <1>6 DEF Contend

(* So do the steps that need no lock.                                      *)
LEMMA ProceedType ==
  ASSUME TypeOK, NEW h \in Handlers, Proceed(h) PROVE TypeOK'
<1> USE DEF TypeOK, CoreTypeOK, Labels, ExecPhases, Executors, Goto, bareVars, Panel
<1>1. CASE RunCheck(h)
  BY <1>1 DEF RunCheck
<1>2. CASE Launch(h)
  BY <1>2 DEF Launch, Spawn
<1>3. CASE AsmRejected(h)
  BY <1>3 DEF AsmRejected
<1>4. CASE AsmLoad(h)
  <2>1. CASE LoadFails(h)
    BY <1>4, <2>1 DEF AsmLoad, LoadFails
  <2>2. CASE LoadSucceeds(h)
    BY <1>4, <2>2 DEF AsmLoad, LoadSucceeds
  <2> QED BY <1>4, <2>1, <2>2 DEF AsmLoad
<1> QED BY <1>1, <1>2, <1>3, <1>4 DEF Proceed

(* So do the steps of a goroutine that runs a program.                     *)
LEMMA ExecuteType ==
  ASSUME TypeOK, NEW r \in Runs, Execute(r) PROVE TypeOK'
<1> USE DEF TypeOK, CoreTypeOK, Labels, ExecPhases, Results, States, Errors, Executors, bareVars, Panel
<1>1. CASE Arm(r)
  BY <1>1 DEF Arm
<1>2. CASE RunEnds(r)
  <2>1. PICK res \in {"ok", "fail", "timedOut", "stopped"} : Ends(r, res)
    BY <1>2 DEF RunEnds
  <2> QED BY <2>1 DEF Ends
<1>3. CASE Finish(r)
  <2>1. CASE RecordOnClosed(r)
    BY <1>3, <2>1 DEF Finish, RecordOnClosed, Retire, ErrorOf
  <2>2. CASE RecordOnOpen(r)
    BY <1>3, <2>2 DEF Finish, RecordOnOpen, Retire, ErrorOf
  <2> QED BY <1>3, <2>1, <2>2 DEF Finish
<1> QED BY <1>1, <1>2, <1>3 DEF Execute

(* Hence every step of the specification keeps the types.                  *)
LEMMA StepType == TypeOK /\ [Next]_vars => TypeOK'
<1> SUFFICES ASSUME TypeOK, [Next]_vars PROVE TypeOK'
  OBVIOUS
<1>1. CASE \E h \in Handlers : Handle(h)
  BY <1>1, ArriveType, ContendType, ProceedType DEF Handle
<1>2. CASE \E r \in Runs : Execute(r)
  BY <1>2, ExecuteType
<1>3. CASE Sweep
  BY <1>3 DEF Sweep, CloseSession, CloseFields, Reached, TypeOK, CoreTypeOK, States, Panel
<1>4. CASE UNCHANGED vars
  BY <1>4 DEF vars, coreVars, bareVars, TypeOK, CoreTypeOK, Panel
<1> QED BY <1>1, <1>2, <1>3, <1>4 DEF Next

(* Every reachable state has the types of TypeOK.                          *)
THEOREM TypeCorrect == SafetySpec => []TypeOK
BY InitType, StepType, PTL DEF SafetySpec
-----------------------------------------------------------------------------
(* What clients read, besides its types.                                   *)
ClosedFirst == state = "closed" => closed

Safe == RunningHasOwner /\ ErrorExplained /\ ClosedFirst

(* A step that leaves the fields alone, and no executor idle that was      *)
(* active, keeps Safe.                                                     *)
LEMMA QuietStep ==
  ASSUME Safe, UNCHANGED <<closed, state, lastError>>,
         (\E e \in Executors : Active(e)) => (\E e \in Executors : Active(e)')
  PROVE  Safe'
BY DEF Safe, RunningHasOwner, ErrorExplained, ClosedFirst, Reported

(* A step that does not leave the session running needs no owner.          *)
LEMMA StoppedStep ==
  ASSUME closed' \/ state' # "running",
         ~closed' => (state' = "error" <=> lastError' # "") /\ state' # "closed"
  PROVE  Safe'
BY DEF Safe, RunningHasOwner, ErrorExplained, ClosedFirst, Reported

(* Requests: only beginCommand says running, and has an executor then.     *)
LEMMA HandleSafe ==
  ASSUME TypeOK, Safe, NEW h \in Handlers, Handle(h) PROVE Safe'
<1> USE DEF Active
<1>0. h \in Executors /\ exec \in [Executors -> ExecPhases] /\ Runs \subseteq Executors
  BY DEF Executors, TypeOK
<1>1. CASE Arrive(h)
  <2>1. UNCHANGED <<closed, state, lastError, exec>>
    BY <1>1 DEF Arrive, RunRequest, OutputRequest, InputRequest, AssembleRequest,
                DeleteRequest, Request, Unregister
  <2> QED BY <2>1, QuietStep
<1>2. CASE Begin(h)
  <2>1. CASE Refuse(h)
    BY <2>1, QuietStep DEF Refuse
  <2>2. CASE Admit(h, "launch", "admitted")
    <3>1. exec'[h] = "admitted"
      BY <1>0, <2>2 DEF Admit
    <3>2. state' = "running" /\ lastError' = "" /\ ~closed'
      BY <2>2 DEF Admit, Admissible
    <3> QED BY <1>0, <3>1, <3>2 DEF Safe, RunningHasOwner, ErrorExplained, ClosedFirst
  <2> QED BY <1>2, <2>1, <2>2 DEF Begin
<1>3. CASE Drain(h) \/ RouteInput(h) \/ AsmCheck(h)
  BY <1>3, QuietStep DEF Drain, RouteInput, AsmCheck
<1>4. CASE AsmRecord(h)
  BY <1>4, StoppedStep DEF AsmRecord
<1>5. CASE Close(h)
  BY <1>5, StoppedStep DEF Close, CloseSession, CloseFields
<1>6. CASE RunCheck(h) \/ AsmRejected(h) \/ AsmLoad(h)
  BY <1>6, QuietStep DEF RunCheck, AsmRejected, AsmLoad
<1>7. CASE Launch(h)
  <2>1. PICK r \in Runs : exec' = [exec EXCEPT ![h] = "none", ![r] = "launched"]
    BY <1>7 DEF Launch, Spawn
  <2>2. exec'[r] = "launched"
    BY <1>0, <2>1
  <2> QED BY <1>0, <1>7, <2>2, QuietStep DEF Launch, Spawn
<1> QED BY <1>1, <1>2, <1>3, <1>4, <1>5, <1>6, <1>7 DEF Handle, Contend, Proceed

(* Programs: one that ends does not leave the session running.             *)
LEMMA ExecuteSafe ==
  ASSUME TypeOK, Safe, NEW r \in Runs, Execute(r) PROVE Safe'
<1>0. r \in Executors /\ exec \in [Executors -> ExecPhases]
  BY DEF Executors, TypeOK
<1>1. CASE Arm(r) \/ RunEnds(r)
  <2>1. exec'[r] # "none" /\ UNCHANGED <<closed, state, lastError>>
    BY <1>0, <1>1 DEF Arm, RunEnds, Ends
  <2> QED BY <1>0, <2>1, QuietStep DEF Active
<1>2. CASE Finish(r)
  <2>1. CASE RecordOnClosed(r)
    BY <2>1, StoppedStep DEF RecordOnClosed
  <2>2. CASE RecordOnOpen(r)
    <3>1. /\ closed' = (result[r] = "exit") /\ lastError' = ErrorOf(result[r])
          /\ state' = CASE result[r] = "exit" -> "closed"
                        [] ErrorOf(result[r]) # "" -> "error"
                        [] OTHER -> "idle"
      BY <2>2 DEF RecordOnOpen
    <3> QED BY <3>1, StoppedStep
  <2> QED BY <1>2, <2>1, <2>2 DEF Finish
<1> QED BY <1>1, <1>2 DEF Execute

(* Init and every step: the inductive invariant.                           *)
Inv == TypeOK /\ Safe

LEMMA StepInv == Inv /\ [Next]_vars => Inv'
<1> SUFFICES ASSUME TypeOK, Safe, [Next]_vars PROVE Safe'
  BY StepType DEF Inv
<1>1. CASE \E h \in Handlers : Handle(h)
  BY <1>1, HandleSafe
<1>2. CASE \E r \in Runs : Execute(r)
  BY <1>2, ExecuteSafe
<1>3. CASE Sweep
  BY <1>3, StoppedStep DEF Sweep, CloseSession, CloseFields
<1>4. CASE UNCHANGED vars
  BY <1>4 DEF vars, coreVars, Safe, RunningHasOwner, ErrorExplained, ClosedFirst, Reported, Active
<1> QED BY <1>1, <1>2, <1>3, <1>4 DEF Next

LEMMA InitInv == Init => Inv
<1> SUFFICES ASSUME Init PROVE Safe
  BY InitType DEF Inv
<1> QED BY DEF Init, CoreInit, Safe, RunningHasOwner, ErrorExplained, ClosedFirst, Reported

(* A session that says running has a program behind it, however many are   *)
(* admitted beside each other and whatever Assemble overwrites.            *)
THEOREM RunningOwned == SafetySpec => []RunningHasOwner
<1>1. Inv => RunningHasOwner
  BY DEF Inv, Safe
<1> QED BY InitInv, StepInv, <1>1, PTL DEF SafetySpec

(* last_error is set exactly in the state error while the session is open. *)
THEOREM ErrorsExplained == SafetySpec => []ErrorExplained
<1>1. Inv => ErrorExplained
  BY DEF Inv, Safe
<1> QED BY InitInv, StepInv, <1>1, PTL DEF SafetySpec

(* No step takes Closed back: Assemble and a program that ends write State *)
(* after close(), but only an open session has its Closed written.         *)
LEMMA ClosedStays == [Next]_vars => (closed => closed')
<1> SUFFICES ASSUME [Next]_vars, closed PROVE closed'
  OBVIOUS
<1>1. CASE \E h \in Handlers : Arrive(h) \/ Contend(h)
  BY <1>1 DEF Arrive, RunRequest, OutputRequest, InputRequest, AssembleRequest, DeleteRequest,
              Request, Unregister, Contend, Begin, Admit, Refuse, Drain, RouteInput, AsmCheck,
              AsmRecord, Close, CloseSession, CloseFields
<1>2. CASE \E h \in Handlers : Proceed(h)
  BY <1>2 DEF Proceed, RunCheck, Launch, Spawn, AsmRejected, AsmLoad
<1>3. CASE \E r \in Runs : Execute(r)
  BY <1>3 DEF Execute, Arm, RunEnds, Ends, Finish, RecordOnClosed, RecordOnOpen
<1>4. CASE Sweep \/ UNCHANGED vars
  BY <1>4 DEF Sweep, CloseSession, CloseFields, vars, coreVars
<1> QED BY <1>1, <1>2, <1>3, <1>4 DEF Next, Handle

(* A session that reports closed reports it for ever.                      *)
THEOREM NeverReopened == SafetySpec => ClosedIsFinal
<1>1. Inv /\ [Next]_vars => (Reported = "closed" => Reported' = "closed")
  BY ClosedStays DEF Inv, Safe, ClosedFirst, Reported
<1>2. Inv /\ [Next]_vars => [Reported = "closed" => Reported' = "closed"]_vars
  BY <1>1
<1> QED BY InitInv, StepInv, <1>2, PTL DEF SafetySpec, ClosedIsFinal

-----------------------------------------------------------------------------
(* Programs are handed over, not made: a handler that is about to start a  *)
(* goroutine is the one beginCommand admitted.                             *)
Token == \A h \in Handlers : pc[h] = "launch" => Active(h)

LEMMA TokenStep ==
  ASSUME TypeOK, Token, [Next]_vars PROVE Token'
<1> SUFFICES ASSUME NEW g \in Handlers, pc'[g] = "launch" PROVE Active(g)'
  BY DEF Token
<1> USE DEF Active, Goto
<1>0. /\ exec \in [Executors -> ExecPhases] /\ pc \in [Handlers -> Labels]
      /\ g \in Executors /\ Handlers \subseteq Executors /\ Runs \subseteq Executors
      /\ g \notin Runs
  BY CoreAssumption DEF TypeOK, Executors
<1>1. CASE UNCHANGED <<pc, exec>>
  BY <1>1 DEF Token
<1>2. ASSUME NEW h \in Handlers, NEW label, Goto(h, label), label # "launch", exec' = exec
      PROVE  Active(g)'
  BY <1>0, <1>2 DEF Token
<1>3. ASSUME NEW h \in Handlers, Arrive(h) PROVE Active(g)'
  BY <1>2, <1>3 DEF Arrive, RunRequest, OutputRequest, InputRequest, AssembleRequest,
                    DeleteRequest, Request, Unregister
<1>4. ASSUME NEW h \in Handlers, Begin(h) PROVE Active(g)'
  <2>1. CASE Refuse(h)
    BY <1>2, <2>1 DEF Refuse
  <2>2. CASE Admit(h, "launch", "admitted")
    BY <1>0, <2>2 DEF Admit, Token
  <2> QED BY <1>4, <2>1, <2>2 DEF Begin
<1>5. ASSUME NEW h \in Handlers, Drain(h) \/ AsmRecord(h) \/ Close(h) \/ AsmRejected(h)
      PROVE  Active(g)'
  BY <1>2, <1>5 DEF Drain, AsmRecord, Close, CloseSession, AsmRejected
<1>6. ASSUME NEW h \in Handlers, RouteInput(h) \/ AsmCheck(h) \/ RunCheck(h) PROVE Active(g)'
  BY <1>2, <1>6 DEF RouteInput, AsmCheck, RunCheck
<1>7. ASSUME NEW h \in Handlers, AsmLoad(h) PROVE Active(g)'
  BY <1>2, <1>7 DEF AsmLoad, LoadFails, LoadSucceeds
<1>8. ASSUME NEW h \in Handlers, Launch(h) PROVE Active(g)'
  <2>1. PICK r \in Runs : exec' = [exec EXCEPT ![h] = "none", ![r] = "launched"]
    BY <1>8 DEF Launch, Spawn
  <2>2. pc' = [pc EXCEPT ![h] = "drain"]
    BY <1>8 DEF Launch, Spawn
  <2> QED BY <1>0, <2>1, <2>2 DEF Token
<1>9. ASSUME NEW r \in Runs, Execute(r) PROVE Active(g)'
  <2>1. pc' = pc
    BY <1>9, CoreAssumption DEF Execute, Arm, RunEnds, Ends, Finish, Retire
  <2>2. exec'[g] = exec[g]
    BY <1>0, <1>9 DEF Execute, Arm, RunEnds, Ends, Finish, Retire
  <2> QED BY <2>1, <2>2 DEF Token
<1>10. CASE Sweep \/ UNCHANGED vars
  BY <1>1, <1>10 DEF Sweep, CloseSession, vars, coreVars
<1> QED BY <1>3, <1>4, <1>5, <1>6, <1>7, <1>8, <1>9, <1>10 DEF Next, Handle, Contend, Proceed

(* Once closed, a step hands a program over, or makes none active.         *)
LEMMA ClosedStep ==
  ASSUME TypeOK, Token, [Next]_vars, closed
  PROVE  \/ \A e \in Executors : Active(e)' => Active(e)
         \/ \E h, r \in Executors :
              /\ h # r /\ Active(h) /\ ~Active(r)
              /\ \A e \in Executors : Active(e)' <=> e = r \/ (Active(e) /\ e # h)
<1> DEFINE Fewer == \A e \in Executors : Active(e)' => Active(e)
<1> USE DEF Active
<1>0. /\ exec \in [Executors -> ExecPhases]
      /\ Handlers \subseteq Executors /\ Runs \subseteq Executors
  BY DEF TypeOK, Executors
<1>1. CASE exec' = exec
  BY <1>1
<1>2. ASSUME NEW h \in Handlers, Arrive(h) PROVE Fewer
  BY <1>2, <1>1 DEF Arrive, RunRequest, OutputRequest, InputRequest, AssembleRequest,
                    DeleteRequest, Request, Unregister
<1>3. ASSUME NEW h \in Handlers, Contend(h) PROVE Fewer
  BY <1>3, <1>1 DEF Contend, Begin, Admit, Admissible, Refuse, Drain, RouteInput, AsmCheck,
                    AsmRecord, Close, CloseSession
<1>4. ASSUME NEW h \in Handlers, RunCheck(h) \/ AsmRejected(h) \/ AsmLoad(h) PROVE Fewer
  BY <1>4, <1>1 DEF RunCheck, AsmRejected, AsmLoad
<1>5. ASSUME NEW h \in Handlers, Launch(h)
      PROVE  \E k, r \in Executors :
               /\ k # r /\ Active(k) /\ ~Active(r)
               /\ \A e \in Executors : Active(e)' <=> e = r \/ (Active(e) /\ e # k)
  <2>1. PICK r \in Runs :
          exec[r] = "none" /\ exec' = [exec EXCEPT ![h] = "none", ![r] = "launched"]
    BY <1>5 DEF Launch, Spawn
  <2>2. Active(h) /\ h # r
    BY <1>5, <2>1 DEF Launch, Spawn, Token
  <2>3. \A e \in Executors : Active(e)' <=> e = r \/ (Active(e) /\ e # h)
    BY <1>0, <2>1, <2>2
  <2> QED BY <1>0, <2>1, <2>2, <2>3
<1>6. ASSUME NEW r \in Runs, Execute(r) PROVE Fewer
  <2>1. exec[r] # "none" /\ \A e \in Executors \ {r} : exec'[e] = exec[e]
    <3>1. CASE Arm(r)
      BY <1>0, <3>1 DEF Arm
    <3>2. CASE RunEnds(r)
      BY <1>0, <3>2 DEF RunEnds, Ends
    <3>3. CASE Finish(r)
      BY <1>0, <3>3 DEF Finish, Retire
    <3> QED BY <1>6, <3>1, <3>2, <3>3 DEF Execute
  <2> QED BY <2>1
<1>7. CASE Sweep \/ UNCHANGED vars
  BY <1>7, <1>1 DEF Sweep, CloseSession, vars, coreVars
<1> QED BY <1>2, <1>3, <1>4, <1>5, <1>6, <1>7 DEF Next, Handle, Proceed

(* Counting them.                                                          *)
LEMMA HandedOver ==
  ASSUME NEW S, IsFiniteSet(S), NEW T, NEW h \in S, NEW r, r \notin S, T = (S \ {h}) \cup {r}
  PROVE  Cardinality(T) = Cardinality(S)
<1>1. IsFiniteSet(S \ {h}) /\ Cardinality(S \ {h}) = Cardinality(S) - 1
  BY FS_RemoveElement
<1>2. Cardinality(T) = Cardinality(S \ {h}) + 1
  BY <1>1, FS_AddElement
<1>3. Cardinality(S) \in Nat
  BY FS_CardinalityType
<1> QED BY <1>1, <1>2, <1>3

LEMMA CountStep ==
  ASSUME IsFiniteSet(Executors), TypeOK, Token, [Next]_vars, closed
  PROVE  Cardinality({e \in Executors : Active(e)'}) <= Cardinality({e \in Executors : Active(e)})
<1> DEFINE Now == {e \in Executors : Active(e)}
           Then == {e \in Executors : Active(e)'}
<1>0. IsFiniteSet(Now)
  BY FS_Subset
<1>1. CASE \A e \in Executors : Active(e)' => Active(e)
  <2>1. Then \subseteq Now
    BY <1>1
  <2> QED BY <1>0, <2>1, FS_Subset
<1>2. ASSUME NEW h \in Executors, NEW r \in Executors, h # r, Active(h), ~Active(r),
             \A e \in Executors : Active(e)' <=> e = r \/ (Active(e) /\ e # h)
      PROVE  Cardinality(Then) <= Cardinality(Now)
  <2>1. h \in Now /\ r \notin Now /\ Then = (Now \ {h}) \cup {r}
    BY <1>2
  <2>2. Cardinality(Then) = Cardinality(Now)
    <3> HIDE DEF Now, Then
    <3> QED BY <1>0, <2>1, HandedOver
  <2>3. Cardinality(Now) \in Nat
    BY <1>0, FS_CardinalityType
  <2> QED BY <2>2, <2>3
<1> QED BY <1>1, <1>2, ClosedStep

(* No program starts in a session that was closed, for any finite numbers  *)
(* of requests and goroutines: those that are active become fewer.         *)
THEOREM NothingStarts ==
  ASSUME IsFiniteSet(Executors)
  PROVE  SafetySpec => NothingStartsOnceClosed
<1>1. Init => Token
  BY DEF Init, CoreInit, Token
<1>2. TypeOK /\ Token /\ [Next]_vars =>
        [closed => Cardinality({e \in Executors : Active(e)'})
                     <= Cardinality({e \in Executors : Active(e)})]_vars
  BY CountStep
<1> QED BY InitType, StepType, <1>1, TokenStep, <1>2, PTL DEF SafetySpec, NothingStartsOnceClosed

-----------------------------------------------------------------------------
(* A closed session without a program stays one: there is nobody left to   *)
(* start another, and requests that read the state before the close do not *)
(* either.  This is all of ClosedRunsEnd that is safety.                   *)
NoneActive == \A e \in Executors : ~Active(e)

THEOREM EndedForGood == SafetySpec => [](closed /\ NoneActive => [](closed /\ NoneActive))
<1>1. Init => Token
  BY DEF Init, CoreInit, Token
<1>2. TypeOK /\ Token /\ [Next]_vars => (closed /\ NoneActive => closed' /\ NoneActive')
  BY ClosedStep, ClosedStays DEF NoneActive
<1> QED BY InitType, StepType, <1>1, TokenStep, <1>2, PTL DEF SafetySpec

(* Hence what ClosedRunsEnd takes from fairness is that the programs of a  *)
(* closed session have ended some day, not that none follows them.         *)
THEOREM RunsEndOnceEnded ==
  SafetySpec /\ ((closed /\ Panel) ~> (closed /\ NoneActive)) => ClosedRunsEnd
<1>1. NoneActive <=> (\A e \in Executors : ~Active(e))
  BY DEF NoneActive
<1> QED BY EndedForGood, <1>1, PTL DEF ClosedRunsEnd
=============================================================================
