-------------------------- MODULE CpmSessionProofs --------------------------
(***************************************************************************)
(* Theorems about CpmSession, for every set of handlers and executors,     *)
(* every set of messages and every bound: its type invariant, its safety   *)
(* invariants and action properties, and that it implements the safety     *)
(* part of SessionLifecycle.                                               *)
(***************************************************************************)
EXTENDS CpmSession, SequenceTheorems, TLAPS

(* Head, Tail and the removal of the last element stay in Seq(S).          *)
LEMMA FrontInSeq ==
  ASSUME NEW S, NEW s \in Seq(S), s # <<>>
  PROVE  SubSeq(s, 1, Len(s) - 1) \in Seq(S)
<1>1. Len(s) \in Nat \ {0}
  BY EmptySeq
<1>2. \A i \in 1 .. Len(s) - 1 : s[i] \in S
  BY <1>1, ElementOfSeq
<1> QED BY <1>1, <1>2, SubSeqProperties

(* The initial state has the types of TypeOK.                              *)
LEMMA InitType == Init => TypeOK
<1> SUFFICES ASSUME Init PROVE TypeOK
  OBVIOUS
<1> USE DEF Init, CoreInit
<1>1. CoreTypeOK
  BY DEF CoreTypeOK, States, Errors, Results
<1>2. pc \in [Handlers -> Labels]
  BY DEF Labels
<1>3. exec \in [Executors -> ExecPhases]
  BY DEF ExecPhases
<1>4. drive \in {"up", "removed"} /\ queued \in Nat
  OBVIOUS
<1>5. line \in Seq({"char", "blank"}) /\ todo \in [Handlers -> Seq(Bytes)]
  BY EmptySeq
<1> QED BY <1>1, <1>2, <1>3, <1>4, <1>5 DEF TypeOK

(* Every arrival and every step that needs the lock keeps the types.       *)
LEMMA ArriveType ==
  ASSUME TypeOK, NEW h \in Handlers, Arrive(h) PROVE TypeOK'
<1> USE DEF TypeOK, CoreTypeOK, Labels, Request, Goto, cpmVars
<1>1. CASE StartRequest(h)
  BY <1>1 DEF StartRequest
<1>2. CASE OutputRequest(h)
  BY <1>2 DEF OutputRequest
<1>3. CASE InputRequest(h)
  <2>1. PICK data \in Messages : todo' = [todo EXCEPT ![h] = data]
    BY <1>3 DEF InputRequest
  <2>2. data \in Seq(Bytes)
    BY CpmAssumption
  <2> QED BY <1>3, <2>1, <2>2 DEF InputRequest
<1>4. CASE DeleteRequest(h)
  BY <1>4 DEF DeleteRequest, Unregister
<1> QED BY <1>1, <1>2, <1>3, <1>4 DEF Arrive

(* The steps that need the session lock keep the types.                    *)
LEMMA ContendType ==
  ASSUME TypeOK, NEW h \in Handlers, Contend(h) PROVE TypeOK'
<1> USE DEF TypeOK, CoreTypeOK, Labels, ExecPhases, States, Errors, Executors, Goto, Refuse, cpmVars
<1>1. CASE BeginSync(h)
  BY <1>1 DEF BeginSync, Admit
<1>2. CASE BeginAsync(h)
  BY <1>2, EmptySeq DEF BeginAsync, Admit
<1>3. CASE PromptOnly(h)
  BY <1>3 DEF PromptOnly
<1>4. CASE Drain(h)
  BY <1>4 DEF Drain
<1>5. CASE RouteInput(h)
  BY <1>5, EmptySeq DEF RouteInput
<1>6. CASE LockEditor(h)
  BY <1>6, EmptySeq DEF LockEditor
<1>7. CASE Close(h)
  BY <1>7 DEF Close, CloseSession, CloseFields
<1> QED BY <1>1, <1>2, <1>3, <1>4, <1>5, <1>6, <1>7 DEF Contend

(* Every key of the line editor (editLine) keeps the types.                *)
LEMMA EditType ==
  ASSUME TypeOK, NEW h \in Handlers, Edit(h) PROVE TypeOK'
<1> USE DEF TypeOK, CoreTypeOK, Labels, States, Goto, cpmVars, coreVars
<1> DEFINE Bite == /\ todo[h] \in Seq(Bytes) /\ todo[h] # <<>>
                   /\ todo' = [todo EXCEPT ![h] = Tail(todo[h])]
<1>0. Bite => todo' \in [Handlers -> Seq(Bytes)]
  BY HeadTailProperties
<1> HIDE DEF Bite
<1>1. CASE EditQuit(h)
  <2>1. Bite
    BY <1>1 DEF EditQuit, Editing, Bite
  <2> QED BY <1>0, <1>1, <2>1 DEF EditQuit
<1>2. CASE EditClear(h)
  <2>1. Bite
    BY <1>2 DEF EditClear, Editing, Bite
  <2> QED BY <1>0, <1>2, <2>1, EmptySeq DEF EditClear
<1>3. CASE EditErase(h)
  <2>1. Bite
    BY <1>3 DEF EditErase, Editing, Bite
  <2>2. line' \in Seq({"char", "blank"})
    BY <1>3, FrontInSeq DEF EditErase
  <2> QED BY <1>0, <1>3, <2>1, <2>2 DEF EditErase
<1>4. CASE EditInsert(h)
  <2>1. Bite
    BY <1>4 DEF EditInsert, Editing, Bite
  <2>2. line' \in Seq({"char", "blank"})
    BY <1>4 DEF EditInsert
  <2> QED BY <1>0, <1>4, <2>1, <2>2 DEF EditInsert
<1>5. CASE EditIgnore(h)
  <2>1. Bite
    BY <1>5 DEF EditIgnore, Editing, Bite
  <2> QED BY <1>0, <1>5, <2>1 DEF EditIgnore
<1>6. CASE EditEnter(h)
  <2>1. Bite
    BY <1>6 DEF EditEnter, Editing, Bite
  <2> QED BY <1>0, <1>6, <2>1, EmptySeq DEF EditEnter
<1>7. CASE EditDone(h)
  BY <1>7 DEF EditDone
<1> QED BY <1>1, <1>2, <1>3, <1>4, <1>5, <1>6, <1>7 DEF Edit

(* So do the steps of a handler that needs no lock.                        *)
LEMMA ProceedType ==
  ASSUME TypeOK, NEW h \in Handlers, Proceed(h) PROVE TypeOK'
<1> USE DEF TypeOK, CoreTypeOK, Labels, ExecPhases, Executors, Goto
<1>0. Len(todo[h]) \in Nat
  BY LenProperties
<1>1. CASE Launch(h)
  BY <1>0, <1>1, EmptySeq DEF Launch, Spawn
<1>2. CASE QueueInput(h)
  <2>1. queued' \in {queued, queued + Len(todo[h])}
    BY <1>2 DEF QueueInput
  <2>2. queued \in Nat
    OBVIOUS
  <2>3. queued' \in Nat
    BY ONLY <1>0, <2>1, <2>2
  <2>4. /\ todo' \in [Handlers -> Seq(Bytes)]
        /\ pc' \in [Handlers -> Labels]
    BY <1>2, EmptySeq DEF QueueInput
  <2> QED BY <1>2, <2>3, <2>4 DEF QueueInput
<1>3. CASE Edit(h)
  BY <1>3, EditType
<1> HIDE DEF TypeOK, CoreTypeOK
<1> QED BY <1>1, <1>2, <1>3 DEF Proceed

(* So do the steps of the goroutine that runs a command.                   *)
LEMMA ExecuteType ==
  ASSUME TypeOK, NEW e \in Executors, Execute(e) PROVE TypeOK'
<1> USE DEF TypeOK, CoreTypeOK, Labels, ExecPhases, Results, States, Errors, cpmVars, coreVars
<1>1. CASE ProgramReads(e)
  <2>1. queued \in Nat /\ queued > 0 /\ queued' = queued - 1
    BY <1>1 DEF ProgramReads
  <2>2. queued' \in Nat
    BY ONLY <2>1
  <2> QED BY <1>1, <2>2 DEF ProgramReads
<1>2. CASE ProgramEnds(e)
  <2>1. result' \in [Executors -> Results]
    BY <1>2 DEF ProgramEnds
  <2>2. exec' \in [Executors -> ExecPhases]
    BY <1>2 DEF ProgramEnds
  <2> QED BY <1>2, <2>1, <2>2 DEF ProgramEnds
<1>3. CASE PromptAfter(e)
  BY <1>3 DEF PromptAfter
<1>4. CASE Finish(e)
  <2>1. CASE RecordOnClosed(e)
    BY <1>4, <2>1 DEF Finish, RecordOnClosed, Retire, ErrorOf
  <2>2. CASE RecordOnOpen(e)
    BY <1>4, <2>2 DEF Finish, RecordOnOpen, Retire, ErrorOf
  <2> QED BY <1>4, <2>1, <2>2 DEF Finish
<1> QED BY <1>1, <1>2, <1>3, <1>4 DEF Execute

(* Hence every step of the specification keeps the types.                  *)
LEMMA StepType == TypeOK /\ [Next]_vars => TypeOK'
<1> SUFFICES ASSUME TypeOK, [Next]_vars PROVE TypeOK'
  OBVIOUS
<1>1. CASE \E h \in Handlers : Handle(h)
  BY <1>1, ArriveType, ContendType, ProceedType DEF Handle
<1>2. CASE \E e \in Executors : Execute(e)
  BY <1>2, ExecuteType
<1>3. CASE Sweep
  BY <1>3 DEF Sweep, CloseSession, CloseFields, TypeOK, CoreTypeOK, States
<1>4. CASE UNCHANGED vars
  BY <1>4 DEF vars, coreVars, cpmVars, TypeOK, CoreTypeOK
<1> QED BY <1>1, <1>2, <1>3, <1>4 DEF Next

(* Every reachable state has the types of TypeOK.                          *)
THEOREM TypeCorrect == SafetySpec => []TypeOK
BY InitType, StepType, PTL DEF SafetySpec
-----------------------------------------------------------------------------
(* The part of the invariant that is not about types.                      *)
Safe ==
  /\ TokenFollowsPc /\ LockFollowsPc /\ RemovedBeforeClose
  /\ OneCommandAtATime /\ RunningHasOwner /\ ClosedAgrees /\ ErrorExplained

(* A handler that goes from one label to another outside the regions the   *)
(* invariant speaks of, and changes no field, keeps it.                    *)
LEMMA QuietStep ==
  ASSUME TypeOK, Safe, NEW h \in Handlers, NEW label, Goto(h, label),
         pc[h] \notin {"launch", "executing", "editing"},
         label \notin {"launch", "executing", "editing", "close"},
         UNCHANGED <<closed, state, lastError, registered, mu, exec, drive>>
  PROVE  Safe'
<1> USE DEF Safe
<1>1. pc' = [pc EXCEPT ![h] = label] /\ pc \in [Handlers -> Labels]
  BY DEF Goto, TypeOK
<1>2. TokenFollowsPc'
  BY <1>1 DEF TokenFollowsPc
<1>3. LockFollowsPc'
  BY <1>1 DEF LockFollowsPc
<1>4. RemovedBeforeClose'
  BY <1>1 DEF RemovedBeforeClose
<1>5. OneCommandAtATime' /\ RunningHasOwner' /\ ClosedAgrees' /\ ErrorExplained'
  BY DEF OneCommandAtATime, RunningHasOwner, ClosedAgrees, ErrorExplained, Active, Reported
<1> QED BY <1>2, <1>3, <1>4, <1>5

(* A refused request is answered, and nothing else happens.                *)
LEMMA RefuseSafe ==
  ASSUME TypeOK, Safe, NEW h \in Handlers, Refuse(h), drive' = drive,
         pc[h] \notin {"launch", "executing", "editing"}
  PROVE  Safe'
<1>1. Goto(h, "ready")
  BY DEF Refuse
<1>2. UNCHANGED <<closed, state, lastError, registered, mu, exec, drive>>
  BY DEF Refuse
<1> QED BY <1>1, <1>2, QuietStep

(* A request that arrives changes no field of the session.                 *)
LEMMA ArriveSafe ==
  ASSUME TypeOK, Safe, NEW h \in Handlers, Arrive(h) PROVE Safe'
<1>1. CASE StartRequest(h)
  <2>1. PICK label \in {"beginSync", "begin", "promptOnly"} : Request(h, label)
    BY <1>1 DEF StartRequest
  <2> QED BY <1>1, <2>1, QuietStep DEF StartRequest, Request, cpmVars
<1>2. CASE OutputRequest(h)
  BY <1>2, QuietStep DEF OutputRequest, Request, cpmVars
<1>3. CASE InputRequest(h)
  BY <1>3, QuietStep DEF InputRequest, Request
<1>4. CASE DeleteRequest(h)
  <2> USE <1>4 DEF DeleteRequest, Unregister, Goto, cpmVars, TypeOK, Safe
  <2>1. TokenFollowsPc'
    BY DEF TokenFollowsPc
  <2>2. LockFollowsPc'
    BY DEF LockFollowsPc
  <2>3. RemovedBeforeClose'
    BY DEF RemovedBeforeClose
  <2>4. OneCommandAtATime' /\ RunningHasOwner' /\ ClosedAgrees' /\ ErrorExplained'
    BY DEF OneCommandAtATime, RunningHasOwner, ClosedAgrees, ErrorExplained, Active, Reported
  <2> QED BY <2>1, <2>2, <2>3, <2>4
<1> QED BY <1>1, <1>2, <1>3, <1>4 DEF Arrive

(* No executor is at work when beginCommand admits a command.              *)
LEMMA IdleWhenAdmissible ==
  ASSUME Safe, Admissible PROVE \A e \in Executors : ~Active(e)
BY DEF Safe, RunningHasOwner, ClosedAgrees, Admissible, Reported

(* An admitted command: one executor, and the session says running.        *)
LEMMA AdmitSafe ==
  ASSUME TypeOK, Safe, NEW h \in Handlers, NEW label, NEW phase,
         Admit(h, label, phase), drive' = drive, pc[h] \notin {"editing", "close"},
         \/ label = "executing" /\ phase = "running"
         \/ label = "launch" /\ phase = "admitted"
  PROVE  Safe'
<1> USE DEF Safe
<1>0. /\ pc' = [pc EXCEPT ![h] = label] /\ pc \in [Handlers -> Labels]
      /\ exec' = [exec EXCEPT ![h] = phase] /\ exec \in [Executors -> ExecPhases]
      /\ h \in Executors /\ Runs \subseteq Executors
  BY DEF Admit, Goto, TypeOK, Executors
<1>1. \A e \in Executors : ~Active(e)
  BY IdleWhenAdmissible DEF Admit
<1>2. /\ ~closed /\ closed' = closed /\ state' = "running" /\ lastError' = ""
      /\ UNCHANGED <<registered, mu, drive>>
  BY DEF Admit, Admissible
<1>3. TokenFollowsPc'
  <2>1. h \notin Runs
    BY CoreAssumption
  <2>2. \A g \in Handlers : exec[g] = "none" /\ pc[g] \notin {"launch", "executing"}
    BY <1>1 DEF TokenFollowsPc, Active, Executors
  <2>3. \A g \in Handlers \ {h} : exec'[g] = "none" /\ pc'[g] = pc[g]
    BY <1>0, <2>2 DEF Executors
  <2>4. exec'[h] = phase /\ pc'[h] = label
    BY <1>0
  <2>5. \A r \in Runs : exec'[r] = exec[r]
    BY <1>0, <2>1
  <2> QED BY <2>2, <2>3, <2>4, <2>5 DEF TokenFollowsPc
<1>4. LockFollowsPc'
  BY <1>0, <1>2 DEF LockFollowsPc
<1>5. RemovedBeforeClose'
  BY <1>0, <1>2 DEF RemovedBeforeClose
<1>6. OneCommandAtATime' /\ RunningHasOwner'
  BY <1>0, <1>1, <1>2 DEF OneCommandAtATime, RunningHasOwner, Active, Reported
<1>7. ClosedAgrees' /\ ErrorExplained'
  BY <1>2 DEF ClosedAgrees, ErrorExplained
<1> QED BY <1>3, <1>4, <1>5, <1>6, <1>7

(* close() and the fields it sets.                                         *)
LEMMA CloseSafe ==
  ASSUME TypeOK, Safe, CloseSession, ~registered', registered' => registered,
         \/ UNCHANGED pc
         \/ \E h \in Handlers : pc[h] = "close" /\ Goto(h, "ready")
  PROVE  Safe'
<1> USE DEF Safe
<1>1. /\ closed' /\ state' = "closed" /\ UNCHANGED <<mu, exec>>
  BY DEF CloseSession, CloseFields
<1>2. \A h \in Handlers : pc'[h] = pc[h] \/ (pc[h] = "close" /\ pc'[h] = "ready")
  BY DEF Goto, TypeOK
<1>3. TokenFollowsPc'
  BY <1>1, <1>2 DEF TokenFollowsPc
<1>4. LockFollowsPc'
  BY <1>1, <1>2 DEF LockFollowsPc
<1>5. RemovedBeforeClose'
  BY <1>1 DEF RemovedBeforeClose
<1>6. OneCommandAtATime' /\ RunningHasOwner' /\ ClosedAgrees' /\ ErrorExplained'
  BY <1>1 DEF OneCommandAtATime, RunningHasOwner, ClosedAgrees, ErrorExplained, Active, Reported
<1> QED BY <1>3, <1>4, <1>5, <1>6

(* Whatever is done right after the lock is taken keeps Safe.              *)
LEMMA ContendSafe ==
  ASSUME TypeOK, Safe, NEW h \in Handlers, Contend(h) PROVE Safe'
<1>1. CASE BeginSync(h)
  BY <1>1, AdmitSafe, RefuseSafe DEF BeginSync, cpmVars
<1>2. CASE BeginAsync(h)
  BY <1>2, AdmitSafe, RefuseSafe DEF BeginAsync
<1>3. CASE PromptOnly(h)
  <2>1. CASE Refuse(h)
    BY <1>3, <2>1, RefuseSafe DEF PromptOnly, cpmVars
  <2>2. CASE ~Refuse(h)
    <3> USE DEF Safe
    <3>1. PICK label \in {"drain", "ready"} : pc' = [pc EXCEPT ![h] = label]
      BY <1>3, <2>2 DEF PromptOnly, Goto
    <3>2. /\ pc[h] = "promptOnly" /\ Admissible /\ state' = "idle" /\ lastError' = ""
          /\ UNCHANGED <<closed, registered, mu, exec, result, drive>>
      BY <1>3, <2>2 DEF PromptOnly, cpmVars
    <3>3. pc \in [Handlers -> Labels]
      BY DEF TypeOK
    <3>4. TokenFollowsPc'
      BY <3>1, <3>2, <3>3 DEF TokenFollowsPc
    <3>5. LockFollowsPc' /\ RemovedBeforeClose'
      BY <3>1, <3>2, <3>3 DEF LockFollowsPc, RemovedBeforeClose
    <3>6. OneCommandAtATime' /\ RunningHasOwner'
      BY <3>2, IdleWhenAdmissible DEF OneCommandAtATime, RunningHasOwner, Active, Reported
    <3>7. ClosedAgrees' /\ ErrorExplained'
      BY <3>2 DEF ClosedAgrees, ErrorExplained, Admissible
    <3> QED BY <3>4, <3>5, <3>6, <3>7
  <2> QED BY <2>1, <2>2
<1>4. CASE Drain(h)
  BY <1>4, QuietStep DEF Drain, cpmVars
<1>5. CASE RouteInput(h)
  <2>1. PICK label \in {"ready", "queue", "editLock"} : Goto(h, label)
    BY <1>5 DEF RouteInput
  <2> QED BY <1>5, <2>1, QuietStep DEF RouteInput
<1>6. CASE LockEditor(h)
  <2>1. CASE closed
    BY <1>6, <2>1, QuietStep DEF LockEditor
  <2>2. CASE ~closed
    <3> USE DEF Safe
    <3>1. /\ pc' = [pc EXCEPT ![h] = "editing"] /\ mu' = h /\ mu = NoOne
          /\ pc[h] = "editLock" /\ pc \in [Handlers -> Labels]
          /\ UNCHANGED <<closed, state, lastError, registered, exec, drive>>
      BY <1>6, <2>2 DEF LockEditor, Goto, MuFree, TypeOK
    <3>2. TokenFollowsPc'
      BY <3>1 DEF TokenFollowsPc
    <3>3. LockFollowsPc'
      BY <3>1, CoreAssumption DEF LockFollowsPc
    <3>4. RemovedBeforeClose'
      BY <3>1 DEF RemovedBeforeClose
    <3>5. OneCommandAtATime' /\ RunningHasOwner' /\ ClosedAgrees' /\ ErrorExplained'
      BY <3>1 DEF OneCommandAtATime, RunningHasOwner, ClosedAgrees, ErrorExplained, Active, Reported
    <3> QED BY <3>2, <3>3, <3>4, <3>5
  <2> QED BY <2>1, <2>2
<1>7. CASE Close(h)
  <2>1. pc[h] = "close" /\ ~registered
    BY <1>7 DEF Close, Safe, RemovedBeforeClose
  <2> QED BY <1>7, <2>1, CloseSafe DEF Close
<1> QED BY <1>1, <1>2, <1>3, <1>4, <1>5, <1>6, <1>7 DEF Contend

(* The line editor.  Only the quit keys touch what Safe speaks of, and     *)
(* only the end of the edit and Enter give the lock back.                  *)
LEMMA EditSafe ==
  ASSUME TypeOK, Safe, NEW h \in Handlers, Edit(h) PROVE Safe'
<1> DEFINE Frame == UNCHANGED <<closed, state, lastError, registered, exec, drive>>
           Stay == UNCHANGED <<mu, pc>>
           Leave == \E label \in {"begin", "drain"} : mu' = NoOne /\ Goto(h, label)
<1>1. CASE EditQuit(h)
  <2> USE DEF Safe
  <2>1. closed' /\ state' = "closed" /\ UNCHANGED <<registered, mu, pc, exec, drive>>
    BY <1>1 DEF EditQuit
  <2>2. TokenFollowsPc' /\ LockFollowsPc'
    BY <2>1 DEF TokenFollowsPc, LockFollowsPc
  <2>3. RemovedBeforeClose'
    BY <2>1 DEF RemovedBeforeClose
  <2>4. OneCommandAtATime' /\ RunningHasOwner' /\ ClosedAgrees' /\ ErrorExplained'
    BY <2>1 DEF OneCommandAtATime, RunningHasOwner, ClosedAgrees, ErrorExplained, Active, Reported
  <2> QED BY <2>2, <2>3, <2>4
<1>2. CASE Frame /\ Stay
  BY <1>2 DEF Safe, TokenFollowsPc, LockFollowsPc, RemovedBeforeClose, OneCommandAtATime,
     RunningHasOwner, ClosedAgrees, ErrorExplained, Active, Reported
<1>3. CASE pc[h] = "editing" /\ Frame /\ Leave
  <2> USE DEF Safe
  <2>1. PICK label \in {"begin", "drain"} : mu' = NoOne /\ pc' = [pc EXCEPT ![h] = label]
    BY <1>3 DEF Goto
  <2>2. pc \in [Handlers -> Labels] /\ NoOne \notin Handlers /\ mu = h
    BY <1>3, CoreAssumption DEF TypeOK, LockFollowsPc
  <2>3. TokenFollowsPc'
    BY <1>3, <2>1, <2>2 DEF TokenFollowsPc
  <2>4. LockFollowsPc'
    BY <1>3, <2>1, <2>2 DEF LockFollowsPc
  <2>5. RemovedBeforeClose'
    BY <1>3, <2>1, <2>2 DEF RemovedBeforeClose
  <2>6. OneCommandAtATime' /\ RunningHasOwner' /\ ClosedAgrees' /\ ErrorExplained'
    BY <1>3 DEF OneCommandAtATime, RunningHasOwner, ClosedAgrees, ErrorExplained, Active, Reported
  <2> QED BY <2>3, <2>4, <2>5, <2>6
<1>4. CASE EditClear(h) \/ EditErase(h) \/ EditInsert(h) \/ EditIgnore(h)
  BY <1>2, <1>4 DEF EditClear, EditErase, EditInsert, EditIgnore, coreVars
<1>5. CASE EditEnter(h)
  BY <1>2, <1>3, <1>5 DEF EditEnter, Editing
<1>6. CASE EditDone(h)
  BY <1>3, <1>6 DEF EditDone, cpmVars
<1> QED BY <1>1, <1>4, <1>5, <1>6 DEF Edit

(* A handler that goes on without the lock keeps Safe.                     *)
LEMMA ProceedSafe ==
  ASSUME TypeOK, Safe, NEW h \in Handlers, Proceed(h) PROVE Safe'
<1>1. CASE Launch(h)
  <2> USE DEF Safe
  <2>1. PICK r \in Runs : exec[r] = "none"
                          /\ exec' = [exec EXCEPT ![h] = "none", ![r] = "running"]
    BY <1>1 DEF Launch, Spawn
  <2>2. /\ pc[h] = "launch" /\ pc' = [pc EXCEPT ![h] = "drain"]
        /\ UNCHANGED <<closed, state, lastError, registered, mu, drive>>
    BY <1>1 DEF Launch, Spawn, Goto
  <2>3. pc \in [Handlers -> Labels] /\ exec \in [Executors -> ExecPhases]
    BY DEF TypeOK
  <2>4. h \in Executors /\ r \in Executors /\ r \notin Handlers /\ h \notin Runs
    BY CoreAssumption DEF Executors
  <2>5. exec[h] = "admitted"
    BY <2>2 DEF TokenFollowsPc
  <2>6. \A e \in Executors : e # h => exec[e] = "none"
    BY <2>4, <2>5 DEF OneCommandAtATime, Active
  <2>7. \A e \in Executors : exec'[e] = IF e = r THEN "running" ELSE "none"
    BY <2>1, <2>3, <2>4, <2>6
  <2>8. TokenFollowsPc'
    <3>1. \A g \in Handlers : exec'[g] = "none" /\ pc'[g] \notin {"launch", "executing"}
      BY <2>2, <2>3, <2>4, <2>6, <2>7 DEF TokenFollowsPc, Executors
    <3>2. \A g \in Runs : exec'[g] # "admitted"
      BY <2>7 DEF Executors
    <3> QED BY <3>1, <3>2 DEF TokenFollowsPc
  <2>9. LockFollowsPc' /\ RemovedBeforeClose'
    BY <2>2, <2>3 DEF LockFollowsPc, RemovedBeforeClose
  <2>10. OneCommandAtATime'
    BY <2>7 DEF OneCommandAtATime, Active
  <2>11. RunningHasOwner'
    BY <2>2, <2>4, <2>5, <2>7 DEF RunningHasOwner, Active, Reported
  <2>12. ClosedAgrees' /\ ErrorExplained'
    BY <2>2 DEF ClosedAgrees, ErrorExplained
  <2> QED BY <2>8, <2>9, <2>10, <2>11, <2>12
<1>2. CASE QueueInput(h)
  <2>1. PICK label \in {"ready", "drain"} : Goto(h, label)
    BY <1>2 DEF QueueInput
  <2> QED BY <1>2, <2>1, QuietStep DEF QueueInput
<1>3. CASE Edit(h)
  BY <1>3, EditSafe
<1> QED BY <1>1, <1>2, <1>3 DEF Proceed

(* An executor that moves from one phase of its work to the next.          *)
LEMMA WorkSafe ==
  ASSUME TypeOK, Safe, NEW e \in Executors, NEW phase \in {"prompting", "finishing"},
         exec[e] \in {"running", "prompting"}, exec' = [exec EXCEPT ![e] = phase],
         UNCHANGED <<closed, state, lastError, registered, mu, pc, drive>>
  PROVE  Safe'
<1> USE DEF Safe
<1>1. exec \in [Executors -> ExecPhases] /\ Handlers \subseteq Executors /\ Runs \subseteq Executors
  BY DEF TypeOK, Executors
<1>2. \A f \in Executors : exec'[f] = IF f = e THEN phase ELSE exec[f]
  BY <1>1
<1>3. TokenFollowsPc'
  BY <1>1, <1>2 DEF TokenFollowsPc
<1>4. LockFollowsPc' /\ RemovedBeforeClose' /\ ClosedAgrees' /\ ErrorExplained'
  BY DEF LockFollowsPc, RemovedBeforeClose, ClosedAgrees, ErrorExplained
<1>5. OneCommandAtATime'
  BY <1>2 DEF OneCommandAtATime, Active
<1>6. RunningHasOwner'
  BY <1>2 DEF RunningHasOwner, Active, Reported
<1> QED BY <1>3, <1>4, <1>5, <1>6

(* The end of a command: whatever the outcome, no executor is left and the *)
(* session does not say running.                                           *)
LEMMA FinishSafe ==
  ASSUME TypeOK, Safe, NEW e \in Executors, Finish(e) PROVE Safe'
<1> USE DEF Safe
<1>1. /\ exec[e] = "finishing" /\ exec' = [exec EXCEPT ![e] = "none"]
      /\ UNCHANGED <<registered, mu, drive>>
  BY DEF Finish, Retire, cpmVars
<1>2. exec \in [Executors -> ExecPhases] /\ Handlers \subseteq Executors /\ Runs \subseteq Executors
  BY DEF TypeOK, Executors
<1>3. \A f \in Executors : ~Active(f)'
  BY <1>1, <1>2 DEF OneCommandAtATime, Active
<1>4. pc \in [Handlers -> Labels]
  BY DEF TypeOK
<1>5. pc' = IF e \in Handlers THEN [pc EXCEPT ![e] = "drain"] ELSE pc
  BY DEF Finish, Retire
<1>6. TokenFollowsPc'
  <2>1. \A f \in Executors : exec'[f] = "none"
    BY <1>3 DEF Active
  <2>2. \A h \in Handlers : h # e => exec[h] = "none"
    BY <1>1, <1>2 DEF OneCommandAtATime, Active
  <2>3. \A h \in Handlers : pc'[h] \notin {"launch", "executing"}
    BY <1>4, <1>5, <2>2 DEF TokenFollowsPc
  <2> QED BY <1>2, <2>1, <2>3 DEF TokenFollowsPc
<1>7. LockFollowsPc'
  BY <1>1, <1>4, <1>5 DEF LockFollowsPc, TokenFollowsPc
<1>8. CASE RecordOnClosed(e)
  <2>1. closed /\ closed' = closed /\ state' = "closed"
    BY <1>8 DEF RecordOnClosed
  <2>2. RemovedBeforeClose'
    BY <1>1, <1>4, <1>5, <2>1 DEF RemovedBeforeClose
  <2>3. OneCommandAtATime' /\ RunningHasOwner' /\ ClosedAgrees' /\ ErrorExplained'
    BY <1>3, <2>1 DEF OneCommandAtATime, RunningHasOwner, ClosedAgrees, ErrorExplained, Reported
  <2> QED BY <1>6, <1>7, <2>2, <2>3
<1>9. CASE RecordOnOpen(e)
  <2>1. /\ ~closed /\ closed' = (result[e] = "exit")
        /\ state' = CASE result[e] = "exit" -> "closed"
                      [] ErrorOf(result[e]) # "" -> "error"
                      [] OTHER -> "idle"
        /\ lastError' = ErrorOf(result[e])
    BY <1>9 DEF RecordOnOpen
  <2>2. RemovedBeforeClose'
    BY <1>1, <1>4, <1>5, <2>1 DEF RemovedBeforeClose
  <2>3. /\ state' # "running"
        /\ closed' <=> state' = "closed"
        /\ ~closed' => (state' = "error" <=> lastError' # "")
    <3>1. CASE result[e] = "exit"
      <4>1. ErrorOf(result[e]) = ""
        BY <3>1 DEF ErrorOf, Errors
      <4> QED BY <2>1, <3>1, <4>1
    <3>2. CASE result[e] # "exit" /\ ErrorOf(result[e]) # ""
      BY <2>1, <3>2
    <3>3. CASE result[e] # "exit" /\ ErrorOf(result[e]) = ""
      BY <2>1, <3>3
    <3> QED BY <3>1, <3>2, <3>3
  <2>4. OneCommandAtATime' /\ ClosedAgrees' /\ ErrorExplained'
    BY <1>3, <2>3 DEF OneCommandAtATime, ClosedAgrees, ErrorExplained
  <2>5. RunningHasOwner'
    BY <1>3, <2>3 DEF RunningHasOwner, Reported
  <2> QED BY <1>6, <1>7, <2>2, <2>4, <2>5
<1> QED BY <1>8, <1>9 DEF Finish

(* Every step of an executor keeps Safe.                                   *)
LEMMA ExecuteSafe ==
  ASSUME TypeOK, Safe, NEW e \in Executors, Execute(e) PROVE Safe'
<1>1. CASE ProgramReads(e)
  BY <1>1 DEF ProgramReads, coreVars, Safe, TokenFollowsPc, LockFollowsPc, RemovedBeforeClose,
     OneCommandAtATime, RunningHasOwner, ClosedAgrees, ErrorExplained, Active, Reported
<1>2. CASE ProgramEnds(e)
  <2>1. PICK phase \in {"prompting", "finishing"} : exec' = [exec EXCEPT ![e] = phase]
    BY <1>2 DEF ProgramEnds
  <2> QED BY <1>2, <2>1, WorkSafe DEF ProgramEnds, cpmVars
<1>3. CASE PromptAfter(e)
  BY <1>3, WorkSafe DEF PromptAfter, cpmVars
<1>4. CASE Finish(e)
  BY <1>4, FinishSafe
<1> QED BY <1>1, <1>2, <1>3, <1>4 DEF Execute

(* The session newManagedSession makes satisfies the invariant.            *)
LEMMA InitInv == Init => Inv
<1> SUFFICES ASSUME Init PROVE Inv
  OBVIOUS
<1>1. TypeOK
  BY InitType
<1> USE DEF Init, CoreInit
<1>2. TokenFollowsPc /\ RemovedBeforeClose
  BY DEF TokenFollowsPc, RemovedBeforeClose, Executors
<1>3. LockFollowsPc
  BY CoreAssumption DEF LockFollowsPc
<1>4. OneCommandAtATime /\ RunningHasOwner /\ ClosedAgrees /\ ErrorExplained
  BY DEF OneCommandAtATime, RunningHasOwner, ClosedAgrees, ErrorExplained, Active, Reported
<1> QED BY <1>1, <1>2, <1>3, <1>4 DEF Inv

(* Types and Safe together are kept by every step: Inv is inductive.       *)
LEMMA StepInv == Inv /\ [Next]_vars => Inv'
<1> SUFFICES ASSUME Inv, [Next]_vars PROVE Inv'
  OBVIOUS
<1>1. TypeOK /\ Safe /\ TypeOK'
  BY StepType DEF Inv, Safe
<1>2. Safe'
  <2>1. CASE \E h \in Handlers : Handle(h)
    BY <1>1, <2>1, ArriveSafe, ContendSafe, ProceedSafe DEF Handle
  <2>2. CASE \E e \in Executors : Execute(e)
    BY <1>1, <2>2, ExecuteSafe
  <2>3. CASE Sweep
    BY <1>1, <2>3, CloseSafe DEF Sweep
  <2>4. CASE UNCHANGED vars
    BY <1>1, <2>4 DEF vars, coreVars, cpmVars, Safe, TokenFollowsPc, LockFollowsPc, RemovedBeforeClose,
     OneCommandAtATime, RunningHasOwner, ClosedAgrees, ErrorExplained, Active, Reported
  <2> QED BY <2>1, <2>2, <2>3, <2>4 DEF Next
<1> QED BY <1>1, <1>2 DEF Inv, Safe

(* Inv is inductive, hence an invariant.                                   *)
THEOREM Invariance == SafetySpec => []Inv
BY InitInv, StepInv, PTL DEF SafetySpec

(* beginCommand and executeCommand admit one command at a time.            *)
THEOREM OneCommand == SafetySpec => []OneCommandAtATime
<1>1. Inv => OneCommandAtATime
  BY DEF Inv
<1> QED BY <1>1, Invariance, PTL

(* The state running always has a command behind it.                       *)
THEOREM RunningOwned == SafetySpec => []RunningHasOwner
<1>1. Inv => RunningHasOwner
  BY DEF Inv
<1> QED BY <1>1, Invariance, PTL

(* In an open session the error clients read is there exactly in the state *)
(* error, whatever commands, empty commands and prompts follow each other. *)
THEOREM ErrorsExplained == SafetySpec => []ErrorExplained
<1>1. Inv => ErrorExplained
  BY DEF Inv
<1> QED BY <1>1, Invariance, PTL

-----------------------------------------------------------------------------
(* Action properties.                                                      *)

(* No step leads out of closed.                                            *)
LEMMA ClosedStays ==
  ASSUME Inv, [Next]_vars, closed PROVE closed'
<1>1. ASSUME NEW h \in Handlers, Arrive(h) PROVE closed'
  BY <1>1 DEF Arrive, StartRequest, OutputRequest, InputRequest, DeleteRequest, Request, Unregister
<1>2. ASSUME NEW h \in Handlers, Contend(h) PROVE closed'
  BY <1>2 DEF Contend, BeginSync, BeginAsync, PromptOnly, Drain, RouteInput, LockEditor, Close,
     Admit, Refuse, CloseSession, CloseFields
<1>3. ASSUME NEW h \in Handlers, Proceed(h) PROVE closed'
  BY <1>3 DEF Proceed, Launch, Spawn, QueueInput, Edit, EditQuit, EditClear, EditErase, EditInsert,
     EditIgnore, EditEnter, EditDone, coreVars
<1>4. ASSUME NEW e \in Executors, Execute(e) PROVE closed'
  BY <1>4 DEF Execute, ProgramReads, ProgramEnds, PromptAfter, Finish, RecordOnClosed, RecordOnOpen,
     coreVars
<1>5. CASE Sweep
  BY <1>5 DEF Sweep, CloseSession, CloseFields
<1>6. CASE UNCHANGED vars
  BY <1>6 DEF vars, coreVars
<1> QED BY <1>1, <1>2, <1>3, <1>4, <1>5, <1>6 DEF Next, Handle

(* Nothing reopens a session, not even the command it was closed under.    *)
THEOREM NeverReopened == SafetySpec => ClosedIsFinal
<1>1. Inv /\ Inv' /\ [Next]_vars => [closed => closed' /\ state' = "closed"]_vars
  BY ClosedStays DEF Inv, ClosedAgrees
<1> QED BY <1>1, Invariance, PTL DEF SafetySpec, ClosedIsFinal

(* One step of DriveOutlivesUse.                                           *)
LEMMA DriveStays ==
  ASSUME [Next]_vars, drive = "removed" PROVE drive' = "removed"
<1>1. ASSUME NEW h \in Handlers, Arrive(h) PROVE drive' = "removed"
  BY <1>1 DEF Arrive, StartRequest, OutputRequest, InputRequest, DeleteRequest, cpmVars
<1>2. ASSUME NEW h \in Handlers, Contend(h) PROVE drive' = "removed"
  BY <1>2 DEF Contend, BeginSync, BeginAsync, PromptOnly, Drain, RouteInput, LockEditor, Close,
     CloseSession, cpmVars
<1>3. ASSUME NEW h \in Handlers, Proceed(h) PROVE drive' = "removed"
  BY <1>3 DEF Proceed, Launch, QueueInput, Edit, EditQuit, EditClear, EditErase, EditInsert,
     EditIgnore, EditEnter, EditDone, cpmVars
<1>4. ASSUME NEW e \in Executors, Execute(e) PROVE drive' = "removed"
  BY <1>4 DEF Execute, ProgramReads, ProgramEnds, PromptAfter, Finish, cpmVars
<1>5. CASE Sweep
  BY <1>5 DEF Sweep, CloseSession
<1>6. CASE UNCHANGED vars
  BY <1>6 DEF vars, cpmVars
<1> QED BY <1>1, <1>2, <1>3, <1>4, <1>5, <1>6 DEF Next, Handle

(* The drive is removed for good, and only from a closed session that no   *)
(* client can find any more.                                               *)
THEOREM DriveSafe == SafetySpec => DriveOutlivesUse
<1>1. [Next]_vars => [drive = "removed" => drive' = "removed"]_vars
  BY DriveStays
<1>2. Inv => (drive = "removed" => closed /\ ~registered)
  BY DEF Inv, RemovedBeforeClose
<1> QED BY <1>1, <1>2, Invariance, PTL DEF SafetySpec, DriveOutlivesUse

-----------------------------------------------------------------------------
(* CpmSession implements the safety part of SessionLifecycle.              *)

(* The new session is a new session of SessionLifecycle.                   *)
LEMMA InitRefines == Init => Lifecycle!Init
BY DEF Init, CoreInit, Lifecycle!Init, Reported, WorkOf, Over, Active

(* A step that leaves the mapped variables alone is a stutter.             *)
LEMMA Stutter ==
  ASSUME UNCHANGED <<closed, state, exec>> PROVE UNCHANGED Lifecycle!vars
BY DEF Lifecycle!vars, Reported, WorkOf, Over, Active

(* An admission is the abstract Begin.                                     *)
LEMMA AdmitRefines ==
  ASSUME Inv, Inv', NEW h \in Handlers, NEW label, NEW phase \in {"admitted", "running"},
         Admit(h, label, phase)
  PROVE  Lifecycle!Begin
<1>1. \A e \in Executors : ~Active(e)
  BY IdleWhenAdmissible DEF Admit, Inv, Safe
<1>2. Reported \in {"idle", "error"} /\ Reported' = "running"
  BY DEF Admit, Admissible, Reported, Inv, ClosedAgrees, TypeOK, CoreTypeOK, States
<1>3. WorkOf = "none"
  BY <1>1 DEF WorkOf, Over, Active
<1>4. \A e \in Executors : exec'[e] = IF e = h THEN phase ELSE "none"
  BY <1>1 DEF Admit, Inv, TypeOK, Active
<1>5. WorkOf' = "ongoing"
  BY <1>4 DEF WorkOf, Over, Active, Executors
<1> QED BY <1>2, <1>3, <1>5 DEF Lifecycle!Begin

(* close() is the Close of SessionLifecycle.                               *)
LEMMA CloseRefines ==
  ASSUME closed', UNCHANGED exec PROVE Lifecycle!Close \/ UNCHANGED Lifecycle!vars
<1>1. Reported' = "closed"
  BY DEF Reported
<1>2. WorkOf' = WorkOf
  BY DEF WorkOf, Over, Active
<1> QED BY <1>1, <1>2 DEF Lifecycle!Close, Lifecycle!vars

(* A step that needs the lock is a step of SessionLifecycle or a stutter.  *)
LEMMA ContendRefines ==
  ASSUME Inv, Inv', NEW h \in Handlers, Contend(h)
  PROVE  [Lifecycle!Next]_(Lifecycle!vars)
<1>1. CASE UNCHANGED <<closed, state, exec>>
  BY <1>1, Stutter
<1>2. CASE \E label : Admit(h, label, "running") \/ Admit(h, label, "admitted")
  BY <1>2, AdmitRefines DEF Lifecycle!Next
<1>3. CASE BeginSync(h)
  BY <1>1, <1>2, <1>3 DEF BeginSync, Refuse
<1>4. CASE BeginAsync(h)
  BY <1>1, <1>2, <1>4 DEF BeginAsync, Refuse
<1>5. CASE PromptOnly(h)
  <2>1. CASE Refuse(h)
    BY <1>1, <2>1 DEF Refuse
  <2>2. CASE ~Refuse(h)
    <3>1. Admissible /\ state' = "idle" /\ UNCHANGED <<closed, exec>>
      BY <1>5, <2>2 DEF PromptOnly
    <3>2. WorkOf = "none" /\ WorkOf' = "none"
      BY <3>1, IdleWhenAdmissible DEF Inv, Safe, WorkOf, Over, Active
    <3>3. Reported \in {"idle", "error"} /\ Reported' = "idle"
      BY <3>1 DEF Admissible, Reported, Inv, ClosedAgrees, TypeOK, CoreTypeOK, States
    <3> QED BY <3>2, <3>3 DEF Lifecycle!Next, Lifecycle!Recover, Lifecycle!vars
  <2> QED BY <2>1, <2>2
<1>6. CASE Drain(h) \/ RouteInput(h) \/ LockEditor(h)
  BY <1>1, <1>6 DEF Drain, RouteInput, LockEditor
<1>7. CASE Close(h)
  BY <1>7, CloseRefines DEF Close, CloseSession, CloseFields, Lifecycle!Next
<1> QED BY <1>3, <1>4, <1>5, <1>6, <1>7 DEF Contend

(* So is a step of a handler that needs no lock.                           *)
LEMMA ProceedRefines ==
  ASSUME Inv, Inv', NEW h \in Handlers, Proceed(h)
  PROVE  [Lifecycle!Next]_(Lifecycle!vars)
<1>1. CASE UNCHANGED <<closed, state, exec>>
  BY <1>1, Stutter
<1>2. CASE Launch(h)
  <2>1. PICK r \in Runs : exec[r] = "none"
                          /\ exec' = [exec EXCEPT ![h] = "none", ![r] = "running"]
    BY <1>2 DEF Launch, Spawn
  <2>2. exec[h] = "admitted" /\ exec \in [Executors -> ExecPhases]
    BY <1>2 DEF Launch, Spawn, Inv, TokenFollowsPc, TypeOK
  <2>3. h \in Executors /\ r \in Executors
    BY DEF Executors
  <2>4. \A e \in Executors : e # h => exec[e] = "none"
    BY <2>2, <2>3 DEF Inv, OneCommandAtATime, Active
  <2>5. WorkOf = "ongoing"
    BY <2>2, <2>3, <2>4 DEF WorkOf, Over, Active
  <2>6. \A e \in Executors : exec'[e] = IF e = r THEN "running" ELSE "none"
    BY <2>1, <2>2, <2>3, <2>4
  <2>7. WorkOf' = "ongoing"
    BY <2>3, <2>6 DEF WorkOf, Over, Active
  <2>8. Reported' = Reported
    BY <1>2 DEF Launch, Spawn, Reported
  <2> QED BY <2>5, <2>7, <2>8 DEF Lifecycle!vars
<1>3. CASE EditQuit(h)
  BY <1>3, CloseRefines DEF EditQuit, Lifecycle!Next
<1>4. CASE \/ QueueInput(h) \/ EditClear(h) \/ EditErase(h) \/ EditInsert(h)
           \/ EditIgnore(h) \/ EditEnter(h) \/ EditDone(h)
  BY <1>1, <1>4 DEF QueueInput, EditClear, EditErase, EditInsert, EditIgnore, EditEnter, EditDone,
     coreVars
<1> QED BY <1>2, <1>3, <1>4 DEF Proceed, Edit

(* So is a step of the goroutine that runs a command.                      *)
LEMMA ExecuteRefines ==
  ASSUME Inv, Inv', NEW e \in Executors, Execute(e)
  PROVE  [Lifecycle!Next]_(Lifecycle!vars)
<1>0. exec \in [Executors -> ExecPhases]
  BY DEF Inv, TypeOK
<1>1. CASE ProgramReads(e)
  BY <1>1, Stutter DEF ProgramReads, coreVars
<1>2. CASE ProgramEnds(e)
  <2>1. PICK phase \in {"prompting", "finishing"} : exec' = [exec EXCEPT ![e] = phase]
    BY <1>2 DEF ProgramEnds
  <2>2. exec[e] = "running" /\ Reported' = Reported
    BY <1>2 DEF ProgramEnds, Reported
  <2>3. \A f \in Executors : f # e => exec[f] = "none"
    BY <2>2 DEF Inv, OneCommandAtATime, Active
  <2>4. WorkOf = "ongoing"
    BY <2>2, <2>3 DEF WorkOf, Over, Active
  <2>5. WorkOf' = "over"
    BY <1>0, <2>1 DEF WorkOf, Over
  <2> QED BY <2>2, <2>4, <2>5 DEF Lifecycle!Next, Lifecycle!Stop
<1>3. CASE PromptAfter(e)
  <2>1. exec[e] = "prompting" /\ exec' = [exec EXCEPT ![e] = "finishing"] /\ Reported' = Reported
    BY <1>3 DEF PromptAfter, Reported
  <2>2. WorkOf = "over" /\ WorkOf' = "over"
    BY <1>0, <2>1 DEF WorkOf, Over
  <2> QED BY <2>1, <2>2 DEF Lifecycle!vars
<1>4. CASE Finish(e)
  <2>1. exec[e] = "finishing" /\ exec' = [exec EXCEPT ![e] = "none"]
    BY <1>4 DEF Finish, Retire
  <2>2. \A f \in Executors : exec'[f] = "none"
    BY <1>0, <2>1 DEF Inv, OneCommandAtATime, Active
  <2>3. WorkOf = "over" /\ WorkOf' = "none"
    BY <2>1, <2>2 DEF WorkOf, Over, Active
  <2>4. Reported \in {"running", "closed"}
    BY <2>1 DEF Inv, RunningHasOwner, Active
  <2>5. Reported = "closed" => Reported' = "closed"
    BY <1>4, <2>4 DEF Finish, RecordOnClosed, RecordOnOpen, Reported, Inv, ClosedAgrees
  <2>6. Reported' \in {"idle", "error", "closed"}
    <3>1. Reported' # "running"
      BY <2>2 DEF Inv, RunningHasOwner, Active
    <3>2. Reported' \in States
      BY DEF Inv, TypeOK, CoreTypeOK, Reported, States
    <3> QED BY <3>1, <3>2 DEF States
  <2> QED BY <2>3, <2>4, <2>5, <2>6 DEF Lifecycle!Next, Lifecycle!Record
<1> QED BY <1>1, <1>2, <1>3, <1>4 DEF Execute

(* Hence so is every step of the specification.                            *)
LEMMA StepRefines ==
  ASSUME Inv, Inv', [Next]_vars PROVE [Lifecycle!Next]_(Lifecycle!vars)
<1>1. ASSUME NEW h \in Handlers, Arrive(h) PROVE UNCHANGED <<closed, state, exec>>
  BY <1>1 DEF Arrive, StartRequest, OutputRequest, InputRequest, DeleteRequest, Request, Unregister
<1>2. CASE \E h \in Handlers : Handle(h)
  BY <1>1, <1>2, Stutter, ContendRefines, ProceedRefines DEF Handle
<1>3. CASE \E e \in Executors : Execute(e)
  BY <1>3, ExecuteRefines
<1>4. CASE Sweep
  BY <1>4, CloseRefines DEF Sweep, CloseSession, CloseFields, Lifecycle!Next
<1>5. CASE UNCHANGED vars
  BY <1>5, Stutter DEF vars, coreVars
<1> QED BY <1>2, <1>3, <1>4, <1>5 DEF Next

(* Every behaviour of the session is one of the abstract life cycle.       *)
THEOREM ImplementsLifecycle == SafetySpec => LifecycleSafety
<1>1. Init => Lifecycle!Init
  BY InitRefines
<1>2. Inv /\ Inv' /\ [Next]_vars => [Lifecycle!Next]_(Lifecycle!vars)
  BY StepRefines
<1> QED BY <1>1, <1>2, Invariance, PTL DEF SafetySpec, LifecycleSafety, Lifecycle!SafetySpec
=============================================================================
