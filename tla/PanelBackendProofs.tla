------------------------- MODULE PanelBackendProofs -------------------------
(***************************************************************************)
(* The 8008 and 8080 backends keep the contract of backend.go, for any     *)
(* number of runs and panels.                                              *)
(***************************************************************************)
EXTENDS PanelBackend, TLAPS

(* Why a run is never ended by an older request: a run that executes on a  *)
(* stopped panel, or is about to, was itself asked to end, since the panel *)
(* was made, or taken, after the run began.                                *)
AskedFirst(r) ==
  /\ phase[r] \in {"ready", "cleared", "timed"} =>
       panel # None /\ (panel \in halting => r \in asked)
  /\ phase[r] = "running" /\ on[r] \in halting => r \in asked
  /\ phase[r] = "halted" => r \in asked
  /\ phase[r] = "done" <=> outcome[r] # "none"
  /\ aim[r] <= made
  /\ timer[r] # "off" => aim[r] # None

(* A panel that was stopped was made before, so that a new one is not.     *)
Inv ==
  /\ TypeOK
  /\ halting \subseteq 1 .. made
  /\ \A r \in Runs : AskedFirst(r)

LEMMA InitInv == Init => Inv
<1> SUFFICES ASSUME Init PROVE Inv
  OBVIOUS
<1> USE PanelAssumption DEF Init, Runs, Panels, None
<1>1. loading \in 0 .. MaxLoads
  OBVIOUS
<1>1a. stopRequested \in BOOLEAN
  OBVIOUS
<1>2. panel = made /\ made \in 0 .. LastPanel
  OBVIOUS
<1>3. TypeOK
  BY <1>1, <1>1a, <1>2 DEF TypeOK
<1>4. QED
  BY <1>3 DEF Inv, AskedFirst

LEMMA StepInv == Inv /\ [Next]_vars => Inv'
<1> SUFFICES ASSUME Inv, [Next]_vars PROVE Inv'
  OBVIOUS
<1> USE PanelAssumption DEF Runs, Panels, None, vars, backend, control, runs
<1>1. CASE LoadROM
  <2> USE <1>1 DEF LoadROM
  <2>1. TypeOK'
    BY DEF Inv, TypeOK
  <2>2. halting' \subseteq 1 .. made'
    BY DEF Inv, TypeOK
  <2>3. ASSUME NEW s \in Runs PROVE AskedFirst(s)'
    BY DEF Inv, TypeOK, AskedFirst
  <2>4. QED
    BY <2>1, <2>2, <2>3 DEF Inv
<1>2. CASE LoadSetup
  <2> USE <1>2 DEF LoadSetup, Setup
  <2>1. TypeOK'
    <3>1. made' \in 0 .. LastPanel /\ panel' = made'
      BY DEF Inv, TypeOK
    <3>2. loading' \in 0 .. MaxLoads
      BY DEF Inv, TypeOK
    <3>3. stopRequested' \in BOOLEAN
      BY DEF Inv, TypeOK
    <3>4. QED
      BY <3>1, <3>2, <3>3 DEF Inv, TypeOK
  <2>2. halting' \subseteq 1 .. made'
    BY DEF Inv, TypeOK
  <2>3. ASSUME NEW s \in Runs PROVE AskedFirst(s)'
    BY DEF Inv, TypeOK, AskedFirst
  <2>4. QED
    BY <2>1, <2>2, <2>3 DEF Inv
<1>3. CASE Stop
  <2> USE <1>3 DEF Stop
  <2>1. TypeOK'
    BY DEF Inv, TypeOK
  <2>2. halting' \subseteq 1 .. made'
    BY DEF Inv, TypeOK
  <2>3. ASSUME NEW s \in Runs PROVE AskedFirst(s)'
    BY DEF Inv, TypeOK, AskedFirst
  <2>4. QED
    BY <2>1, <2>2, <2>3 DEF Inv
<1>4. CASE StopCurrent
  <2> USE <1>4 DEF StopCurrent, StopPanel, Active
  <2>0. panel # None => panel \in Panels /\ panel \in 1 .. made
    BY DEF Inv, TypeOK
  <2>1. TypeOK'
    BY <2>0 DEF Inv, TypeOK
  <2>2. halting' \subseteq 1 .. made'
    BY <2>0 DEF Inv, TypeOK
  <2>3. ASSUME NEW s \in Runs PROVE AskedFirst(s)'
    BY DEF Inv, TypeOK, AskedFirst
  <2>4. QED
    BY <2>1, <2>2, <2>3 DEF Inv
<1>5. ASSUME NEW r \in Runs, Admit(r) \/ FindProgram(r) PROVE Inv'
  <2> USE <1>5 DEF Admit, FindProgram, Advance
  <2>1. TypeOK'
    BY DEF Inv, TypeOK
  <2>2. halting' \subseteq 1 .. made'
    BY DEF Inv, TypeOK
  <2>3. ASSUME NEW s \in Runs PROVE AskedFirst(s)'
    BY DEF Inv, TypeOK, AskedFirst
  <2>4. QED
    BY <2>1, <2>2, <2>3 DEF Inv
<1>6. ASSUME NEW r \in Runs, NoProgram(r) \/ BadProgram(r) \/ JamFails(r) PROVE Inv'
  <2>1. PICK from \in {"admitted", "checked", "cleared"} : Return(r, from, "error")
    BY <1>6 DEF NoProgram, BadProgram, JamFails
  <2> USE <2>1 DEF Return, Advance
  <2>2. TypeOK'
    BY DEF Inv, TypeOK
  <2>3. halting' \subseteq 1 .. made'
    BY DEF Inv, TypeOK
  <2>4. ASSUME NEW s \in Runs PROVE AskedFirst(s)'
    BY DEF Inv, TypeOK, AskedFirst
  <2>5. QED
    BY <2>2, <2>3, <2>4 DEF Inv
<1>7. ASSUME NEW r \in Runs, NewPanel(r) PROVE Inv'
  <2> USE <1>7 DEF NewPanel, Setup, Advance
  <2>1. TypeOK'
    BY DEF Inv, TypeOK
  <2>2. halting' \subseteq 1 .. made'
    BY DEF Inv, TypeOK
  <2>3. ASSUME NEW s \in Runs PROVE AskedFirst(s)'
    BY DEF Inv, TypeOK, AskedFirst
  <2>4. QED
    BY <2>1, <2>2, <2>3 DEF Inv
<1>8. ASSUME NEW r \in Runs, ClearRequest(r) PROVE Inv'
  <2> USE <1>8 DEF ClearRequest, Advance
  <2>1. TypeOK'
    BY DEF Inv, TypeOK
  <2>2. halting' \subseteq 1 .. made'
    BY DEF Inv, TypeOK
  <2>3. ASSUME NEW s \in Runs PROVE AskedFirst(s)'
    BY DEF Inv, TypeOK, AskedFirst
  <2>4. QED
    BY <2>1, <2>2, <2>3 DEF Inv
<1>9. ASSUME NEW r \in Runs, StartTimer(r) PROVE Inv'
  <2> USE <1>9 DEF StartTimer, Advance
  <2>1. TypeOK'
    BY DEF Inv, TypeOK
  <2>2. halting' \subseteq 1 .. made'
    BY DEF Inv, TypeOK
  <2>3. ASSUME NEW s \in Runs PROVE AskedFirst(s)'
    BY DEF Inv, TypeOK, AskedFirst
  <2>4. QED
    BY <2>1, <2>2, <2>3 DEF Inv
<1>10. ASSUME NEW r \in Runs, Execute(r) PROVE Inv'
  <2> USE <1>10 DEF Execute, Advance
  <2>1. TypeOK'
    BY DEF Inv, TypeOK
  <2>2. halting' \subseteq 1 .. made'
    BY DEF Inv, TypeOK
  <2>3. ASSUME NEW s \in Runs PROVE AskedFirst(s)'
    BY DEF Inv, TypeOK, AskedFirst
  <2>4. QED
    BY <2>1, <2>2, <2>3 DEF Inv
<1>11. ASSUME NEW r \in Runs, EndItself(r) PROVE Inv'
  <2> USE <1>11 DEF EndItself, Return, Advance
  <2>1. TypeOK'
    BY DEF Inv, TypeOK
  <2>2. halting' \subseteq 1 .. made'
    BY DEF Inv, TypeOK
  <2>3. ASSUME NEW s \in Runs PROVE AskedFirst(s)'
    BY DEF Inv, TypeOK, AskedFirst
  <2>4. QED
    BY <2>1, <2>2, <2>3 DEF Inv
<1>12. ASSUME NEW r \in Runs, Halt(r) PROVE Inv'
  <2> USE <1>12 DEF Halt, Advance
  <2>1. TypeOK'
    BY DEF Inv, TypeOK
  <2>2. halting' \subseteq 1 .. made'
    BY DEF Inv, TypeOK
  <2>3. ASSUME NEW s \in Runs PROVE AskedFirst(s)'
    BY DEF Inv, TypeOK, AskedFirst
  <2>4. QED
    BY <2>1, <2>2, <2>3 DEF Inv
<1>13. ASSUME NEW r \in Runs, ReadRequest(r) PROVE Inv'
  <2> USE <1>13 DEF ReadRequest, Return, Advance
  <2>1. TypeOK'
    BY DEF Inv, TypeOK
  <2>2. halting' \subseteq 1 .. made'
    BY DEF Inv, TypeOK
  <2>3. ASSUME NEW s \in Runs PROVE AskedFirst(s)'
    BY DEF Inv, TypeOK, AskedFirst
  <2>4. QED
    BY <2>1, <2>2, <2>3 DEF Inv
<1>14. ASSUME NEW r \in Runs, TimerFires(r) PROVE Inv'
  <2> USE <1>14 DEF TimerFires, StopPanel, Active
  <2>0. aim[r] \in Panels /\ aim[r] \in 1 .. made
    BY DEF Inv, TypeOK, AskedFirst
  <2>1. TypeOK'
    BY <2>0 DEF Inv, TypeOK
  <2>2. halting' \subseteq 1 .. made'
    BY <2>0 DEF Inv, TypeOK
  <2>3. ASSUME NEW s \in Runs PROVE AskedFirst(s)'
    BY DEF Inv, TypeOK, AskedFirst
  <2>4. QED
    BY <2>1, <2>2, <2>3 DEF Inv
<1>15. CASE UNCHANGED vars
  BY <1>15 DEF Inv, TypeOK, AskedFirst
<1>16. QED
  BY <1>1, <1>2, <1>3, <1>4, <1>5, <1>6, <1>7, <1>8, <1>9, <1>10, <1>11,
     <1>12, <1>13, <1>14, <1>15 DEF Next, Run

-----------------------------------------------------------------------------
(* The invariant holds in every reachable state.                           *)
THEOREM Invariance == Spec => []Inv
<1>1. QED
  BY InitInv, StepInv, PTL DEF Spec

(* Every run and every panel is what its type says.                        *)
THEOREM TypeCorrect == Spec => []TypeOK
<1>1. Inv => TypeOK
  BY DEF Inv
<1>2. QED
  BY <1>1, Invariance, PTL

(* A step that ends no run and begins none leaves every status alone.      *)
LEMMA SameStatus ==
  ASSUME phase' = phase, outcome' = outcome
  PROVE  UNCHANGED [r \in Runs |-> Status(r)]
BY DEF Status

(* A step of run r changes no other status.                                *)
LEMMA OneStatus ==
  ASSUME NEW r \in Runs, NEW to,
         \A s \in Runs \ {r} : phase'[s] = phase[s] /\ outcome'[s] = outcome[s],
         Status(r)' = to
  PROVE  [s \in Runs |-> Status(s)]' = [[s \in Runs |-> Status(s)] EXCEPT ![r] = to]
<1>1. \A s \in Runs \ {r} : Status(s)' = Status(s)
  BY DEF Status
<1>2. QED
  BY <1>1

LEMMA InitContract == Init => Contract!Init
BY DEF Init, Contract!Init, Status

LEMMA StepContract == Inv /\ [Next]_vars => [Contract!Next]_(Contract!vars)
<1> SUFFICES ASSUME Inv, [Next]_vars PROVE [Contract!Next]_(Contract!vars)
  OBVIOUS
<1> USE DEF Contract!vars, vars, backend, control, runs
<1>1. ASSUME NEW p, StopPanel(p), phase' = phase, outcome' = outcome
      PROVE  Contract!Request
  <2>1. \A r \in Runs : Active(r) <=> Status(r) = "going"
    BY <1>1 DEF Active, Status, Inv, TypeOK, AskedFirst
  <2>2. asked' = asked \cup {r \in Runs : [s \in Runs |-> Status(s)][r] = "going"}
    BY <1>1, <2>1 DEF StopPanel
  <2>3. QED
    BY <1>1, <2>2, SameStatus DEF Contract!Request
<1>2. ASSUME phase' = phase, outcome' = outcome, asked' = asked
      PROVE  [Contract!Next]_(Contract!vars)
  BY <1>2, SameStatus
<1>3. CASE LoadROM \/ LoadSetup \/ Stop \/ UNCHANGED vars
  BY <1>3, <1>2 DEF LoadROM, LoadSetup, Stop
<1>4. CASE StopCurrent
  BY <1>4, <1>1, <1>2 DEF StopCurrent, Contract!Next
<1>5. ASSUME NEW r \in Runs, TimerFires(r)
      PROVE  [Contract!Next]_(Contract!vars)
  BY <1>5, <1>1 DEF TimerFires, Contract!Next
<1>6. ASSUME NEW r \in Runs, Admit(r)
      PROVE  [Contract!Next]_(Contract!vars)
  <2> USE <1>6 DEF Admit, Advance, Inv, TypeOK, AskedFirst
  <2>1. Status(r) = "waiting" /\ Status(r)' = "going"
    BY DEF Status
  <2>2. [s \in Runs |-> Status(s)]' = [[s \in Runs |-> Status(s)] EXCEPT ![r] = "going"]
    BY <2>1, OneStatus
  <2>3. QED
    BY <2>1, <2>2 DEF Contract!Next, Contract!Begin, Contract!Move
<1>7. ASSUME NEW r \in Runs, NoProgram(r) \/ BadProgram(r) \/ JamFails(r) \/ EndItself(r)
      PROVE  [Contract!Next]_(Contract!vars)
  <2> USE <1>7 DEF NoProgram, BadProgram, JamFails, EndItself, Return, Advance,
                   Inv, TypeOK, AskedFirst
  <2>1. Status(r) = "going" /\ Status(r)' = "ended"
    BY DEF Status
  <2>2. [s \in Runs |-> Status(s)]' = [[s \in Runs |-> Status(s)] EXCEPT ![r] = "ended"]
    BY <2>1, OneStatus
  <2>3. QED
    BY <2>1, <2>2 DEF Contract!Next, Contract!End, Contract!Move
<1>8. ASSUME NEW r \in Runs, ReadRequest(r)
      PROVE  [Contract!Next]_(Contract!vars)
  <2> USE <1>8 DEF ReadRequest, Return, Advance, Inv, TypeOK, AskedFirst
  <2>1. Status(r) = "going" /\ Status(r)' = "stopped" /\ r \in asked
    BY DEF Status
  <2>2. [s \in Runs |-> Status(s)]' = [[s \in Runs |-> Status(s)] EXCEPT ![r] = "stopped"]
    BY <2>1, OneStatus
  <2>3. QED
    BY <2>1, <2>2 DEF Contract!Next, Contract!StopRun, Contract!Move
<1>9. ASSUME NEW r \in Runs,
             \/ FindProgram(r) \/ NewPanel(r) \/ ClearRequest(r)
             \/ StartTimer(r) \/ Execute(r) \/ Halt(r)
      PROVE  [Contract!Next]_(Contract!vars)
  <2>1. \A s \in Runs : Status(s)' = Status(s)
    BY <1>9 DEF FindProgram, NewPanel, ClearRequest, StartTimer, Execute, Halt, Advance,
                Status, Inv, TypeOK, AskedFirst
  <2>2. asked' = asked
    BY <1>9 DEF FindProgram, NewPanel, ClearRequest, StartTimer, Execute, Halt
  <2>3. QED
    BY <2>1, <2>2
<1>10. QED
  BY <1>3, <1>4, <1>5, <1>6, <1>7, <1>8, <1>9 DEF Next, Run

(* The contract of backend.go, for any number of runs and panels: a run    *)
(* ends by itself or because its end was asked for while it went on.       *)
THEOREM ContractKept == Spec => ContractSpec
<1>1. QED
  BY InitContract, StepContract, Invariance, PTL DEF Spec, ContractSpec, Contract!Spec

-----------------------------------------------------------------------------
(* Who stopped a panel: a timer that fired, or a Stop of the session.      *)
Cause(p) ==
  \/ \E s \in Runs : timer[s] = "fired" /\ aim[s] = p
  \/ stopping # "no"

(* Every stopped panel has a cause, and so has every run that was stopped. *)
InvCause ==
  /\ \A p \in halting : Cause(p)
  /\ \A r \in Runs :
       /\ phase[r] \in {"none", "admitted", "checked", "ready", "cleared"} =>
            timer[r] = "off"
       /\ phase[r] = "halted" \/ outcome[r] = "timedOut" => Cause(on[r])

(* A cause stays: a timer that fired is never set again.                   *)
LEMMA CauseStays == Inv /\ InvCause /\ [Next]_vars => \A p : Cause(p) => Cause(p)'
<1> SUFFICES ASSUME Inv, InvCause, [Next]_vars, NEW p, Cause(p) PROVE Cause(p)'
  OBVIOUS
<1> USE DEF vars, backend, control, runs, Inv, TypeOK, InvCause, Cause
<1>1. CASE LoadROM \/ LoadSetup \/ Stop \/ StopCurrent \/ UNCHANGED vars
  BY <1>1 DEF LoadROM, LoadSetup, Stop, StopCurrent
<1>2. ASSUME NEW r \in Runs, Run(r) \/ TimerFires(r) PROVE Cause(p)'
  <2>1. stopping' = stopping
    BY <1>2 DEF Run, TimerFires, Admit, NoProgram, FindProgram, BadProgram, JamFails,
                NewPanel, ClearRequest, StartTimer, Execute, EndItself, Halt,
                ReadRequest, Return
  <2>2. \A s \in Runs : timer[s] = "fired" => timer'[s] = "fired" /\ aim'[s] = aim[s]
    BY <1>2 DEF Run, TimerFires, Admit, NoProgram, FindProgram, BadProgram, JamFails,
                NewPanel, ClearRequest, StartTimer, Execute, EndItself, Halt,
                ReadRequest, Return, Advance
  <2>3. QED
    BY <2>1, <2>2
<1>3. QED
  BY <1>1, <1>2 DEF Next

LEMMA StepCause == Inv /\ InvCause /\ [Next]_vars => InvCause'
<1> SUFFICES ASSUME Inv, InvCause, [Next]_vars PROVE InvCause'
  OBVIOUS
<1>1. \A p : Cause(p) => Cause(p)'
  BY CauseStays
<1> USE DEF vars, backend, control, runs
<1>2. \A p \in halting' : Cause(p)'
  <2>1. \A p \in halting' \ halting : Cause(p)'
    <3>1. CASE StopCurrent
      BY <3>1 DEF StopCurrent, Cause
    <3>2. ASSUME NEW r \in Runs, TimerFires(r)
          PROVE  \A p \in halting' \ halting : Cause(p)'
      BY <3>2 DEF TimerFires, StopPanel, Cause, Inv, TypeOK
    <3>3. ASSUME ~StopCurrent, \A r \in Runs : ~TimerFires(r)
          PROVE  halting' \subseteq halting
      BY <3>3 DEF Next, Run, LoadROM, LoadSetup, Stop, Admit, NoProgram, FindProgram,
                  BadProgram, JamFails, NewPanel, ClearRequest, StartTimer, Execute, EndItself, Halt,
                ReadRequest, Return
    <3>4. QED
      BY <3>1, <3>2, <3>3
  <2>2. QED
    BY <1>1, <2>1 DEF InvCause
<1>3. ASSUME NEW s \in Runs
      PROVE  /\ phase'[s] \in {"none", "admitted", "checked", "ready", "cleared"} =>
                    timer'[s] = "off"
             /\ phase'[s] = "halted" \/ outcome'[s] = "timedOut" => Cause(on[s])'
  <2>1. Cause(on[s]) /\ on'[s] = on[s] => Cause(on[s])'
    <3>1. ASSUME NEW p, p = on[s], Cause(p), on'[s] = on[s] PROVE Cause(on[s])'
      <4>1. Cause(p)'
        BY <1>1, <3>1
      <4>2. QED
        BY <3>1, <4>1 DEF Cause
    <3>2. QED
      BY <3>1
  <2> USE DEF Inv, TypeOK, InvCause, AskedFirst
  <2>2. CASE LoadROM \/ LoadSetup \/ Stop \/ StopCurrent \/ UNCHANGED vars
    BY <1>1, <2>2 DEF LoadROM, LoadSetup, Stop, StopCurrent, Cause
  <2>3. ASSUME NEW r \in Runs, Run(r) \/ TimerFires(r)
        PROVE  /\ phase'[s] \in {"none", "admitted", "checked", "ready", "cleared"} =>
                    timer'[s] = "off"
               /\ \/ phase'[s] # "halted" /\ outcome'[s] # "timedOut"
                  \/ Cause(on[s]) /\ on'[s] = on[s]
    BY <2>3 DEF Run, TimerFires, Admit, NoProgram, FindProgram, BadProgram, JamFails,
                NewPanel, ClearRequest, StartTimer, Execute, EndItself, Halt,
                ReadRequest, Return, Advance
  <2>4. QED
    BY <2>1, <2>2, <2>3 DEF Next
<1>4. QED
  BY <1>2, <1>3 DEF InvCause

(* A run reports a timeout only if a timer stopped its panel, or the       *)
(* session is being closed: for any number of runs and panels.             *)
THEOREM TimeoutExplainedAlways == Spec => []TimeoutExplained
<1>1. Init => InvCause
  BY DEF Init, InvCause
<1>2. InvCause => TimeoutExplained
  BY DEF InvCause, TimeoutExplained, Cause
<1>3. QED
  BY <1>1, <1>2, StepCause, Invariance, PTL DEF Spec
=============================================================================
