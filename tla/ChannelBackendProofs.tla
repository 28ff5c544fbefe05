----------------------- MODULE ChannelBackendProofs -------------------------
(***************************************************************************)
(* The 4004 and 6502 backends keep the contract of backend.go, for any     *)
(* number of runs, also of runs that overlap, with and without a keyboard. *)
(***************************************************************************)
EXTENDS ChannelBackend, TLAPS

(* A run that no other run met is the only active one.                     *)
Alone(r) == Active(r) /\ r \notin overlapped => \A s \in Runs : Active(s) => s = r

(* Nobody has the channel of a run before it has made it.  Afterwards the  *)
(* field holds a channel, its own or that of a later MakeChannel, which was*)
(* closed only by a request that came during the run; and its own, if it   *)
(* met no other run.                                                       *)
OwnChannel(r) ==
  /\ phase[r] \in {"none", "admitted", "once"} => stopCh # r /\ r \notin shut
  /\ phase[r] \in {"channel", "flag", "loop", "waiting"} /\ stopCh \in shut => r \in asked
  /\ phase[r] = "told" => r \in asked
  /\ phase[r] \in {"channel", "flag", "loop", "waiting", "told"} /\ r \notin overlapped =>
       stopCh = r /\ (phase[r] = "waiting" => waitOn[r] = r)

Inv ==
  /\ TypeOK
  /\ \A r \in Runs : Alone(r) /\ OwnChannel(r)

LEMMA InitInv == Init => Inv
<1> SUFFICES ASSUME Init PROVE Inv
  OBVIOUS
<1>1. spent \in BOOLEAN /\ timedOut \in BOOLEAN /\ panicked \in BOOLEAN
  BY Zenon DEF Init
<1>2. TypeOK
  BY <1>1, BackendAssumption DEF Init, TypeOK, Runs, Channels, Phases
<1>3. QED
  BY <1>2, BackendAssumption DEF Init, Inv, Alone, OwnChannel, Active, Runs

(* What requestStop does for the invariant: the channel it closes is that  *)
(* of a run that is going on, or of none that will still use it.           *)
LEMMA Requested ==
  ASSUME Inv, NEW fatal \in SUBSET BOOLEAN, RequestStop(fatal), UNCHANGED <<phase, waitOn>>
  PROVE  /\ spent' \in BOOLEAN /\ timedOut' \in BOOLEAN /\ panicked' \in BOOLEAN
         /\ stopCh' = stopCh /\ shut' \subseteq Channels /\ asked' \subseteq Runs
         /\ overlapped' = overlapped
         /\ \A s \in Runs : OwnChannel(s)'
<1> USE BackendAssumption DEF Runs, Channels
<1>1. stopCh' = stopCh /\ timedOut' = timedOut /\ overlapped' = overlapped
  BY DEF RequestStop
<1>2. asked' = asked \cup {s \in Runs : Active(s)}
  BY DEF RequestStop
<1>3. shut' = shut \/ shut' = shut \cup {stopCh}
  BY Zenon DEF RequestStop
<1>4. spent' \in BOOLEAN /\ panicked' \in BOOLEAN
  <2>1. CASE spent
    BY <2>1, Zenon DEF RequestStop, Inv, TypeOK
  <2>2. CASE ~spent
    <3>1. spent' = TRUE /\ panicked' \in (IF stopCh \in shut THEN fatal ELSE {FALSE})
      BY <2>2, Zenon DEF RequestStop
    <3>2. QED
      BY <3>1, Zenon
  <2>3. QED
    BY <2>1, <2>2
<1>5. shut' \subseteq Channels /\ asked' \subseteq Runs
  BY <1>2, <1>3 DEF Inv, TypeOK
<1>6. ASSUME NEW s \in Runs PROVE OwnChannel(s)'
  BY <1>1, <1>2, <1>3 DEF Inv, TypeOK, OwnChannel, Active
<1>7. QED
  BY <1>1, <1>4, <1>5, <1>6, Zenon DEF Inv, TypeOK

LEMMA StepInv == Inv /\ [Next]_vars => Inv'
<1> SUFFICES ASSUME Inv, [Next]_vars PROVE Inv'
  OBVIOUS
<1> USE BackendAssumption DEF Runs, Channels, Phases, vars, shared, history
<1>1. ASSUME NEW r \in Runs, Admit(r) PROVE Inv'
  <2> USE <1>1 DEF Admit, Advance
  <2>1. TypeOK'
    <3>1. overlapped' \subseteq overlapped \cup {s \in Runs : Active(s)} \cup {r}
      OBVIOUS
    <3>2. overlapped' \subseteq Runs
      BY <3>1 DEF Inv, TypeOK
    <3>3. phase' = [phase EXCEPT ![r] = "admitted"] /\ phase[r] = "none"
      OBVIOUS
    <3>4. UNCHANGED <<spent, stopCh, shut, timedOut, panicked, waitOn, outcome, timer, stopping, asked>>
      OBVIOUS
    <3> HIDE <1>1 DEF Admit, Advance
    <3>5. spent' \in BOOLEAN /\ timedOut' \in BOOLEAN /\ panicked' \in BOOLEAN
      BY <3>4, Zenon DEF Inv, TypeOK
    <3> QED BY <3>2, <3>3, <3>4, <3>5 DEF Inv, TypeOK
  <2>2. ASSUME NEW s \in Runs PROVE Alone(s)'
    BY DEF Inv, TypeOK, Alone, Active
  <2>3. ASSUME NEW s \in Runs PROVE OwnChannel(s)'
    BY DEF Inv, TypeOK, Alone, OwnChannel, Active
  <2>4. QED
    BY <2>1, <2>2, <2>3 DEF Inv
<1>2. ASSUME NEW r \in Runs, ResetOnce(r) PROVE Inv'
  <2> USE <1>2 DEF ResetOnce, Advance
  <2>1. spent' \in BOOLEAN /\ timedOut' \in BOOLEAN /\ panicked' \in BOOLEAN
    BY Zenon DEF Inv, TypeOK
  <2>2. TypeOK'
    BY <2>1 DEF Inv, TypeOK, Alone, OwnChannel, Active
  <2>3. ASSUME NEW s \in Runs PROVE Alone(s)'
    BY DEF Inv, TypeOK, Alone, Active
  <2>4. ASSUME NEW s \in Runs PROVE OwnChannel(s)'
    BY DEF Inv, TypeOK, Alone, OwnChannel, Active
  <2>5. QED
    BY <2>2, <2>3, <2>4 DEF Inv
<1>3. ASSUME NEW r \in Runs, MakeChannel(r) PROVE Inv'
  <2> USE <1>3 DEF MakeChannel, Advance
  <2>1. spent' \in BOOLEAN /\ timedOut' \in BOOLEAN /\ panicked' \in BOOLEAN
    BY Zenon DEF Inv, TypeOK
  <2>2. TypeOK'
    BY <2>1 DEF Inv, TypeOK, Alone, OwnChannel, Active
  <2>3. ASSUME NEW s \in Runs PROVE Alone(s)'
    BY DEF Inv, TypeOK, Alone, Active
  <2>4. ASSUME NEW s \in Runs PROVE OwnChannel(s)'
    <3>1. stopCh' = r /\ r \notin shut' /\ phase' = [phase EXCEPT ![r] = "channel"]
      BY DEF Inv, OwnChannel
    <3>2. CASE s = r
      BY <3>1, <3>2 DEF Inv, TypeOK, OwnChannel
    <3>3. CASE s # r
      <4>1. phase[s] \in {"channel", "flag", "loop", "waiting", "told"} => s \in overlapped
        BY <3>3 DEF Inv, Alone, Active
      <4>2. phase'[s] = phase[s] /\ UNCHANGED <<shut, asked, overlapped>>
        BY <3>1, <3>3 DEF Inv, TypeOK
      <4>3. OwnChannel(s)
        BY DEF Inv
      <4> HIDE <1>3 DEF MakeChannel, Advance
      <4> QED BY <3>1, <3>3, <4>1, <4>2, <4>3 DEF OwnChannel
    <3> QED BY <3>2, <3>3
  <2>5. QED
    BY <2>2, <2>3, <2>4 DEF Inv
<1>4. ASSUME NEW r \in Runs, ClearFlag(r) PROVE Inv'
  <2> USE <1>4 DEF ClearFlag, Advance
  <2>1. spent' \in BOOLEAN /\ timedOut' \in BOOLEAN /\ panicked' \in BOOLEAN
    BY Zenon DEF Inv, TypeOK
  <2>2. TypeOK'
    BY <2>1 DEF Inv, TypeOK, Alone, OwnChannel, Active
  <2>3. ASSUME NEW s \in Runs PROVE Alone(s)'
    BY DEF Inv, TypeOK, Alone, Active
  <2>4. ASSUME NEW s \in Runs PROVE OwnChannel(s)'
    BY DEF Inv, TypeOK, Alone, OwnChannel, Active
  <2>5. QED
    BY <2>2, <2>3, <2>4 DEF Inv
<1>5. ASSUME NEW r \in Runs, StartTimer(r) PROVE Inv'
  <2> USE <1>5 DEF StartTimer, Advance
  <2>1. TypeOK'
    BY DEF Inv, TypeOK, Alone, OwnChannel, Active
  <2>2. ASSUME NEW s \in Runs PROVE Alone(s)'
    BY DEF Inv, TypeOK, Alone, Active
  <2>3. ASSUME NEW s \in Runs PROVE OwnChannel(s)'
    BY DEF Inv, TypeOK, Alone, OwnChannel, Active
  <2>4. QED
    BY <2>1, <2>2, <2>3 DEF Inv
<1>6. ASSUME NEW r \in Runs, NoProgram(r) \/ EndItself(r) PROVE Inv'
  <2>1. /\ Return(r, "itself")
        /\ phase[r] \in {"admitted", "loop"}
    BY <1>6 DEF NoProgram, EndItself
  <2> USE <2>1 DEF Return
  <2>2. TypeOK'
    BY DEF Inv, TypeOK, Alone, OwnChannel, Active
  <2>3. ASSUME NEW s \in Runs PROVE Alone(s)'
    BY DEF Inv, TypeOK, Alone, Active
  <2>4. ASSUME NEW s \in Runs PROVE OwnChannel(s)'
    BY DEF Inv, TypeOK, Alone, OwnChannel, Active
  <2>5. QED
    BY <2>2, <2>3, <2>4 DEF Inv
<1>7. ASSUME NEW r \in Runs, PollStop(r) PROVE Inv'
  <2> USE <1>7 DEF PollStop, Advance
  <2>1. TypeOK'
    BY DEF Inv, TypeOK, Alone, OwnChannel, Active
  <2>2. ASSUME NEW s \in Runs PROVE Alone(s)'
    BY DEF Inv, TypeOK, Alone, Active
  <2>3. ASSUME NEW s \in Runs PROVE OwnChannel(s)'
    BY DEF Inv, TypeOK, Alone, OwnChannel, Active
  <2>4. QED
    BY <2>1, <2>2, <2>3 DEF Inv
<1>18. ASSUME NEW r \in Runs, EndStopped(r) PROVE Inv'
  <2> USE <1>18 DEF EndStopped, Return
  <2>1. TypeOK'
    BY DEF Inv, TypeOK, Alone, OwnChannel, Active
  <2>2. ASSUME NEW s \in Runs PROVE Alone(s)'
    BY DEF Inv, TypeOK, Alone, Active
  <2>3. ASSUME NEW s \in Runs PROVE OwnChannel(s)'
    BY DEF Inv, TypeOK, Alone, OwnChannel, Active
  <2>4. QED
    BY <2>1, <2>2, <2>3 DEF Inv
<1>8. ASSUME NEW r \in Runs, ReadKeyboard(r) PROVE Inv'
  <2> USE <1>8 DEF ReadKeyboard, Advance
  <2>1. TypeOK'
    BY DEF Inv, TypeOK, Alone, OwnChannel, Active
  <2>2. ASSUME NEW s \in Runs PROVE Alone(s)'
    BY DEF Inv, TypeOK, Alone, Active
  <2>3. ASSUME NEW s \in Runs PROVE OwnChannel(s)'
    BY DEF Inv, TypeOK, Alone, OwnChannel, Active
  <2>4. QED
    BY <2>1, <2>2, <2>3 DEF Inv
<1>9. ASSUME NEW r \in Runs, KeyArrives(r) PROVE Inv'
  <2> USE <1>9 DEF KeyArrives, Advance
  <2>1. TypeOK'
    BY DEF Inv, TypeOK, Alone, OwnChannel, Active
  <2>2. ASSUME NEW s \in Runs PROVE Alone(s)'
    BY DEF Inv, TypeOK, Alone, Active
  <2>3. ASSUME NEW s \in Runs PROVE OwnChannel(s)'
    BY DEF Inv, TypeOK, Alone, OwnChannel, Active
  <2>4. QED
    BY <2>1, <2>2, <2>3 DEF Inv
<1>10. ASSUME NEW r \in Runs, WakeOnStop(r) PROVE Inv'
  <2> USE <1>10 DEF WakeOnStop, Advance
  <2>1. TypeOK'
    BY DEF Inv, TypeOK, Alone, OwnChannel, Active
  <2>2. ASSUME NEW s \in Runs PROVE Alone(s)'
    BY DEF Inv, TypeOK, Alone, Active
  <2>3. ASSUME NEW s \in Runs PROVE OwnChannel(s)'
    BY DEF Inv, TypeOK, Alone, OwnChannel, Active
  <2>4. QED
    BY <2>1, <2>2, <2>3 DEF Inv
<1>11. ASSUME NEW r \in Runs, TimerFires(r) PROVE Inv'
  <2> USE <1>11 DEF TimerFires
  <2>1. TypeOK'
    BY DEF Inv, TypeOK, Alone, OwnChannel, Active
  <2>2. ASSUME NEW s \in Runs PROVE Alone(s)'
    BY DEF Inv, TypeOK, Alone, Active
  <2>3. ASSUME NEW s \in Runs PROVE OwnChannel(s)'
    BY DEF Inv, TypeOK, Alone, OwnChannel, Active
  <2>4. QED
    BY <2>1, <2>2, <2>3 DEF Inv
<1>12. ASSUME NEW r \in Runs, TimerFlags(r) PROVE Inv'
  <2> USE <1>12 DEF TimerFlags
  <2>1. spent' \in BOOLEAN /\ timedOut' \in BOOLEAN /\ panicked' \in BOOLEAN
    BY Zenon DEF Inv, TypeOK
  <2>2. TypeOK'
    BY <2>1 DEF Inv, TypeOK, Alone, OwnChannel, Active
  <2>3. ASSUME NEW s \in Runs PROVE Alone(s)'
    BY DEF Inv, TypeOK, Alone, Active
  <2>4. ASSUME NEW s \in Runs PROVE OwnChannel(s)'
    BY DEF Inv, TypeOK, Alone, OwnChannel, Active
  <2>5. QED
    BY <2>2, <2>3, <2>4 DEF Inv
<1>13. ASSUME NEW r \in Runs, TimerStops(r) PROVE Inv'
  <2>1. RequestStop({TRUE}) /\ UNCHANGED <<phase, waitOn, outcome, stopping>>
    BY <1>13 DEF TimerStops
  <2>2. timer[r] = "stop" /\ timer' = [timer EXCEPT ![r] = "over"]
    BY <1>13 DEF TimerStops
  <2>3. Inv'
    BY <2>1, <2>2, Requested DEF Inv, TypeOK, Alone, Active
  <2>4. QED
    BY <2>3
<1>14. CASE CloseSession
  <2> USE <1>14 DEF CloseSession
  <2>1. TypeOK'
    BY DEF Inv, TypeOK, Alone, OwnChannel, Active
  <2>2. ASSUME NEW s \in Runs PROVE Alone(s)'
    BY DEF Inv, TypeOK, Alone, Active
  <2>3. ASSUME NEW s \in Runs PROVE OwnChannel(s)'
    BY DEF Inv, TypeOK, Alone, OwnChannel, Active
  <2>4. QED
    BY <2>1, <2>2, <2>3 DEF Inv
<1>15. CASE Stop
  <2>1. RequestStop(BOOLEAN) /\ UNCHANGED <<phase, waitOn, outcome, timer>>
    BY <1>15 DEF Stop
  <2>2. stopping' = "over"
    BY <1>15 DEF Stop
  <2>3. Inv'
    BY <2>1, <2>2, Requested DEF Inv, TypeOK, Alone, Active
  <2>4. QED
    BY <2>3
<1>16. CASE UNCHANGED vars
  BY <1>16 DEF Inv, TypeOK, Alone, OwnChannel, Active
<1>17. QED
  BY <1>1, <1>2, <1>3, <1>4, <1>5, <1>6, <1>7, <1>8, <1>9, <1>10, <1>11, <1>12, <1>13, <1>14, <1>15, <1>16, <1>18
     DEF Next, Run, Callback, Start

-----------------------------------------------------------------------------
(* The invariant holds in every reachable state.                           *)
THEOREM Invariance == SafetySpec => []Inv
<1>1. QED
  BY InitInv, StepInv, PTL DEF SafetySpec

(* The fields, the runs and their timers are what their types say.         *)
THEOREM TypeCorrect == SafetySpec => []TypeOK
<1>1. Inv => TypeOK
  BY DEF Inv
<1>2. QED
  BY <1>1, Invariance, PTL

(* A 4004 program that is blocked on its keyboard waits for the channel    *)
(* that the next Stop or timer closes, never for that of an earlier run,   *)
(* unless another run was active at the same time and replaced it.         *)
THEOREM KeyboardAlwaysListens == SafetySpec => []KeyboardListens
<1>1. Inv => KeyboardListens
  BY DEF Inv, OwnChannel, KeyboardListens
<1>2. QED
  BY <1>1, Invariance, PTL

-----------------------------------------------------------------------------
(* A step that ends no run and begins none leaves every status alone.      *)
LEMMA SameStatus ==
  ASSUME phase' = phase, outcome' = outcome
  PROVE  UNCHANGED [r \in Runs |-> Status(r)]
BY DEF Status

(* A step of run r changes no other status.                                *)
LEMMA OneStatus ==
  ASSUME NEW r \in Runs, NEW to,
         \A s \in Runs \ {r} : phase'[s] = phase[s] /\ outcome'[s] = outcome[s],
         Status(r)' = to
  PROVE  [s \in Runs |-> Status(s)]' = [[s \in Runs |-> Status(s)] EXCEPT ![r] = to]
<1>1. \A s \in Runs \ {r} : Status(s)' = Status(s)
  BY DEF Status
<1>2. QED
  BY <1>1

LEMMA InitContract == Init => Contract!Init
BY DEF Init, Contract!Init, Status

LEMMA StepContract == Inv /\ [Next]_vars => [Contract!Next]_(Contract!vars)
<1> SUFFICES ASSUME Inv, [Next]_vars PROVE [Contract!Next]_(Contract!vars)
  OBVIOUS
<1> USE DEF Contract!vars, vars, shared, history
<1>1. ASSUME NEW fatal, RequestStop(fatal), phase' = phase, outcome' = outcome
      PROVE  Contract!Request
  <2>1. \A r \in Runs : Active(r) <=> Status(r) = "going"
    BY DEF Active, Status, Inv, TypeOK
  <2>2. asked' = asked \cup {r \in Runs : [s \in Runs |-> Status(s)][r] = "going"}
    BY <1>1, <2>1 DEF RequestStop
  <2>3. QED
    BY <1>1, <2>2, SameStatus DEF Contract!Request
<1>2. ASSUME phase' = phase, outcome' = outcome, asked' = asked
      PROVE  [Contract!Next]_(Contract!vars)
  BY <1>2, SameStatus
<1>3. CASE CloseSession \/ UNCHANGED vars
  BY <1>3, <1>2 DEF CloseSession
<1>4. CASE Stop
  BY <1>4, <1>1 DEF Stop, Contract!Next
<1>5. ASSUME NEW r \in Runs, TimerStops(r)
      PROVE  [Contract!Next]_(Contract!vars)
  BY <1>5, <1>1 DEF TimerStops, Contract!Next
<1>6. ASSUME NEW r \in Runs, TimerFires(r) \/ TimerFlags(r)
      PROVE  [Contract!Next]_(Contract!vars)
  BY <1>6, <1>2 DEF TimerFires, TimerFlags
<1>7. ASSUME NEW r \in Runs, Admit(r)
      PROVE  [Contract!Next]_(Contract!vars)
  <2> USE <1>7 DEF Admit, Advance, Inv, TypeOK
  <2>1. Status(r) = "waiting" /\ Status(r)' = "going"
    BY DEF Status
  <2>2. [s \in Runs |-> Status(s)]' = [[s \in Runs |-> Status(s)] EXCEPT ![r] = "going"]
    BY <2>1, OneStatus
  <2>3. QED
    BY <2>1, <2>2 DEF Contract!Next, Contract!Begin, Contract!Move
<1>8. ASSUME NEW r \in Runs, NoProgram(r) \/ EndItself(r)
      PROVE  [Contract!Next]_(Contract!vars)
  <2> USE <1>8 DEF NoProgram, EndItself, Return, Inv, TypeOK
  <2>1. Status(r) = "going" /\ Status(r)' = "ended"
    BY DEF Status
  <2>2. [s \in Runs |-> Status(s)]' = [[s \in Runs |-> Status(s)] EXCEPT ![r] = "ended"]
    BY <2>1, OneStatus
  <2>3. QED
    BY <2>1, <2>2 DEF Contract!Next, Contract!End, Contract!Move
<1>9. ASSUME NEW r \in Runs, EndStopped(r)
      PROVE  [Contract!Next]_(Contract!vars)
  <2> USE <1>9 DEF EndStopped, Return, Inv, TypeOK
  <2>1. Status(r) = "going" /\ Status(r)' = "stopped"
    BY DEF Status
  <2>2. r \in asked
    BY DEF OwnChannel
  <2>3. [s \in Runs |-> Status(s)]' = [[s \in Runs |-> Status(s)] EXCEPT ![r] = "stopped"]
    BY <2>1, OneStatus
  <2>4. QED
    BY <2>1, <2>2, <2>3 DEF Contract!Next, Contract!StopRun, Contract!Move
<1>10. ASSUME NEW r \in Runs,
              Start(r) \/ PollStop(r) \/ ReadKeyboard(r) \/ KeyArrives(r) \/ WakeOnStop(r)
       PROVE  [Contract!Next]_(Contract!vars)
  <2>1. \A s \in Runs : Status(s)' = Status(s)
    BY <1>10 DEF Start, ResetOnce, MakeChannel, ClearFlag, StartTimer, PollStop, ReadKeyboard, KeyArrives,
                 WakeOnStop, Advance, Status, Inv, TypeOK
  <2>2. asked' = asked
    BY <1>10 DEF Start, ResetOnce, MakeChannel, ClearFlag, StartTimer, PollStop, ReadKeyboard, KeyArrives,
                 WakeOnStop, Advance
  <2>3. QED
    BY <2>1, <2>2
<1>11. QED
  BY <1>3, <1>4, <1>5, <1>6, <1>7, <1>8, <1>9, <1>10 DEF Next, Run, Callback

(* The contract of backend.go, for any number of runs: a run ends by       *)
(* itself or because its end was asked for while it went on.               *)
THEOREM ContractKept == SafetySpec => ContractSpec
<1>1. QED
  BY InitContract, StepContract, Invariance, PTL DEF SafetySpec, ContractSpec, Contract!Spec
=============================================================================
