---------------------------- MODULE PanelBackend ----------------------------
(***************************************************************************)
(* How the 8008 and 8080 backends run and stop a program                   *)
(* (internal/backend/i8008.go and i8080.go): Load and every Run make a new *)
(* front panel, the timer of a Run stops the panel it found, Stop the      *)
(* current one, and the flag stopRequested tells the two apart afterwards. *)
(*                                                                         *)
(* No lock guards these fields, so each statement is a step of its own.    *)
(* Runs may overlap and Load may come at any time: Assemble leaves the     *)
(* lock before it loads (BareSession shows how).  The front panel is       *)
(* external: whether a Stop that precedes its Run counts is left open.     *)
(***************************************************************************)
EXTENDS Naturals

CONSTANTS
  LastRun,   \* the number of runs
  LastPanel, \* the number of panels ever made (a bound)
  MaxLoads   \* the number of Loads at a time (a bound)

ASSUME PanelAssumption ==
  LastRun \in Nat \ {0} /\ LastPanel \in Nat \ {0} /\ MaxLoads \in Nat \ {0}

Runs == 1 .. LastRun
Panels == 1 .. LastPanel
None == 0

VARIABLES
  rom,            \* what b.rom holds: None, or a ROM that fits or does not
  panel,          \* b.panel
  made,           \* the number of panels made so far
  halting,        \* the panels whose Stop was called
  stopRequested,  \* the flag of that name
  loading,        \* how many Loads replaced the ROM and have yet to set up
  phase,          \* how far each run is
  on,             \* the panel each run executes on
  aim,            \* the panel the timer of each run stops
  timer,          \* the timer of each run: "off", "armed", "fired"
  outcome,        \* what each Run returned
  stopping,       \* Stop: "no", "marked" (first statement done), "over"
  asked           \* the runs during which a panel was stopped (history)

backend == <<rom, panel, made, loading>>
control == <<halting, stopRequested, asked>>
runs == <<phase, on, aim, timer, outcome>>
vars == <<backend, control, runs, stopping>>

Init ==
  /\ rom = "none"
  /\ panel = None
  /\ made = 0
  /\ loading = 0
  /\ halting = {}
  /\ stopRequested = FALSE
  /\ asked = {}
  /\ phase = [r \in Runs |-> "none"]
  /\ on = [r \in Runs |-> None]
  /\ aim = [r \in Runs |-> None]
  /\ timer = [r \in Runs |-> "off"]
  /\ outcome = [r \in Runs |-> "none"]
  /\ stopping = "no"

Active(r) == phase[r] \notin {"none", "done"}

(* FrontPanel.Stop.                                                        *)
StopPanel(p) ==
  /\ halting' = halting \cup {p}
  /\ asked' = asked \cup {r \in Runs : Active(r)}

(* Mutant of Setup: the new panel is not stored in b.panel.                *)
SetupForgotten ==
  /\ rom # "bad"
  /\ made < LastPanel
  /\ made' = made + 1
  /\ UNCHANGED panel

(* setup: memory, ports, CPU and panel are made anew, unless the ROM does  *)
(* not fit in the memory.                                                  *)
Setup ==
  /\ rom # "bad"
  /\ made < LastPanel
  /\ made' = made + 1
  /\ panel' = made + 1

-----------------------------------------------------------------------------
(* Load.  An empty ROM is copied to nil, the value that means none.        *)

LoadROM ==
  /\ loading < MaxLoads
  /\ loading' = loading + 1
  /\ rom' \in {"none", "fits", "bad"}
  /\ UNCHANGED <<panel, made, control, runs, stopping>>

LoadSetup ==
  /\ loading > 0
  /\ loading' = loading - 1
  /\ \/ Setup
     \/ rom = "bad" /\ UNCHANGED <<panel, made>>
  /\ UNCHANGED <<rom, control, runs, stopping>>

-----------------------------------------------------------------------------
(* Run.                                                                    *)

Advance(r, from, to) ==
  /\ phase[r] = from
  /\ phase' = [phase EXCEPT ![r] = to]

(* The deferred timer.Stop() is too late for a callback that has fired.    *)
Return(r, from, how) ==
  /\ Advance(r, from, "done")
  /\ outcome' = [outcome EXCEPT ![r] = how]
  /\ timer' = [timer EXCEPT ![r] = IF @ = "armed" THEN "off" ELSE @]
  /\ UNCHANGED <<backend, control, on, aim, stopping>>

(* The session admits a run while it is open.                              *)
Admit(r) ==
  /\ stopping = "no"
  /\ r > 1 => phase[r - 1] # "none"
  /\ Advance(r, "none", "admitted")
  /\ UNCHANGED <<backend, control, on, aim, timer, outcome, stopping>>

(* ErrNoProgramLoaded.  A Load may replace the ROM between the test and    *)
(* setup, which then finds another program.                                *)
NoProgram(r) == rom = "none" /\ Return(r, "admitted", "error")

FindProgram(r) ==
  /\ rom # "none"
  /\ Advance(r, "admitted", "checked")
  /\ UNCHANGED <<backend, control, on, aim, timer, outcome, stopping>>

(* setup fails because the program does not fit.                           *)
BadProgram(r) == rom = "bad" /\ Return(r, "checked", "error")

(* The 8008 starts by a jump the front panel jams in, which may fail.      *)
JamFails(r) == Return(r, "cleared", "error")

(* Mutant of NewPanel: Run goes on with the panel that Load made.          *)
OldPanel(r) ==
  /\ rom # "bad" /\ panel # None
  /\ Advance(r, "checked", "ready")
  /\ UNCHANGED <<backend, control, on, aim, timer, outcome, stopping>>

NewPanel(r) ==
  /\ Setup
  /\ Advance(r, "checked", "ready")
  /\ UNCHANGED <<rom, loading, control, on, aim, timer, outcome, stopping>>

ClearRequest(r) ==
  /\ Advance(r, "ready", "cleared")
  /\ stopRequested' = FALSE
  /\ UNCHANGED <<backend, halting, asked, on, aim, timer, outcome, stopping>>

(* time.AfterFunc(timeout, b.panel.Stop) evaluates b.panel here ...        *)
StartTimer(r) ==
  /\ Advance(r, "cleared", "timed")
  /\ timer' = [timer EXCEPT ![r] = "armed"]
  /\ aim' = [aim EXCEPT ![r] = panel]
  /\ UNCHANGED <<backend, control, on, outcome, stopping>>

(* ... and b.panel.Run evaluates it again.                                 *)
Execute(r) ==
  /\ Advance(r, "timed", "running")
  /\ on' = [on EXCEPT ![r] = panel]
  /\ halting' \in {halting, halting \ {panel}}
  /\ UNCHANGED <<backend, stopRequested, asked, aim, timer, outcome, stopping>>

(* Halt, step limit or a CPU error.                                        *)
EndItself(r) == Return(r, "running", "itself")

(* PanelStoppedByRequest.                                                  *)
Halt(r) ==
  /\ on[r] \in halting
  /\ Advance(r, "running", "halted")
  /\ UNCHANGED <<backend, control, on, aim, timer, outcome, stopping>>

ReadRequest(r) ==
  Return(r, "halted", IF stopRequested THEN "stopped" ELSE "timedOut")

-----------------------------------------------------------------------------
(* The timer, and Stop, which close() calls once.                          *)

(* Mutant of TimerFires: a closure that looks b.panel up when it is called *)
(* in place of the method value b.panel.Stop.                              *)
TimerStopsCurrent(r) ==
  /\ timer[r] = "armed"
  /\ timer' = [timer EXCEPT ![r] = "fired"]
  /\ StopPanel(panel)
  /\ UNCHANGED <<backend, stopRequested, phase, on, aim, outcome, stopping>>

TimerFires(r) ==
  /\ timer[r] = "armed"
  /\ timer' = [timer EXCEPT ![r] = "fired"]
  /\ StopPanel(aim[r])
  /\ UNCHANGED <<backend, stopRequested, phase, on, aim, outcome, stopping>>

Stop ==
  /\ stopping = "no"
  /\ stopping' = "marked"
  /\ stopRequested' = TRUE
  /\ UNCHANGED <<backend, halting, asked, runs>>

StopCurrent ==
  /\ stopping = "marked"
  /\ stopping' = "over"
  /\ IF panel = None THEN UNCHANGED <<halting, asked>> ELSE StopPanel(panel)
  /\ UNCHANGED <<backend, stopRequested, runs>>

-----------------------------------------------------------------------------
Run(r) ==
  \/ Admit(r) \/ NoProgram(r) \/ FindProgram(r) \/ BadProgram(r)
  \/ NewPanel(r) \/ JamFails(r) \/ ClearRequest(r) \/ StartTimer(r)
  \/ Execute(r) \/ EndItself(r) \/ Halt(r) \/ ReadRequest(r)

Next ==
  \/ LoadROM \/ LoadSetup \/ Stop \/ StopCurrent
  \/ \E r \in Runs : Run(r) \/ TimerFires(r)

(* Armed timers fire and a panel notices its Stop.  A program need not end *)
(* by itself before.                                                       *)
Fairness ==
  \A r \in Runs :
    WF_vars(TimerFires(r)) /\ WF_vars(Halt(r)) /\ WF_vars(ReadRequest(r))

Spec == Init /\ [][Next]_vars /\ Fairness

-----------------------------------------------------------------------------
(* Type invariant: the fields of the backend, the panels and the runs.     *)
TypeOK ==
  /\ rom \in {"none", "fits", "bad"}
  /\ panel = made /\ made \in 0 .. LastPanel
  /\ halting \subseteq Panels
  /\ stopRequested \in BOOLEAN /\ loading \in 0 .. MaxLoads
  /\ asked \subseteq Runs
  /\ phase \in [Runs -> {"none", "admitted", "checked", "ready", "cleared",
                         "timed", "running", "halted", "done"}]
  /\ on \in [Runs -> 0 .. LastPanel] /\ aim \in [Runs -> 0 .. LastPanel]
  /\ timer \in [Runs -> {"off", "armed", "fired"}]
  /\ outcome \in [Runs -> {"none", "error", "itself", "stopped", "timedOut"}]
  /\ stopping \in {"no", "marked", "over"}

(* The contract of backend.go: a run that did not end by itself was asked  *)
(* to while it went on.  Requests of the time before it, for a panel that  *)
(* Load or another run made, have no effect, because Run makes a new one.  *)
Status(r) ==
  CASE phase[r] = "none" -> "waiting"
    [] outcome[r] \in {"stopped", "timedOut"} -> "stopped"
    [] outcome[r] \in {"error", "itself"} -> "ended"
    [] OTHER -> "going"

Contract == INSTANCE RunContract WITH phase <- [r \in Runs |-> Status(r)]

ContractSpec == Contract!Spec

(* A run reports a timeout only if a timer stopped its own panel, so never *)
(* because of a late callback for the panel of an earlier run, unless the  *)
(* session is being closed: a Stop between setup and Store(false)          *)
(* of a run ends it and is forgotten, but nobody sees the result of a run  *)
(* in a session that is closed.                                            *)
TimeoutExplained ==
  \A r \in Runs : outcome[r] = "timedOut" =>
    \/ \E s \in Runs : timer[s] = "fired" /\ aim[s] = on[r]
    \/ stopping # "no"

(* A run whose timer found the panel it executes on ends at the timeout,   *)
(* whatever its program does, unless it shares the panel with another run. *)
TimerEndsRun ==
  \A r \in Runs :
    phase[r] = "running" /\ timer[r] = "armed" /\ aim[r] = on[r]
      ~> phase[r] = "done" \/ \E s \in Runs \ {r} : on[s] = on[r]
=============================================================================
