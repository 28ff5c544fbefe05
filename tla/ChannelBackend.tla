--------------------------- MODULE ChannelBackend ---------------------------
(***************************************************************************)
(* How the 4004 and 6502 backends stop a running program                   *)
(* (internal/backend/i4004.go and i6502.go): the channel stopCh, which     *)
(* every Run makes anew and requestStop closes through a sync.Once, also   *)
(* reset by every Run; the timer of each Run, whose callback may come      *)
(* late; Stop, called once when the session is closed; and the keyboard of *)
(* the 4004, which blocks the program until a key or the stop comes.       *)
(*                                                                         *)
(* No lock guards these fields, so each statement is a step of its own.    *)
(* The state of the session wants the runs to follow one another, but they *)
(* may overlap (BareSession shows how): then they share these fields.      *)
(***************************************************************************)
EXTENDS Naturals, FiniteSets

CONSTANTS
  LastRun,  \* the number of runs
  Keyboard  \* the program blocks on its keyboard (4004) or never does (6502)

ASSUME BackendAssumption == LastRun \in Nat \ {0} /\ Keyboard \in BOOLEAN

Runs == 1 .. LastRun
Channels == 0 .. LastRun  \* 0 is the one newI4004 and newI6502 make

VARIABLES
  spent,     \* stopOnce has been used
  stopCh,    \* the channel in the field of that name
  shut,      \* the channels that are closed
  timedOut,  \* the flag of that name
  phase,     \* how far each run is
  waitOn,    \* the channel the keyboard select of each run waits on
  outcome,   \* what each Run returned
  timer,     \* the timer of each run and its callback
  stopping,  \* Stop: "no", "called" (by close), "over"
  panicked,  \* closing a channel twice has ended the server
  asked,     \* the runs during which somebody requested a stop (history)
  overlapped \* the runs that were active together with another (history)

shared == <<spent, stopCh, shut, timedOut, panicked>>
history == <<asked, overlapped>>
vars == <<shared, phase, waitOn, outcome, timer, stopping, history>>

Phases ==
  {"none", "admitted", "once", "channel", "flag", "loop", "waiting", "told", "done"}

Init ==
  /\ spent = FALSE
  /\ stopCh = 0
  /\ shut = {}
  /\ timedOut = FALSE
  /\ phase = [r \in Runs |-> "none"]
  /\ waitOn = [r \in Runs |-> 0]
  /\ outcome = [r \in Runs |-> "none"]
  /\ timer = [r \in Runs |-> "off"]
  /\ stopping = "no"
  /\ panicked = FALSE
  /\ asked = {}
  /\ overlapped = {}

Alive == ~panicked

Active(r) == phase[r] \notin {"none", "done"}

(* requestStop: the first one since the Once was reset closes the channel. *)
(* To close a channel twice is a panic: one of the values in fatal says    *)
(* whether it ends the server.                                             *)
RequestStop(fatal) ==
  /\ IF spent
     THEN UNCHANGED <<spent, shut, panicked>>
     ELSE /\ spent' = TRUE
          /\ shut' = shut \cup {stopCh}
          /\ panicked' \in IF stopCh \in shut THEN fatal ELSE {FALSE}
  /\ asked' = asked \cup {r \in Runs : Active(r)}
  /\ UNCHANGED <<stopCh, timedOut, overlapped>>

-----------------------------------------------------------------------------
(* Run.                                                                    *)

Advance(r, from, to) ==
  /\ Alive
  /\ phase[r] = from
  /\ phase' = [phase EXCEPT ![r] = to]

(* The session admits a run when it is open and idle, or taken for idle    *)
(* while a run goes on.  The goroutine that calls Run may come later than  *)
(* close().                                                                *)
Admit(r) ==
  /\ stopping = "no"
  /\ r > 1 => phase[r - 1] # "none"
  /\ Advance(r, "none", "admitted")
  /\ LET others == {s \in Runs : Active(s)}
     IN  overlapped' = overlapped \cup IF others = {} THEN {} ELSE others \cup {r}
  /\ UNCHANGED <<shared, waitOn, outcome, timer, stopping, asked>>

ResetOnce(r) ==
  /\ Advance(r, "admitted", "once")
  /\ spent' = FALSE
  /\ UNCHANGED <<stopCh, shut, timedOut, panicked, waitOn, outcome, timer,
                 stopping, history>>

(* Mutant of MakeChannel: the channel of the last run is used again.       *)
KeepChannel(r) ==
  /\ Advance(r, "once", "channel")
  /\ UNCHANGED <<shared, waitOn, outcome, timer, stopping, history>>

MakeChannel(r) ==
  /\ Advance(r, "once", "channel")
  /\ stopCh' = r
  /\ UNCHANGED <<spent, shut, timedOut, panicked, waitOn, outcome, timer,
                 stopping, history>>

ClearFlag(r) ==
  /\ Advance(r, "channel", "flag")
  /\ timedOut' = FALSE
  /\ UNCHANGED <<spent, stopCh, shut, panicked, waitOn, outcome, timer,
                 stopping, history>>

StartTimer(r) ==
  /\ Advance(r, "flag", "loop")
  /\ timer' = [timer EXCEPT ![r] = "armed"]
  /\ UNCHANGED <<shared, waitOn, outcome, stopping, history>>

(* Mutant of Return: without the deferred timer.Stop().                    *)
ReturnKeepingTimer(r, how) ==
  /\ phase' = [phase EXCEPT ![r] = "done"]
  /\ outcome' = [outcome EXCEPT ![r] = how]
  /\ UNCHANGED <<shared, waitOn, timer, stopping, history>>

(* Run returns: the deferred timer.Stop() is too late for a callback that  *)
(* has begun.                                                              *)
Return(r, how) ==
  /\ phase' = [phase EXCEPT ![r] = "done"]
  /\ outcome' = [outcome EXCEPT ![r] = how]
  /\ timer' = [timer EXCEPT ![r] = IF @ = "armed" THEN "off" ELSE @]
  /\ UNCHANGED <<shared, waitOn, stopping, history>>

(* ErrNoProgramLoaded: an empty program is copied to nil.                  *)
NoProgram(r) == Alive /\ phase[r] = "admitted" /\ Return(r, "itself")

(* Halt, step limit or a CPU error.                                        *)
EndItself(r) == Alive /\ phase[r] = "loop" /\ Return(r, "itself")

(* The select at the top of the loop finds the channel closed; the flag    *)
(* tells why.                                                              *)
PollStop(r) ==
  /\ stopCh \in shut
  /\ Advance(r, "loop", "told")
  /\ UNCHANGED <<shared, waitOn, outcome, timer, stopping, history>>

EndStopped(r) ==
  /\ Alive
  /\ phase[r] = "told"
  /\ Return(r, IF timedOut THEN "timedOut" ELSE "stopped")

(* Mutant of ReadKeyboard: the closure keeps the channel of newI4004.      *)
ReadKeyboardEarly(r) ==
  /\ Keyboard
  /\ Advance(r, "loop", "waiting")
  /\ UNCHANGED <<shared, waitOn, outcome, timer, stopping, history>>

(* KeyboardFunc evaluates b.stopCh when it is called.                      *)
ReadKeyboard(r) ==
  /\ Keyboard
  /\ Advance(r, "loop", "waiting")
  /\ waitOn' = [waitOn EXCEPT ![r] = stopCh]
  /\ UNCHANGED <<shared, outcome, timer, stopping, history>>

(* A key is in the queue.                                                  *)
KeyArrives(r) ==
  /\ Advance(r, "waiting", "loop")
  /\ UNCHANGED <<shared, waitOn, outcome, timer, stopping, history>>

(* Mutant of WakeOnStop: the select on the keys has no case for the stop.  *)
WakeNever(r) == FALSE /\ UNCHANGED vars

WakeOnStop(r) ==
  /\ waitOn[r] \in shut
  /\ Advance(r, "waiting", "loop")
  /\ UNCHANGED <<shared, waitOn, outcome, timer, stopping, history>>

-----------------------------------------------------------------------------
(* The callback of time.AfterFunc, in a goroutine of its own, and Stop.    *)

TimerFires(r) ==
  /\ Alive
  /\ timer[r] = "armed"
  /\ timer' = [timer EXCEPT ![r] = "flag"]
  /\ UNCHANGED <<shared, phase, waitOn, outcome, stopping, history>>

TimerFlags(r) ==
  /\ Alive
  /\ timer[r] = "flag"
  /\ timer' = [timer EXCEPT ![r] = "stop"]
  /\ timedOut' = TRUE
  /\ UNCHANGED <<spent, stopCh, shut, panicked, phase, waitOn, outcome,
                 stopping, history>>

TimerStops(r) ==
  /\ Alive
  /\ timer[r] = "stop"
  /\ timer' = [timer EXCEPT ![r] = "over"]
  /\ RequestStop({TRUE})
  /\ UNCHANGED <<phase, waitOn, outcome, stopping>>

(* close() has marked the session closed and calls Stop: in the goroutine  *)
(* of a request, whose panic net/http recovers, or in that of the poller.  *)
CloseSession ==
  /\ Alive
  /\ stopping = "no"
  /\ stopping' = "called"
  /\ UNCHANGED <<shared, phase, waitOn, outcome, timer, history>>

Stop ==
  /\ Alive
  /\ stopping = "called"
  /\ stopping' = "over"
  /\ RequestStop(BOOLEAN)
  /\ UNCHANGED <<phase, waitOn, outcome, timer>>

-----------------------------------------------------------------------------
Start(r) == ResetOnce(r) \/ MakeChannel(r) \/ ClearFlag(r) \/ StartTimer(r)

Callback(r) == TimerFires(r) \/ TimerFlags(r) \/ TimerStops(r)

Run(r) ==
  \/ Admit(r) \/ NoProgram(r) \/ Start(r) \/ EndItself(r) \/ PollStop(r)
  \/ EndStopped(r) \/ ReadKeyboard(r) \/ KeyArrives(r) \/ WakeOnStop(r)

Next ==
  \/ \E r \in Runs : Run(r) \/ Callback(r)
  \/ CloseSession
  \/ Stop

SafetySpec == Init /\ [][Next]_vars

(* Goroutines that can run do run, timers fire, and a program that is not  *)
(* waiting reaches the step limit at the latest.  Nobody has to type keys  *)
(* or to close the session.                                                *)
Fairness ==
  /\ WF_vars(Stop)
  /\ \A r \in Runs :
       /\ WF_vars(Start(r))
       /\ WF_vars(Callback(r))
       /\ WF_vars(WakeOnStop(r) \/ EndStopped(r))
       /\ SF_vars(PollStop(r))
       /\ SF_vars(EndItself(r))

Spec == SafetySpec /\ Fairness

-----------------------------------------------------------------------------
(* Type invariant: the fields of the backend, the runs and the timers.     *)
TypeOK ==
  /\ spent \in BOOLEAN /\ timedOut \in BOOLEAN /\ panicked \in BOOLEAN
  /\ stopCh \in Channels /\ shut \subseteq Channels
  /\ phase \in [Runs -> Phases]
  /\ waitOn \in [Runs -> Channels]
  /\ outcome \in [Runs -> {"none", "itself", "stopped", "timedOut"}]
  /\ \A r \in Runs : outcome[r] # "none" <=> phase[r] = "done"
  /\ timer \in [Runs -> {"off", "armed", "flag", "stop", "over"}]
  /\ \A r \in Runs : timer[r] = "armed" => phase[r] \in {"loop", "waiting", "told"}
  /\ stopping \in {"no", "called", "over"}
  /\ asked \subseteq Runs /\ overlapped \subseteq Runs

(* The contract of backend.go: a run that did not end by itself was asked  *)
(* to while it went on.  The requests that ended an earlier run have no    *)
(* effect on a later one, because Run makes a new channel; a callback of   *)
(* an earlier timer that comes as late as that has.                        *)
Status(r) ==
  CASE phase[r] = "none" -> "waiting"
    [] outcome[r] \in {"stopped", "timedOut"} -> "stopped"
    [] outcome[r] = "itself" -> "ended"
    [] OTHER -> "going"

Contract == INSTANCE RunContract WITH phase <- [r \in Runs |-> Status(r)]

ContractSpec == Contract!Spec

(* A program that is blocked on its keyboard listens to the channel that   *)
(* the next request closes, whatever runs came before it and whichever of  *)
(* their callbacks are late.  It does not when another run has replaced the*)
(* channel meanwhile: the keyboard goes on waiting on the old one.         *)
KeyboardListens ==
  \A r \in Runs : phase[r] = "waiting" /\ r \notin overlapped
                    => waitOn[r] = stopCh /\ stopCh = r

(* Once its channel is closed a run ends, also when it waits for a key     *)
(* that nobody will type, unless another run was active at the same time.  *)
ClosedChannelEndsRun ==
  \A r \in Runs : phase[r] \in {"loop", "waiting"} /\ stopCh \in shut
                    ~> phase[r] = "done" \/ panicked \/ r \in overlapped

-----------------------------------------------------------------------------
(* What the comments say and the code does not do, even when runs follow   *)
(* one another.                                                            *)

(* backend.go:38: Run ends by a halt, the step limit, the timeout or Stop. *)
(* A request between the reset of the Once and the new channel closes the  *)
(* old channel and spends the Once: no later request reaches this run.     *)
RunEnds == \A r \in Runs : Active(r) ~> ~Active(r) \/ panicked \/ r \in overlapped

(* backend.go:42: Stop is safe from other goroutines.  The same request    *)
(* closes the channel of a run that was already stopped a second time.     *)
StopIsSafe == overlapped = {} => ~panicked
=============================================================================
