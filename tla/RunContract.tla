---------------------------- MODULE RunContract -----------------------------
(***************************************************************************)
(* What the session relies on in internal/backend/backend.go: a run ends   *)
(* by itself (halt, step limit, CPU error), or because somebody asked for  *)
(* its end while it was going on: Stop, or a timer.  A request that came   *)
(* before a run does not end it.  Whose timer it was is left open: on the  *)
(* 4004 and 6502 a late callback of one run may end another.               *)
(*                                                                         *)
(* ChannelBackend and PanelBackend implement this specification, the first *)
(* by a channel per run, the second by a front panel per run.              *)
(***************************************************************************)
CONSTANT Runs

VARIABLES
  phase,  \* of each run: "waiting", "going", "ended" by itself, "stopped"
  asked   \* the runs whose end was asked for while they went on

vars == <<phase, asked>>

Init ==
  /\ phase = [r \in Runs |-> "waiting"]
  /\ asked = {}

Move(r, from, to) ==
  /\ phase[r] = from
  /\ phase' = [phase EXCEPT ![r] = to]
  /\ UNCHANGED asked

Begin(r) == Move(r, "waiting", "going")

End(r) == Move(r, "going", "ended")

StopRun(r) == r \in asked /\ Move(r, "going", "stopped")

Request ==
  /\ asked' = asked \cup {r \in Runs : phase[r] = "going"}
  /\ UNCHANGED phase

Next == Request \/ \E r \in Runs : Begin(r) \/ End(r) \/ StopRun(r)

Spec == Init /\ [][Next]_vars
=============================================================================
