-------------------------- MODULE SessionLifecycle --------------------------
(***************************************************************************)
(* What a CP/M session promises to its clients, whoever they are and       *)
(* however many they are: it is in one of the four states the API reports, *)
(* works on one command at a time, records the end of a command that is    *)
(* over, and stays closed once it was closed.                              *)
(*                                                                         *)
(* This is the abstract specification; CpmSession implements it: TLC       *)
(* checks the whole of it on small instances, TLAPS proves the safety part *)
(* for every instance (CpmSessionProofs).                                  *)
(***************************************************************************)
VARIABLES
  phase,  \* the state the API reports: "idle", "running", "error", "closed"
  work    \* the admitted command: "none", "ongoing", or "over" and unrecorded

vars == <<phase, work>>

Init == phase = "idle" /\ work = "none"

(* A command is admitted: only by a session that is open and has no work.  *)
Begin ==
  /\ phase \in {"idle", "error"}
  /\ work = "none"
  /\ phase' = "running"
  /\ work' = "ongoing"

(* The program is over.  Nothing promises that it ever is.                 *)
Stop ==
  /\ work = "ongoing"
  /\ work' = "over"
  /\ UNCHANGED phase

(* The outcome of the command becomes the session state, unless somebody   *)
(* closed the session in the meantime.                                     *)
Record ==
  /\ work = "over"
  /\ work' = "none"
  /\ \/ phase = "running" /\ phase' \in {"idle", "error", "closed"}
     \/ phase = "closed" /\ phase' = "closed"

(* An empty command at the prompt clears a recoverable error.              *)
Recover ==
  /\ phase = "error"
  /\ work = "none"
  /\ phase' = "idle"
  /\ UNCHANGED work

(* DELETE, expiry or the quit keys: possible at any time, also while work  *)
(* is ongoing.                                                             *)
Close ==
  /\ phase # "closed"
  /\ phase' = "closed"
  /\ UNCHANGED work

Next == Begin \/ Stop \/ Record \/ Recover \/ Close

SafetySpec == Init /\ [][Next]_vars
Spec == SafetySpec /\ WF_vars(Record)
=============================================================================
