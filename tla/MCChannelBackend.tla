-------------------------- MODULE MCChannelBackend --------------------------
(* Instance of ChannelBackend for TLC: the .cfg chooses the processor and  *)
(* the number of runs.                                                     *)
EXTENDS ChannelBackend
=============================================================================
