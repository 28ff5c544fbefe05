------------------------------ MODULE MCSocket ------------------------------
(* Instance of Socket for TLC: only its bounds are chosen, in the .cfg.    *)
EXTENDS Socket
=============================================================================
