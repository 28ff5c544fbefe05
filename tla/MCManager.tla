----------------------------- MODULE MCManager ------------------------------
(* Instance of Manager for TLC: its values are chosen in the .cfg.         *)
EXTENDS Manager
=============================================================================
