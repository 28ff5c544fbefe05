--------------------------- MODULE MCBareSession ----------------------------
(* Instance of BareSession for TLC.                                        *)
EXTENDS BareSession
=============================================================================
