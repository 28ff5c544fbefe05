------------------------------ MODULE MCFrames ------------------------------
(* Instance of Frames for TLC.  The lengths are those at which the header  *)
(* changes.                                                                *)
EXTENDS Frames

EdgeSizes == {125, 126, 65535, 65536}
=============================================================================
