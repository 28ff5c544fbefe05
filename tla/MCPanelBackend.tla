--------------------------- MODULE MCPanelBackend ---------------------------
(* Instance of PanelBackend for TLC.                                       *)
EXTENDS PanelBackend
=============================================================================
