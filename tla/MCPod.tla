------------------------------- MODULE MCPod -------------------------------
(* Two launches beside the tray; either idle action.                         *)
EXTENDS Pod
=============================================================================
