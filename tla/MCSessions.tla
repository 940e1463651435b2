----------------------------- MODULE MCSessions -----------------------------
(* Two processes beside the tray; the .cfg files bound clients and faults.   *)
EXTENDS Sessions
=============================================================================
