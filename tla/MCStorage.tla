----------------------------- MODULE MCStorage -----------------------------
(* Two commands beside the tray.                                             *)
EXTENDS Storage

\* After a disturbance nothing is claimed any more.
Claimed == "disturbed" \notin slips
=============================================================================
