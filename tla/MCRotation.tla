----------------------------- MODULE MCRotation -----------------------------
(* Host commands that do not overlap, with crashes, failed writes and lost   *)
(* replies.  The instances are in the .cfg files.                            *)
EXTENDS Rotation
=============================================================================
