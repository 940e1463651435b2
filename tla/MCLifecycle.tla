---------------------------- MODULE MCLifecycle -----------------------------
(* Two host processes; the .cfg files say whether their commands overlap.    *)
EXTENDS Lifecycle
=============================================================================
