----------------------------- MODULE MCListener -----------------------------
(* A few file names; the .cfg files give the cap, the ring and the failures.  *)
EXTENDS Listener
=============================================================================
