----------------------------- MODULE MCChannel -----------------------------
(* Two threads of one process and a command beside it.                      *)
EXTENDS Channel, TLC

CONSTANTS c1, c2, c3, gui, cli

MCHome == (c1 :> gui) @@ (c2 :> gui) @@ (c3 :> cli)

\* Bounds: the command is resync-token, and one script at a time goes on unattended.
Claimed ==
  /\ job[c3] = "resync" \/ at[c3] = "idle"
  /\ \A s, t \in late : s = t
=============================================================================
