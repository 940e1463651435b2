----------------------------- MODULE MCCatalog -----------------------------
(* Two apps, the monitor and a refresh.                                      *)
EXTENDS Catalog

\* Bound: of the sweeps the monitor's alone finds associations missing.
OneBackfills == \A s \in Sweepers : at[s] = "patch" => s = Tray
=============================================================================
