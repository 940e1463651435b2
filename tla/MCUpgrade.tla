----------------------------- MODULE MCUpgrade -----------------------------
(* One upgrade, a command and the window.                                    *)
EXTENDS Upgrade

\* The parts of a command's work after it has waited for the guest.
Parts == {{"gate", "provision"}, {"check", "deliver", "stamp", "restart"},
          {"dropWait", "drop", "add", "sweep"}}

\* Nothing is claimed any more where an old version was passed off as the host's.
\* Bounds: two commands past the wait are in the same part of their work; setup runs on a
\* new guest only and with the window at rest, migrate on an upgraded host; only the
\* first version's guest is ever without a stamp.
Claimed ==
  /\ ~assumed
  /\ \A p, q \in Procs : \A a, b \in Parts : at[p] \in a /\ at[q] \in b => a = b
  /\ \A p \in Procs : /\ job[p] = "setup" => host = 1 /\ stamp = 0 /\ at[Gui] = "idle"
                      /\ job[p] \in {"migrate", "upgrade"} => host = MaxVersion
  /\ stamp = 0 => host = 1
=============================================================================
