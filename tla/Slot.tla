-------------------------------- MODULE Slot --------------------------------
(***************************************************************************)
(* What the commands around the reverse-open listener promise, without     *)
(* commands, signals or pipes: daemons live one after the other, a new one *)
(* only when none is left; the one that serves is the one on file; and     *)
(* none comes back.                                                        *)
(***************************************************************************)

CONSTANTS
  Daemon,
  Nobody     \* what the file holds when it names no daemon

VARIABLES
  alive,     \* the daemons that live
  serving,   \* those that serve
  ended,     \* those that have lived
  filed      \* the one on file

slot == <<alive, serving, ended, filed>>

Init == alive = {} /\ serving = {} /\ ended = {} /\ filed = Nobody

Fork(d) ==
  /\ alive = {} /\ d \notin ended
  /\ alive' = {d}
  /\ UNCHANGED <<serving, ended, filed>>

Serve(d) ==
  /\ alive = {d} /\ serving = {}
  /\ serving' = {d} /\ filed' = d
  /\ UNCHANGED <<alive, ended>>

\* It may leave the file behind.
End(d) ==
  /\ alive = {d} /\ alive' = {} /\ serving' = {}
  /\ ended' = ended \cup {d}
  /\ filed' \in {filed, Nobody}

\* What a daemon left behind is removed, never the file of one that serves.
Clear == serving = {} /\ filed' = Nobody /\ UNCHANGED <<alive, serving, ended>>

Next == (\E d \in Daemon : Fork(d) \/ Serve(d) \/ End(d)) \/ Clear

Spec == Init /\ [][Next]_slot
=============================================================================
