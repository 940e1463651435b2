----------------------------- MODULE Credential -----------------------------
(***************************************************************************)
(* What password rotation promises, without files, commands or failures:   *)
(* the host knows a window of candidate passwords that always holds the    *)
(* one in force; a window opens on one new password at a time and only     *)
(* closes on the password in force.                                        *)
(***************************************************************************)

CONSTANT Password

VARIABLES
  inForce,   \* the password the account accepts
  window     \* the passwords the host has on record for it

Init == inForce \in Password /\ window = {inForce}

\* A new password is announced before it is used.
Propose(n) ==
  /\ window = {inForce}
  /\ window' = {inForce, n}
  /\ UNCHANGED inForce

\* The account moves within the window.
Switch == inForce' \in window /\ UNCHANGED window

\* The window closes on what is in force.
Settle == window' = {inForce} /\ UNCHANGED inForce

Next == (\E n \in Password : Propose(n)) \/ Switch \/ Settle

Spec == Init /\ [][Next]_<<inForce, window>>
=============================================================================
