------------------------------- MODULE Vault -------------------------------
(***************************************************************************)
(* What moving Windows to another store promises, without files, commands  *)
(* or containers: the store that is mounted always has the user's work, if *)
(* any store has it.  The mount moves only to a store with the work, and   *)
(* only a store that is not mounted is emptied.                            *)
(***************************************************************************)

CONSTANT Store

VARIABLES
  holders,   \* the stores with the user's work
  mounted,   \* the store Windows runs from, now or at the next start
  void       \* nothing is promised any more

vault == <<holders, mounted, void>>

Init ==
  /\ mounted \in Store
  /\ holders \in {{}, {mounted}}
  /\ void = FALSE

\* What other stores held is out of date from then on.
Work ==
  /\ mounted \in holders \/ holders = {}
  /\ holders' = {mounted} /\ UNCHANGED mounted

Copy(s) ==
  /\ holders # {}
  /\ holders' = holders \cup {s} /\ UNCHANGED mounted

Move(s) ==
  /\ s \in holders \/ holders = {}
  /\ mounted' = s /\ UNCHANGED holders

Empty(s) ==
  /\ s # mounted
  /\ holders' = holders \ {s} /\ UNCHANGED mounted

\* The user gives the work up.
GiveUp == holders' = {} /\ mounted' \in Store

Kept == Work \/ GiveUp \/ \E s \in Store : Copy(s) \/ Move(s) \/ Empty(s)

\* The promise is void once users or commands got into each other's way.
Next == (Kept /\ UNCHANGED void) \/ void'

Spec == Init /\ [][Next]_vault
=============================================================================
