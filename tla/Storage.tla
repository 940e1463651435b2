------------------------------ MODULE Storage ------------------------------
(***************************************************************************)
(* Where Windows lives: the named volume of old installations or a bind     *)
(* mount.  winpodx.toml says which, compose.yaml says it to the container,  *)
(* and the migration (core/storage_migration.py), setup, recreate and       *)
(* wipe (cli), and disk growth (core/disk.py) write both, a step at a time, *)
(* while the user starts and stops the pod and works in it.                 *)
(***************************************************************************)
CONSTANTS
  Admins,   \* commands and windows that load winpodx.toml as they begin
  Tray      \* the tray, whose idle monitor goes on with what it loaded at its start

ASSUME StorageAssumption == Tray \notin Admins

Procs  == Admins \cup {Tray}
Stores == {"volume", "bind"}

VARIABLES
  path,      \* cfg.pod.storage_path in winpodx.toml: "volume" when it is empty
  compose,   \* the store compose.yaml mounts
  box,       \* the store the container was made with, "none" without a container
  run,       \* it runs
  disk,      \* what a store holds: nothing, a torn copy, Windows without the user's
             \* last work, or with it
  pc,        \* where a process is in its command
  mine,      \* the storage_path in a process's Config
  owned,     \* history: there is work the user has not given up
  slips      \* history: "disturbed": somebody worked on a store that was being copied or
             \* had been, or two migrations met; "apart": a stale Config was written back,
             \* a volume was not seen, or work was done in a store that the container and
             \* the two files do not all name

vars == <<path, compose, box, run, disk, pc, mine, owned, slips>>

Holds  == {"none", "part", "old", "cur"}
Copying == {"down", "copy", "copying", "save", "compose", "ensure", "remove"}
Places == {"idle", "halt", "haltWipe", "wipe", "regen", "up",
           "grow", "growSave", "remake", "clear", "raise", "keep"} \cup Copying
Slips  == {"disturbed", "apart"}

TypeOK ==
  /\ path \in Stores /\ compose \in Stores
  /\ box \in Stores \cup {"none"} /\ run \in BOOLEAN /\ (run => box # "none")
  /\ disk \in [Stores -> Holds]
  /\ pc \in [Procs -> Places] /\ mine \in [Procs -> Stores]
  /\ owned \in BOOLEAN /\ slips \subseteq Slips

Init ==
  /\ path \in Stores /\ compose = path
  /\ box \in {"none", path} /\ run = FALSE
  /\ owned \in BOOLEAN
  /\ disk = [s \in Stores |-> IF owned /\ s = path THEN "cur" ELSE "none"]
  /\ pc = [p \in Procs |-> "idle"] /\ mine = [p \in Procs |-> path]
  /\ slips = {}

-----------------------------------------------------------------------------
Goto(p, from, to) == pc[p] = from /\ pc' = [pc EXCEPT ![p] = to]
Slip(wrong) == slips' = slips \cup wrong

\* Two migrations meet.
Meets(p) == IF \E q \in Procs \ {p} : pc[q] \in Copying THEN {"disturbed"} ELSE {}

\* What p writes takes back a switch to the bind mount that came after it loaded, or
\* completes one of its own that has been taken back.
Stale(p) == IF \/ mine[p] = "volume" /\ path = "bind"
               \/ pc[p] = "keep" /\ compose # mine[p] THEN {"apart"} ELSE {}

\* It switches to the bind mount and leaves a volume with the work behind.
Unseen(p) == IF mine[p] = "bind" /\ path = "volume" /\ disk["volume"] = "cur"
             THEN {"apart"} ELSE {}

Lost == \A s \in Stores : disk[s] # "cur"

\* compose up: a container made with another store is made again.
Boot == box' = compose /\ run' = TRUE

ComposeStop == run' \in {run, FALSE} /\ UNCHANGED box
ComposeDownOnly == box' = "none" /\ UNCHANGED run

ComposeDown == box' = "none" /\ run' = FALSE

Begin(p, to) == /\ pc[p] = "idle" /\ p \in Admins
                /\ mine' = [mine EXCEPT ![p] = path]
                /\ pc' = [pc EXCEPT ![p] = to]
                /\ UNCHANGED <<path, compose, box, run, disk, owned, slips>>

Written == UNCHANGED <<path, compose>>
Data    == UNCHANGED <<disk, owned>>

-----------------------------------------------------------------------------
(* execute_migration                                                       *)

PlanAny(p) == disk["volume"] # "none" /\ Begin(p, "down")

\* plan_migration: a volume to copy, and an empty target.
Plan(p) == disk["volume"] # "none" /\ disk["bind"] = "none" /\ Begin(p, "down")

\* A `compose down` that fails with "no such" or "not found" passes for a pod at rest.
Down(p) ==
  /\ \/ ComposeDown /\ Goto(p, "down", "copy")
     \/ UNCHANGED <<box, run>> /\ (Goto(p, "down", "copy") \/ Goto(p, "down", "idle"))
  /\ Slip(Meets(p)) /\ UNCHANGED mine /\ Written /\ Data

Copy(p) ==
  /\ Goto(p, "copy", "copying")
  /\ disk' = [disk EXCEPT !["bind"] = "part"]
  /\ Slip(Meets(p)) /\ UNCHANGED <<box, run, mine, owned>> /\ Written

\* Mutant: a copy that was cut short passes for a whole one.
CopiedTorn(p) ==
  /\ Goto(p, "copying", "save") /\ UNCHANGED disk
  /\ Slip(Meets(p)) /\ UNCHANGED <<box, run, mine, owned>> /\ Written

\* What was written to meanwhile is copied torn.
Copied(p) ==
  /\ \/ /\ Goto(p, "copying", "save")
        /\ \E got \in {disk["volume"]} \cup IF "disturbed" \in slips THEN {"part"} ELSE {} :
             disk' = [disk EXCEPT !["bind"] = got]
     \/ /\ Goto(p, "copying", "idle")
        /\ disk' = [disk EXCEPT !["bind"] = "none"]
  /\ Slip(Meets(p)) /\ UNCHANGED <<box, run, mine, owned>> /\ Written

Save(p) ==
  /\ \/ /\ Goto(p, "save", "compose")
        /\ path' = "bind" /\ mine' = [mine EXCEPT ![p] = "bind"]
     \/ Goto(p, "save", "idle") /\ UNCHANGED <<path, mine>>
  /\ UNCHANGED <<compose, box, run, slips>> /\ Data

\* Mutant: the target is cleaned up after this failure, too.
RegenerateCleansUp(p) ==
  /\ \/ Goto(p, "compose", "ensure") /\ compose' = mine[p] /\ Slip(Stale(p)) /\ UNCHANGED disk
     \/ /\ Goto(p, "compose", "idle") /\ UNCHANGED <<compose, slips>>
        /\ disk' = [disk EXCEPT !["bind"] = "none"]
  /\ UNCHANGED <<path, box, run, mine, owned>>

\* A failure leaves the new path saved, and the compose file with the old store.
Regenerate(p) ==
  /\ \/ Goto(p, "compose", "ensure") /\ compose' = mine[p] /\ Slip(Stale(p))
     \/ Goto(p, "compose", "idle") /\ UNCHANGED <<compose, slips>>
  /\ UNCHANGED <<path, box, run, mine>> /\ Data

\* ensure_ready: a pod that answers is taken as it is.
Ensure(p) ==
  /\ \/ run /\ Goto(p, "ensure", "remove") /\ UNCHANGED <<box, run>>
     \/ ~run /\ Boot /\ (Goto(p, "ensure", "remove") \/ Goto(p, "ensure", "idle"))
     \/ UNCHANGED <<box, run>> /\ Goto(p, "ensure", "idle")
  /\ UNCHANGED <<mine, slips>> /\ Written /\ Data

\* The runtime keeps a volume that a container was made with.
Remove(p) ==
  /\ Goto(p, "remove", "idle")
  /\ \/ box # "volume" /\ disk' = [disk EXCEPT !["volume"] = "none"]
     \/ UNCHANGED disk
  /\ UNCHANGED <<box, run, mine, owned, slips>> /\ Written

-----------------------------------------------------------------------------
(* pod recreate, with or without --wipe-storage, and pod reset.            *)

Recreate(p) == Begin(p, "halt") \/ Begin(p, "haltWipe")

Halt(p) ==
  /\ Goto(p, "halt", "regen") \/ Goto(p, "haltWipe", "wipe")
  /\ ComposeStop /\ UNCHANGED <<mine, slips>> /\ Written /\ Data

\* The user has agreed to lose Windows.  A volume is removed by its bare name, which
\* compose may not have given it; of a directory some files may stay.
Wipe(p) ==
  /\ Goto(p, "wipe", "regen")
  /\ LET left == [s \in Stores |-> IF disk[s] = "cur" THEN "old" ELSE disk[s]] IN
     \/ /\ mine[p] = "volume" /\ disk' = [left EXCEPT !["volume"] = "none"]
        /\ \/ UNCHANGED <<box, run>>
           \/ box = "volume" /\ ComposeDown
     \/ disk' = left /\ UNCHANGED <<box, run>>
     \/ /\ mine[p] = "bind" /\ UNCHANGED <<box, run>>
        /\ disk' = [left EXCEPT !["bind"] = "none"] \/ disk' = [left EXCEPT !["bind"] = "part"]
  /\ owned' = FALSE
  /\ UNCHANGED <<mine, slips>> /\ Written

Regen(p) ==
  /\ \/ Goto(p, "regen", "up") /\ compose' = mine[p] /\ Slip(Stale(p))
     \/ Goto(p, "regen", "idle") /\ UNCHANGED <<compose, slips>>
  /\ UNCHANGED <<path, box, run, mine>> /\ Data

Up(p) ==
  /\ Goto(p, "up", "idle")
  /\ Boot \/ UNCHANGED <<box, run>>
  /\ UNCHANGED <<mine, slips>> /\ Written /\ Data

-----------------------------------------------------------------------------
(* handle_setup                                                            *)

\* _decide_storage_mode: without a path and without a volume it takes the bind mount.
\* Docker has no `volume exists`, and a probe can time out.
Setup(p) ==
  /\ pc[p] = "idle" /\ p \in Admins
  /\ \/ mine' = [mine EXCEPT ![p] = path]
     \/ path = "volume" /\ disk["bind"] = "none" /\ mine' = [mine EXCEPT ![p] = "bind"]
  /\ pc' = [pc EXCEPT ![p] = "remake"]
  /\ UNCHANGED <<path, compose, box, run, disk, owned, slips>>

Remake(p) ==
  /\ Goto(p, "remake", "clear") /\ compose' = mine[p]
  /\ Slip(Stale(p) \cup Unseen(p)) /\ UNCHANGED <<path, box, run, mine>> /\ Data

\* _recreate_container: a failed down is reported and passed over.
Clear(p) ==
  /\ Goto(p, "clear", "raise") /\ (ComposeDown \/ UNCHANGED <<box, run>>)
  /\ UNCHANGED <<mine, slips>> /\ Written /\ Data

Raise(p) ==
  /\ \/ Goto(p, "raise", "keep") /\ Boot
     \/ Goto(p, "raise", "idle") /\ UNCHANGED <<box, run>>
  /\ UNCHANGED <<mine, slips>> /\ Written /\ Data

Keep(p) ==
  /\ Goto(p, "keep", "idle") /\ path' = mine[p]
  /\ Slip(Stale(p)) /\ UNCHANGED <<compose, box, run, mine>> /\ Data

-----------------------------------------------------------------------------
(* grow_disk                                                               *)

TrayStart ==
  /\ pc[Tray] = "idle" /\ mine' = [mine EXCEPT ![Tray] = path]
  /\ UNCHANGED <<path, compose, box, run, pc, slips>> /\ Data

Grow(p) ==
  \/ Begin(p, "grow")
  \/ /\ p = Tray /\ Goto(Tray, "idle", "grow")
     /\ UNCHANGED <<path, compose, box, run, mine, slips>> /\ Data

GrowStop(p) ==
  /\ Goto(p, "grow", "growSave")
  /\ ComposeStop /\ UNCHANGED <<mine, slips>> /\ Written /\ Data

\* The whole Config is saved, not the size alone; then as in a recreate, whose
\* rollback writes the same store again.
GrowSave(p) ==
  /\ Goto(p, "growSave", "regen") /\ path' = mine[p]
  /\ Slip(Stale(p)) /\ UNCHANGED <<compose, box, run, mine>> /\ Data

-----------------------------------------------------------------------------
(* The user, Windows, and the end of a process in mid-command.             *)

UserUp == Boot /\ UNCHANGED <<pc, mine, slips>> /\ Written /\ Data

UserStop == ComposeStop /\ UNCHANGED <<pc, mine, slips>> /\ Written /\ Data

\* Where a migration must not be worked beside, by the store that is worked in.
Delicate == [volume |-> {"copying", "save", "compose", "ensure", "remove"},
             bind   |-> {"down", "copy", "copying"}]

\* Work in the guest, or its installation on an empty store.
Work ==
  /\ run
  /\ \/ /\ disk[box] = "cur" \/ Lost
        /\ disk' = [s \in Stores |-> CASE s = box -> "cur"
                                       [] s # box /\ disk[s] = "cur" -> "old"
                                       [] OTHER -> disk[s]]
        /\ owned' = TRUE
     \/ /\ ~Lost /\ disk[box] = "none"
        /\ disk' = [disk EXCEPT ![box] = "old"] /\ UNCHANGED owned
  /\ Slip((IF \E q \in Procs : pc[q] \in Delicate[box] THEN {"disturbed"} ELSE {})
          \cup IF box # compose \/ compose # path THEN {"apart"} ELSE {})
  /\ UNCHANGED <<box, run, pc, mine>> /\ Written

Crash(p) ==
  /\ pc[p] # "idle" /\ pc' = [pc EXCEPT ![p] = "idle"]
  /\ UNCHANGED <<path, compose, box, run, disk, mine, owned, slips>>

-----------------------------------------------------------------------------
Migrate(p) == Plan(p) \/ Down(p) \/ Copy(p) \/ Copied(p) \/ Save(p) \/ Regenerate(p)
              \/ Ensure(p) \/ Remove(p)
Pod(p)     == Recreate(p) \/ Halt(p) \/ Wipe(p) \/ Regen(p) \/ Up(p)
Install(p) == Setup(p) \/ Remake(p) \/ Clear(p) \/ Raise(p) \/ Keep(p)
Growth(p)  == Grow(p) \/ GrowStop(p) \/ GrowSave(p)

Next ==
  \/ \E p \in Procs : Migrate(p) \/ Pod(p) \/ Install(p) \/ Growth(p) \/ Crash(p)
  \/ TrayStart \/ UserUp \/ UserStop \/ Work

Spec == Init /\ [][Next]_vars

-----------------------------------------------------------------------------
(* Properties.                                                             *)

\* The user's work survives every crash and failure in every command, unless the user
\* gave it up, or somebody worked beside a migration or started a second one.
Kept == owned /\ "disturbed" \notin slips => ~Lost

\* In the middle of a command, and after any failure and crash in it, the next one finds
\* the work whether it goes by winpodx.toml or by compose.yaml, and so does the pod that
\* runs: the two files may name different stores, but each that is named has the work.
\* (Not claimed once the user has worked on while they differ, see slips.)
Found ==
  slips = {} /\ ~Lost =>
    disk[path] = "cur" /\ disk[compose] = "cur" /\ (run => disk[box] = "cur")

\* grow_disk "bumps disk_size": it takes back no other setting.
GrowOnlyGrows == [][\A p \in Procs :
  pc[p] = "growSave" /\ pc'[p] = "regen" => path' = path]_vars
-----------------------------------------------------------------------------
(* Refinement: the store the container runs from is mounted, or else the one *)
(* that compose.yaml names.                                                  *)

Holders == {s \in Stores : disk[s] = "cur"}
Mounted == IF run THEN box ELSE compose

V == INSTANCE Vault WITH
       Store   <- Stores,
       holders <- Holders,
       mounted <- Mounted,
       void    <- slips # {}

\* The commands implement Vault until something slips: through every failure and crash,
\* and though the pod may run all the while, the mount moves only to a store with the
\* work, and only what is not mounted is emptied.
RefinesVault == V!Spec
=============================================================================
