------------------------------ MODULE Upgrade ------------------------------
(***************************************************************************)
(* What an installation or an upgrade of the host still owes the guest: the *)
(* list of pending steps (utils/pending.py) and the version stamp in the    *)
(* guest (core/guest_sync.py), under the commands that work them off: the   *)
(* resumption before every command, migrate, install.sh, setup, a start     *)
(* that waits, and sync-guest.  Each runs finish_provisioning or a part of  *)
(* it, and several may run at once.                                         *)
(***************************************************************************)
EXTENDS Naturals, FiniteSets

CONSTANTS
  Clis,        \* commands, each a process that ends
  Gui,         \* the window, a process that stays
  MaxVersion   \* bound: versions of winpodx that are ever installed

ASSUME UpgradeAssumption == Gui \notin Clis /\ MaxVersion \in Nat \ {0}

Procs    == Clis \cup {Gui}
Versions == 1 .. MaxVersion
Steps    == {"wait_ready", "migrate", "discovery"}
NoView   == {"nothing read"}

VARIABLES
  host,     \* version on the host; /oem in the container is a live mount of it
  files,    \* version of the scripts in the guest
  stamp,    \* version in guest_version.json, 0 without one
  guest,    \* "down", RDP alone, or the agent too
  pending,  \* the steps in .pending_setup
  ver,      \* version of the code that a process runs
  job,      \* the command a process runs
  at,       \* where it is in it
  due,      \* steps it is to take off, or to put on, the list; "apply" when the
            \* fixes have not all gone in
  view,     \* the list it has read and not yet written back
  assumed,  \* history: a version was recorded over older scripts that nobody synced,
            \* since there was no stamp or it could not be read
  calm      \* from now on nothing fails, nobody upgrades, and no window is outdated

vars == <<host, files, stamp, guest, pending, ver, job, at, due, view, assumed, calm>>
world == <<host, files, stamp, guest>>
list  == <<pending, view>>

Jobs   == {"none", "resume", "migrate", "upgrade", "setup", "sync"}
Stages == {"idle", "command", "wait", "gate", "provision", "dropWait", "check", "deliver",
           "stamp", "restart", "drop", "add", "sweep"}

TypeOK ==
  /\ host \in Versions /\ files \in Versions /\ stamp \in 0 .. MaxVersion
  /\ guest \in {"down", "rdp", "agent"}
  /\ pending \subseteq Steps
  /\ ver \in [Procs -> Versions] /\ job \in [Procs -> Jobs] /\ at \in [Procs -> Stages]
  /\ due \in [Procs -> SUBSET (Steps \cup {"apply"})]
  /\ view \in [Procs -> (SUBSET Steps) \cup {NoView}]
  /\ assumed \in BOOLEAN /\ calm \in BOOLEAN
  /\ \A p \in Procs : (job[p] = "none") = (at[p] \in {"idle", "command"})

Init ==
  /\ host = 1 /\ files = 1 /\ stamp \in {0, 1} /\ guest = "down"
  /\ pending \in {{}, Steps}
  /\ ver = [p \in Procs |-> 1] /\ job = [p \in Procs |-> "none"]
  /\ at = [p \in Procs |-> "idle"] /\ due = [p \in Procs |-> {}]
  /\ view = [p \in Procs |-> NoView]
  /\ assumed = FALSE /\ calm = FALSE

-----------------------------------------------------------------------------
Go(p, from, to) == at[p] = from /\ at' = [at EXCEPT ![p] = to]
Rough == ~calm

Due(p, steps) == due' = [due EXCEPT ![p] = steps]

\* A process leaves its command, or what it resumed before it.
EndUnmarked(p, from) == Go(p, from, "idle") /\ UNCHANGED job /\ Due(p, {})

End(p, from) ==
  /\ Go(p, from, IF job[p] = "resume" /\ p \in Clis THEN "command" ELSE "idle")
  /\ job' = [job EXCEPT ![p] = "none"] /\ Due(p, {})

\* A step that does not change what the guest or the host has.
OnlyProc == UNCHANGED <<world, list, ver, assumed, calm>>

\* Where a command goes on after the guest's version has been seen to.
Synced(p, from) ==
  CASE job[p] = "resume" -> Go(p, from, "drop") /\ UNCHANGED <<job, due>>
    [] job[p] \in {"migrate", "upgrade"} -> Go(p, from, "add") /\ UNCHANGED <<job, due>>
    [] OTHER -> End(p, from)

Begin(p, j, from, to, steps) ==
  /\ Go(p, from, to) /\ job' = [job EXCEPT ![p] = j] /\ Due(p, steps)
  /\ ver' = [ver EXCEPT ![p] = IF p \in Clis /\ from = "idle" THEN host' ELSE @]
  /\ UNCHANGED <<files, stamp, guest, list, assumed, calm>>

-----------------------------------------------------------------------------
(* How a command begins.                                                   *)

\* _maybe_resume_pending, before any command; the window does the same in a thread.
Resume(p) == pending # {} /\ UNCHANGED host /\ Begin(p, "resume", "idle", "wait", pending)

\* A list that cannot be read passes for none.
Command(p, j, to, steps) ==
  /\ p \in Clis /\ UNCHANGED host
  /\ \/ (pending = {} \/ Rough) /\ Begin(p, j, "idle", to, steps)
     \/ Begin(p, j, "command", to, steps)

Start(p)   == guest # "down" /\ Command(p, "sync", "check", {})
SyncGuest(p) == Rough /\ Command(p, "sync", "deliver", {})
Setup(p)   == Rough /\ Command(p, "setup", "wait", {})

\* At the prompt the user has the scan at once, later, or not at all.
Migrate(p) == Rough /\ \E steps \in {{}, {"discovery"}} : Command(p, "migrate", "wait", steps)

\* install.sh, when it has put the new version in place (see Replace), has it run
\* migrate --non-interactive, which queues the scan.
Install(p) == Rough /\ Command(p, "upgrade", "wait", {"discovery"})

Leave(p) == Rough /\ Go(p, "command", "idle") /\ UNCHANGED <<job, due>> /\ OnlyProc

\* install.sh or a package manager puts a new version in place; a window that is open
\* goes on with the old code.
Replace ==
  /\ Rough /\ host < MaxVersion /\ host' = host + 1
  /\ UNCHANGED <<files, stamp, guest, list, ver, job, at, due, assumed, calm>>

Reopen ==
  /\ at[Gui] = "idle" /\ ver' = [ver EXCEPT ![Gui] = host]
  /\ UNCHANGED <<world, list, job, at, due, assumed, calm>>

-----------------------------------------------------------------------------
(* finish_provisioning                                                     *)

Wait(p) ==
  /\ \/ /\ guest # "down"
        /\ Go(p, "wait", IF job[p] \in {"migrate", "upgrade"} THEN "gate" ELSE "provision")
        /\ UNCHANGED <<job, due>>
     \/ /\ guest = "down"
        /\ CASE job[p] = "resume" -> End(p, "wait")
             [] job[p] = "setup" -> Go(p, "wait", "add") /\ Due(p, {"wait_ready", "discovery"})
                                    /\ UNCHANGED job
             [] OTHER -> Go(p, "wait", "add") /\ UNCHANGED <<job, due>>
  /\ OnlyProc

\* require_agent waits as long as the pod runs.
Gate(p) ==
  /\ \/ guest = "agent" /\ Go(p, "gate", "provision")
     \/ guest = "down" /\ Go(p, "gate", "add")
  /\ UNCHANGED <<job, due>> /\ OnlyProc

\* The window and migrate use the agent only.
Reaches(p) ==
  \/ guest = "agent"
  \/ guest = "rdp" /\ p # Gui /\ job[p] \notin {"migrate", "upgrade"}

\* The fixes, then _run_discovery_with_retry.  With require_agent a pod that stops ends
\* the command.
Provision(p) ==
  LET next == CASE job[p] = "resume" -> "dropWait"
                [] job[p] = "setup" -> "add"
                [] OTHER -> IF guest = "down" THEN "add" ELSE "check"
      fails == Rough \/ guest # "agent"
  IN
  /\ Go(p, "provision", next)
  /\ \E fixed, found \in BOOLEAN :
       /\ ~fixed => fails
       /\ IF found THEN Reaches(p) ELSE fails
       /\ due' = [due EXCEPT ![p] =
            CASE job[p] = "resume" -> (@ \ IF found THEN {} ELSE {"discovery"})
                                      \cup IF fixed THEN {} ELSE {"apply"}
              [] job[p] = "setup" -> IF found THEN {} ELSE {"discovery"}
              [] OTHER -> @]
  /\ UNCHANGED <<job, world, list, ver, assumed, calm>>

-----------------------------------------------------------------------------
(* maybe_autosync and sync_guest                                           *)

CheckNever(p) == Synced(p, "check") /\ UNCHANGED <<world, list, ver, assumed, calm>>

\* Without an answer of the agent, with the stamp its own, or with no stamp to be read,
\* there is nothing to sync; in the last case the version is recorded all the same.
Check(p) ==
  /\ \/ /\ (guest # "agent" \/ Rough) /\ Synced(p, "check") /\ UNCHANGED <<stamp, assumed>>
     \/ /\ guest = "agent" /\ stamp = ver[p] /\ Synced(p, "check") /\ UNCHANGED <<stamp, assumed>>
     \/ /\ guest = "agent" /\ (stamp = 0 \/ Rough) /\ Synced(p, "check")
        /\ \/ stamp' = ver[p] /\ assumed' = (assumed \/ files < ver[p])
           \/ Rough /\ UNCHANGED <<stamp, assumed>>
     \/ /\ guest = "agent" /\ stamp \notin {0, ver[p]}
        /\ Go(p, "check", "deliver") /\ UNCHANGED <<job, due, stamp, assumed>>
  /\ UNCHANGED <<host, files, guest, list, ver, calm>>

\* Mutant: a delivery that failed goes on to the stamp.
DeliverAnyhow(p) ==
  /\ Go(p, "deliver", "stamp") /\ UNCHANGED <<job, due>>
  /\ files' \in {files, host}
  /\ UNCHANGED <<host, stamp, guest, list, ver, assumed, calm>>

\* sync_guest: the stamp is read again, and it may be current by now.  The scripts come
\* first, and nothing after them if they cannot be had, or if the answer that they are
\* there is lost.  A container command that times out is an exception, and the
\* resumption keeps the step; any other failure is a result nobody looks at.
Deliver(p) ==
  /\ \/ guest # "down" /\ stamp = ver[p] /\ UNCHANGED files /\ Synced(p, "deliver")
     \/ /\ guest # "down" /\ (stamp # ver[p] \/ Rough) /\ files' = host
        /\ Go(p, "deliver", "stamp") /\ UNCHANGED <<job, due>>
     \/ /\ (Rough \/ guest # "agent") /\ Synced(p, "deliver")
        /\ UNCHANGED files \/ (guest # "down" /\ files' = host)
     \/ /\ Rough /\ job[p] = "resume" /\ UNCHANGED <<files, job>>
        /\ Go(p, "deliver", "drop") /\ Due(p, due[p] \ {"migrate"})
  /\ UNCHANGED <<host, stamp, guest, list, ver, assumed, calm>>

\* The fixes again, and only with all of them the stamp.
Stamp(p) ==
  /\ Go(p, "stamp", "restart")
  /\ \/ guest # "down" /\ stamp' = ver[p]
     \/ (Rough \/ guest # "agent") /\ UNCHANGED stamp
  /\ UNCHANGED <<job, due, host, files, guest, list, ver, assumed, calm>>

\* The agent is ended by its own successor; the wait for it is bounded.
Restart(p) ==
  /\ Synced(p, "restart")
  /\ guest' = IF guest = "agent" THEN "rdp" ELSE guest
  /\ UNCHANGED <<host, files, stamp, list, ver, assumed, calm>>

-----------------------------------------------------------------------------
(* The list: read, changed, and written, by anybody at any time.           *)

\* The steps that p is to take off or put on the list now, and the one that comes first.
Turn(p) ==
  CASE at[p] = "dropWait" -> due[p] \cap {"wait_ready"}
    [] "apply" \in due[p] -> due[p] \cap {"discovery"}
    [] OTHER -> due[p] \cap Steps

First(p) ==
  {s \in Turn(p) : /\ s = "wait_ready" \/ "wait_ready" \notin Turn(p)
                   /\ s = "discovery" => "migrate" \notin Turn(p)}

\* A file that cannot be read passes for none.
Read(p) ==
  /\ at[p] \in {"dropWait", "drop", "add"} /\ view[p] = NoView /\ Turn(p) # {}
  /\ \/ view' = [view EXCEPT ![p] = pending]
     \/ Rough /\ view' = [view EXCEPT ![p] = {}]
  /\ UNCHANGED <<world, pending, ver, job, at, due, assumed, calm>>

\* write_text empties the file before it fills it.
Truncates(p) == (view[p] # NoView /\ (at[p] = "add" \/ view[p] # {})) \/ at[p] = "sweep"

\* remove_step and add_step, over whatever others have written since.  An absent file is
\* not written, and a write that fails is passed over.
WriteBack(p) ==
  /\ view[p] # NoView /\ view' = [view EXCEPT ![p] = NoView]
  /\ \E s \in First(p) :
       /\ due' = [due EXCEPT ![p] = @ \ {s}]
       /\ \/ at[p] = "add" /\ pending' = view[p] \cup {s}
          \/ at[p] # "add" /\ pending' = IF view[p] = {} THEN pending ELSE view[p] \ {s}
          \/ Rough /\ UNCHANGED pending
          \/ Rough /\ Truncates(p) /\ pending' = {}
  /\ UNCHANGED <<world, ver, job, at, assumed, calm>>

Listed(p) ==
  /\ view[p] = NoView /\ Turn(p) = {}
  /\ \/ /\ Go(p, "dropWait", IF "migrate" \in due[p] THEN "check" ELSE "drop")
        /\ UNCHANGED <<job, due>>
     \/ End(p, "drop")
     \/ job[p] # "upgrade" /\ End(p, "add")
     \/ job[p] = "upgrade" /\ Go(p, "add", "sweep") /\ UNCHANGED <<job, due>>
  /\ OnlyProc

\* The end of install.sh: with migrate's success it removes the list, the scan that
\* migrate has queued included; otherwise it writes all of it.
Sweep(p) ==
  /\ End(p, "sweep")
  /\ pending' = {} \/ (Rough /\ pending' = Steps)
  /\ UNCHANGED <<world, view, ver, assumed, calm>>

-----------------------------------------------------------------------------
(* The guest, the user and the end of a process in mid-command.            *)

Boot ==
  /\ guest # "agent" /\ guest' = IF guest = "down" THEN "rdp" ELSE "agent"
  /\ UNCHANGED <<host, files, stamp, list, ver, job, at, due, assumed, calm>>

Shut ==
  /\ Rough /\ guest # "down" /\ guest' = "down"
  /\ UNCHANGED <<host, files, stamp, list, ver, job, at, due, assumed, calm>>

Crash(p) ==
  /\ Rough /\ at[p] # "idle"
  /\ at' = [at EXCEPT ![p] = "idle"] /\ job' = [job EXCEPT ![p] = "none"]
  /\ Due(p, {}) /\ view' = [view EXCEPT ![p] = NoView]
  /\ UNCHANGED pending \/ (Truncates(p) /\ pending' = {})
  /\ UNCHANGED <<world, ver, assumed, calm>>

\* A window older than the command line would call the guest outdated after each sync of
\* the other, and the two would go on for ever.
Settle ==
  /\ Rough /\ \A p \in Procs : at[p] = "idle" /\ (p = Gui => ver[p] = host)
  /\ calm' = TRUE
  /\ UNCHANGED <<world, list, ver, job, at, due, assumed>>

-----------------------------------------------------------------------------
Work(p) ==
  \/ Wait(p) \/ Gate(p) \/ Provision(p) \/ Check(p) \/ Deliver(p) \/ Stamp(p) \/ Restart(p)
  \/ Read(p) \/ WriteBack(p) \/ Listed(p) \/ Sweep(p)

Open(p) == Resume(p) \/ Start(p)

Next ==
  \/ \E p \in Procs : Open(p) \/ Work(p) \/ SyncGuest(p) \/ Setup(p) \/ Migrate(p) \/ Install(p)
                      \/ Leave(p) \/ Crash(p)
  \/ Replace \/ Reopen \/ Boot \/ Shut \/ Settle

\* Commands go on, the user opens others, and a guest that nobody stops boots.
Fairness == WF_vars(Boot) /\ \A p \in Procs : WF_vars(Work(p) \/ Open(p))

Spec == Init /\ [][Next]_vars /\ Fairness

-----------------------------------------------------------------------------
(* Properties.                                                             *)

\* A stamp vouches for the scripts, whichever commands ran, failed and died at once,
\* unless a version was recorded over older scripts that nobody synced: where there was
\* no stamp, and where it could not be read.
StampTrue == ~assumed => stamp <= files

\* Once nothing fails any more the list empties, though commands write it over each other
\* and bring back steps that were done, and the guest gets the host's scripts, whatever
\* was lost from the list; unless an old version was passed off as the host's.
Settled ==
  []<>(calm => pending = {} /\ (files = host \/ assumed))
=============================================================================
