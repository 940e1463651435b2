----------------------------- MODULE Lifecycle ------------------------------
(***************************************************************************)
(* Starting, stopping and reloading the reverse-open listener:             *)
(* reverse_open/lifecycle.py and its callers (`pod start`, every app       *)
(* launch, the tray, `host-open start-listener | stop-listener | refresh`).*)
(*                                                                         *)
(* A command finds the daemon through a pid file that the daemon writes    *)
(* and removes itself.  No lock orders the commands.                       *)
(***************************************************************************)
EXTENDS Naturals

CONSTANTS
  Procs,        \* host processes that run commands
  Overlap,      \* TRUE: commands may run at the same time
  Commands,     \* which of "start", "stop", "refresh" are run
  MaxDaemons,   \* bound: daemons ever forked
  MaxManifest,  \* bound: manifests ever written
  MaxFaults     \* bound: daemons that die or fail their preflight, failed reads

ASSUME LifecycleAssumption ==
  /\ Overlap \in BOOLEAN
  /\ Commands \subseteq {"start", "stop", "refresh"}
  /\ MaxDaemons \in Nat /\ MaxManifest \in Nat /\ MaxFaults \in Nat

VARIABLES
  pidFile,   \* the daemon in the pid file, or NoPid
  state,     \* how far each daemon has come
  apps,      \* the manifest each daemon has loaded, 0 for an empty database
  term, hup, \* signals it has not handled yet
  ready,     \* daemons that have written OK to their parent's pipe
  manifest,  \* apps.json
  pc,        \* where each command is
  cmd,       \* what it runs
  target,    \* the pid it read, or the daemon it forked
  faults     \* failures so far

commands == <<pc, cmd, target>>
daemons  == <<state, apps, term, hup, ready>>
vars     == <<pidFile, state, apps, term, hup, ready, manifest, pc, cmd, target, faults>>

Pid   == 1 .. MaxDaemons
NoPid == 0

\* "born": forked; "loaded": preflight passed; "filed": in the pid file, signal
\* handlers not set; "wired": handlers set; "running": polling.  A "clone" met an
\* exception before it became a daemon: it returns from start_listener as a
\* second copy of the command that forked it.
Unwired == {"born", "loaded", "filed"}
Wired   == {"wired", "running"}

Labels == {"idle", "check", "unstale", "fork", "wait", "confirm", "unconfirm",
           "term", "grace", "kill", "clean", "hup"}

TypeOK ==
  /\ pidFile \in Pid \cup {NoPid}
  /\ state \in [Pid -> {"none", "dead", "clone"} \cup Unwired \cup Wired]
  /\ apps \in [Pid -> 0 .. MaxManifest]
  /\ term \in SUBSET Pid /\ hup \in SUBSET Pid /\ ready \in SUBSET Pid
  /\ manifest \in 0 .. MaxManifest
  /\ pc \in [Procs -> Labels]
  /\ cmd \in [Procs -> {"start", "stop", "refresh"}]
  /\ target \in [Procs -> Pid \cup {NoPid}]
  /\ faults \in 0 .. MaxFaults

Init ==
  /\ pidFile = NoPid
  /\ state = [d \in Pid |-> "none"]
  /\ apps = [d \in Pid |-> 0]
  /\ term = {} /\ hup = {} /\ ready = {}
  /\ manifest = 0
  /\ pc = [p \in Procs |-> "idle"]
  /\ cmd = [p \in Procs |-> "start"]
  /\ target = [p \in Procs |-> NoPid]
  /\ faults = 0

-----------------------------------------------------------------------------
Alive(d) == d \in Pid /\ state[d] \in Unwired \cup Wired \cup {"clone"}
At(p, l) == pc[p] = l
Step(p, from, to) == At(p, from) /\ pc' = [pc EXCEPT ![p] = to]
Set(d, s) == state' = [state EXCEPT ![d] = s]
Fault == faults < MaxFaults /\ faults' = faults + 1

\* AppsDatabase.load: a manifest that is missing, cannot be read or is no manifest
\* makes an empty database.
LoadApps(d) ==
  \/ apps' = [apps EXCEPT ![d] = manifest] /\ UNCHANGED faults
  \/ apps' = [apps EXCEPT ![d] = 0] /\ Fault

\* A signal to a daemon whose handlers are not set ends it; otherwise it is
\* handled between two bytecodes.
SignalTo(d, sig) ==
  IF state[d] \in Unwired
  THEN Set(d, "dead") /\ UNCHANGED <<term, hup>>
  ELSE /\ term' = IF sig = "TERM" THEN term \cup {d} ELSE term
       /\ hup' = IF sig = "HUP" THEN hup \cup {d} ELSE hup
       /\ UNCHANGED state

-----------------------------------------------------------------------------
(* The daemon: _daemon_main.                                               *)

\* Mutant: a daemon whose preflight failed is left behind.
LoadAndLinger(d) ==
  /\ state[d] = "born"
  /\ \/ Set(d, "loaded") /\ LoadApps(d)
     \/ Set(d, "failed") /\ UNCHANGED apps /\ Fault
  /\ UNCHANGED <<pidFile, term, hup, ready, manifest, commands>>

\* Only a failed preflight is reported to the parent; an exception before it (the
\* log file, the ring) is not caught.
Load(d) ==
  /\ state[d] = "born"
  /\ \/ Set(d, "loaded") /\ LoadApps(d)
     \/ \E s \in {"dead", "clone"} : Set(d, s) /\ UNCHANGED apps /\ Fault
  /\ UNCHANGED <<pidFile, term, hup, ready, manifest, commands>>

\* Mutant: the pid file is not written.
NoPidFile(d) ==
  /\ state[d] = "loaded" /\ Set(d, "filed")
  /\ UNCHANGED <<pidFile, apps, term, hup, ready, manifest, commands, faults>>

WritePid(d) ==
  /\ state[d] = "loaded"
  /\ \/ Set(d, "filed") /\ pidFile' = d /\ UNCHANGED faults
     \/ Set(d, "clone") /\ UNCHANGED pidFile /\ Fault
  /\ UNCHANGED <<apps, term, hup, ready, manifest, commands>>

\* The second copy carries the rest of the command out, and only then closes
\* the pipe.
CloneEnds(d) ==
  /\ state[d] = "clone" /\ Set(d, "dead")
  /\ UNCHANGED <<pidFile, apps, term, hup, ready, manifest, commands, faults>>

Wire(d) ==
  /\ state[d] = "filed" /\ Set(d, "wired")
  /\ UNCHANGED <<pidFile, apps, term, hup, ready, manifest, commands, faults>>

SendReady(d) ==
  /\ state[d] = "wired" /\ Set(d, "running")
  /\ ready' = ready \cup {d}
  /\ UNCHANGED <<pidFile, apps, term, hup, manifest, commands, faults>>

\* _sighup
Reload(d) ==
  /\ d \in hup /\ state[d] \in Wired
  /\ hup' = hup \ {d}
  /\ LoadApps(d)
  /\ UNCHANGED <<pidFile, state, term, ready, manifest, commands>>

\* _sigterm ends run_forever; the daemon removes the pid file, whoever's it is.
Exit(d) ==
  /\ d \in term /\ state[d] = "running"
  /\ Set(d, "dead")
  /\ pidFile' = NoPid
  /\ UNCHANGED <<apps, term, hup, ready, manifest, commands, faults>>

\* It dies, or run_forever raises and the pid file is removed.
Die(d) ==
  /\ Alive(d) /\ Set(d, "dead")
  /\ \/ UNCHANGED pidFile
     \/ state[d] = "running" /\ pidFile' = NoPid
  /\ Fault
  /\ UNCHANGED <<apps, term, hup, ready, manifest, commands>>

-----------------------------------------------------------------------------
(* The commands.                                                           *)

Begin(p, c) ==
  /\ At(p, "idle")
  /\ Overlap \/ \A q \in Procs : pc[q] = "idle"
  /\ pc' = [pc EXCEPT ![p] = "check"]
  /\ cmd' = [cmd EXCEPT ![p] = c]
  /\ IF c = "refresh"
     THEN manifest < MaxManifest /\ manifest' = manifest + 1
     ELSE UNCHANGED manifest
  /\ UNCHANGED <<pidFile, daemons, target, faults>>

\* is_listener_running
Check(p) ==
  /\ At(p, "check")
  /\ target' = [target EXCEPT ![p] = pidFile]
  /\ pc' = [pc EXCEPT ![p] =
       IF pidFile = NoPid THEN IF cmd[p] = "start" THEN "fork" ELSE "idle"
       ELSE IF ~Alive(pidFile) THEN "unstale"
       ELSE CASE cmd[p] = "start" -> "idle"
              [] cmd[p] = "stop" -> "term"
              [] OTHER -> "hup"]
  /\ UNCHANGED <<pidFile, daemons, manifest, cmd, faults>>

\* The stale file is removed by name: it may be another one by now.
Unstale(p) ==
  /\ \/ Step(p, "unstale", IF cmd[p] = "start" THEN "fork" ELSE "idle")
     \/ Step(p, "unconfirm", "confirm")
  /\ pidFile' = NoPid
  /\ UNCHANGED <<daemons, manifest, cmd, target, faults>>

Spare == {d \in Pid : state[d] = "none"}

Fork(p) ==
  /\ \/ \E d \in Spare :
          /\ \A e \in Spare : d <= e
          /\ Step(p, "fork", "wait")
          /\ target' = [target EXCEPT ![p] = d]
          /\ Set(d, "born")
          /\ UNCHANGED faults
     \/ /\ Step(p, "fork", "idle")
        /\ IF Spare = {} THEN UNCHANGED faults ELSE Fault
        /\ UNCHANGED <<state, target>>
  /\ UNCHANGED <<pidFile, apps, term, hup, ready, manifest, cmd>>

\* Mutant: the parent does not wait for the daemon.
NoWait(p) ==
  /\ Step(p, "wait", "idle")
  /\ UNCHANGED <<pidFile, daemons, manifest, cmd, target, faults>>

\* Mutant: the parent keeps the write end of the pipe open.
WaitForOK(p) ==
  /\ Step(p, "wait", "confirm") /\ target[p] \in ready
  /\ UNCHANGED <<pidFile, daemons, manifest, cmd, target, faults>>

\* os.read on the pipe blocks until the daemon writes or is gone.
Wait(p) ==
  /\ \/ Step(p, "wait", "confirm") /\ target[p] \in ready
     \/ Step(p, "wait", "idle") /\ target[p] \notin ready /\ ~Alive(target[p])
  /\ UNCHANGED <<pidFile, daemons, manifest, cmd, target, faults>>

\* Up to 50 looks at the pid file.
Confirm(p) ==
  /\ \/ pidFile # NoPid /\ Alive(pidFile) /\ Step(p, "confirm", "idle")
     \/ pidFile # NoPid /\ ~Alive(pidFile) /\ Step(p, "confirm", "unconfirm")
     \/ pidFile = NoPid /\ Step(p, "confirm", "idle")
  /\ UNCHANGED <<pidFile, daemons, manifest, cmd, target, faults>>

\* stop_listener
Terminate(p) ==
  /\ At(p, "term")
  /\ IF Alive(target[p])
     THEN Step(p, "term", "grace") /\ SignalTo(target[p], "TERM")
     ELSE Step(p, "term", "clean") /\ UNCHANGED <<state, term, hup>>
  /\ UNCHANGED <<pidFile, apps, ready, manifest, cmd, target, faults>>

\* Mutant: the grace period is not waited for.
NoGrace(p) ==
  /\ Step(p, "grace", "clean")
  /\ UNCHANGED <<pidFile, daemons, manifest, cmd, target, faults>>

\* Five seconds; a daemon busy with a slow mount may need longer.
Grace(p) ==
  /\ At(p, "grace")
  /\ IF Alive(target[p]) THEN Step(p, "grace", "kill") ELSE Step(p, "grace", "clean")
  /\ UNCHANGED <<pidFile, daemons, manifest, cmd, target, faults>>

Kill(p) ==
  /\ Step(p, "kill", "clean")
  /\ IF Alive(target[p]) THEN Set(target[p], "dead") ELSE UNCHANGED state
  /\ UNCHANGED <<pidFile, apps, term, hup, ready, manifest, cmd, target, faults>>

Clean(p) ==
  /\ Step(p, "clean", "idle")
  /\ pidFile' = NoPid
  /\ UNCHANGED <<daemons, manifest, cmd, target, faults>>

\* Mutant: the reload signal is forgotten.
NoHangUp(p) ==
  /\ Step(p, "hup", "idle")
  /\ UNCHANGED <<pidFile, daemons, manifest, cmd, target, faults>>

\* reload_apps_db
HangUp(p) ==
  /\ Step(p, "hup", "idle")
  /\ IF Alive(target[p]) THEN SignalTo(target[p], "HUP") ELSE UNCHANGED <<state, term, hup>>
  /\ UNCHANGED <<pidFile, apps, ready, manifest, cmd, target, faults>>

Run(p) ==
  \/ Check(p) \/ Unstale(p) \/ Fork(p) \/ Wait(p) \/ Confirm(p)
  \/ Terminate(p) \/ Grace(p) \/ Kill(p) \/ Clean(p) \/ HangUp(p)

Live(d) ==
  Load(d) \/ WritePid(d) \/ CloneEnds(d) \/ Wire(d) \/ SendReady(d) \/ Reload(d) \/ Exit(d)

Next ==
  \/ \E p \in Procs : Run(p) \/ \E c \in Commands : Begin(p, c)
  \/ \E d \in Pid : Live(d) \/ Die(d)

Spec == Init /\ [][Next]_vars

\* A command runs until it ends; a daemon that is told something does it.
FairCommands == Spec /\ \A p \in Procs : WF_vars(Run(p))
FairSpec     == FairCommands /\ \A d \in Pid : WF_vars(Live(d))

-----------------------------------------------------------------------------
Serving(d) == state[d] \in {"filed", "wired", "running"}
Resting    == \A p \in Procs : pc[p] = "idle"

\* A daemon that serves while no command is under way is the one in the pid
\* file: otherwise nobody could stop it, and the next launch would start one more.
Findable == Resting => \A d \in Pid : Serving(d) => pidFile = d

\* When a stop command returns, no listener is left.
StopStops ==
  [][\A p \in Procs : cmd[p] = "stop" /\ pc[p] # "idle" /\ pc'[p] = "idle" =>
       \A d \in Pid : ~Serving(d)']_vars

\* A running listener does not go on with the apps of an older manifest: a refresh
\* brings it the new ones, or leaves it none at all if it cannot read them.
Refreshed ==
  \A d \in Pid : state[d] = "running" /\ apps[d] \notin {0, manifest}
                   ~> state[d] = "dead" \/ apps[d] \in {0, manifest}

\* A refresh makes a daemon reload "without restarting the daemon"
\* (lifecycle.py:34): it never ends one.
RefreshSpares ==
  [][\A p \in Procs : HangUp(p) => \A d \in Pid : Alive(d) => Alive(d)']_vars

\* The parent's read of the pipe ends, if the daemon gets on: os.read blocks, so
\* that the five seconds of lifecycle.py:22 do not end it.
StartReturns == \A p \in Procs : At(p, "wait") ~> ~At(p, "wait")
-----------------------------------------------------------------------------
(* Refinement: the pid file names the daemon that has the slot.               *)

Living == {d \in Pid : Alive(d)}
Server == {d \in Pid : Serving(d)}
Ended  == {d \in Pid : state[d] = "dead"}

S == INSTANCE Slot WITH
       Daemon <- Pid, Nobody <- NoPid,
       alive <- Living, serving <- Server, ended <- Ended, filed <- pidFile

\* Commands that do not overlap implement Slot, whatever dies or is killed when: the
\* listener's own specification, with one daemon after the other, rests on this.
\* (Two starts that overlap fork two daemons: nothing locks start_listener.)
RefinesSlot == S!Spec
=============================================================================
