------------------------------ MODULE Sessions ------------------------------
(***************************************************************************)
(* The sessions of one app: core/rdp.py launches FreeRDP clients and        *)
(* records the last one in <app>.cproc, core/process.py lists and kills     *)
(* what the file names, and the window reaper of core/daemon.py ends a      *)
(* session whose windows are gone.  Files of different apps never meet.     *)
(*                                                                         *)
(* Everyone removes the file by name, after a read of it; a launcher locks  *)
(* and writes the file it opened, which may have lost its name by then.     *)
(***************************************************************************)
EXTENDS Naturals

CONSTANTS
  Procs,       \* processes that launch or kill: `app run`, `app kill`, the GUI
  Tray,        \* the tray's window reaper
  Pids,        \* FreeRDP clients, never reused
  None,        \* no file; no pid
  Empty,       \* a file without a pid in it
  MaxFaults    \* bound: failed spawns, writes and scans, and killed commands

ASSUME SessionsAssumption ==
  /\ Tray \notin Procs /\ None \notin Pids /\ Empty \notin Pids /\ None # Empty
  /\ None \notin Procs
  /\ MaxFaults \in Nat

VARIABLES
  marker,      \* the pid in <app>.cproc, Empty, or None
  holder,      \* the process with the lock of the file that has the name
  client,      \* each client's process
  window,      \* its RAIL window
  job,         \* where everyone is
  seen,        \* the tray's seen
  armed,       \* the pid in its gone_since
  due,         \* its debounce has passed
  faults,
  returned,    \* history: live clients that launch_app has returned
  missed,      \* history: the client that the last scan has found without a window
  overdue,     \* history: every scan for a whole debounce has found it so
  disturbed    \* history: two worked on the file at a time, or a file was opened
               \* beside a live session

disk == <<marker, holder>>
host == <<client, window, returned>>
tray == <<seen, armed, due>>
past == <<missed, overdue>>
vars == <<disk, host, job, tray, past, faults, disturbed>>

Actors == Procs \cup {Tray}
Labels == {"idle", "look", "open", "popen", "write", "settle", "watch", "drop",
           "kill", "grace", "list", "scan", "forget"}

\* then: where a detour leads back to.  retry: this is the launch without /span.
\* pid: the client a process has spawned, the pid kill_session expects and then
\* signals, or the tray's live_pids.
Job  == [at : Labels, then : Labels, retry : BOOLEAN, pid : Pids \cup {None}]
Rest == [at |-> "idle", then |-> "idle", retry |-> FALSE, pid |-> None]

TypeOK ==
  /\ marker \in Pids \cup {None, Empty} /\ holder \in Procs \cup {None}
  /\ client \in [Pids -> {"unborn", "live", "dead"}]
  /\ window \in [Pids -> {"none", "mapped", "closed"}]
  /\ returned \subseteq Pids /\ missed \in Pids \cup {None} /\ overdue \in BOOLEAN
  /\ job \in [Actors -> Job]
  /\ seen \in BOOLEAN /\ armed \in Pids \cup {None} /\ due \in BOOLEAN
  /\ faults \in 0 .. MaxFaults
  /\ disturbed \in BOOLEAN

Init ==
  /\ marker = None /\ holder = None
  /\ client = [s \in Pids |-> "unborn"] /\ window = [s \in Pids |-> "none"]
  /\ returned = {} /\ missed = None /\ overdue = FALSE
  /\ job = [a \in Actors |-> IF a = Tray THEN [Rest EXCEPT !.at = "list"] ELSE Rest]
  /\ seen = FALSE /\ armed = None /\ due = FALSE
  /\ faults = 0
  /\ disturbed = FALSE

-----------------------------------------------------------------------------
Live(s)  == s \in Pids /\ client[s] = "live"
At(a, l) == job[a].at = l
Fault    == faults < MaxFaults /\ faults' = faults + 1

Goto(a, l) ==
  job' = [job EXCEPT ![a] = IF l = "idle" THEN Rest ELSE [@ EXCEPT !.at = l]]
GotoWith(a, l, s)  == job' = [job EXCEPT ![a] = [@ EXCEPT !.at = l, !.pid = s]]
Detour(a, l, back) ==
  job' = [job EXCEPT ![a] = IF l = "idle" THEN Rest ELSE [@ EXCEPT !.at = l, !.then = back]]
Afresh(a, l, again) ==
  job' = [job EXCEPT ![a] = [Rest EXCEPT !.at = l, !.retry = again]]

\* A file without its name keeps its lock, but nobody meets it again.
Unlink == marker' = None /\ holder' = None

End(s) == /\ client' = [client EXCEPT ![s] = "dead"]
          /\ window' = [window EXCEPT ![s] = "closed"]
          /\ returned' = returned \ {s}

\* wmctrl names windows by app, not by client.
Shown == \E s \in Pids : window[s] = "mapped"

\* The unlink that a read of the file led to.
Drop(a) ==
  /\ At(a, "drop") /\ Goto(a, job[a].then)
  /\ Unlink
  /\ UNCHANGED <<host, tray, faults>>

Launching == {"look", "open", "popen", "write", "settle"}

\* Between a read of the file, or the end of the client waited for, and the unlink.
Unlinking(a) == \/ job[a].at \in {"drop", "grace"}
                \/ At(a, "watch") /\ ~Live(job[a].pid)

\* Does a step of a fall into someone else's work on the file?
Overlaps(a) ==
  \E b \in Actors \ {a} :
    \/ job[b].at \in {"popen", "write"}
    \/ job[a].at \in Launching /\ (job[b].at \in Launching \/ Unlinking(b))

-----------------------------------------------------------------------------
(* launch_app                                                              *)

\* Where _find_existing_session leads: a live session is returned, unless a file is
\* to be opened beside it.
Found(want, back) ==
  IF marker = None \/ (Live(marker) /\ want = "file") THEN back
  ELSE IF Live(marker) THEN "idle" ELSE "drop"

Start(p) ==
  /\ At(p, "idle")
  /\ \E want \in {"app", "file"} :
       /\ Detour(p, Found(want, "open"), "open")
       /\ disturbed' = (disturbed \/ Overlaps(p) \/ (want = "file" /\ Live(marker)))
  /\ UNCHANGED <<disk, host, tray, faults>>

\* The second look, by a launcher that did not get the lock.
Look(p) ==
  /\ At(p, "look") /\ Goto(p, Found("app", "idle"))
  /\ UNCHANGED <<disk, host, tray, faults>>

\* _spawn_detached: open without O_TRUNC and lock, or look once more.
Open(p) ==
  /\ At(p, "open")
  /\ IF holder = None
     THEN /\ holder' = p
          /\ marker' = IF marker = None THEN Empty ELSE marker
          /\ Goto(p, "popen")
     ELSE Detour(p, "look", "idle") /\ UNCHANGED disk
  /\ UNCHANGED <<host, tray, faults>>

Popen(p) ==
  /\ At(p, "popen")
  /\ \/ \E s \in Pids :
          /\ client[s] = "unborn" /\ s = CHOOSE t \in Pids : client[t] = "unborn"
          /\ client' = [client EXCEPT ![s] = "live"]
          /\ GotoWith(p, "write", s)
          /\ UNCHANGED <<disk, faults>>
     \/ Unlink /\ Goto(p, "idle") /\ Fault /\ UNCHANGED client
  /\ UNCHANGED <<window, returned, tray>>

Write(p) ==
  /\ At(p, "write")
  /\ \/ /\ IF holder = p THEN marker' = job[p].pid /\ holder' = None ELSE UNCHANGED disk
        /\ Goto(p, "settle")
        /\ UNCHANGED faults
     \/ Unlink /\ Goto(p, "idle") /\ Fault
  /\ UNCHANGED <<host, tray>>

\* Half a second later: it runs, or one more try without /span, or an error.  A
\* process that stays has a thread that waits for the client.
Settle(p) ==
  /\ At(p, "settle")
  /\ \/ /\ Live(job[p].pid)
        /\ returned' = returned \cup {job[p].pid}
        /\ \E l \in {"watch", "idle"} : Goto(p, l)
        /\ UNCHANGED disk
     \/ /\ ~Live(job[p].pid)
        /\ Unlink
        /\ (~job[p].retry /\ Afresh(p, "open", TRUE)) \/ Goto(p, "idle")
        /\ UNCHANGED returned
  /\ UNCHANGED <<client, window, tray, faults>>

\* _reaper_thread: proc.wait returns.
Waited(p) ==
  /\ At(p, "watch") /\ ~Live(job[p].pid)
  /\ Afresh(p, "drop", FALSE)
  /\ UNCHANGED <<disk, host, tray, faults>>

\* The process ends and its threads with it.
Leave(p) ==
  /\ At(p, "watch") /\ Goto(p, "idle")
  /\ UNCHANGED <<disk, host, tray, faults>>

\* A command is killed: its lock is gone, its client is not.
Crash(p) ==
  /\ ~At(p, "idle") /\ ~At(p, "watch") /\ Goto(p, "idle") /\ Fault
  /\ holder' = IF holder = p THEN None ELSE holder
  /\ UNCHANGED <<marker, host, tray>>

-----------------------------------------------------------------------------
(* kill_session                                                            *)

\* `app kill` and the GUI's Terminate expect no pid.
AskKill(p) ==
  /\ At(p, "idle") /\ marker # None
  /\ IF Live(marker) THEN GotoWith(p, "grace", marker) ELSE Detour(p, "drop", "idle")
  /\ UNCHANGED <<disk, host, tray, faults>>

\* Mutant: whatever pid the file holds is signalled.
KillAny ==
  /\ At(Tray, "kill")
  /\ IF marker = None THEN Goto(Tray, job[Tray].then)
     ELSE IF Live(marker) THEN GotoWith(Tray, "grace", marker) ELSE Goto(Tray, "drop")
  /\ UNCHANGED <<disk, host, tray, faults>>

\* The tray expects the pid it armed against.
Kill ==
  /\ At(Tray, "kill")
  /\ IF marker \notin {Empty, job[Tray].pid} THEN Goto(Tray, job[Tray].then)
     ELSE Goto(Tray, IF Live(marker) THEN "grace" ELSE "drop")
  /\ UNCHANGED <<disk, host, tray, faults>>

\* Mutant: a client that ignores SIGTERM is left alone.
PoliteGrace(a) ==
  /\ At(a, "grace") /\ GotoWith(a, "drop", None)
  /\ End(job[a].pid) \/ UNCHANGED host
  /\ UNCHANGED <<disk, tray, faults>>

\* SIGTERM, and SIGKILL after 0.8 s.
Grace(a) ==
  /\ At(a, "grace") /\ GotoWith(a, "drop", None)
  /\ End(job[a].pid)
  /\ UNCHANGED <<disk, tray, faults>>

-----------------------------------------------------------------------------
(* run_session_window_reaper; its first step is list_active_sessions.       *)

\* Forget state for a session that has ended.
Remember(live) ==
  IF live THEN UNCHANGED <<tray, past>>
  ELSE seen' = FALSE /\ armed' = None /\ due' = FALSE /\ missed' = None /\ overdue' = FALSE

\* Mutant: whatever the file holds is listed.
ListUnread ==
  /\ At(Tray, "list") /\ UNCHANGED <<tray, past>>
  /\ GotoWith(Tray, "scan", marker)
  /\ UNCHANGED <<disk, host, faults>>

\* Mutant: the file of a dead client is kept.
ListOnly ==
  /\ At(Tray, "list") /\ Remember(Live(marker))
  /\ GotoWith(Tray, "scan", IF Live(marker) THEN marker ELSE None)
  /\ UNCHANGED <<disk, host, faults>>

List ==
  /\ At(Tray, "list") /\ Remember(Live(marker))
  /\ IF Live(marker) THEN GotoWith(Tray, "scan", marker)
     ELSE IF marker = None THEN Goto(Tray, "list")
     ELSE Detour(Tray, "drop", "list")
  /\ UNCHANGED <<disk, host, faults>>

\* What a scan tells the history.
Note == /\ missed' = IF Shown THEN None ELSE job[Tray].pid
        /\ overdue' = (overdue /\ missed' = missed)

\* Mutant: the debounce starts again at every pass.
ScanAfresh ==
  /\ At(Tray, "scan") /\ GotoWith(Tray, "list", None)
  /\ seen' = (seen \/ Shown) /\ due' = FALSE
  /\ armed' = IF Shown \/ ~seen THEN None ELSE job[Tray].pid
  /\ Note
  /\ UNCHANGED <<disk, host, faults>>

\* A window; no window, first missed now, or by another pid; no window for a while.
Scan ==
  /\ At(Tray, "scan")
  /\ \/ /\ Shown
        /\ seen' = TRUE /\ armed' = None /\ due' = FALSE
        /\ GotoWith(Tray, "list", None)
     \/ /\ ~Shown /\ seen /\ armed # job[Tray].pid
        /\ armed' = job[Tray].pid /\ due' = FALSE /\ UNCHANGED seen
        /\ GotoWith(Tray, "list", None)
     \/ /\ ~Shown /\ (seen => armed = job[Tray].pid /\ ~due)
        /\ GotoWith(Tray, "list", None) /\ UNCHANGED tray
     \/ /\ ~Shown /\ seen /\ armed = job[Tray].pid /\ due
        /\ Detour(Tray, "kill", "forget") /\ UNCHANGED tray
  /\ Note
  /\ UNCHANGED <<disk, host, faults>>

\* wmctrl fails: the pass changes nothing.
ScanFails ==
  /\ At(Tray, "scan") /\ GotoWith(Tray, "list", None) /\ Fault
  /\ UNCHANGED <<disk, host, tray>>

\* Six seconds since the window was first missed.
Elapse ==
  /\ armed # None /\ ~due /\ due' = TRUE
  /\ overdue' = (overdue \/ armed = missed)
  /\ UNCHANGED <<disk, host, job, seen, armed, missed, faults>>

Forget ==
  /\ At(Tray, "forget") /\ GotoWith(Tray, "list", None)
  /\ seen' = FALSE /\ armed' = None /\ due' = FALSE
  /\ UNCHANGED <<disk, host, faults>>

-----------------------------------------------------------------------------
(* The clients.                                                            *)

Window(s) ==
  /\ Live(s)
  /\ window' = [window EXCEPT ![s] = IF @ = "mapped" THEN "closed" ELSE "mapped"]
  /\ UNCHANGED <<disk, client, returned, job, tray, faults>>

Die(s) ==
  /\ Live(s) /\ End(s)
  /\ UNCHANGED <<disk, job, tray, faults>>

-----------------------------------------------------------------------------
Run(p) ==
  \/ Look(p) \/ Open(p) \/ Popen(p) \/ Write(p) \/ Settle(p) \/ Waited(p)
  \/ Drop(p) \/ Grace(p)

Pass == List \/ Scan \/ ((Drop(Tray) \/ Kill \/ Grace(Tray) \/ Forget) /\ UNCHANGED past)

Command(p) == Run(p) /\ disturbed' = (disturbed \/ Overlaps(p)) /\ UNCHANGED past
Poll       == Pass /\ disturbed' = (disturbed \/ Overlaps(Tray))
Time       == Elapse /\ UNCHANGED disturbed

Other ==
  \/ \E p \in Procs : AskKill(p) \/ Leave(p) \/ Crash(p)
  \/ ScanFails
  \/ \E s \in Pids : Window(s) \/ Die(s)

Next ==
  \/ \E p \in Procs : (Start(p) /\ UNCHANGED past) \/ Command(p)
  \/ Poll
  \/ Time
  \/ Other /\ UNCHANGED <<past, disturbed>>

Spec == Init /\ [][Next]_vars

\* Commands run until they end, the tray polls, and time passes.
FairSpec == Spec /\ (\A p \in Procs : WF_vars(Command(p))) /\ WF_vars(Poll) /\ WF_vars(Time)

-----------------------------------------------------------------------------
\* A session that launch_app returned stays in its file while it lives, unless a
\* file was opened beside it or two worked on the file at a time.  A session that
\* is not in the file is not in the tray's menu, does not keep the idle monitor
\* from pausing the pod, and cannot be killed.
Tracked == disturbed \/ \A s \in returned : marker = s

\* The tray ends a session only after scans a whole debounce apart have found this one
\* listed and without a window, and none between them has seen a window of the app: the
\* app's file may have been taken over since the first scan, since the listing, or since
\* the kill was decided ("reap the OLD session, not the newcomer", daemon.py:393).
Debounced == At(Tray, "grace") => overdue /\ missed = job[Tray].pid

\* A session that the tray has seen a window of does not stay forever once no
\* window is left.
Reaped == []<>~(Live(marker) /\ seen /\ ~Shown)

\* A file that names no live client does not stay.
Forgotten == []<>(marker = None \/ Live(marker))
=============================================================================
